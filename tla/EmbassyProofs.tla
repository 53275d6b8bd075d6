----------------------------- MODULE EmbassyProofs -----------------------------
(***************************************************************************)
(* Theorems about two components of the embassy: who a remote request is     *)
(* attributed to (EmbassyOrigin), and which services are up (EmbassyRegistry,  *)
(* which implements ServiceLifeCycle).                                       *)
(* Any number of requests, proofs, operations, names, chats, owners and      *)
(* incarnations, any clock, any capacity and any number of restarts.         *)
(***************************************************************************)
EXTENDS EmbassyOrigin, EmbassyRegistry, SequenceTheorems, FiniteSetTheorems, TLAPS

(* Attribution. *)
(* The instants of a proof are natural numbers, whatever the constants.       *)
LEMMA ExpiryIsNatural ==
  ASSUME NEW p \in Claims
  PROVE  Expiry(p) \in Nat
<1>1. p.at \in Nat /\ Second \in Nat /\ Lifetime \in Nat
  BY OriginAssumption DEF OriginAssumption, Claims
<1>2. \A x, y \in Nat : x * y \in Nat
  OBVIOUS
<1> QED
  BY <1>1, <1>2 DEF Expiry

LEMMA InstantIsNatural ==
  ASSUME NEW t \in Nat
  PROVE  t \div Second \in Nat
BY OriginAssumption DEF OriginAssumption

(* What was handed on is a sequence of at most one request.                   *)
LEMMA FirstRequest ==
  ASSUME NEW x \in Request
  PROVE  /\ Append(<<>>, x) \in Seq(Request)
         /\ Append(<<>>, x) # <<>>
         /\ Len(Append(<<>>, x)) = 1
         /\ Append(<<>>, x)[1] = x
OBVIOUS

LEMMA TypeStep == OriginTypeOK /\ [OriginNext]_ovars => OriginTypeOK'
<1> SUFFICES ASSUME OriginTypeOK, [OriginNext]_ovars PROVE OriginTypeOK'
  OBVIOUS
<1> USE DEF OriginTypeOK
<1>1. ASSUME NEW c \in Calls, FetchChallenge(c) PROVE OriginTypeOK'
  BY <1>1, ZenonT(60) DEF FetchChallenge, GatewayState
<1>2. ASSUME NEW c \in Calls, Forward(c) PROVE OriginTypeOK'
  <2>1. PICK offset \in Offsets :
          proofs' = proofs \cup
            {[nonce |-> c, request |-> gateway[c].request, audience |-> gateway[c].audience,
              at |-> (now + offset) \div Second]}
    BY <1>2 DEF Forward
  <2>2. now + offset \in Nat
    BY OriginAssumption DEF OriginAssumption
  <2>3. gateway[c].request \in Request /\ gateway[c].audience \in Nat
    BY DEF GatewayState
  <2>4. (now + offset) \div Second \in Nat
    BY <2>2, InstantIsNatural
  <2>5. [nonce |-> c, request |-> gateway[c].request, audience |-> gateway[c].audience,
         at |-> (now + offset) \div Second] \in Claims
    BY <2>3, <2>4 DEF Claims
  <2>6. proofs' \subseteq Claims
    BY <2>1, <2>5
  <2> QED
    BY <1>2, <2>6 DEF Forward, GatewayState
<1>3. ASSUME NEW p \in proofs, NEW service \in Services, NEW method \in Methods,
             Verify(p, service, method)
      PROVE  OriginTypeOK'
  <2>1. Entry(p) \in [nonce: Calls, expiry: Nat]
    BY ExpiryIsNatural DEF Entry, Claims
  <2>2. seen' \subseteq [nonce: Calls, expiry: Nat]
    BY <1>3, <2>1 DEF Verify, Accept, Refuse, Unexpired
  <2>3. handled' \in [Calls -> Seq(Request)]
    <3>1. CASE UNCHANGED handled
      BY <3>1
    <3>2. CASE handled' = [handled EXCEPT ![p.nonce] =
             Append(@, [peer |-> p.request.peer, service |-> service, method |-> method])]
      <4>1. [peer |-> p.request.peer, service |-> service, method |-> method] \in Request
        BY DEF Claims, Request
      <4>2. p.nonce \in Calls
        BY DEF Claims
      <4> QED
        BY <3>2, <4>1, <4>2
    <3> QED
      BY <1>3, <3>1, <3>2 DEF Verify, Accept, Refuse
  <2> QED
    BY <1>3, <2>2, <2>3 DEF Verify
<1>4. CASE Restart
  BY <1>4 DEF Restart
<1>5. CASE Tick
  BY <1>5 DEF Tick
<1>6. CASE UNCHANGED ovars
  BY <1>6 DEF ovars
<1> QED
  BY <1>1, <1>2, <1>3, <1>4, <1>5, <1>6 DEF OriginNext

LEMMA TypeInit == OriginInit => OriginTypeOK
BY DEF OriginInit, OriginTypeOK, GatewayState

(* The type invariant of the run "origin".                                   *)
THEOREM OriginTypeCorrect == OriginSpec => []OriginTypeOK
<1> QED
  BY TypeInit, TypeStep, PTL DEF OriginSpec

-----------------------------------------------------------------------------
(* One proof for each call, of what the call carries.                         *)
OneProof ==
  /\ \A p, q \in proofs : p.nonce = q.nonce => p = q
  /\ \A p \in proofs :
       /\ gateway[p.nonce].pc = "forwarded"
       /\ p.request = gateway[p.nonce].request

(* Nobody has a challenge of the future.                                     *)
ChallengesAreIssued ==
  /\ \A c \in Calls : gateway[c].audience <= boot
  /\ \A p \in proofs : p.audience <= boot

(* What was handed on had a proof.                                           *)
HandledHasProof == \A c \in Calls : handled[c] # <<>> => \E p \in proofs : p.nonce = c

(* A proof that was spent on this broker is remembered, or is out of time.     *)
SpentIsRemembered ==
  \A p \in proofs :
    handled[p.nonce] # <<>> /\ p.audience = boot => Entry(p) \in seen \/ now > Expiry(p)

OriginInv ==
  /\ OriginTypeOK /\ OneProof /\ ChallengesAreIssued /\ HandledHasProof /\ SpentIsRemembered
  /\ HandledOnce /\ HandledAsSent

(* The gateway signs one proof for a call, and nothing came of the call before. *)
LEMMA ForwardKeeps ==
  ASSUME OriginInv, NEW c \in Calls, Forward(c)
  PROVE  /\ OneProof' /\ ChallengesAreIssued' /\ HandledHasProof' /\ SpentIsRemembered'
         /\ HandledOnce' /\ HandledAsSent'
<1> USE DEF OriginInv, OriginTypeOK, Forward
<1>1. PICK at :
        proofs' = proofs \cup {[nonce |-> c, request |-> gateway[c].request,
                                audience |-> gateway[c].audience, at |-> at]}
  OBVIOUS
<1> DEFINE new == [nonce |-> c, request |-> gateway[c].request,
                   audience |-> gateway[c].audience, at |-> at]
<1>2. \A p \in proofs : p.nonce # c /\ p.nonce \in Calls
  BY DEF OneProof, Claims
<1>3. handled[c] = <<>>
  BY <1>2 DEF HandledHasProof
<1>4. \A p \in proofs' : p \in proofs \/ p = new
  BY <1>1
<1>5. new.nonce = c /\ new.request = gateway[c].request /\ new.audience = gateway[c].audience
  OBVIOUS
<1>6. gateway' = [gateway EXCEPT ![c].pc = "forwarded"]
  OBVIOUS
<1>7. \A d \in Calls : /\ gateway'[d].request = gateway[d].request
                       /\ gateway'[d].audience = gateway[d].audience
                       /\ gateway'[d].pc = IF d = c THEN "forwarded" ELSE gateway[d].pc
  BY <1>6 DEF GatewayState
<1> HIDE DEF new
<1>8. OneProof'
  BY <1>2, <1>4, <1>5, <1>7 DEF OneProof
<1>9. ChallengesAreIssued'
  BY <1>4, <1>5, <1>7 DEF ChallengesAreIssued
<1>10. HandledHasProof'
  BY <1>1 DEF HandledHasProof
<1>11. SpentIsRemembered'
  BY <1>3, <1>4, <1>5 DEF SpentIsRemembered, Entry, Expiry
<1>12. HandledOnce' /\ HandledAsSent'
  BY <1>7 DEF HandledOnce, HandledAsSent
<1> QED
  BY <1>8, <1>9, <1>10, <1>11, <1>12

(* verify(): a nonce is either fresh, and then spent on nothing yet, or refused. *)
LEMMA VerifyKeeps ==
  ASSUME OriginInv, NEW p \in proofs, NEW service \in Services, NEW method \in Methods,
         Verify(p, service, method)
  PROVE  HandledHasProof' /\ SpentIsRemembered' /\ HandledOnce' /\ HandledAsSent'
<1> DEFINE x == [peer |-> p.request.peer, service |-> service, method |-> method]
           first == Append(<<>>, x)
<1> USE DEF OriginInv
<1>1. p \in Claims /\ p.nonce \in Calls /\ p.request \in Request
  BY DEF OriginTypeOK, Claims
<1>2. /\ p.audience = boot /\ p.request.service = service /\ p.request.method = method
      /\ UNCHANGED <<gateway, proofs, boot, now>>
  BY DEF Verify, Genuine
<1>3. Expiry(p) \in Nat /\ now \in Nat /\ now <= Expiry(p)
  BY <1>1, ExpiryIsNatural DEF Verify, InTime, OriginTypeOK
<1>4. \A q \in proofs : Entry(q) \in seen /\ ~(now > Expiry(q)) => Entry(q) \in Unexpired
  <2>1. SUFFICES ASSUME NEW q \in proofs, Entry(q) \in seen, ~(now > Expiry(q))
                 PROVE  Entry(q) \in Unexpired
    OBVIOUS
  <2>2. Expiry(q) \in Nat /\ now \in Nat
    BY ExpiryIsNatural DEF OriginTypeOK
  <2>3. Entry(q).expiry >= now
    BY <2>1, <2>2 DEF Entry
  <2> QED
    BY <2>1, <2>3 DEF Unexpired
<1>5. Unexpired \subseteq seen'
  BY DEF Verify, Accept, Refuse
<1>6. CASE UNCHANGED handled
  <2>1. HandledHasProof' /\ HandledOnce' /\ HandledAsSent'
    BY <1>2, <1>6 DEF HandledHasProof, HandledOnce, HandledAsSent
  <2>2. SpentIsRemembered'
    BY <1>2, <1>4, <1>5, <1>6 DEF SpentIsRemembered, Entry, Expiry
  <2> QED
    BY <2>1, <2>2
<1>7. CASE /\ Accept(p, service, method)
           /\ p.request.peer # Anonymous \/ method = "listing"
           /\ handled' = [handled EXCEPT ![p.nonce] = Append(@, x)]
  <2>1. handled[p.nonce] = <<>>
    <3>1. SUFFICES ASSUME handled[p.nonce] # <<>> PROVE FALSE
      OBVIOUS
    <3>2. Entry(p) \in Unexpired
      BY <1>2, <1>3, <1>4, <3>1 DEF SpentIsRemembered
    <3>3. Replayed(p)
      BY <3>2 DEF Replayed, Entry
    <3> QED
      BY <1>7, <3>3 DEF Accept
  <2>2. x \in Request /\ x = p.request
    BY <1>1, <1>2 DEF Request
  <2> HIDE DEF x
  <2>3. first # <<>> /\ Len(first) = 1 /\ first[1] = p.request
    BY <2>2, FirstRequest
  <2>4. handled' = [handled EXCEPT ![p.nonce] = first]
    BY <1>1, <1>7, <2>1 DEF OriginTypeOK
  <2> HIDE DEF first
  <2>5. \A c \in Calls : handled'[c] = IF c = p.nonce THEN first ELSE handled[c]
    BY <2>4 DEF OriginTypeOK
  <2>6. HandledHasProof'
    BY <1>2, <2>5 DEF HandledHasProof
  <2>7. HandledOnce'
    <3>1. SUFFICES ASSUME NEW c \in Calls PROVE Len(handled'[c]) <= 1
      BY DEF HandledOnce
    <3>2. CASE c # p.nonce
      BY <2>5, <3>2 DEF HandledOnce
    <3>3. CASE c = p.nonce
      <4>1. handled'[c] = first
        BY <2>5, <3>3
      <4>2. Len(handled'[c]) = 1
        BY <2>3, <4>1, Zenon
      <4> QED
        BY <4>2
    <3> QED
      BY <3>2, <3>3
  <2>8. HandledAsSent'
    <3>1. SUFFICES ASSUME NEW c \in Calls, NEW k \in 1..Len(handled'[c])
                   PROVE  /\ handled'[c][k] = gateway[c].request
                          /\ gateway[c].pc = "forwarded"
                          /\ handled'[c][k].peer = Anonymous => handled'[c][k].method = "listing"
      BY <1>2 DEF HandledAsSent
    <3>2. CASE c # p.nonce
      BY <2>5, <3>2 DEF HandledAsSent
    <3>3. CASE c = p.nonce
      <4>1. handled'[c] = first
        BY <2>5, <3>3
      <4>2. Len(handled'[c]) = 1
        BY <2>3, <4>1, Zenon
      <4>3. k = 1
        BY <4>2
      <4>4. handled'[c][k] = p.request
        BY <2>3, <4>1, <4>3
      <4> QED
        BY <1>2, <1>7, <3>3, <4>4 DEF OneProof
    <3> QED
      BY <3>2, <3>3
  <2>9. SpentIsRemembered'
    <3>1. \A q \in proofs : q.nonce = p.nonce => q = p
      BY DEF OneProof
    <3>2. Entry(p) \in seen'
      BY <1>7 DEF Accept
    <3>3. \A q \in proofs : q.nonce \in Calls
      BY DEF OriginTypeOK, Claims
    <3>4. \A q \in proofs : handled'[q.nonce] # <<>> /\ q.audience = boot =>
            Entry(q) \in seen' \/ now > Expiry(q)
      BY <1>4, <1>5, <2>5, <3>1, <3>2, <3>3 DEF SpentIsRemembered
    <3> QED
      BY <1>2, <3>4 DEF SpentIsRemembered, Entry, Expiry
  <2> QED
    BY <2>6, <2>7, <2>8, <2>9
<1> QED
  BY <1>6, <1>7 DEF Verify, Accept, Refuse

LEMMA InvStep == OriginInv /\ [OriginNext]_ovars => OriginInv'
<1> SUFFICES ASSUME OriginInv, [OriginNext]_ovars PROVE OriginInv'
  OBVIOUS
<1>1. OriginTypeOK'
  BY TypeStep DEF OriginInv
<1>2. ASSUME NEW c \in Calls, FetchChallenge(c) PROVE OriginInv'
  <2>1. \A d \in Calls :
          /\ gateway'[d].request = gateway[d].request
          /\ gateway[d].pc = "forwarded" => gateway'[d].pc = "forwarded"
          /\ gateway'[d].audience = gateway[d].audience \/ gateway'[d].audience = boot
    <3>1. CASE gateway' = [gateway EXCEPT ![c].pc = "challenged", ![c].audience = boot]
      BY <1>2, <3>1 DEF FetchChallenge, OriginInv, OriginTypeOK, GatewayState
    <3>2. CASE gateway' = [gateway EXCEPT ![c].pc = "refused"]
      BY <1>2, <3>2 DEF FetchChallenge, OriginInv, OriginTypeOK, GatewayState
    <3> QED
      BY <1>2, <3>1, <3>2 DEF FetchChallenge
  <2>2. /\ UNCHANGED <<proofs, boot, seen, now, handled>>
        /\ boot \in Nat
        /\ \A p \in proofs : p.nonce \in Calls
    BY <1>2 DEF FetchChallenge, OriginInv, OriginTypeOK, Claims
  <2>3. OneProof'
    BY <2>1, <2>2 DEF OriginInv, OneProof
  <2>4. ChallengesAreIssued'
    BY <2>1, <2>2 DEF OriginInv, ChallengesAreIssued
  <2>5. HandledHasProof' /\ SpentIsRemembered'
    BY <2>2 DEF OriginInv, HandledHasProof, SpentIsRemembered, Entry, Expiry
  <2>6. HandledOnce' /\ HandledAsSent'
    BY <2>1, <2>2 DEF OriginInv, HandledOnce, HandledAsSent
  <2> QED
    BY <1>1, <2>3, <2>4, <2>5, <2>6 DEF OriginInv
<1>3. ASSUME NEW c \in Calls, Forward(c) PROVE OriginInv'
  BY <1>1, <1>3, ForwardKeeps DEF OriginInv
<1>4. ASSUME NEW p \in proofs, NEW service \in Services, NEW method \in Methods,
             Verify(p, service, method)
      PROVE  OriginInv'
  <2>1. OneProof' /\ ChallengesAreIssued'
    BY <1>4 DEF Verify, OriginInv, OneProof, ChallengesAreIssued
  <2> QED
    BY <1>1, <1>4, <2>1, VerifyKeeps DEF OriginInv
<1>5. CASE Restart
  <2>1. /\ boot' = boot + 1 /\ boot \in Nat
        /\ UNCHANGED <<gateway, proofs, now, handled>>
    BY <1>5 DEF Restart, OriginInv, OriginTypeOK
  <2>2. \A p \in proofs : p.audience \in Nat
    BY DEF OriginInv, OriginTypeOK, Claims
  <2>3. \A c \in Calls : gateway[c].audience \in Nat
    BY DEF OriginInv, OriginTypeOK, GatewayState
  <2>4. ChallengesAreIssued'
    BY <2>1, <2>2, <2>3 DEF OriginInv, ChallengesAreIssued
  <2>5. SpentIsRemembered'
    BY <2>1, <2>2 DEF OriginInv, ChallengesAreIssued, SpentIsRemembered
  <2>6. OneProof' /\ HandledHasProof' /\ HandledOnce' /\ HandledAsSent'
    BY <2>1 DEF OriginInv, OneProof, HandledHasProof, HandledOnce, HandledAsSent
  <2> QED
    BY <1>1, <2>4, <2>5, <2>6 DEF OriginInv
<1>6. CASE Tick
  <2>1. now \in Nat /\ now' = now + 1 /\ UNCHANGED <<gateway, proofs, boot, seen, handled>>
    BY <1>6 DEF Tick, OriginInv, OriginTypeOK
  <2>2. \A p \in proofs : Expiry(p) \in Nat
    BY ExpiryIsNatural DEF OriginInv, OriginTypeOK
  <2>3. \A p \in proofs : now > Expiry(p) => now' > Expiry(p)
    BY <2>1, <2>2
  <2>4. SpentIsRemembered'
    BY <2>1, <2>3 DEF OriginInv, SpentIsRemembered, Entry, Expiry
  <2>5. /\ OneProof' /\ ChallengesAreIssued' /\ HandledHasProof'
        /\ HandledOnce' /\ HandledAsSent'
    BY <2>1 DEF OriginInv, OneProof, ChallengesAreIssued, HandledHasProof, HandledOnce,
                HandledAsSent
  <2> QED
    BY <1>1, <2>4, <2>5 DEF OriginInv
<1>7. CASE UNCHANGED ovars
  BY <1>7 DEF ovars, OriginInv, OriginTypeOK, OneProof, ChallengesAreIssued, HandledHasProof,
              SpentIsRemembered, HandledOnce, HandledAsSent, Entry, Expiry
<1> QED
  BY <1>2, <1>3, <1>4, <1>5, <1>6, <1>7 DEF OriginNext

LEMMA InvInit == OriginInit => OriginInv
<1> SUFFICES ASSUME OriginInit PROVE OriginInv
  OBVIOUS
<1>1. \A c \in Calls : gateway[c].audience = 0 /\ handled[c] = <<>>
  BY DEF OriginInit
<1>2. OneProof /\ ChallengesAreIssued /\ HandledHasProof /\ SpentIsRemembered
  BY <1>1 DEF OriginInit, OneProof, ChallengesAreIssued, HandledHasProof, SpentIsRemembered
<1>3. HandledOnce /\ HandledAsSent
  BY <1>1 DEF HandledOnce, HandledAsSent
<1> QED
  BY <1>2, <1>3, TypeInit DEF OriginInv

(* A forwarded request reaches a specialist at most once, whatever the broker is  *)
(* sent again and whenever it restarts (embassy_origin.py verify).              *)
THEOREM NeverHandledTwice == OriginSpec => []HandledOnce
<1>1. OriginInv => HandledOnce
  BY DEF OriginInv
<1> QED
  BY <1>1, InvInit, InvStep, PTL DEF OriginSpec

(* And it is the request that was sent, under its peer (embassy_origin.py verify  *)
(* and OriginMiddleware).                                                    *)
THEOREM DeliveredAsSent == OriginSpec => []HandledAsSent
<1>1. OriginInv => HandledAsSent
  BY DEF OriginInv
<1> QED
  BY <1>1, InvInit, InvStep, PTL DEF OriginSpec

(* The nonces that are kept are enough: those of proofs that would still be       *)
(* taken are among them (embassy_origin.py verify).                            *)
THEOREM MemoryIsEnough == OriginSpec => []SeenCoversWindow
<1>1. ASSUME OriginInv PROVE SeenCoversWindow
  <2>1. SUFFICES ASSUME NEW p \in proofs, handled[p.nonce] # <<>>, p.audience = boot, InTime(p)
                 PROVE  \E s \in seen : s.nonce = p.nonce /\ s.expiry >= now
    BY DEF SeenCoversWindow
  <2>2. Expiry(p) \in Nat /\ now \in Nat /\ now <= Expiry(p)
    BY <1>1, <2>1, ExpiryIsNatural DEF OriginInv, OriginTypeOK, InTime
  <2>3. Entry(p) \in seen
    BY <1>1, <2>1, <2>2 DEF OriginInv, SpentIsRemembered
  <2>4. Entry(p).nonce = p.nonce /\ Entry(p).expiry >= now
    BY <2>2 DEF Entry
  <2> QED
    BY <2>3, <2>4
<1> QED
  BY <1>1, InvInit, InvStep, PTL DEF OriginSpec
-----------------------------------------------------------------------------
(* The registry. *)
(* The lock is queued for once by each worker that waits for it or holds it;  *)
(* a start holds it while its service comes up.                              *)
Distinct(q) == \A j, k \in 1..Len(q) : q[j] = q[k] => j = k
In(q, w) == \E k \in 1..Len(q) : q[k] = w
First(q, w) == q # <<>> /\ Head(q) = w
(* The types of all but the worker that runs on.                              *)
TablesTyped ==
  /\ services \in [Names -> Incarnations \cup {None}]
  /\ records \in [Incarnations -> Record]
  /\ lock \in Seq(Workers)
  /\ closing \in BOOLEAN
  /\ workers \in [Workers -> Worker]
  /\ allowed \in [Chats -> BOOLEAN]
RunningTyped == running \in Workers \cup {None}

InQueue == {"lock", "ready", "undo", "close", "mark"}
LockSound ==
  /\ Distinct(lock)
  /\ \A w \in Workers : In(lock, w) <=> workers[w].pc \in InQueue
  /\ \A w \in Workers : workers[w].pc \in {"ready", "undo"} => First(lock, w)

(* What a worker is about, and what a shutdown has closed.                    *)
KindsSound ==
  /\ workers[Maintain].kind = "maintain"
  /\ workers[Maintain].pc \in {"idle", "close", "await", "ended"}
  /\ \A w \in Ops : workers[w].kind # "maintain"
  /\ \A w \in Ops : workers[w].kind = "shutdown" => workers[w].pc \in {"mark", "next", "ended"}
  /\ \A w \in Workers : workers[w].pc \in {"mark", "next"} => workers[w].kind = "shutdown"
  /\ \A w \in Workers : workers[w].kind = "shutdown" => closing

(* A listed incarnation is of that name, has come up and is no start's.       *)
ListedSound ==
  \A n \in Names : services[n] # None =>
    /\ records[services[n]].name = n
    /\ records[services[n]].task \in {"serving", "done"}
    /\ ~records[services[n]].draining =>
         /\ records[services[n]].task = "serving"
         /\ records[services[n]].accepting /\ ~records[services[n]].stop
    /\ \A w \in Workers : workers[w].pc \in {"ready", "undo"} => workers[w].inc # services[n]

(* The incarnation of a start under way is new and its name is free.          *)
StartsSound ==
  \A w \in Workers : workers[w].pc \in {"ready", "undo"} =>
    /\ workers[w].inc \in Incarnations
    /\ records[workers[w].inc].name = workers[w].name
    /\ services[workers[w].name] = None
    /\ records[workers[w].inc].task # "none"
    /\ workers[w].pc = "ready" =>
         /\ records[workers[w].inc].accepting
         /\ ~records[workers[w].inc].stop /\ ~records[workers[w].inc].draining

LivingSound ==
  \A i \in Alive :
    \/ services[records[i].name] = i
    \/ \E w \in Workers : workers[w].pc \in {"ready", "undo"} /\ workers[w].inc = i

(* Once a shutdown has marked the services no start is under way, and it      *)
(* closes every one that is listed.                                         *)
MarkedAll(w) == workers[w].kind = "shutdown" /\ workers[w].pc \in {"next", "ended"}
ShutdownSound ==
  \A w \in Ops : MarkedAll(w) =>
    /\ \A v \in Workers : workers[v].pc \notin {"ready", "undo"}
    /\ workers[w].pc = "next" =>
         \A n \in Names : services[n] # None => <<n, services[n]>> \in workers[w].left
    /\ workers[w].pc = "ended" => Registered = {}

RegistryInduction ==
  /\ TablesTyped /\ LockSound /\ KindsSound /\ ListedSound /\ StartsSound /\ LivingSound
  /\ ShutdownSound
-----------------------------------------------------------------------------
(* The queue.                                                                *)
LEMMA FirstIsFirst ==
  ASSUME NEW q \in Seq(Workers), NEW w
  PROVE  First(q, w) <=> Len(q) > 0 /\ q[1] = w
<1>1. q # <<>> <=> Len(q) > 0
  BY EmptySeq, LenProperties
<1>2. q # <<>> => Head(q) = q[1]
  BY HeadTailProperties
<1> QED
  BY <1>1, <1>2 DEF First

LEMMA AppendQueue ==
  ASSUME NEW q \in Seq(Workers), NEW w \in Workers, Distinct(q), ~In(q, w)
  PROVE  /\ Append(q, w) \in Seq(Workers) /\ Distinct(Append(q, w))
         /\ \A v : In(Append(q, w), v) <=> In(q, v) \/ v = w
         /\ \A v : First(q, v) => First(Append(q, w), v)
<1> DEFINE p == Append(q, w)
<1>1. /\ p \in Seq(Workers) /\ Len(p) = Len(q) + 1 /\ p[Len(q) + 1] = w
      /\ \A k \in 1..Len(q) : p[k] = q[k]
  BY AppendProperties
<1>2. Len(q) \in Nat
  BY LenProperties
<1> HIDE DEF p
<1>3. \A k \in 1..Len(p) : k \in 1..Len(q) \/ k = Len(q) + 1
  BY <1>1, <1>2
<1>4. \A k \in 1..Len(q) : k \in 1..Len(p) /\ q[k] # w
  BY <1>1, <1>2 DEF In
<1>5. Len(q) + 1 \in 1..Len(p)
  BY <1>1, <1>2
<1>6. Distinct(p)
  BY <1>1, <1>3, <1>4 DEF Distinct
<1>7. \A v : In(p, v) <=> In(q, v) \/ v = w
  BY <1>1, <1>3, <1>4, <1>5 DEF In
<1>8. ASSUME NEW v, First(q, v) PROVE First(p, v)
  <2>1. Len(q) > 0 /\ q[1] = v
    BY <1>8, FirstIsFirst
  <2>2. Len(p) > 0 /\ p[1] = v
    BY <1>1, <1>2, <2>1
  <2> QED
    BY <1>1, <2>2, FirstIsFirst
<1> QED
  BY <1>1, <1>6, <1>7, <1>8 DEF p

LEMMA LeaveQueue ==
  ASSUME NEW w \in Workers, lock \in Seq(Workers), Distinct(lock)
  PROVE  /\ Without(w) \in Seq(Workers) /\ Distinct(Without(w))
         /\ \A v : In(Without(w), v) <=> In(lock, v) /\ v # w
         /\ \A v : First(lock, v) /\ v # w => First(Without(w), v)
<1>1. Len(lock) \in Nat /\ \A k \in 1..Len(lock) : lock[k] \in Workers
  BY LenProperties, ElementOfSeq
<1>2. CASE \A k \in 1..Len(lock) : lock[k] # w
  <2>1. Without(w) = lock
    BY <1>2 DEF Without
  <2> QED
    BY <1>2, <2>1 DEF In
<1>3. CASE \E k \in 1..Len(lock) : lock[k] = w
  <2> DEFINE m == CHOOSE k \in 1..Len(lock) : lock[k] = w
             p == [j \in 1..(Len(lock) - 1) |-> lock[IF j < m THEN j ELSE j + 1]]
  <2>1. m \in 1..Len(lock) /\ lock[m] = w
    BY <1>3
  <2>2. Without(w) = p
    BY <1>3 DEF Without
  <2> HIDE DEF m
  <2>3. Len(lock) - 1 \in Nat
    BY <1>1, <2>1
  <2>4. \A j \in 1..(Len(lock) - 1) :
          /\ (IF j < m THEN j ELSE j + 1) \in 1..Len(lock)
          /\ p[j] = lock[IF j < m THEN j ELSE j + 1]
    BY <1>1, <2>1
  <2>5. \A j \in 1..(Len(lock) - 1) : p[j] \in Workers
    BY <1>1, <2>4
  <2>6. p \in Seq(Workers)
    BY <2>3, <2>5, IsASeq
  <2>7. Len(p) = Len(lock) - 1
    <3>1. DOMAIN p = 1..(Len(lock) - 1)
      OBVIOUS
    <3> HIDE DEF p
    <3> QED
      BY <2>3, <2>6, <3>1, LenProperties
  <2> HIDE DEF p
  <2>8. \A j, k \in 1..Len(lock) : lock[j] = lock[k] => j = k
    BY DEF Distinct
  <2>9. ASSUME NEW j \in 1..Len(p), NEW k \in 1..Len(p), p[j] = p[k] PROVE j = k
    <3>1. (IF j < m THEN j ELSE j + 1) = (IF k < m THEN k ELSE k + 1)
      BY <2>4, <2>7, <2>8, <2>9
    <3> QED
      BY <1>1, <2>1, <2>7, <3>1
  <2>10. ASSUME NEW j \in 1..Len(p) PROVE p[j] # w /\ In(lock, p[j])
    <3>1. (IF j < m THEN j ELSE j + 1) # m
      BY <1>1, <2>1, <2>7
    <3>2. p[j] # w
      BY <2>1, <2>4, <2>7, <2>8, <3>1
    <3> QED
      BY <2>4, <2>7, <3>2 DEF In
  <2>11. ASSUME NEW k \in 1..Len(lock), lock[k] # w PROVE In(p, lock[k])
    <3>1. k # m
      BY <2>1, <2>11
    <3>2. CASE k < m
      <4>1. k \in 1..(Len(lock) - 1)
        BY <1>1, <2>1, <3>2
      <4>2. p[k] = lock[k]
        BY <2>4, <3>2, <4>1
      <4> QED
        BY <2>7, <4>1, <4>2 DEF In
    <3>3. CASE k > m
      <4>1. k - 1 \in 1..(Len(lock) - 1) /\ ~(k - 1 < m) /\ (k - 1) + 1 = k
        BY <1>1, <2>1, <3>3
      <4>2. p[k - 1] = lock[k]
        BY <2>4, <4>1
      <4> QED
        BY <2>7, <4>1, <4>2 DEF In
    <3> QED
      BY <1>1, <2>1, <3>1, <3>2, <3>3
  <2>12. \A v : In(p, v) <=> In(lock, v) /\ v # w
    BY <2>10, <2>11 DEF In
  <2>13. ASSUME NEW v, First(lock, v), v # w PROVE First(p, v)
    <3>1. Len(lock) > 0 /\ lock[1] = v
      BY <2>13, FirstIsFirst
    <3>2. m > 1
      BY <1>1, <2>1, <2>13, <3>1
    <3>3. 1 \in 1..(Len(lock) - 1) /\ 1 < m
      BY <1>1, <2>1, <3>2
    <3>4. p[1] = lock[1]
      BY <2>4, <3>3
    <3>5. Len(p) > 0 /\ p[1] = v
      BY <1>1, <2>7, <3>1, <3>3, <3>4
    <3> QED
      BY <2>6, <3>5, FirstIsFirst
  <2>14. Distinct(p)
    BY <2>9 DEF Distinct
  <2> QED
    BY <2>2, <2>6, <2>12, <2>13, <2>14
<1> QED
  BY <1>2, <1>3
-----------------------------------------------------------------------------
(* Steps of one worker.                                                      *)
OnlyMoves(w) ==
  /\ workers' \in [Workers -> Worker]
  /\ \A v \in Workers \ {w} : workers'[v] = workers[v]

QueueMoves(w) ==
  /\ lock' \in Seq(Workers) /\ Distinct(lock')
  /\ \A v \in Workers \ {w} : In(lock', v) <=> In(lock, v)
  /\ \A v \in Workers \ {w} : First(lock, v) => First(lock', v)
  /\ In(lock', w) <=> workers'[w].pc \in InQueue
  /\ workers'[w].pc \in {"ready", "undo"} => First(lock', w)

KindStays(w) ==
  /\ w = Maintain <=> workers'[w].kind = "maintain"
  /\ w = Maintain => workers'[w].pc \in {"idle", "close", "await", "ended"}
  /\ workers'[w].kind = "shutdown" =>
       w \in Ops /\ workers'[w].pc \in {"mark", "next", "ended"} /\ closing'
  /\ workers'[w].pc \in {"mark", "next"} => workers'[w].kind = "shutdown"
  /\ closing => closing'

(* Names are freed once their service is done; listed services are marked.    *)
OnlyFrees ==
  /\ services' \in [Names -> Incarnations \cup {None}]
  /\ \A n \in Names :
       \/ services'[n] = services[n]
       \/ services'[n] = None /\ records[services[n]].task = "done"

OnlyMarks ==
  /\ records' \in [Incarnations -> Record]
  /\ \A i \in Incarnations :
       \/ records'[i] = records[i]
       \/ /\ \E n \in Names : services[n] = i
          /\ records'[i].name = records[i].name /\ records'[i].task = records[i].task
          /\ records'[i].draining

LEMMA MaintainIsNoOp == Maintain \in Workers /\ Maintain \notin Ops /\ Workers = Ops \cup {Maintain}
BY RegistryAssumption DEF RegistryAssumption, Workers

LEMMA LockStep ==
  ASSUME NEW w \in Workers, LockSound, OnlyMoves(w), QueueMoves(w)
  PROVE  LockSound'
<1>1. \A v \in Workers : In(lock', v) <=> workers'[v].pc \in InQueue
  BY DEF LockSound, OnlyMoves, QueueMoves
<1>2. \A v \in Workers : workers'[v].pc \in {"ready", "undo"} => First(lock', v)
  BY DEF LockSound, OnlyMoves, QueueMoves
<1>3. Distinct(lock')
  BY DEF QueueMoves
<1> QED
  BY <1>1, <1>2, <1>3 DEF LockSound, Distinct, In, First

LEMMA KindsStep ==
  ASSUME NEW w \in Workers, KindsSound, OnlyMoves(w), KindStays(w)
  PROVE  KindsSound'
<1>1. /\ workers'[Maintain].kind = "maintain"
      /\ workers'[Maintain].pc \in {"idle", "close", "await", "ended"}
  BY MaintainIsNoOp DEF KindsSound, OnlyMoves, KindStays
<1>2. ASSUME NEW v \in Ops
      PROVE  /\ workers'[v].kind # "maintain"
             /\ workers'[v].kind = "shutdown" => workers'[v].pc \in {"mark", "next", "ended"}
  BY MaintainIsNoOp DEF KindsSound, OnlyMoves, KindStays
<1>3. ASSUME NEW v \in Workers
      PROVE  /\ workers'[v].pc \in {"mark", "next"} => workers'[v].kind = "shutdown"
             /\ workers'[v].kind = "shutdown" => closing'
  BY DEF KindsSound, OnlyMoves, KindStays
<1> QED
  BY <1>1, <1>2, <1>3 DEF KindsSound

(* What a start under way holds is nobody else's.                            *)
LEMMA OneStart ==
  ASSUME NEW v \in Workers, NEW w \in Workers, LockSound,
         workers[v].pc \in {"ready", "undo"}, workers[w].pc \in {"ready", "undo"}
  PROVE  v = w
BY DEF LockSound, First

(* A worker that is in no start moves; services end, are marked, no more.     *)
LEMMA QuietSound ==
  ASSUME NEW w \in Workers, RegistryInduction,
         OnlyMoves(w), QueueMoves(w), KindStays(w), OnlyFrees, OnlyMarks,
         closing' \in BOOLEAN, allowed' \in [Chats -> BOOLEAN],
         workers[w].pc \notin {"ready", "undo"}, workers'[w].pc \notin {"ready", "undo"},
         MarkedAll(w)' /\ w \in Ops =>
           /\ \A v \in Workers : workers[v].pc \notin {"ready", "undo"}
           /\ workers'[w].pc = "next" =>
                \A n \in Names : services'[n] # None => <<n, services'[n]>> \in workers'[w].left
           /\ workers'[w].pc = "ended" => \A n \in Names : services'[n] = None
  PROVE  RegistryInduction'
<1>1. /\ TablesTyped /\ LockSound /\ KindsSound /\ ListedSound /\ StartsSound /\ LivingSound
      /\ ShutdownSound
  BY DEF RegistryInduction
<1>2. TablesTyped'
  BY DEF TablesTyped, OnlyMoves, QueueMoves, OnlyFrees, OnlyMarks
<1>3. LockSound' /\ KindsSound'
  BY <1>1, LockStep, KindsStep
<1>4. \A v \in Workers : workers'[v].pc \in {"ready", "undo"} =>
        workers'[v] = workers[v] /\ workers[v].pc \in {"ready", "undo"}
  BY DEF OnlyMoves
<1>5. \A n \in Names : services'[n] # None => services'[n] = services[n]
  BY DEF OnlyFrees
<1>6. \A i \in Incarnations : records'[i].name = records[i].name /\ records'[i].task = records[i].task
  BY DEF OnlyMarks
<1>7. \A n \in Names : services[n] \in Incarnations \cup {None}
  BY <1>1 DEF TablesTyped
<1>8. ListedSound'
  <2>1. ASSUME NEW n \in Names, services'[n] # None
        PROVE  /\ records'[services'[n]].name = n
               /\ records'[services'[n]].task \in {"serving", "done"}
               /\ ~records'[services'[n]].draining =>
                    /\ records'[services'[n]].task = "serving"
                    /\ records'[services'[n]].accepting /\ ~records'[services'[n]].stop
               /\ \A v \in Workers : workers'[v].pc \in {"ready", "undo"} =>
                    workers'[v].inc # services'[n]
    <3>1. services'[n] = services[n] /\ services[n] \in Incarnations /\ services[n] # None
      BY <1>5, <1>7, <2>1
    <3>2. records'[services[n]] = records[services[n]] \/ records'[services[n]].draining
      BY <3>1 DEF OnlyMarks
    <3> QED
      BY <1>1, <1>4, <1>6, <3>1, <3>2 DEF ListedSound
  <2> QED
    BY <2>1 DEF ListedSound
<1>9. StartsSound'
  <2>1. ASSUME NEW v \in Workers, workers'[v].pc \in {"ready", "undo"}
        PROVE  /\ workers'[v].inc \in Incarnations
               /\ records'[workers'[v].inc].name = workers'[v].name
               /\ services'[workers'[v].name] = None
               /\ records'[workers'[v].inc].task # "none"
               /\ workers'[v].pc = "ready" =>
                    /\ records'[workers'[v].inc].accepting
                    /\ ~records'[workers'[v].inc].stop /\ ~records'[workers'[v].inc].draining
    <3>1. workers'[v] = workers[v] /\ workers[v].pc \in {"ready", "undo"}
      BY <1>4, <2>1
    <3>2. /\ workers[v].inc \in Incarnations /\ workers[v].name \in Names
          /\ services[workers[v].name] = None /\ records[workers[v].inc].name = workers[v].name
          /\ records[workers[v].inc].task # "none"
      BY <1>1, <3>1 DEF StartsSound, TablesTyped, Worker
    <3>3. services'[workers[v].name] = None
      BY <1>5, <3>2
    <3>4. \A n \in Names : services[n] # workers[v].inc
      <4>1. workers[v].inc # None
        BY <3>2, RegistryAssumption DEF RegistryAssumption
      <4> QED
        BY <1>1, <3>1, <4>1 DEF ListedSound
    <3>5. records'[workers[v].inc] = records[workers[v].inc]
      BY <3>2, <3>4 DEF OnlyMarks
    <3> QED
      BY <1>1, <3>1, <3>2, <3>3, <3>5 DEF StartsSound
  <2> QED
    BY <2>1 DEF StartsSound
<1>10. LivingSound'
  <2>1. ASSUME NEW i \in Incarnations, records'[i].task \in {"starting", "serving"}
        PROVE  \/ services'[records'[i].name] = i
               \/ \E v \in Workers : workers'[v].pc \in {"ready", "undo"} /\ workers'[v].inc = i
    <3>1. i \in Alive /\ records'[i].name = records[i].name /\ records[i].name \in Names
      BY <1>1, <1>6, <2>1 DEF Alive, TablesTyped, Record
    <3>2. CASE services[records[i].name] = i
      <4>1. records[i].task # "done"
        BY <1>6, <2>1
      <4>2. services'[records[i].name] = i
        BY <3>1, <3>2, <4>1 DEF OnlyFrees
      <4> QED
        BY <3>1, <4>2
    <3>3. CASE \E v \in Workers : workers[v].pc \in {"ready", "undo"} /\ workers[v].inc = i
      <4>1. PICK v \in Workers : workers[v].pc \in {"ready", "undo"} /\ workers[v].inc = i
        BY <3>3
      <4>2. workers'[v] = workers[v]
        BY <4>1 DEF OnlyMoves
      <4> QED
        BY <4>1, <4>2
    <3> QED
      BY <1>1, <3>1, <3>2, <3>3 DEF LivingSound
  <2> QED
    BY <2>1 DEF LivingSound, Alive
<1>11. ShutdownSound'
  <2>1. ASSUME NEW v \in Ops, workers'[v].kind = "shutdown", workers'[v].pc \in {"next", "ended"}
        PROVE  /\ \A u \in Workers : workers'[u].pc \notin {"ready", "undo"}
               /\ workers'[v].pc = "next" =>
                    \A n \in Names : services'[n] # None => <<n, services'[n]>> \in workers'[v].left
               /\ workers'[v].pc = "ended" => \A n \in Names : services'[n] = None
    <3>1. CASE v = w
      <4>1. MarkedAll(w)' /\ w \in Ops
        BY <2>1, <3>1 DEF MarkedAll
      <4> QED
        BY <1>4, <3>1, <4>1
    <3>2. CASE v # w
      <4>1. v \in Workers /\ workers'[v] = workers[v]
        BY <3>2, MaintainIsNoOp DEF OnlyMoves
      <4>2. MarkedAll(v)
        BY <2>1, <4>1 DEF MarkedAll
      <4>3. /\ \A u \in Workers : workers[u].pc \notin {"ready", "undo"}
            /\ workers[v].pc = "next" =>
                 \A n \in Names : services[n] # None => <<n, services[n]>> \in workers[v].left
            /\ workers[v].pc = "ended" => \A n \in Names : services[n] = None
        BY <1>1, <4>2 DEF ShutdownSound, Registered
      <4> QED
        BY <1>4, <1>5, <4>1, <4>3
    <3> QED
      BY <3>1, <3>2
  <2> QED
    BY <2>1 DEF ShutdownSound, MarkedAll, Registered
<1> QED
  BY <1>2, <1>3, <1>8, <1>9, <1>10, <1>11 DEF RegistryInduction
-----------------------------------------------------------------------------
(* Where a worker goes.                                                      *)
LEMMA RestingTyped ==
  ASSUME NEW kind \in {"none", "start", "close", "shutdown", "maintain"},
         NEW pc \in {"idle", "lock", "ready", "undo", "next", "close", "await", "mark", "ended"}
  PROVE  /\ Resting(kind, pc) \in Worker
         /\ Resting(kind, pc).kind = kind /\ Resting(kind, pc).pc = pc
<1>1. SomeChat \in Chats /\ SomeName \in Names /\ SomeVersion \in Versions
  BY RegistryAssumption DEF RegistryAssumption, SomeChat, SomeName, SomeVersion
<1>2. OwnerOf[SomeChat] \in Owners
  BY <1>1, RegistryAssumption DEF RegistryAssumption
<1> QED
  BY <1>1, <1>2 DEF Resting, Worker

LEMMA SnapshotTyped == Snapshot \subseteq Names \X Incarnations
BY DEF Snapshot

(* One worker is replaced, by any other state of it.                          *)
LEMMA WorkerSet ==
  ASSUME NEW w \in Workers, NEW to \in Worker, TablesTyped,
         workers' = [workers EXCEPT ![w] = to]
  PROVE  OnlyMoves(w) /\ workers'[w] = to
BY DEF OnlyMoves, TablesTyped

LEMMA ReturnMoves ==
  ASSUME NEW w \in Workers, RegistryInduction, Return(w), lock' = Without(w), closing' = closing,
         workers[w].pc \in {"lock", "ready", "undo", "close"}, w # Maintain
  PROVE  /\ OnlyMoves(w) /\ QueueMoves(w) /\ KindStays(w)
         /\ workers'[w].pc = "ended" /\ workers'[w].kind = "none"
<1>1. TablesTyped /\ LockSound /\ KindsSound
  BY DEF RegistryInduction
<1>2. w \in Ops /\ workers[w].kind # "shutdown"
  BY <1>1, MaintainIsNoOp DEF KindsSound
<1>3. workers' = [workers EXCEPT ![w] = Resting("none", "ended")]
  BY <1>2 DEF Return
<1>4. OnlyMoves(w) /\ workers'[w].pc = "ended" /\ workers'[w].kind = "none"
  <2>1. /\ Resting("none", "ended") \in Worker /\ Resting("none", "ended").pc = "ended"
        /\ Resting("none", "ended").kind = "none"
    BY RestingTyped
  <2> QED
    BY <1>1, <1>3, <2>1, WorkerSet
<1>5. KindStays(w)
  BY <1>2, <1>4, MaintainIsNoOp DEF KindStays
<1>6. lock \in Seq(Workers) /\ Distinct(lock)
  BY <1>1 DEF TablesTyped, LockSound
<1>7. QueueMoves(w)
  BY <1>4, <1>6, LeaveQueue DEF QueueMoves, InQueue
<1> QED
  BY <1>4, <1>5, <1>7

(* A worker that was in no queue joins it.                                   *)
LEMMA JoinMoves ==
  ASSUME NEW w \in Ops, NEW to \in Worker, RegistryInduction,
         workers' = [workers EXCEPT ![w] = to], lock' = Append(lock, w), closing' = closing,
         workers[w].pc = "idle", to.pc \in {"lock", "close"}, to.kind \in {"start", "close"}
  PROVE  OnlyMoves(w) /\ QueueMoves(w) /\ KindStays(w) /\ workers'[w] = to
<1>1. TablesTyped /\ LockSound /\ w \in Workers /\ w # Maintain
  BY MaintainIsNoOp DEF RegistryInduction
<1>2. OnlyMoves(w) /\ workers'[w] = to
  BY <1>1, WorkerSet
<1>3. lock \in Seq(Workers) /\ Distinct(lock) /\ ~In(lock, w)
  BY <1>1 DEF TablesTyped, LockSound, InQueue
<1>4. QueueMoves(w)
  BY <1>1, <1>2, <1>3, AppendQueue DEF QueueMoves, InQueue
<1>5. KindStays(w)
  BY <1>1, <1>2, SMTT(30) DEF KindStays
<1> QED
  BY <1>2, <1>4, <1>5

LEMMA ContinueMoves ==
  ASSUME NEW w \in Workers, NEW left \in SUBSET (Names \X Incarnations), NEW queue \in Seq(Workers),
         RegistryInduction, Continue(w, left, queue), closing' = closing,
         workers[w].kind # "shutdown", workers[w].pc \in {"idle", "close", "await"},
         Distinct(queue), ~In(queue, w),
         \A v \in Workers \ {w} : In(queue, v) <=> In(lock, v),
         \A v \in Workers \ {w} : First(lock, v) => First(queue, v)
  PROVE  /\ OnlyMoves(w) /\ QueueMoves(w) /\ KindStays(w)
         /\ workers'[w].pc \in {"idle", "close", "ended"} /\ workers'[w].kind # "shutdown"
<1> DEFINE doomed == {e \in left : workers[w].kind = "maintain" => ~Guard(e[2])}
<1>1. TablesTyped /\ LockSound /\ KindsSound
  BY DEF RegistryInduction
<1>2. workers[w] \in Worker /\ (w = Maintain <=> workers[w].kind = "maintain")
  BY <1>1, MaintainIsNoOp DEF TablesTyped, KindsSound
<1>3. ASSUME NEW e \in doomed,
             workers' = [workers EXCEPT ![w].pc = "close", ![w].name = e[1], ![w].owner = Owner(e[2]),
                                        ![w].inc = None, ![w].left = left \ {e}],
             lock' = Append(queue, w)
      PROVE  /\ OnlyMoves(w) /\ QueueMoves(w) /\ KindStays(w)
             /\ workers'[w].pc = "close" /\ workers'[w].kind = workers[w].kind
  <2> DEFINE to == [workers[w] EXCEPT !.pc = "close", !.name = e[1], !.owner = Owner(e[2]),
                                      !.inc = None, !.left = left \ {e}]
  <2>1. e[1] \in Names /\ e[2] \in Incarnations /\ left \ {e} \in SUBSET (Names \X Incarnations)
    BY <1>3
  <2>2. Owner(e[2]) \in Owners
    BY <1>1, <2>1, RegistryAssumption DEF Owner, TablesTyped, Record, RegistryAssumption
  <2>3. to \in Worker /\ to.pc = "close" /\ to.kind = workers[w].kind
    BY <1>2, <2>1, <2>2 DEF Worker
  <2>4. workers' = [workers EXCEPT ![w] = to]
    BY <1>1, <1>3 DEF TablesTyped
  <2> HIDE DEF to
  <2>5. OnlyMoves(w) /\ workers'[w] = to
    BY <1>1, <2>3, <2>4, WorkerSet
  <2>6. QueueMoves(w)
    BY <1>3, <2>3, <2>5, AppendQueue DEF QueueMoves, InQueue
  <2>7. KindStays(w)
    BY <1>2, <2>3, <2>5 DEF KindStays
  <2> QED
    BY <2>3, <2>5, <2>6, <2>7
<1>4. ASSUME NEW to \in Worker, workers' = [workers EXCEPT ![w] = to], lock' = queue,
             to.pc \in {"idle", "ended"}, to.kind # "shutdown",
             to.kind = "maintain" <=> w = Maintain
      PROVE  /\ OnlyMoves(w) /\ QueueMoves(w) /\ KindStays(w)
             /\ workers'[w].pc \in {"idle", "ended"} /\ workers'[w].kind # "shutdown"
  <2>1. OnlyMoves(w) /\ workers'[w] = to
    BY <1>1, <1>4, WorkerSet
  <2>2. QueueMoves(w)
    BY <1>4, <2>1 DEF QueueMoves, InQueue
  <2>3. KindStays(w)
    BY <1>2, <1>4, <2>1 DEF KindStays
  <2> QED
    BY <1>4, <2>1, <2>2, <2>3
<1>5. CASE /\ lock' = queue
           /\ IF workers[w].kind = "maintain"
              THEN workers' = [workers EXCEPT ![w] =
                     Resting("maintain", IF closing THEN "ended" ELSE "idle")]
              ELSE Return(w)
  <2>1. CASE workers[w].kind = "maintain"
    <3>1. PICK pc \in {"idle", "ended"} : workers' = [workers EXCEPT ![w] = Resting("maintain", pc)]
      BY <1>5, <2>1
    <3>2. /\ Resting("maintain", pc) \in Worker /\ Resting("maintain", pc).pc = pc
          /\ Resting("maintain", pc).kind = "maintain"
      BY RestingTyped
    <3> QED
      BY <1>2, <1>4, <1>5, <2>1, <3>1, <3>2
  <2>2. CASE workers[w].kind # "maintain"
    <3>1. workers' = [workers EXCEPT ![w] = Resting("none", "ended")]
      BY <1>5, <2>2 DEF Return
    <3>2. /\ Resting("none", "ended") \in Worker /\ Resting("none", "ended").pc = "ended"
          /\ Resting("none", "ended").kind = "none"
      BY RestingTyped
    <3> QED
      BY <1>2, <1>4, <1>5, <2>2, <3>1, <3>2
  <2> QED
    BY <2>1, <2>2
<1> QED
  BY <1>3, <1>4, <1>5 DEF Continue, Acquire, Suspend
-----------------------------------------------------------------------------
(* Steps that are in no start.                                               *)
LEMMA TablesStay ==
  ASSUME TablesTyped
  PROVE  /\ services' = services => OnlyFrees
         /\ records' = records => OnlyMarks
BY DEF TablesTyped, OnlyFrees, OnlyMarks

LEMMA KindOf ==
  ASSUME RegistryInduction, NEW w \in Workers
  PROVE  /\ workers[w].pc \notin {"mark", "next", "ended"} => workers[w].kind # "shutdown"
         /\ workers[w].pc \in {"lock", "ready", "undo", "mark", "next"} => w \in Ops /\ w # Maintain
         /\ workers[w].kind = "shutdown" => w \in Ops
BY MaintainIsNoOp DEF RegistryInduction, KindsSound

LEMMA BeginKeeps ==
  ASSUME RegistryInduction, NEW w \in Ops, NEW to \in Worker,
         workers' = [workers EXCEPT ![w] = to], lock' = Append(lock, w),
         workers[w].pc = "idle", to.pc \in {"lock", "close"}, to.kind \in {"start", "close"},
         UNCHANGED <<services, records, closing, allowed>>
  PROVE  RegistryInduction'
<1>1. TablesTyped /\ w \in Workers
  BY MaintainIsNoOp DEF RegistryInduction
<1>2. OnlyMoves(w) /\ QueueMoves(w) /\ KindStays(w) /\ workers'[w] = to
  BY JoinMoves
<1>3. OnlyFrees /\ OnlyMarks
  BY <1>1, TablesStay
<1>4. closing' \in BOOLEAN /\ allowed' \in [Chats -> BOOLEAN]
  BY <1>1 DEF TablesTyped
<1>5. ~MarkedAll(w)'
  BY <1>2 DEF MarkedAll
<1> QED
  BY <1>1, <1>2, <1>3, <1>4, <1>5, QuietSound

LEMMA StartBeginKeeps ==
  ASSUME RegistryInduction, NEW w \in Ops, NEW c \in Chats, NEW n \in Names, NEW v \in Versions,
         StartBegin(w, c, n, v)
  PROVE  RegistryInduction'
<1> DEFINE to == [Resting("start", "lock") EXCEPT !.name = n, !.chat = c, !.version = v]
<1>1. /\ Resting("start", "lock") \in Worker /\ Resting("start", "lock").pc = "lock"
      /\ Resting("start", "lock").kind = "start"
  BY RestingTyped
<1>2. to \in Worker /\ to.pc = "lock" /\ to.kind = "start"
  BY <1>1 DEF Worker
<1>3. /\ workers' = [workers EXCEPT ![w] = to] /\ lock' = Append(lock, w)
      /\ workers[w].pc = "idle" /\ UNCHANGED <<services, records, closing, allowed>>
  BY DEF StartBegin, Acquire
<1> HIDE DEF to
<1> QED
  BY <1>2, <1>3, BeginKeeps

LEMMA CloseBeginKeeps ==
  ASSUME RegistryInduction, NEW w \in Ops, NEW n \in Names, NEW o \in Owners, CloseBegin(w, n, o)
  PROVE  RegistryInduction'
<1> DEFINE to == [Resting("close", "close") EXCEPT !.name = n, !.owner = o]
<1>1. /\ Resting("close", "close") \in Worker /\ Resting("close", "close").pc = "close"
      /\ Resting("close", "close").kind = "close"
  BY RestingTyped
<1>2. to \in Worker /\ to.pc = "close" /\ to.kind = "close"
  BY <1>1 DEF Worker
<1>3. /\ workers' = [workers EXCEPT ![w] = to] /\ lock' = Append(lock, w)
      /\ workers[w].pc = "idle" /\ UNCHANGED <<services, records, closing, allowed>>
  BY DEF CloseBegin, Acquire
<1> HIDE DEF to
<1> QED
  BY <1>2, <1>3, BeginKeeps

LEMMA CloseScopeBeginKeeps ==
  ASSUME RegistryInduction, NEW w \in Ops, NEW o \in Owners, CloseScopeBegin(w, o)
  PROVE  RegistryInduction'
<1> DEFINE mine == {e \in Snapshot : Owner(e[2]) = o}
<1>1. PICK e \in mine : workers' = [workers EXCEPT ![w] =
        [Resting("close", "close") EXCEPT !.name = e[1], !.owner = o, !.left = mine \ {e}]]
  BY DEF CloseScopeBegin
<1> DEFINE to == [Resting("close", "close") EXCEPT !.name = e[1], !.owner = o, !.left = mine \ {e}]
<1>2. /\ Resting("close", "close") \in Worker /\ Resting("close", "close").pc = "close"
      /\ Resting("close", "close").kind = "close"
  BY RestingTyped
<1>3. e[1] \in Names /\ mine \ {e} \in SUBSET (Names \X Incarnations)
  BY SnapshotTyped
<1> HIDE DEF mine
<1>4. to \in Worker /\ to.pc = "close" /\ to.kind = "close"
  BY <1>2, <1>3 DEF Worker
<1>5. /\ workers' = [workers EXCEPT ![w] = to] /\ lock' = Append(lock, w)
      /\ workers[w].pc = "idle" /\ UNCHANGED <<services, records, closing, allowed>>
  BY <1>1 DEF CloseScopeBegin, Acquire
<1> HIDE DEF to
<1> QED
  BY <1>4, <1>5, BeginKeeps

(* A start or a close that ends without having changed a table.               *)
LEMMA GivenUpKeeps ==
  ASSUME RegistryInduction, NEW w \in Ops, Return(w), lock' = Without(w),
         workers[w].pc \in {"lock", "close"},
         UNCHANGED <<services, records, closing, allowed>>
  PROVE  RegistryInduction'
<1>1. TablesTyped /\ w \in Workers /\ w # Maintain
  BY MaintainIsNoOp DEF RegistryInduction
<1>2. /\ OnlyMoves(w) /\ QueueMoves(w) /\ KindStays(w)
      /\ workers'[w].pc = "ended" /\ workers'[w].kind = "none"
  BY <1>1, ReturnMoves
<1>3. OnlyFrees /\ OnlyMarks
  BY <1>1, TablesStay
<1>4. closing' \in BOOLEAN /\ allowed' \in [Chats -> BOOLEAN]
  BY <1>1 DEF TablesTyped
<1>5. ~MarkedAll(w)'
  BY <1>2 DEF MarkedAll
<1> QED
  BY <1>1, <1>2, <1>3, <1>4, <1>5, QuietSound

(* The loops over services go on; a name may have been freed.                 *)
LEMMA ContinueKeeps ==
  ASSUME RegistryInduction, NEW w \in Workers, NEW left \in SUBSET (Names \X Incarnations),
         NEW queue \in Seq(Workers), Continue(w, left, queue), OnlyFrees,
         workers[w].pc \in {"idle", "close", "await"},
         Distinct(queue), ~In(queue, w),
         \A v \in Workers \ {w} : In(queue, v) <=> In(lock, v),
         \A v \in Workers \ {w} : First(lock, v) => First(queue, v),
         UNCHANGED <<records, closing, allowed>>
  PROVE  RegistryInduction'
<1>1. TablesTyped /\ workers[w].kind # "shutdown"
  BY KindOf DEF RegistryInduction
<1>2. /\ OnlyMoves(w) /\ QueueMoves(w) /\ KindStays(w)
      /\ workers'[w].pc \in {"idle", "close", "ended"} /\ workers'[w].kind # "shutdown"
  BY <1>1, ContinueMoves
<1>3. OnlyMarks
  BY <1>1, TablesStay
<1>4. closing' \in BOOLEAN /\ allowed' \in [Chats -> BOOLEAN]
  BY <1>1 DEF TablesTyped
<1>5. ~MarkedAll(w)'
  BY <1>2 DEF MarkedAll
<1> QED
  BY <1>1, <1>2, <1>3, <1>4, <1>5, QuietSound

LEMMA MaintainBeginKeeps ==
  ASSUME RegistryInduction, MaintainBegin
  PROVE  RegistryInduction'
<1>1. /\ TablesTyped /\ LockSound /\ Maintain \in Workers
  BY MaintainIsNoOp DEF RegistryInduction
<1>2. /\ lock \in Seq(Workers) /\ Distinct(lock) /\ ~In(lock, Maintain)
      /\ workers[Maintain].pc = "idle"
  BY <1>1 DEF TablesTyped, LockSound, InQueue, MaintainBegin
<1>3. OnlyFrees
  BY <1>1, TablesStay DEF MaintainBegin
<1>4. /\ Continue(Maintain, Snapshot, lock) /\ Snapshot \in SUBSET (Names \X Incarnations)
      /\ UNCHANGED <<records, closing, allowed>>
  BY SnapshotTyped DEF MaintainBegin
<1> QED
  BY <1>1, <1>2, <1>3, <1>4, ContinueKeeps

(* A marked record.                                                          *)
LEMMA MarkedTable ==
  ASSUME NEW i \in Incarnations, records \in [Incarnations -> Record]
  PROVE  /\ Marked(records, i) \in [Incarnations -> Record]
         /\ \A j \in Incarnations \ {i} : Marked(records, i)[j] = records[j]
         /\ Marked(records, i)[i].name = records[i].name
         /\ Marked(records, i)[i].task = records[i].task
         /\ Marked(records, i)[i].draining
<1> DEFINE new == [records[i] EXCEPT !.draining = TRUE, !.accepting = FALSE, !.stop = TRUE]
<1>1. /\ new \in Record /\ new.name = records[i].name /\ new.task = records[i].task
      /\ new.draining = TRUE
  BY DEF Record
<1>2. Marked(records, i) = [records EXCEPT ![i] = new]
  BY DEF Marked
<1> HIDE DEF new
<1> QED
  BY <1>1, <1>2

LEMMA CloseLockedKeeps ==
  ASSUME RegistryInduction, NEW w \in Workers, CloseLocked(w)
  PROVE  RegistryInduction'
<1> DEFINE i == services[workers[w].name]
<1>1. /\ TablesTyped /\ LockSound /\ KindsSound /\ workers[w].pc = "close"
      /\ UNCHANGED <<services, closing, allowed>>
  BY DEF RegistryInduction, CloseLocked
<1>2. /\ workers[w] \in Worker /\ workers[w].kind # "shutdown" /\ lock \in Seq(Workers)
      /\ Distinct(lock) /\ workers[w].name \in Names /\ i \in Incarnations \cup {None}
  BY <1>1, KindOf DEF TablesTyped, Worker, LockSound
<1>3. /\ Without(w) \in Seq(Workers) /\ Distinct(Without(w)) /\ ~In(Without(w), w)
      /\ \A v \in Workers \ {w} : In(Without(w), v) <=> In(lock, v)
      /\ \A v \in Workers \ {w} : First(lock, v) => First(Without(w), v)
  BY <1>2, LeaveQueue
<1>4. OnlyFrees /\ closing' \in BOOLEAN /\ allowed' \in [Chats -> BOOLEAN]
  BY <1>1, TablesStay DEF TablesTyped
<1>5. CASE /\ i # None /\ records' = Marked(records, i) /\ lock' = Without(w)
           /\ workers' = [workers EXCEPT ![w].pc = "await", ![w].inc = i]
  <2> DEFINE to == [workers[w] EXCEPT !.pc = "await", !.inc = i]
  <2>1. i \in Incarnations
    BY <1>2, <1>5
  <2>2. to \in Worker /\ to.pc = "await" /\ to.kind = workers[w].kind
    BY <1>2, <2>1 DEF Worker
  <2>3. workers' = [workers EXCEPT ![w] = to]
    BY <1>1, <1>5 DEF TablesTyped
  <2> HIDE DEF to
  <2>4. OnlyMoves(w) /\ workers'[w] = to
    BY <1>1, <2>2, <2>3, WorkerSet
  <2>5. QueueMoves(w)
    BY <1>3, <1>5, <2>2, <2>4 DEF QueueMoves, InQueue
  <2>6. KindStays(w)
    BY <1>1, <1>2, <2>2, <2>4, MaintainIsNoOp DEF KindStays, KindsSound
  <2>7. OnlyMarks
    <3>1. records \in [Incarnations -> Record] /\ \E n \in Names : services[n] = i
      BY <1>1, <1>2 DEF TablesTyped
    <3> HIDE DEF i
    <3>2. /\ records' \in [Incarnations -> Record]
          /\ \A j \in Incarnations \ {i} : records'[j] = records[j]
          /\ records'[i].name = records[i].name /\ records'[i].task = records[i].task
          /\ records'[i].draining
      BY <1>5, <2>1, <3>1, MarkedTable
    <3> QED
      BY <3>1, <3>2 DEF OnlyMarks
  <2>8. ~MarkedAll(w)'
    BY <2>2, <2>4 DEF MarkedAll
  <2> QED
    BY <1>1, <1>4, <2>2, <2>4, <2>5, <2>6, <2>7, <2>8, QuietSound
<1>6. CASE w \in Ops /\ Return(w) /\ lock' = Without(w) /\ UNCHANGED records
  BY <1>1, <1>6, GivenUpKeeps
<1>7. CASE Continue(w, workers[w].left, Without(w)) /\ UNCHANGED records
  <2>1. workers[w].left \in SUBSET (Names \X Incarnations)
    BY <1>2 DEF Worker
  <2> QED
    BY <1>1, <1>3, <1>4, <1>7, <2>1, ContinueKeeps
<1> QED
  BY <1>5, <1>6, <1>7 DEF CloseLocked, Suspend

LEMMA UnlistedFrees ==
  ASSUME TablesTyped, NEW n \in Names, NEW i, records[i].task = "done", Unlisted(n, i)
  PROVE  OnlyFrees
BY DEF TablesTyped, Unlisted, OnlyFrees

LEMMA CloseDoneKeeps ==
  ASSUME RegistryInduction, NEW w \in Workers, CloseDone(w)
  PROVE  RegistryInduction'
<1> DEFINE left == IF w = Maintain /\ closing THEN {} ELSE workers[w].left
<1>1. /\ TablesTyped /\ LockSound /\ workers[w].pc = "await"
      /\ records[workers[w].inc].task = "done" /\ Unlisted(workers[w].name, workers[w].inc)
      /\ Continue(w, left, lock) /\ UNCHANGED <<records, closing, allowed>>
  BY DEF RegistryInduction, CloseDone
<1>2. workers[w].name \in Names /\ left \in SUBSET (Names \X Incarnations)
  BY <1>1 DEF TablesTyped, Worker
<1>3. OnlyFrees
  BY <1>1, <1>2, UnlistedFrees
<1>4. lock \in Seq(Workers) /\ Distinct(lock) /\ ~In(lock, w)
  BY <1>1 DEF TablesTyped, LockSound, InQueue
<1> HIDE DEF left
<1> QED
  BY <1>1, <1>2, <1>3, <1>4, ContinueKeeps
LEMMA ShutdownMarkKeeps ==
  ASSUME RegistryInduction, NEW w \in Workers, ShutdownMark(w)
  PROVE  RegistryInduction'
<1> DEFINE to == [workers[w] EXCEPT !.pc = "next", !.left = Snapshot]
<1>1. /\ TablesTyped /\ LockSound /\ KindsSound /\ workers[w].pc = "mark" /\ Held(w)
      /\ lock' = Without(w) /\ UNCHANGED <<services, closing, allowed>>
      /\ workers' = [workers EXCEPT ![w].pc = "next", ![w].left = Snapshot]
      /\ records' = [i \in Incarnations |->
           IF \E n \in Names : services[n] = i THEN Marked(records, i)[i] ELSE records[i]]
  BY DEF RegistryInduction, ShutdownMark, Suspend
<1>2. w \in Ops /\ w # Maintain /\ workers[w].kind = "shutdown" /\ closing
  BY <1>1, KindOf DEF KindsSound
<1>3. workers[w] \in Worker /\ lock \in Seq(Workers) /\ Distinct(lock)
  BY <1>1 DEF TablesTyped, LockSound
<1>4. to \in Worker /\ to.pc = "next" /\ to.kind = "shutdown" /\ to.left = Snapshot
  BY <1>2, <1>3, SnapshotTyped DEF Worker
<1>5. workers' = [workers EXCEPT ![w] = to]
  BY <1>1 DEF TablesTyped
<1> HIDE DEF to
<1>6. OnlyMoves(w) /\ workers'[w] = to
  BY <1>1, <1>4, <1>5, WorkerSet
<1>7. /\ Without(w) \in Seq(Workers) /\ Distinct(Without(w)) /\ ~In(Without(w), w)
      /\ \A v \in Workers \ {w} : In(Without(w), v) <=> In(lock, v)
      /\ \A v \in Workers \ {w} : First(lock, v) => First(Without(w), v)
  BY <1>3, LeaveQueue
<1>8. QueueMoves(w)
  BY <1>1, <1>4, <1>6, <1>7 DEF QueueMoves, InQueue
<1>9. KindStays(w)
  BY <1>1, <1>2, <1>4, <1>6 DEF KindStays
<1>10. OnlyFrees /\ closing' \in BOOLEAN /\ allowed' \in [Chats -> BOOLEAN]
  BY <1>1, TablesStay DEF TablesTyped
<1>11. OnlyMarks
  <2>1. records \in [Incarnations -> Record]
    BY <1>1 DEF TablesTyped
  <2>2. ASSUME NEW i \in Incarnations, \E n \in Names : services[n] = i
        PROVE  /\ records'[i] \in Record
               /\ records'[i].name = records[i].name /\ records'[i].task = records[i].task
               /\ records'[i].draining
    <3>1. records'[i] = Marked(records, i)[i]
      BY <1>1, <2>2
    <3> QED
      BY <2>1, <3>1, MarkedTable
  <2>3. ASSUME NEW i \in Incarnations, ~\E n \in Names : services[n] = i
        PROVE  records'[i] = records[i] /\ records'[i] \in Record
    BY <1>1, <2>1, <2>3
  <2>4. records' = [i \in Incarnations |-> records'[i]]
    BY <1>1
  <2>5. records' \in [Incarnations -> Record]
    BY <2>2, <2>3, <2>4
  <2> QED
    BY <2>2, <2>3, <2>5 DEF OnlyMarks
<1>12. \A v \in Workers : workers[v].pc \notin {"ready", "undo"}
  BY <1>1 DEF LockSound, First, Held
<1>13. \A n \in Names : services'[n] # None => <<n, services'[n]>> \in workers'[w].left
  BY <1>1, <1>4, <1>6 DEF Snapshot, TablesTyped
<1> QED
  BY <1>1, <1>4, <1>6, <1>8, <1>9, <1>10, <1>11, <1>12, <1>13, QuietSound

LEMMA ShutdownClosedKeeps ==
  ASSUME RegistryInduction, NEW w \in Workers, ShutdownClosed(w)
  PROVE  RegistryInduction'
<1>1. /\ TablesTyped /\ LockSound /\ KindsSound /\ ShutdownSound
      /\ workers[w].pc = "next" /\ workers[w].kind = "shutdown"
      /\ UNCHANGED <<records, lock, closing, allowed>>
  BY DEF RegistryInduction, ShutdownClosed, Suspend
<1>2. w \in Ops /\ w # Maintain /\ closing
  BY <1>1, KindOf DEF KindsSound
<1>3. /\ workers[w] \in Worker /\ lock \in Seq(Workers) /\ Distinct(lock) /\ ~In(lock, w)
  BY <1>1 DEF TablesTyped, LockSound, InQueue
<1>4. /\ \A v \in Workers : workers[v].pc \notin {"ready", "undo"}
      /\ \A n \in Names : services[n] # None => <<n, services[n]>> \in workers[w].left
  BY <1>1, <1>2 DEF ShutdownSound, MarkedAll
<1>5. OnlyMarks /\ closing' \in BOOLEAN /\ allowed' \in [Chats -> BOOLEAN]
  BY <1>1, TablesStay DEF TablesTyped
<1>6. ASSUME NEW to \in Worker, workers' = [workers EXCEPT ![w] = to],
             to.kind = "shutdown", to.pc \in {"next", "ended"}, OnlyFrees,
             to.pc = "next" => \A n \in Names : services'[n] # None => <<n, services'[n]>> \in to.left,
             to.pc = "ended" => \A n \in Names : services'[n] = None
      PROVE  RegistryInduction'
  <2>1. OnlyMoves(w) /\ workers'[w] = to
    BY <1>1, <1>6, WorkerSet
  <2>2. QueueMoves(w)
    BY <1>1, <1>3, <1>6, <2>1 DEF QueueMoves, InQueue
  <2>3. KindStays(w)
    BY <1>1, <1>2, <1>6, <2>1 DEF KindStays
  <2> QED
    BY <1>1, <1>4, <1>5, <1>6, <2>1, <2>2, <2>3, QuietSound
<1>7. CASE \E e \in workers[w].left :
             /\ records[e[2]].task = "done"
             /\ Unlisted(e[1], e[2])
             /\ workers' = [workers EXCEPT ![w].left = @ \ {e}]
  <2>1. PICK e \in workers[w].left :
             /\ records[e[2]].task = "done"
             /\ Unlisted(e[1], e[2])
             /\ workers' = [workers EXCEPT ![w].left = @ \ {e}]
    BY <1>7
  <2> DEFINE to == [workers[w] EXCEPT !.left = workers[w].left \ {e}]
  <2>2. workers[w].left \in SUBSET (Names \X Incarnations) /\ e[1] \in Names /\ e[2] \in Incarnations
        /\ e = <<e[1], e[2]>>
    BY <1>3 DEF Worker
  <2>3. /\ to \in Worker /\ to.kind = "shutdown" /\ to.pc = "next"
        /\ to.left = workers[w].left \ {e}
    BY <1>1, <1>3, <2>2 DEF Worker
  <2>4. workers' = [workers EXCEPT ![w] = to]
    BY <1>1, <2>1 DEF TablesTyped
  <2> HIDE DEF to
  <2>5. OnlyFrees
    BY <1>1, <2>1, <2>2, UnlistedFrees
  <2>6. ASSUME NEW n \in Names, services'[n] # None PROVE <<n, services'[n]>> \in to.left
    <3>1. services'[n] = services[n] /\ services[n] # None
      BY <2>5, <2>6 DEF OnlyFrees
    <3>2. ~(n = e[1] /\ services[n] = e[2])
      BY <1>1, <2>1, <2>2, <2>6, <3>1 DEF Unlisted, TablesTyped
    <3>3. <<n, services[n]>> # e
      BY <2>2, <3>2
    <3> QED
      BY <1>4, <2>3, <3>1, <3>3
  <2> QED
    BY <1>6, <2>3, <2>4, <2>5, <2>6
<1>8. CASE workers[w].left = {} /\ Return(w) /\ UNCHANGED services
  <2>1. /\ Resting("shutdown", "ended") \in Worker /\ Resting("shutdown", "ended").pc = "ended"
        /\ Resting("shutdown", "ended").kind = "shutdown"
    BY RestingTyped
  <2>2. workers' = [workers EXCEPT ![w] = Resting("shutdown", "ended")]
    BY <1>1, <1>8 DEF Return
  <2>3. \A n \in Names : services'[n] = None
    BY <1>4, <1>8
  <2>4. OnlyFrees
    BY <1>1, <1>8, TablesStay
  <2> QED
    BY <1>6, <2>1, <2>2, <2>3, <2>4
<1> QED
  BY <1>7, <1>8 DEF ShutdownClosed
-----------------------------------------------------------------------------
(* Steps of a start.                                                         *)
Parts ==
  /\ TablesTyped /\ LockSound /\ KindsSound /\ ListedSound /\ StartsSound /\ LivingSound
  /\ ShutdownSound

(* Who is in a start holds the lock, and nobody else is in one.               *)
LEMMA OnlyStart ==
  ASSUME RegistryInduction, NEW w \in Workers, First(lock, w)
  PROVE  \A v \in Workers \ {w} : workers[v].pc \notin {"ready", "undo"}
BY DEF RegistryInduction, LockSound, First

LEMMA InvKeptBy ==
  ASSUME TablesTyped', LockSound', KindsSound', ListedSound', StartsSound', LivingSound',
         ShutdownSound'
  PROVE  RegistryInduction'
BY DEF RegistryInduction

LEMMA NewIncarnationKeeps ==
  ASSUME RegistryInduction, NEW w \in Workers, NEW j \in Incarnations, NEW new \in Record,
         workers[w].pc = "lock", Held(w), ~closing,
         services[workers[w].name] = None, records[j].task = "none",
         records' = [records EXCEPT ![j] = new],
         new.task = "starting", new.name = workers[w].name,
         new.accepting = TRUE, new.draining = FALSE, new.stop = FALSE,
         workers' = [workers EXCEPT ![w].pc = "ready", ![w].inc = j],
         UNCHANGED <<lock, services, closing, allowed>>
  PROVE  RegistryInduction'
<1> DEFINE to == [workers[w] EXCEPT !.pc = "ready", !.inc = j]
<1>1. Parts
  BY DEF RegistryInduction, Parts
<1>2. /\ w \in Ops /\ w # Maintain /\ workers[w].kind # "shutdown" /\ workers[w] \in Worker
      /\ workers[w].name \in Names /\ records \in [Incarnations -> Record]
      /\ workers[w].kind # "maintain"
  BY <1>1, KindOf DEF Parts, TablesTyped, Worker, KindsSound
<1>3. /\ to \in Worker /\ to.pc = "ready" /\ to.inc = j /\ to.kind = workers[w].kind
      /\ to.name = workers[w].name
  BY <1>2 DEF Worker
<1>4. workers' = [workers EXCEPT ![w] = to]
  BY <1>1 DEF Parts, TablesTyped
<1> HIDE DEF to
<1>5. OnlyMoves(w) /\ workers'[w] = to
  BY <1>1, <1>3, <1>4, WorkerSet, ZenonT(60) DEF Parts
<1>6. First(lock, w) /\ \A v \in Workers \ {w} : workers[v].pc \notin {"ready", "undo"}
  BY OnlyStart DEF Held, First
<1>7. \A v \in Workers : workers'[v].pc \in {"ready", "undo"} => v = w
  BY <1>5, <1>6 DEF OnlyMoves
<1>8. records'[j] = new /\ \A i \in Incarnations \ {j} : records'[i] = records[i]
  BY <1>2
<1>9. TablesTyped'
  BY <1>1, <1>2, <1>5 DEF Parts, TablesTyped, OnlyMoves
<1>10. LockSound'
  <2>1. QueueMoves(w)
    BY <1>1, <1>3, <1>5, <1>6 DEF QueueMoves, Parts, LockSound, TablesTyped, InQueue
  <2> QED
    BY <1>1, <1>5, <2>1, LockStep DEF Parts
<1>11. KindsSound'
  <2>1. KindStays(w)
    BY <1>2, <1>3, <1>5 DEF KindStays
  <2> QED
    BY <1>1, <1>5, <2>1, KindsStep DEF Parts
<1>12. ListedSound'
  <2>1. ASSUME NEW n \in Names, services[n] # None
        PROVE  services[n] # j /\ services[n] \in Incarnations
    BY <1>1, <2>1 DEF Parts, ListedSound, TablesTyped
  <2>2. ASSUME NEW n \in Names, services'[n] # None
        PROVE  /\ records'[services'[n]] = records[services[n]]
               /\ \A v \in Workers : workers'[v].pc \in {"ready", "undo"} =>
                    workers'[v].inc # services'[n]
    <3>1. services'[n] = services[n] /\ services[n] # None
      BY <2>2
    <3>2. services[n] \in Incarnations \ {j}
      BY <2>1, <3>1
    <3>3. workers'[w].inc = j
      BY <1>3, <1>5
    <3> QED
      BY <1>7, <1>8, <3>1, <3>2, <3>3, ZenonT(60)
  <2>3. ASSUME NEW n \in Names, services'[n] # None
        PROVE  /\ records'[services'[n]].name = n
               /\ records'[services'[n]].task \in {"serving", "done"}
               /\ ~records'[services'[n]].draining =>
                    /\ records'[services'[n]].task = "serving"
                    /\ records'[services'[n]].accepting /\ ~records'[services'[n]].stop
    BY <1>1, <2>2, <2>3 DEF Parts, ListedSound
  <2> QED
    BY <2>2, <2>3 DEF ListedSound
<1>13. StartsSound'
  BY <1>2, <1>3, <1>5, <1>7, <1>8, ZenonT(60) DEF StartsSound
<1>14. LivingSound'
  <2>1. ASSUME NEW i \in Alive'
        PROVE  \/ services'[records'[i].name] = i
               \/ \E v \in Workers : workers'[v].pc \in {"ready", "undo"} /\ workers'[v].inc = i
    <3>1. CASE i = j
      BY <1>3, <1>5, <3>1
    <3>2. CASE i # j
      <4>1. i \in Alive /\ records'[i] = records[i]
        BY <1>8, <2>1, <3>2 DEF Alive
      <4>2. services[records[i].name] = i
        BY <1>1, <1>6, <4>1 DEF Parts, LivingSound
      <4> QED
        BY <4>1, <4>2
    <3> QED
      BY <3>1, <3>2
  <2> QED
    BY <2>1 DEF LivingSound
<1>15. ShutdownSound'
  BY <1>11, MaintainIsNoOp DEF ShutdownSound, MarkedAll, KindsSound
<1> QED
  BY <1>9, <1>10, <1>11, <1>12, <1>13, <1>14, <1>15, InvKeptBy

LEMMA StartLockedKeeps ==
  ASSUME RegistryInduction, NEW w \in Workers, StartLocked(w)
  PROVE  RegistryInduction'
<1> DEFINE new == [task |-> "starting", name |-> workers[w].name, chat |-> workers[w].chat,
                   version |-> workers[w].version,
                   accepting |-> TRUE, draining |-> FALSE, stop |-> FALSE,
                   revoked |-> ~allowed[workers[w].chat]]
<1>1. /\ workers[w].pc = "lock" /\ Held(w) /\ UNCHANGED <<services, closing, allowed>>
      /\ w \in Ops /\ TablesTyped
  BY KindOf DEF StartLocked, RegistryInduction
<1> HIDE DEF new
<1>2. CASE Return(w) /\ lock' = Without(w) /\ UNCHANGED records
  BY <1>1, <1>2, GivenUpKeeps
<1>3. CASE /\ ~closing /\ services[workers[w].name] = None
           /\ \E j \in Unused :
                /\ records' = [records EXCEPT ![j] = new]
                /\ workers' = [workers EXCEPT ![w].pc = "ready", ![w].inc = j]
           /\ UNCHANGED lock
  <2>1. PICK j \in Unused :
          /\ records' = [records EXCEPT ![j] = new]
          /\ workers' = [workers EXCEPT ![w].pc = "ready", ![w].inc = j]
    BY <1>3
  <2>2. /\ workers[w].name \in Names /\ workers[w].chat \in Chats
        /\ workers[w].version \in Versions
    BY <1>1 DEF TablesTyped, Worker
  <2>4. (~allowed[workers[w].chat]) \in BOOLEAN
    OBVIOUS
  <2>3. /\ new \in Record /\ new.task = "starting" /\ new.name = workers[w].name
        /\ new.accepting = TRUE /\ new.draining = FALSE /\ new.stop = FALSE
    BY <2>2, <2>4 DEF Record, new
  <2>5. j \in Incarnations /\ records[j].task = "none"
    BY DEF Unused
  <2> QED
    BY <1>1, <1>3, <2>1, <2>3, <2>5, NewIncarnationKeeps
<1> QED
  BY <1>2, <1>3 DEF StartLocked, new, Suspend

LEMMA StoppedRecord ==
  ASSUME NEW r \in Record
  PROVE  /\ [r EXCEPT !.stop = TRUE] \in Record
         /\ [r EXCEPT !.stop = TRUE].name = r.name /\ [r EXCEPT !.stop = TRUE].task = r.task
BY DEF Record

(* The start is undone: its incarnation is told to stop.                      *)
LEMMA UndoKeeps ==
  ASSUME RegistryInduction, NEW w \in Workers, workers[w].pc = "ready", Goto(w, "undo"),
         records' = [records EXCEPT ![workers[w].inc].stop = TRUE],
         UNCHANGED <<lock, services, closing, allowed>>
  PROVE  RegistryInduction'
<1> DEFINE to == [workers[w] EXCEPT !.pc = "undo"]
           i == workers[w].inc
           new == [records[i] EXCEPT !.stop = TRUE]
<1>1. Parts
  BY DEF RegistryInduction, Parts
<1>2. /\ w # Maintain /\ workers[w].kind # "shutdown" /\ workers[w] \in Worker
      /\ i \in Incarnations /\ records \in [Incarnations -> Record]
      /\ workers[w].kind # "maintain" /\ w \in Ops
  BY <1>1, KindOf DEF Parts, TablesTyped, KindsSound, StartsSound
<1>3. /\ to \in Worker /\ to.pc = "undo" /\ to.inc = i /\ to.kind = workers[w].kind
      /\ to.name = workers[w].name
  BY <1>2 DEF Worker
<1>4. workers' = [workers EXCEPT ![w] = to]
  BY <1>1 DEF Parts, TablesTyped, Goto
<1> HIDE DEF to
<1>5. OnlyMoves(w) /\ workers'[w] = to
  BY <1>1, <1>3, <1>4, WorkerSet DEF Parts
<1>6. First(lock, w) /\ \A v \in Workers \ {w} : workers[v].pc \notin {"ready", "undo"}
  BY <1>1, OnlyStart DEF Parts, LockSound
<1>7. \A v \in Workers : workers'[v].pc \in {"ready", "undo"} => v = w
  BY <1>5, <1>6 DEF OnlyMoves
<1>8. new \in Record /\ new.name = records[i].name /\ new.task = records[i].task
  BY <1>2, StoppedRecord
<1>9. records' = [records EXCEPT ![i] = new]
  BY <1>2
<1> HIDE DEF new
<1>10. /\ records' \in [Incarnations -> Record] /\ records'[i] = new
       /\ \A k \in Incarnations \ {i} : records'[k] = records[k]
  BY <1>2, <1>8, <1>9
<1>11. TablesTyped'
  BY <1>1, <1>5, <1>10 DEF Parts, TablesTyped, OnlyMoves
<1>12. LockSound'
  <2>1. QueueMoves(w)
    BY <1>1, <1>3, <1>5, <1>6 DEF QueueMoves, Parts, LockSound, TablesTyped, InQueue
  <2> QED
    BY <1>1, <1>5, <2>1, LockStep DEF Parts
<1>13. KindsSound'
  <2>1. KindStays(w)
    BY <1>2, <1>3, <1>5 DEF KindStays
  <2> QED
    BY <1>1, <1>5, <2>1, KindsStep DEF Parts
<1>14. ListedSound'
  <2>1. ASSUME NEW n \in Names, services[n] # None
        PROVE  services[n] # i /\ services[n] \in Incarnations
    BY <1>1, <2>1 DEF Parts, ListedSound, TablesTyped
  <2> QED
    BY <1>1, <1>3, <1>5, <1>7, <1>10, <2>1 DEF Parts, ListedSound
<1>15. StartsSound'
  BY <1>1, <1>2, <1>3, <1>5, <1>7, <1>8, <1>10 DEF Parts, StartsSound
<1>16. LivingSound'
  <2>1. ASSUME NEW k \in Alive'
        PROVE  \/ services'[records'[k].name] = k
               \/ \E v \in Workers : workers'[v].pc \in {"ready", "undo"} /\ workers'[v].inc = k
    <3>1. CASE k = i
      BY <1>3, <1>5, <3>1
    <3>2. CASE k # i
      <4>1. k \in Alive /\ records'[k] = records[k]
        BY <1>10, <2>1, <3>2 DEF Alive
      <4>2. services[records[k].name] = k
        BY <1>1, <1>6, <3>2, <4>1 DEF Parts, LivingSound
      <4> QED
        BY <4>1, <4>2
    <3> QED
      BY <3>1, <3>2
  <2> QED
    BY <2>1 DEF LivingSound
<1>17. ShutdownSound'
  <2>1. \A v \in Ops : ~MarkedAll(v)
    BY <1>1 DEF Parts, ShutdownSound
  <2>2. \A v \in Ops : ~MarkedAll(v)'
    BY <1>3, <1>5, <2>1, MaintainIsNoOp DEF MarkedAll, OnlyMoves
  <2> QED
    BY <2>2 DEF ShutdownSound
<1> QED
  BY <1>11, <1>12, <1>13, <1>14, <1>15, <1>16, <1>17, InvKeptBy

(* The start leaves, with its incarnation listed or done.                     *)
LEMMA LeaveStartKeeps ==
  ASSUME RegistryInduction, NEW w \in Workers, workers[w].pc \in {"ready", "undo"}, Return(w),
         lock' = Without(w), UNCHANGED <<records, closing, allowed>>,
         \/ services' = services /\ records[workers[w].inc].task = "done"
         \/ /\ services' = [services EXCEPT ![workers[w].name] = workers[w].inc]
            /\ workers[w].pc = "ready" /\ records[workers[w].inc].task = "serving"
  PROVE  RegistryInduction'
<1> DEFINE i == workers[w].inc
           n0 == workers[w].name
<1>1. Parts
  BY DEF RegistryInduction, Parts
<1>2. /\ w # Maintain /\ w \in Ops
      /\ i \in Incarnations /\ n0 \in Names /\ services[n0] = None /\ records[i].name = n0
      /\ services \in [Names -> Incarnations \cup {None}]
  BY <1>1, KindOf DEF Parts, TablesTyped, StartsSound, Worker
<1>3. /\ OnlyMoves(w) /\ QueueMoves(w) /\ KindStays(w)
      /\ workers'[w].pc = "ended" /\ workers'[w].kind = "none"
  BY <1>2, ReturnMoves
<1>4. LockSound' /\ KindsSound'
  BY <1>1, <1>3, LockStep, KindsStep DEF Parts
<1>5. \A v \in Workers \ {w} : workers[v].pc \notin {"ready", "undo"}
  BY <1>1, OnlyStart DEF Parts, LockSound
<1>6. \A v \in Workers : workers'[v].pc \notin {"ready", "undo"}
  BY <1>3, <1>5 DEF OnlyMoves
<1>7. services' \in [Names -> Incarnations \cup {None}]
  BY <1>2
<1>8. TablesTyped'
  BY <1>1, <1>3, <1>7 DEF Parts, TablesTyped, OnlyMoves, QueueMoves
<1>9. \A n \in Names : services'[n] = services[n] \/
        (n = n0 /\ services'[n] = i /\ workers[w].pc = "ready" /\ records[i].task = "serving")
  BY <1>2
<1>10. ListedSound'
  BY <1>1, <1>2, <1>6, <1>9 DEF Parts, ListedSound, StartsSound
<1>11. StartsSound'
  BY <1>6 DEF StartsSound
<1>12. LivingSound'
  <2>1. ASSUME NEW k \in Alive' PROVE services'[records'[k].name] = k
    <3>1. k \in Alive /\ records[k].name \in Names
      BY <1>1, <2>1 DEF Alive, Parts, TablesTyped, Record
    <3>2. CASE k = i
      BY <1>2, <3>1, <3>2 DEF Alive
    <3>3. CASE k # i
      <4>1. services[records[k].name] = k
        BY <1>1, <1>5, <3>1, <3>3 DEF Parts, LivingSound
      <4>2. k # None
        BY <3>1, RegistryAssumption DEF RegistryAssumption, Alive
      <4> QED
        BY <1>2, <1>9, <3>1, <4>1, <4>2
    <3> QED
      BY <3>2, <3>3
  <2> QED
    BY <2>1 DEF LivingSound
<1>13. ShutdownSound'
  <2>1. \A v \in Ops : ~MarkedAll(v)
    BY <1>1 DEF Parts, ShutdownSound
  <2>2. \A v \in Ops : ~MarkedAll(v)'
    BY <1>3, <2>1, MaintainIsNoOp DEF MarkedAll, OnlyMoves
  <2> QED
    BY <2>2 DEF ShutdownSound
<1> QED
  BY <1>4, <1>8, <1>10, <1>11, <1>12, <1>13, InvKeptBy

LEMMA StartReadyKeeps ==
  ASSUME RegistryInduction, NEW w \in Workers, StartReady(w)
  PROVE  RegistryInduction'
BY UndoKeeps, LeaveStartKeeps DEF StartReady, Suspend

LEMMA StartUndoKeeps ==
  ASSUME RegistryInduction, NEW w \in Workers, StartUndo(w)
  PROVE  RegistryInduction'
BY LeaveStartKeeps DEF StartUndo, Suspend

LEMMA CancelledKeeps ==
  ASSUME RegistryInduction, NEW w \in Ops, Cancelled(w)
  PROVE  RegistryInduction'
BY GivenUpKeeps, UndoKeeps, MaintainIsNoOp DEF Cancelled, Suspend
-----------------------------------------------------------------------------
(* Steps of the service, of the guards, and the beginning of a shutdown.      *)

(* Records change as their tasks go on; no task begins, and a task that may     *)
(* still be listed without a mark stays as it is.                            *)
LEMMA RecordsKeep ==
  ASSUME RegistryInduction, UNCHANGED <<services, lock, closing, workers>>,
         allowed' \in [Chats -> BOOLEAN], records' \in [Incarnations -> Record],
         \A i \in Incarnations :
           /\ records'[i].name = records[i].name /\ records'[i].draining = records[i].draining
           /\ records'[i].stop = records[i].stop
           /\ records[i].task = "none" <=> records'[i].task = "none"
           /\ records'[i].task \in {"starting", "serving"} => records[i].task \in {"starting", "serving"}
           /\ records[i].task \in {"serving", "done"} => records'[i].task \in {"serving", "done"}
           /\ ~records[i].stop =>
                /\ records'[i].accepting = records[i].accepting
                /\ records[i].task = "serving" => records'[i].task = "serving"
  PROVE  RegistryInduction'
<1>1. Parts
  BY DEF RegistryInduction, Parts
<1>2. TablesTyped' /\ LockSound' /\ KindsSound'
  BY <1>1 DEF Parts, TablesTyped, LockSound, KindsSound, Distinct, In, First
<1>3. ListedSound'
  <2>1. \A n \in Names : services[n] # None => services[n] \in Incarnations
    BY <1>1 DEF Parts, TablesTyped
  <2>2. ASSUME NEW n \in Names, services[n] # None
        PROVE  /\ records'[services[n]].name = n
               /\ records'[services[n]].task \in {"serving", "done"}
               /\ ~records'[services[n]].draining =>
                    /\ records'[services[n]].task = "serving"
                    /\ records'[services[n]].accepting /\ ~records'[services[n]].stop
    BY <1>1, <2>1, <2>2 DEF Parts, ListedSound
  <2> QED
    BY <1>1, <2>2 DEF Parts, ListedSound
<1>4. StartsSound'
  BY <1>1 DEF Parts, StartsSound
<1>5. LivingSound'
  BY <1>1 DEF Parts, LivingSound, Alive
<1>6. ShutdownSound'
  BY <1>1 DEF Parts, ShutdownSound, MarkedAll, Registered
<1> QED
  BY <1>2, <1>3, <1>4, <1>5, <1>6, InvKeptBy

LEMMA LifecycleReadyKeeps ==
  ASSUME RegistryInduction, NEW i \in Incarnations, LifecycleReady(i)
  PROVE  RegistryInduction'
<1>1. /\ TablesTyped /\ records[i].task = "starting"
      /\ UNCHANGED <<services, lock, closing, workers, allowed>>
  BY DEF RegistryInduction, LifecycleReady
<1>2. PICK outcome \in {"serving", "done"} : records' = [records EXCEPT ![i].task = outcome]
  BY DEF LifecycleReady
<1>3. records \in [Incarnations -> Record] /\ allowed' \in [Chats -> BOOLEAN]
  BY <1>1 DEF TablesTyped
<1>4. /\ [records[i] EXCEPT !.task = outcome] \in Record
      /\ records' = [records EXCEPT ![i] = [records[i] EXCEPT !.task = outcome]]
  BY <1>2, <1>3 DEF Record
<1>5. records' \in [Incarnations -> Record]
  BY <1>3, <1>4
<1>6. ASSUME NEW k \in Incarnations
      PROVE  /\ records'[k].name = records[k].name /\ records'[k].draining = records[k].draining
             /\ records'[k].stop = records[k].stop /\ records'[k].accepting = records[k].accepting
             /\ \/ records'[k].task = records[k].task
                \/ records[k].task = "starting" /\ records'[k].task \in {"serving", "done"}
  BY <1>1, <1>2, <1>3 DEF Record
<1> QED
  BY <1>1, <1>3, <1>5, <1>6, RecordsKeep

LEMMA LifecycleStopKeeps ==
  ASSUME RegistryInduction, NEW i \in Incarnations, LifecycleStop(i)
  PROVE  RegistryInduction'
<1>1. /\ TablesTyped /\ records[i].task = "serving" /\ records[i].stop
      /\ UNCHANGED <<services, lock, closing, workers, allowed>>
  BY DEF RegistryInduction, LifecycleStop
<1>2. records \in [Incarnations -> Record] /\ allowed' \in [Chats -> BOOLEAN]
  BY <1>1 DEF TablesTyped
<1>3. CASE records' = [records EXCEPT ![i].accepting = FALSE]
  <2>1. /\ [records[i] EXCEPT !.accepting = FALSE] \in Record
        /\ records' = [records EXCEPT ![i] = [records[i] EXCEPT !.accepting = FALSE]]
    BY <1>2, <1>3 DEF Record
  <2>2. records' \in [Incarnations -> Record]
    BY <1>2, <2>1
  <2>3. ASSUME NEW k \in Incarnations
        PROVE  /\ records'[k].name = records[k].name /\ records'[k].draining = records[k].draining
               /\ records'[k].stop = records[k].stop /\ records'[k].task = records[k].task
               /\ records'[k].accepting = records[k].accepting \/ k = i
    BY <1>2, <1>3 DEF Record
  <2> QED
    BY <1>1, <1>2, <2>2, <2>3, RecordsKeep
<1>4. CASE records' = [records EXCEPT ![i].task = "done"]
  <2>1. /\ [records[i] EXCEPT !.task = "done"] \in Record
        /\ records' = [records EXCEPT ![i] = [records[i] EXCEPT !.task = "done"]]
    BY <1>2, <1>4 DEF Record
  <2>2. records' \in [Incarnations -> Record]
    BY <1>2, <2>1
  <2>3. ASSUME NEW k \in Incarnations
        PROVE  /\ records'[k].name = records[k].name /\ records'[k].draining = records[k].draining
               /\ records'[k].stop = records[k].stop /\ records'[k].accepting = records[k].accepting
               /\ records'[k].task = records[k].task \/ (k = i /\ records'[k].task = "done")
    BY <1>2, <1>4 DEF Record
  <2> QED
    BY <1>1, <1>2, <2>2, <2>3, RecordsKeep
<1> QED
  BY <1>3, <1>4 DEF LifecycleStop

LEMMA GuardChangesKeeps ==
  ASSUME RegistryInduction, NEW c \in Chats, GuardChanges(c)
  PROVE  RegistryInduction'
<1>1. /\ TablesTyped /\ UNCHANGED <<services, lock, closing, workers>>
      /\ allowed' = [allowed EXCEPT ![c] = ~@]
      /\ records' = [i \in Incarnations |->
           IF records[i].chat = c /\ records[i].task # "none"
           THEN [records[i] EXCEPT !.revoked = TRUE] ELSE records[i]]
  BY DEF RegistryInduction, GuardChanges
<1>2. records \in [Incarnations -> Record] /\ allowed \in [Chats -> BOOLEAN]
  BY <1>1 DEF TablesTyped
<1>3. allowed' \in [Chats -> BOOLEAN]
  <2>1. (~allowed[c]) \in BOOLEAN
    OBVIOUS
  <2> QED
    BY <1>1, <1>2, <2>1
<1>4. ASSUME NEW i \in Incarnations
      PROVE  /\ records'[i] \in Record
             /\ records'[i].name = records[i].name /\ records'[i].draining = records[i].draining
             /\ records'[i].stop = records[i].stop /\ records'[i].accepting = records[i].accepting
             /\ records'[i].task = records[i].task
  <2>1. records'[i] = [records[i] EXCEPT !.revoked = TRUE] \/ records'[i] = records[i]
    BY <1>1
  <2> QED
    BY <1>2, <2>1 DEF Record
<1>5. records' \in [Incarnations -> Record]
  BY <1>1, <1>4
<1> QED
  BY <1>1, <1>3, <1>4, <1>5, RecordsKeep

LEMMA ShutdownBeginKeeps ==
  ASSUME RegistryInduction, NEW w \in Ops, ShutdownBegin(w)
  PROVE  RegistryInduction'
<1>1. Parts
  BY DEF RegistryInduction, Parts
<1>2. /\ workers[w].pc = "idle" /\ ~closing /\ closing' = TRUE
      /\ UNCHANGED <<services, records, allowed>> /\ lock' = Append(Without(Maintain), w)
      /\ workers' = [v \in Workers |->
           CASE v = w -> Resting("shutdown", "mark")
             [] v = Maintain /\ workers[v].pc # "await" -> Resting("maintain", "ended")
             [] OTHER -> workers[v]]
  BY DEF ShutdownBegin, Acquire
<1>3. /\ w \in Workers /\ w # Maintain /\ Maintain \in Workers /\ Maintain \notin Ops
      /\ Workers = Ops \cup {Maintain}
  BY MaintainIsNoOp
<1>4. /\ Resting("shutdown", "mark") \in Worker /\ Resting("shutdown", "mark").pc = "mark"
      /\ Resting("shutdown", "mark").kind = "shutdown"
      /\ Resting("maintain", "ended") \in Worker /\ Resting("maintain", "ended").pc = "ended"
      /\ Resting("maintain", "ended").kind = "maintain"
  BY RestingTyped
<1>5. workers'[w] = Resting("shutdown", "mark")
  BY <1>2, <1>3
<1>6. \A v \in Ops \ {w} : workers'[v] = workers[v]
  BY <1>2, <1>3
<1>7. /\ workers'[Maintain].kind = "maintain" /\ workers'[Maintain] \in Worker
      /\ workers'[Maintain].pc \in {"await", "ended"}
  BY <1>1, <1>2, <1>3, <1>4 DEF Parts, TablesTyped, KindsSound
<1>8. workers' \in [Workers -> Worker]
  <2>1. \A v \in Workers : workers'[v] \in Worker
    BY <1>1, <1>3, <1>4, <1>5, <1>6, <1>7 DEF Parts, TablesTyped
  <2> QED
    BY <1>2, <2>1
<1>9. \A v \in Workers : workers'[v].pc \in {"ready", "undo"} => v \in Ops \ {w} /\ workers'[v] = workers[v]
  BY <1>3, <1>4, <1>5, <1>6, <1>7
<1>10. \A v \in Workers : workers[v].pc \in {"ready", "undo"} => v \in Ops \ {w} /\ workers'[v] = workers[v]
  BY <1>1, <1>2, <1>3, <1>6 DEF Parts, KindsSound
<1>11. lock \in Seq(Workers) /\ Distinct(lock)
  BY <1>1 DEF Parts, TablesTyped, LockSound
<1> DEFINE q == Without(Maintain)
<1>12. /\ q \in Seq(Workers) /\ Distinct(q) /\ ~In(q, w)
       /\ \A v : In(q, v) <=> In(lock, v) /\ v # Maintain
       /\ \A v : First(lock, v) /\ v # Maintain => First(q, v)
  <2>1. ~In(lock, w)
    BY <1>1, <1>2, <1>3 DEF Parts, LockSound, InQueue
  <2> QED
    BY <1>3, <1>11, <2>1, LeaveQueue
<1>13. lock' = Append(q, w)
  BY <1>2
<1> HIDE DEF q
<1>14. /\ lock' \in Seq(Workers) /\ Distinct(lock')
       /\ \A v : In(lock', v) <=> In(q, v) \/ v = w
       /\ \A v : First(q, v) => First(lock', v)
  BY <1>3, <1>12, <1>13, AppendQueue
<1>15. TablesTyped'
  BY <1>1, <1>2, <1>8, <1>14 DEF Parts, TablesTyped
<1>16. LockSound'
  <2>1. ASSUME NEW v \in Workers PROVE In(lock', v) <=> workers'[v].pc \in InQueue
    BY <1>1, <1>3, <1>4, <1>5, <1>6, <1>7, <1>12, <1>14 DEF Parts, LockSound, InQueue
  <2>2. ASSUME NEW v \in Workers, workers'[v].pc \in {"ready", "undo"} PROVE First(lock', v)
    BY <1>1, <1>3, <1>9, <1>12, <1>14, <2>2 DEF Parts, LockSound
  <2> QED
    BY <1>14, <2>1, <2>2 DEF LockSound, Distinct, In, First
<1>17. KindsSound'
  <2>1. ASSUME NEW v \in Ops
        PROVE  /\ workers'[v].kind # "maintain"
               /\ workers'[v].kind = "shutdown" => workers'[v].pc \in {"mark", "next", "ended"}
               /\ workers'[v].pc \in {"mark", "next"} => workers'[v].kind = "shutdown"
    BY <1>1, <1>3, <1>4, <1>5, <1>6 DEF Parts, KindsSound
  <2> QED
    BY <1>2, <1>3, <1>7, <2>1 DEF KindsSound
<1>18. ListedSound'
  BY <1>1, <1>2, <1>9 DEF Parts, ListedSound
<1>19. StartsSound'
  BY <1>1, <1>2, <1>9 DEF Parts, StartsSound
<1>20. LivingSound'
  <2>1. ASSUME NEW i \in Alive'
        PROVE  \/ services'[records'[i].name] = i
               \/ \E v \in Workers : workers'[v].pc \in {"ready", "undo"} /\ workers'[v].inc = i
    <3>1. i \in Alive /\ records'[i] = records[i]
      BY <1>2, <2>1 DEF Alive
    <3> QED
      BY <1>1, <1>2, <1>10, <3>1 DEF Parts, LivingSound
  <2> QED
    BY <2>1 DEF LivingSound
<1>21. ShutdownSound'
  <2>1. \A v \in Ops : ~MarkedAll(v)
    BY <1>1, <1>2, <1>3 DEF Parts, MarkedAll, KindsSound
  <2>2. \A v \in Ops : ~MarkedAll(v)'
    BY <1>4, <1>5, <1>6, <2>1 DEF MarkedAll
  <2> QED
    BY <2>2 DEF ShutdownSound
<1> QED
  BY <1>15, <1>16, <1>17, <1>18, <1>19, <1>20, <1>21, InvKeptBy
-----------------------------------------------------------------------------
(* The whole.                                                                *)
LEMMA InitSound == RegistryInit => RegistryInduction
<1> SUFFICES ASSUME RegistryInit PROVE RegistryInduction
  OBVIOUS
<1>1. /\ services = [n \in Names |-> None] /\ lock = <<>> /\ closing = FALSE
      /\ workers = [w \in Workers |-> Resting(IF w = Maintain THEN "maintain" ELSE "none", "idle")]
      /\ allowed = [c \in Chats |-> TRUE]
      /\ records = [i \in Incarnations |->
           [task |-> "none", name |-> SomeName, chat |-> SomeChat, version |-> SomeVersion,
            accepting |-> FALSE, draining |-> FALSE, stop |-> FALSE, revoked |-> FALSE]]
  BY DEF RegistryInit
<1>2. ASSUME NEW w \in Workers
      PROVE  /\ workers[w] \in Worker /\ workers[w].pc = "idle"
             /\ workers[w].kind \in {"maintain", "none"}
             /\ workers[w].kind = "maintain" <=> w = Maintain
  <2>1. PICK kind \in {"maintain", "none"} :
          workers[w] = Resting(kind, "idle") /\ (kind = "maintain" <=> w = Maintain)
    BY <1>1
  <2>2. /\ Resting(kind, "idle") \in Worker /\ Resting(kind, "idle").pc = "idle"
        /\ Resting(kind, "idle").kind = kind
    BY RestingTyped
  <2> QED
    BY <2>1, <2>2
<1>3. SomeChat \in Chats /\ SomeName \in Names /\ SomeVersion \in Versions
  BY RegistryAssumption DEF RegistryAssumption, SomeChat, SomeName, SomeVersion
<1>4. \A i \in Incarnations : records[i] \in Record /\ records[i].task = "none"
  BY <1>1, <1>3 DEF Record
<1>5. lock \in Seq(Workers) /\ Len(lock) = 0
  BY <1>1, EmptySeq
<1>6. TablesTyped
  <2>1. workers \in [Workers -> Worker]
    BY <1>1, <1>2
  <2>2. records \in [Incarnations -> Record]
    BY <1>1, <1>4
  <2> QED
    BY <1>1, <1>5, <2>1, <2>2 DEF TablesTyped
<1>7. LockSound
  BY <1>2, <1>5 DEF LockSound, Distinct, In, InQueue
<1>8. KindsSound
  BY <1>2, MaintainIsNoOp DEF KindsSound
<1>9. ListedSound /\ StartsSound
  BY <1>1, <1>2 DEF ListedSound, StartsSound
<1>10. LivingSound
  BY <1>4 DEF LivingSound, Alive
<1>11. ShutdownSound
  BY <1>2, MaintainIsNoOp DEF ShutdownSound, MarkedAll
<1> QED
  BY <1>6, <1>7, <1>8, <1>9, <1>10, <1>11 DEF RegistryInduction

LEMMA NextKeeps == RegistryInduction /\ [RegistryNext]_rvars => RegistryInduction'
<1> SUFFICES ASSUME RegistryInduction, [RegistryNext]_rvars PROVE RegistryInduction'
  OBVIOUS
<1>1. CASE \E w \in Ops : \/ \E c \in Chats, n \in Names, v \in Versions : StartBegin(w, c, n, v)
                          \/ \E n \in Names, o \in Owners : CloseBegin(w, n, o)
                          \/ \E o \in Owners : CloseScopeBegin(w, o)
  BY <1>1, StartBeginKeeps, CloseBeginKeeps, CloseScopeBeginKeeps
<1>2. CASE \E w \in Ops : ShutdownBegin(w) \/ Cancelled(w)
  BY <1>2, ShutdownBeginKeeps, CancelledKeeps
<1>3. CASE MaintainBegin
  BY <1>3, MaintainBeginKeeps
<1>4. CASE \E w \in Workers : StartLocked(w) \/ StartReady(w) \/ StartUndo(w)
  BY <1>4, StartLockedKeeps, StartReadyKeeps, StartUndoKeeps
<1>5. CASE \E w \in Workers :
             CloseLocked(w) \/ CloseDone(w) \/ ShutdownMark(w) \/ ShutdownClosed(w)
  BY <1>5, CloseLockedKeeps, CloseDoneKeeps, ShutdownMarkKeeps, ShutdownClosedKeeps
<1>6. CASE \E i \in Incarnations : LifecycleReady(i) \/ LifecycleStop(i)
  BY <1>6, LifecycleReadyKeeps, LifecycleStopKeeps
<1>7. CASE \E c \in Chats : GuardChanges(c)
  BY <1>7, GuardChangesKeeps
<1>8. CASE UNCHANGED rvars
  BY <1>8 DEF rvars, RegistryInduction, TablesTyped, LockSound, KindsSound, ListedSound,
     StartsSound, LivingSound, ShutdownSound, MarkedAll, Registered, Alive, Distinct, In, First
<1> QED
  BY <1>1, <1>2, <1>3, <1>4, <1>5, <1>6, <1>7, <1>8 DEF RegistryNext, OpStep, Lifecycle

LEMMA RegistryInductive == RegistrySpec => []RegistryInduction
BY InitSound, NextKeeps, PTL DEF RegistrySpec

LEMMA InductionImplies ==
  ASSUME RegistryInduction
  PROVE  TablesTyped /\ NoOrphan /\ OnePerName /\ ListedServes /\ ShutdownIsComplete
<1>1. Parts
  BY DEF RegistryInduction, Parts
<1>2. \A i \in Alive : i \in Incarnations /\ i # None /\ records[i].name \in Names
  BY <1>1, RegistryAssumption DEF Alive, RegistryAssumption, Parts, TablesTyped, Record
<1>3. NoOrphan
  <2>1. ASSUME NEW i \in Alive, NEW w \in Workers,
               workers[w].pc \in {"ready", "undo"}, workers[w].inc = i
        PROVE  lock # <<>> /\ workers[Head(lock)].inc = i /\ workers[Head(lock)].pc \in {"ready", "undo"}
    BY <1>1, <2>1 DEF Parts, LockSound, First
  <2> QED
    BY <1>1, <2>1 DEF Parts, LivingSound, NoOrphan
<1>4. OnePerName
  <2>1. ASSUME NEW i \in Alive, NEW j \in Alive, records[i].name = records[j].name,
               NEW w \in Workers, workers[w].pc \in {"ready", "undo"}, workers[w].inc = i
        PROVE  i = j
    <3>1. services[records[j].name] = None
      BY <1>1, <2>1 DEF Parts, StartsSound
    <3>2. PICK v \in Workers : workers[v].pc \in {"ready", "undo"} /\ workers[v].inc = j
      BY <1>1, <1>2, <3>1 DEF Parts, LivingSound
    <3>3. v = w
      BY <1>1, <2>1, <3>2, OneStart DEF Parts
    <3> QED
      BY <2>1, <3>2, <3>3
  <2>2. ASSUME NEW i \in Alive, NEW j \in Alive, records[i].name = records[j].name
        PROVE  i = j
    <3>1. CASE services[records[i].name] = i /\ services[records[j].name] = j
      BY <2>2, <3>1
    <3>2. CASE \E w \in Workers : workers[w].pc \in {"ready", "undo"} /\ workers[w].inc = i
      BY <2>1, <2>2, <3>2
    <3>3. CASE \E w \in Workers : workers[w].pc \in {"ready", "undo"} /\ workers[w].inc = j
      BY <2>1, <2>2, <3>3
    <3> QED
      BY <1>1, <3>1, <3>2, <3>3 DEF Parts, LivingSound
  <2> QED
    BY <2>2 DEF OnePerName
<1>5. ListedServes
  BY <1>1 DEF Parts, ListedSound, ListedServes
<1>6. ShutdownIsComplete
  <2>1. ASSUME NEW w \in Ops, workers[w].kind = "shutdown", workers[w].pc = "ended"
        PROVE  /\ Alive = {} /\ Registered = {}
               /\ \A v \in Ops : workers[v].pc \notin {"ready", "undo"}
    <3>1. Registered = {} /\ \A v \in Workers : workers[v].pc \notin {"ready", "undo"}
      BY <1>1, <2>1 DEF Parts, ShutdownSound, MarkedAll
    <3>2. Alive = {}
      BY <1>1, <1>2, <3>1 DEF Parts, LivingSound, Registered
    <3> QED
      BY <3>1, <3>2, MaintainIsNoOp
  <2> QED
    BY <2>1 DEF ShutdownIsComplete
<1> QED
  BY <1>1, <1>3, <1>4, <1>5, <1>6 DEF Parts

-----------------------------------------------------------------------------
(* The life cycle.                                                           *)
(* What an incarnation's phase is made of.                                   *)
Phased(i) ==
  /\ Phases[i] \in {"none", "starting", "published", "leaving", "gone"}
  /\ Phases[i] = "none" <=> records[i].task = "none"
  /\ Phases[i] = "gone" <=> records[i].task = "done"
  /\ i \in Alive => Phases[i] = IF records[i].stop THEN "leaving"
                               ELSE IF services[records[i].name] = i THEN "published"
                               ELSE "starting"

LEMMA PhaseCases == TablesTyped => \A i \in Incarnations : Phased(i)
<1> SUFFICES ASSUME TablesTyped, NEW i \in Incarnations PROVE Phased(i)
  OBVIOUS
<1>1. records[i].task \in {"none", "starting", "serving", "done"}
  BY DEF TablesTyped, Record
<1>2. Phases[i] = PhaseOf(i)
  BY DEF Phases
<1> QED
  BY <1>1, <1>2 DEF Phased, PhaseOf, Alive

LEMMA PhaseCasesNext == (TablesTyped => \A i \in Incarnations : Phased(i))'
BY PhaseCases, PTL

(* The library's Cardinality, as the two modules each see it.                  *)
LEMMA SameCardinality == \A S : SLC!Cardinality(S) = Cardinality(S)
BY DEF SLC!Cardinality, Cardinality

LEMMA LivingIsAlive == TablesTyped => SLC!Living = Alive
<1> SUFFICES ASSUME TablesTyped PROVE SLC!Living = Alive
  OBVIOUS
<1>1. \A i \in Incarnations : i \in Alive <=> Phases[i] \in {"starting", "published", "leaving"}
  <2>1. ASSUME NEW i \in Incarnations
        PROVE  i \in Alive <=> Phases[i] \in {"starting", "published", "leaving"}
    <3>1. records[i].task \in {"none", "starting", "serving", "done"}
      BY DEF TablesTyped, Record
    <3> QED
      BY <3>1, PhaseCases DEF Alive, Phased
  <2> QED
    BY <2>1
<1> QED
  BY <1>1 DEF SLC!Living, Alive

(* A step that changes neither the life cycle nor who may publish.            *)
LEMMA SameCycle ==
  ASSUME Phases' = Phases, Stage' = Stage, allowed' = allowed,
         \A i \in Incarnations :
           records'[i].name = records[i].name /\ records'[i].chat = records[i].chat
  PROVE  UNCHANGED SLC!lvars
BY DEF SLC!lvars

LEMMA PhasesStay ==
  ASSUME RegistryInduction, OnlyFrees, records' = records
  PROVE  Phases' = Phases
<1>1. ASSUME NEW i \in Incarnations PROVE PhaseOf(i)' = PhaseOf(i)
  <2>1. records[i].name \in Names /\ i # None
    BY RegistryAssumption DEF RegistryInduction, TablesTyped, Record, RegistryAssumption
  <2>2. CASE records[i].task \in {"none", "done"}
    BY <2>2 DEF PhaseOf
  <2>3. CASE records[i].task \notin {"none", "done"}
    <3>1. services'[records[i].name] = i <=> services[records[i].name] = i
      BY <2>1, <2>3 DEF OnlyFrees
    <3> QED
      BY <3>1 DEF PhaseOf
  <2> QED
    BY <2>2, <2>3
<1> QED
  BY <1>1 DEF Phases

LEMMA StageStays ==
  ASSUME NEW w \in Workers, OnlyMoves(w), closing' = closing,
         workers[w].kind = "shutdown" => workers[w].pc # "ended",
         workers'[w].kind = "shutdown" => workers'[w].pc # "ended"
  PROVE  Stage' = Stage
<1>1. (\E v \in Ops : workers'[v].kind = "shutdown" /\ workers'[v].pc = "ended")
        <=> \E v \in Ops : workers[v].kind = "shutdown" /\ workers[v].pc = "ended"
  BY MaintainIsNoOp DEF OnlyMoves
<1> QED
  BY <1>1 DEF Stage

(* A worker moves, names are freed, and the life cycle does not see it.        *)
LEMMA Unseen ==
  ASSUME RegistryInduction, NEW w \in Workers, OnlyMoves(w), OnlyFrees,
         UNCHANGED <<records, closing, allowed>>,
         workers[w].kind = "shutdown" => workers[w].pc # "ended",
         workers'[w].kind = "shutdown" => workers'[w].pc # "ended"
  PROVE  UNCHANGED SLC!lvars
BY PhasesStay, StageStays, SameCycle

(* Some incarnations are told to stop.                                       *)
LEMMA MarkedLeave ==
  ASSUME RegistryInduction, NEW some \in SUBSET Incarnations,
         UNCHANGED <<services, allowed>>, Stage' = Stage, TablesTyped',
         \A i \in Incarnations :
           /\ records'[i].task = records[i].task /\ records'[i].name = records[i].name
           /\ records'[i].chat = records[i].chat
           /\ (records'[i].stop <=> records[i].stop \/ i \in some)
  PROVE  SLC!LNext
<1> DEFINE leaving == {i \in some : Phases[i] \in {"starting", "published"}}
<1>1. TablesTyped
  BY DEF RegistryInduction
<1>2. leaving \in SUBSET SLC!Stoppable
  BY DEF SLC!Stoppable
<1>3. ASSUME NEW i \in Incarnations
      PROVE  Phases'[i] = IF i \in leaving THEN "leaving" ELSE Phases[i]
  <2>1. i \in Alive' <=> i \in Alive
    BY DEF Alive
  <2>2. Phases'[i] = "none" <=> records'[i].task = "none"
    BY PhaseCasesNext DEF Phased
  <2>3. Phases'[i] = "gone" <=> records'[i].task = "done"
    BY PhaseCasesNext DEF Phased
  <2>4. i \in Alive' => Phases'[i] = IF records'[i].stop THEN "leaving"
                                    ELSE IF services'[records'[i].name] = i THEN "published"
                                    ELSE "starting"
    BY PhaseCasesNext DEF Phased
  <2>5. records[i].task \in {"none", "starting", "serving", "done"}
    BY <1>1 DEF TablesTyped, Record
  <2>6. records[i].stop \in BOOLEAN
    BY <1>1 DEF TablesTyped, Record
  <2>7. CASE i \in Alive
    <3>1. Phases[i] = IF records[i].stop THEN "leaving"
                      ELSE IF services[records[i].name] = i THEN "published" ELSE "starting"
      BY <1>1, <2>7, PhaseCases DEF Phased
    <3> QED
      BY <2>1, <2>4, <2>7, <3>1
  <2>8. CASE i \notin Alive
    <3>1. records[i].task \in {"none", "done"}
      BY <2>5, <2>8 DEF Alive
    <3>2. Phases'[i] = Phases[i] /\ Phases[i] \in {"none", "gone"}
      BY <1>1, <2>2, <2>3, <3>1, PhaseCases DEF Phased
    <3> QED
      BY <3>2
  <2> QED
    BY <2>7, <2>8
<1>4. Phases' = [i \in Incarnations |-> IF i \in leaving THEN "leaving" ELSE Phases[i]]
  <2>1. Phases' = [i \in Incarnations |-> Phases'[i]]
    BY DEF Phases
  <2> HIDE DEF leaving
  <2> QED
    BY <1>3, <2>1
<1> HIDE DEF leaving
<1>5. SLC!Leave(leaving)
  BY <1>4 DEF SLC!Leave
<1> QED
  BY <1>2, <1>5 DEF SLC!LNext
(* Every step of the registry is one of the life cycle, or none.              *)
LifeStep == SLC!LNext \/ UNCHANGED SLC!lvars
Steps == RegistryInduction /\ RegistryInduction'

(* Where only one worker moves, and it is not the shutdown that ends.          *)
LEMMA ReturnsQuietly ==
  ASSUME Steps, NEW w \in Workers, workers[w].kind # "shutdown", Return(w)
  PROVE  OnlyMoves(w) /\ workers'[w].kind # "shutdown"
<1>1. workers \in [Workers -> Worker] /\ workers' \in [Workers -> Worker]
  BY DEF Steps, RegistryInduction, TablesTyped
<1>2. workers' = [workers EXCEPT ![w] = Resting("none", "ended")]
  BY DEF Return
<1>3. Resting("none", "ended").kind = "none"
  BY DEF Resting
<1> QED
  BY <1>1, <1>2, <1>3 DEF OnlyMoves

LEMMA ContinuesQuietly ==
  ASSUME Steps, NEW w \in Workers, workers[w].kind # "shutdown", NEW left, NEW queue,
         Continue(w, left, queue)
  PROVE  OnlyMoves(w) /\ workers'[w].kind # "shutdown"
<1>1. workers \in [Workers -> Worker] /\ workers' \in [Workers -> Worker]
  BY DEF Steps, RegistryInduction, TablesTyped
<1>2. workers[w] \in Worker
  BY <1>1
<1>3. CASE Return(w)
  BY <1>3, ReturnsQuietly
<1>4. CASE \E pc : workers' = [workers EXCEPT ![w] = Resting("maintain", pc)]
  <2>1. PICK pc : workers' = [workers EXCEPT ![w] = Resting("maintain", pc)]
    BY <1>4
  <2>2. Resting("maintain", pc).kind = "maintain"
    BY DEF Resting
  <2> QED
    BY <1>1, <2>1, <2>2 DEF OnlyMoves
<1>5. CASE \E e : workers' = [workers EXCEPT
             ![w].pc = "close", ![w].name = e[1], ![w].owner = Owner(e[2]),
             ![w].inc = None, ![w].left = left \ {e}]
  <2>1. PICK e : workers' = [workers EXCEPT
             ![w].pc = "close", ![w].name = e[1], ![w].owner = Owner(e[2]),
             ![w].inc = None, ![w].left = left \ {e}]
    BY <1>5
  <2>2. workers'[w].kind = workers[w].kind /\ \A v \in Workers \ {w} : workers'[v] = workers[v]
    BY <1>1, <1>2, <2>1 DEF Worker
  <2> QED
    BY <1>1, <2>2 DEF OnlyMoves
<1> QED
  BY <1>3, <1>4, <1>5 DEF Continue

LEMMA QuietUnseen ==
  ASSUME Steps, NEW w \in Workers, workers[w].kind # "shutdown",
         OnlyMoves(w), workers'[w].kind # "shutdown", OnlyFrees,
         UNCHANGED <<records, closing, allowed>>
  PROVE  LifeStep
BY Unseen DEF Steps, LifeStep

LEMMA BeginUnseen ==
  ASSUME Steps, NEW w \in Ops,
         \/ \E c \in Chats, n \in Names, v \in Versions : StartBegin(w, c, n, v)
         \/ \E n \in Names, o \in Owners : CloseBegin(w, n, o)
         \/ \E o \in Owners : CloseScopeBegin(w, o)
  PROVE  LifeStep
<1>1. /\ workers \in [Workers -> Worker] /\ workers' \in [Workers -> Worker]
      /\ RegistryInduction /\ TablesTyped /\ w \in Workers
  BY MaintainIsNoOp DEF Steps, RegistryInduction, TablesTyped
<1>2. /\ workers[w].pc = "idle" /\ UNCHANGED <<services, records, closing, allowed>>
      /\ \E to : workers' = [workers EXCEPT ![w] = to] /\ to.kind # "shutdown"
  <2>1. ASSUME NEW c \in Chats, NEW n \in Names, NEW v \in Versions
        PROVE  [Resting("start", "lock") EXCEPT !.name = n, !.chat = c, !.version = v].kind = "start"
    BY DEF Resting
  <2>2. ASSUME NEW n \in Names, NEW o \in Owners, NEW left
        PROVE  /\ [Resting("close", "close") EXCEPT !.name = n, !.owner = o].kind = "close"
               /\ [Resting("close", "close")
                    EXCEPT !.name = n, !.owner = o, !.left = left].kind = "close"
    BY DEF Resting
  <2>3. CASE \E c \in Chats, n \in Names, v \in Versions : StartBegin(w, c, n, v)
    <3>1. PICK c \in Chats, n \in Names, v \in Versions : StartBegin(w, c, n, v)
      BY <2>3
    <3> DEFINE to == [Resting("start", "lock") EXCEPT !.name = n, !.chat = c, !.version = v]
    <3>2. to.kind # "shutdown"
      BY <2>1
    <3>3. /\ workers' = [workers EXCEPT ![w] = to] /\ workers[w].pc = "idle"
          /\ UNCHANGED <<services, records, closing, allowed>>
      BY <3>1 DEF StartBegin
    <3> HIDE DEF to
    <3> QED
      BY <3>2, <3>3
  <2>4. CASE \E n \in Names, o \in Owners : CloseBegin(w, n, o)
    BY <2>2, <2>4 DEF CloseBegin
  <2>5. CASE \E o \in Owners : CloseScopeBegin(w, o)
    <3>1. PICK o \in Owners : CloseScopeBegin(w, o)
      BY <2>5
    <3> DEFINE mine == {e \in Snapshot : Owner(e[2]) = o}
               to(e) == [Resting("close", "close")
                          EXCEPT !.name = e[1], !.owner = o, !.left = mine \ {e}]
    <3>2. /\ workers[w].pc = "idle" /\ UNCHANGED <<services, records, closing, allowed>>
          /\ \E e \in mine : workers' = [workers EXCEPT ![w] = to(e)]
      BY <3>1 DEF CloseScopeBegin
    <3>3. \A e \in mine : to(e).kind # "shutdown"
      BY <2>2 DEF Snapshot
    <3> HIDE DEF to
    <3> QED
      BY <3>2, <3>3
  <2> QED
    BY <2>3, <2>4, <2>5
<1>3. workers[w].kind # "shutdown"
  BY <1>1, <1>2, KindOf
<1>4. OnlyMoves(w) /\ workers'[w].kind # "shutdown"
  BY <1>1, <1>2 DEF OnlyMoves
<1> QED
  BY <1>1, <1>2, <1>3, <1>4, QuietUnseen, TablesStay

LEMMA MaintainBeginUnseen ==
  ASSUME Steps, MaintainBegin
  PROVE  LifeStep
<1>1. /\ RegistryInduction /\ TablesTyped /\ Maintain \in Workers
      /\ workers[Maintain].kind # "shutdown"
  BY MaintainIsNoOp DEF Steps, RegistryInduction, KindsSound
<1>2. OnlyMoves(Maintain) /\ workers'[Maintain].kind # "shutdown"
  BY <1>1, ContinuesQuietly DEF MaintainBegin
<1> QED
  BY <1>1, <1>2, QuietUnseen, TablesStay DEF MaintainBegin

(* Worker w makes its move; some incarnations are told to stop.              *)
LEMMA TellsToStop ==
  ASSUME Steps, NEW w \in Workers, NEW some \in SUBSET Incarnations,
         OnlyMoves(w), UNCHANGED <<services, closing, allowed>>,
         workers[w].kind = "shutdown" => workers[w].pc # "ended",
         workers'[w].kind = "shutdown" => workers'[w].pc # "ended",
         \A i \in Incarnations :
           /\ records'[i].task = records[i].task /\ records'[i].name = records[i].name
           /\ records'[i].chat = records[i].chat
           /\ (records'[i].stop <=> records[i].stop \/ i \in some)
  PROVE  LifeStep
<1>1. RegistryInduction /\ TablesTyped'
  BY DEF Steps, RegistryInduction
<1>2. Stage' = Stage
  BY StageStays
<1> QED
  BY <1>1, <1>2, MarkedLeave DEF LifeStep

(* A start that is undone, or cancelled before it is.                        *)
LEMMA UndoIsStep ==
  ASSUME Steps, NEW w \in Workers, workers[w].pc = "ready", Goto(w, "undo"),
         records' = [records EXCEPT ![workers[w].inc].stop = TRUE],
         UNCHANGED <<services, closing, allowed>>
  PROVE  LifeStep
<1> DEFINE i == workers[w].inc
<1>1. /\ RegistryInduction /\ records \in [Incarnations -> Record]
      /\ workers \in [Workers -> Worker] /\ workers' \in [Workers -> Worker]
      /\ i \in Incarnations
  BY DEF Steps, RegistryInduction, TablesTyped, StartsSound
<1>2. workers[w].kind # "shutdown" /\ workers[w] \in Worker
  BY <1>1, KindOf
<1>3. OnlyMoves(w) /\ workers'[w].kind # "shutdown"
  BY <1>1, <1>2 DEF Goto, OnlyMoves, Worker
<1> HIDE DEF i
<1>4. /\ \A j \in Incarnations \ {i} : records'[j] = records[j]
      /\ records'[i] = [records[i] EXCEPT !.stop = TRUE]
  BY <1>1 DEF i
<1>5. ASSUME NEW j \in Incarnations
      PROVE  /\ records'[j].task = records[j].task /\ records'[j].name = records[j].name
             /\ records'[j].chat = records[j].chat
             /\ (records'[j].stop <=> records[j].stop \/ j \in {i})
  <2>1. records[j] \in Record
    BY <1>1
  <2>2. CASE j = i
    BY <1>4, <2>1, <2>2 DEF Record
  <2>3. CASE j # i
    <3>1. records'[j] = records[j] /\ records[j].stop \in BOOLEAN
      BY <1>4, <2>1, <2>3 DEF Record
    <3> QED
      BY <2>3, <3>1
  <2> QED
    BY <2>2, <2>3
<1> QED
  BY <1>1, <1>2, <1>3, <1>5, TellsToStop
LEMMA OpenStage ==
  ASSUME RegistryInduction, ~closing
  PROVE  Stage = "open"
BY MaintainIsNoOp DEF RegistryInduction, KindsSound, Stage

(* While a worker that is in no start holds the lock, all that lives is listed. *)
LEMMA AllListed ==
  ASSUME RegistryInduction, NEW w \in Workers, Held(w), workers[w].pc \notin {"ready", "undo"}
  PROVE  \A i \in Alive : services[records[i].name] = i
<1>1. \A v \in Workers : workers[v].pc \notin {"ready", "undo"}
  BY OnlyStart DEF Held, First
<1> QED
  BY <1>1 DEF RegistryInduction, LivingSound

(* ... each under a name of its own.                                         *)
LEMMA LivingFit ==
  ASSUME TablesTyped, \A i \in Alive : services[records[i].name] = i
  PROVE  /\ IsFiniteSet(Registered) /\ IsFiniteSet(Alive)
         /\ Cardinality(Alive) \in Nat /\ Cardinality(Registered) \in Nat
         /\ Cardinality(Alive) <= Cardinality(Registered)
<1> DEFINE f == [i \in Alive |-> records[i].name]
<1>1. IsFiniteSet(Registered)
  <2>1. Registered \in SUBSET Names
    BY DEF Registered
  <2> QED
    BY <2>1, FS_Subset, RegistryAssumption DEF RegistryAssumption
<1>2. ASSUME NEW i \in Alive PROVE records[i].name \in Registered
  <2>1. i \in Incarnations /\ i # None /\ records[i].name \in Names
    BY RegistryAssumption DEF Alive, RegistryAssumption, TablesTyped, Record
  <2> QED
    BY <2>1 DEF Registered
<1>3. f \in [Alive -> Registered]
  BY <1>2
<1>4. \A i, j \in Alive : f[i] = f[j] => i = j
  OBVIOUS
<1>5. f \in Injection(Alive, Registered)
  BY <1>3, <1>4 DEF Injection, IsInjective
<1>6. IsFiniteSet(Alive) /\ Cardinality(Alive) <= Cardinality(Registered)
  BY <1>1, <1>5, FS_Injection
<1> QED
  BY <1>1, <1>6, FS_CardinalityType

(* What happens to one incarnation, and to no other.                         *)
LEMMA OnePhase ==
  ASSUME NEW j \in Incarnations, \A i \in Incarnations \ {j} : PhaseOf(i)' = PhaseOf(i)
  PROVE  Phases' = [Phases EXCEPT ![j] = Phases'[j]]
<1>1. \A i \in Incarnations : Phases'[i] = PhaseOf(i)' /\ Phases[i] = PhaseOf(i)
  BY DEF Phases
<1>2. Phases' = [i \in Incarnations |-> Phases'[i]] /\ Phases = [i \in Incarnations |-> Phases[i]]
  BY DEF Phases
<1> QED
  BY <1>1, <1>2

LEMMA BeginIsStep ==
  ASSUME Steps, NEW w \in Workers, NEW j \in Incarnations, NEW new,
         workers[w].pc = "lock", Held(w), ~closing,
         services[workers[w].name] = None, Cardinality(Registered) < ServiceCapacity,
         records[j].task = "none",
         records' = [records EXCEPT ![j] = new],
         new.task = "starting", new.name = workers[w].name, new.chat = workers[w].chat,
         new.stop = FALSE,
         workers' = [workers EXCEPT ![w].pc = "ready", ![w].inc = j],
         UNCHANGED <<lock, services, closing, allowed>>
  PROVE  LifeStep
<1>1. RegistryInduction /\ TablesTyped /\ TablesTyped'
  BY DEF Steps, RegistryInduction
<1>2. workers[w] \in Worker /\ records \in [Incarnations -> Record]
  BY <1>1 DEF TablesTyped
<1>names. PICK n \in Names, c \in Chats : n = workers[w].name /\ c = workers[w].chat
  BY <1>2 DEF Worker
<1>3. records'[j] = new /\ \A i \in Incarnations \ {j} : records'[i] = records[i]
  BY <1>2
<1>4. Stage = "open" /\ Stage' = Stage
  <2>1. Stage = "open"
    BY <1>1, OpenStage
  <2>2. OnlyMoves(w) /\ workers'[w].kind = workers[w].kind
    BY <1>1, <1>2 DEF TablesTyped, OnlyMoves, Worker
  <2>3. workers[w].kind # "shutdown"
    BY <1>1, KindOf
  <2> QED
    BY <2>1, <2>2, <2>3, StageStays
<1>5. \A i \in Alive : services[records[i].name] = i
  BY <1>1, AllListed
<1>6. SLC!Living = Alive
  BY <1>1, LivingIsAlive
<1>7. \A i \in SLC!Living : [k \in Incarnations |-> records[k].name][i] # n
  <2>1. ASSUME NEW i \in Alive PROVE i \in Incarnations /\ records[i].name # n
    BY <1>names, <1>5, RegistryAssumption DEF Alive, RegistryAssumption
  <2> QED
    BY <1>6, <2>1
<1>8. SLC!Cardinality(SLC!Living) < ServiceCapacity
  BY <1>1, <1>5, <1>6, LivingFit, SameCardinality, RegistryAssumption DEF RegistryAssumption
<1>9. Phases[j] = "none"
  BY <1>1, PhaseCases DEF Phased
<1>10. Phases' = [Phases EXCEPT ![j] = "starting"]
  <2>1. ASSUME NEW i \in Incarnations \ {j} PROVE PhaseOf(i)' = PhaseOf(i)
    BY <1>3 DEF PhaseOf
  <2>2. Phases'[j] = "starting"
    <3>1. j \in Alive' /\ ~records'[j].stop /\ services'[records'[j].name] = None /\ j # None
      BY <1>3, RegistryAssumption DEF Alive, RegistryAssumption
    <3> QED
      BY <1>1, <3>1, PhaseCasesNext DEF Phased
  <2> QED
    BY <2>1, <2>2, OnePhase
<1>11. /\ [k \in Incarnations |-> records'[k].name]
            = [[k \in Incarnations |-> records[k].name] EXCEPT ![j] = n]
       /\ [k \in Incarnations |-> records'[k].chat]
            = [[k \in Incarnations |-> records[k].chat] EXCEPT ![j] = c]
  <2>1. \A k \in Incarnations :
          /\ records'[k].name = IF k = j THEN n ELSE records[k].name
          /\ records'[k].chat = IF k = j THEN c ELSE records[k].chat
    BY <1>names, <1>3
  <2> QED
    BY <2>1
<1>12. SLC!Begin(j, n, c)
  BY <1>4, <1>7, <1>8, <1>9, <1>10, <1>11 DEF SLC!Begin
<1>13. SLC!LNext
  BY <1>12 DEF SLC!LNext
<1> QED
  BY <1>13 DEF LifeStep

LEMMA StartLockedIsStep ==
  ASSUME Steps, NEW w \in Workers, StartLocked(w)
  PROVE  LifeStep
<1> DEFINE new == [task |-> "starting", name |-> workers[w].name, chat |-> workers[w].chat,
                   version |-> workers[w].version,
                   accepting |-> TRUE, draining |-> FALSE, stop |-> FALSE,
                   revoked |-> ~allowed[workers[w].chat]]
<1>1. /\ workers[w].pc = "lock" /\ Held(w) /\ UNCHANGED <<services, closing, allowed>>
      /\ RegistryInduction /\ TablesTyped
  BY DEF StartLocked, Steps, RegistryInduction
<1>2. new.task = "starting" /\ new.name = workers[w].name /\ new.chat = workers[w].chat
      /\ new.stop = FALSE
  OBVIOUS
<1> HIDE DEF new
<1>3. CASE Return(w) /\ UNCHANGED records
  <2>1. workers[w].kind # "shutdown"
    BY <1>1, KindOf
  <2> QED
    BY <1>1, <1>3, <2>1, ReturnsQuietly, QuietUnseen, TablesStay
<1>4. CASE /\ ~closing /\ services[workers[w].name] = None
           /\ Cardinality(Registered) < ServiceCapacity
           /\ \E j \in Unused :
                /\ records' = [records EXCEPT ![j] = new]
                /\ workers' = [workers EXCEPT ![w].pc = "ready", ![w].inc = j]
           /\ UNCHANGED lock
  <2>1. PICK j \in Unused :
          /\ records' = [records EXCEPT ![j] = new]
          /\ workers' = [workers EXCEPT ![w].pc = "ready", ![w].inc = j]
    BY <1>4
  <2>2. j \in Incarnations /\ records[j].task = "none"
    BY DEF Unused
  <2> QED
    BY <1>1, <1>2, <1>4, <2>1, <2>2, BeginIsStep
<1> QED
  BY <1>3, <1>4 DEF StartLocked, new, Suspend
(* What a start holds: not listed, and not told to stop before it is undone.   *)
LEMMA StartHolds ==
  ASSUME RegistryInduction, NEW w \in Workers, workers[w].pc = "ready"
  PROVE  /\ workers[w].inc \in Incarnations /\ workers[w].name \in Names
         /\ workers[w].kind # "shutdown"
         /\ records[workers[w].inc].name = workers[w].name
         /\ services[workers[w].name] = None
         /\ ~records[workers[w].inc].stop
BY KindOf DEF RegistryInduction, TablesTyped, StartsSound, Worker

LEMMA PublishIsStep ==
  ASSUME Steps, NEW w \in Workers, NEW i \in Incarnations, i = workers[w].inc,
         workers[w].pc = "ready", records[i].task = "serving", ~closing, Guard(i),
         services' = [services EXCEPT ![workers[w].name] = i], Return(w),
         UNCHANGED <<records, closing, allowed>>
  PROVE  LifeStep
<1>1. RegistryInduction /\ TablesTyped /\ TablesTyped' /\ Stage = "open"
  BY OpenStage DEF Steps, RegistryInduction
<1>2. /\ workers[w].name \in Names /\ workers[w].kind # "shutdown"
      /\ records[i].name = workers[w].name /\ services[workers[w].name] = None
      /\ ~records[i].stop
  BY <1>1, StartHolds
<1>3. Stage' = Stage
  BY <1>2, ReturnsQuietly, StageStays
<1>4. i \in Alive /\ i # None /\ i \in Alive' /\ ~records'[i].stop
  BY <1>2, RegistryAssumption DEF Alive, RegistryAssumption
<1>5. services \in [Names -> Incarnations \cup {None}]
  BY <1>1 DEF TablesTyped
<1>6. Phases[i] = "starting"
  BY <1>1, <1>2, <1>4, PhaseCases DEF Phased
<1>7. Phases'[i] = "published"
  <2>1. services'[records'[i].name] = i
    BY <1>2, <1>5
  <2> QED
    BY <1>1, <1>4, <2>1, PhaseCasesNext DEF Phased
<1>8. ASSUME NEW j \in Incarnations \ {i} PROVE PhaseOf(j)' = PhaseOf(j)
  <2>1. services'[records[j].name] = j <=> services[records[j].name] = j
    <3>1. records[j].name \in Names /\ j # None /\ j # i
      BY <1>1, RegistryAssumption DEF TablesTyped, Record, RegistryAssumption
    <3> QED
      BY <1>2, <1>5, <3>1
  <2> QED
    BY <2>1 DEF PhaseOf
<1>9. Phases' = [Phases EXCEPT ![i] = "published"]
  BY <1>7, <1>8, OnePhase
<1>10. allowed[[k \in Incarnations |-> records[k].chat][i]]
  BY DEF Guard
<1>11. SLC!Publish(i)
  BY <1>1, <1>3, <1>6, <1>9, <1>10 DEF SLC!Publish
<1>12. SLC!LNext
  BY <1>11 DEF SLC!LNext
<1> QED
  BY <1>12 DEF LifeStep

LEMMA StartReadyIsStep ==
  ASSUME Steps, NEW w \in Workers, StartReady(w)
  PROVE  LifeStep
<1>1. PICK i \in Incarnations : i = workers[w].inc
  BY StartHolds DEF Steps, StartReady
<1>2. CASE records[i].task = "serving" /\ ~closing /\ Guard(i)
  BY <1>1, <1>2, PublishIsStep DEF StartReady
<1>3. CASE ~(records[i].task = "serving" /\ ~closing /\ Guard(i))
  BY <1>1, <1>3, UndoIsStep DEF StartReady
<1> QED
  BY <1>2, <1>3

LEMMA StartUndoUnseen ==
  ASSUME Steps, NEW w \in Workers, StartUndo(w)
  PROVE  LifeStep
<1>1. /\ RegistryInduction /\ TablesTyped /\ workers[w].kind # "shutdown" /\ Return(w)
      /\ UNCHANGED <<services, records, closing, allowed>>
  BY KindOf DEF Steps, RegistryInduction, StartUndo
<1> QED
  BY <1>1, ReturnsQuietly, QuietUnseen, TablesStay

LEMMA CancelledIsStep ==
  ASSUME Steps, NEW w \in Ops, Cancelled(w)
  PROVE  LifeStep
<1>1. /\ RegistryInduction /\ TablesTyped /\ UNCHANGED <<services, closing, allowed>>
      /\ w \in Workers
  BY MaintainIsNoOp DEF Steps, RegistryInduction, Cancelled
<1>2. CASE workers[w].pc \in {"lock", "close"} /\ Return(w) /\ UNCHANGED records
  <2>1. workers[w].kind # "shutdown"
    BY <1>1, <1>2, KindOf
  <2> QED
    BY <1>1, <1>2, <2>1, ReturnsQuietly, QuietUnseen, TablesStay
<1>3. CASE /\ workers[w].pc = "ready" /\ Goto(w, "undo")
           /\ records' = [records EXCEPT ![workers[w].inc].stop = TRUE]
  BY <1>1, <1>3, UndoIsStep
<1> QED
  BY <1>2, <1>3 DEF Cancelled

(* What marking a record leaves as it was.                                   *)
LEMMA MarkedOne ==
  ASSUME NEW table \in [Incarnations -> Record], NEW i \in Incarnations
  PROVE  /\ \A j \in Incarnations \ {i} : Marked(table, i)[j] = table[j]
         /\ Marked(table, i)[i].task = table[i].task /\ Marked(table, i)[i].name = table[i].name
         /\ Marked(table, i)[i].chat = table[i].chat /\ Marked(table, i)[i].stop
BY DEF Marked, Record

LEMMA CloseLockedIsStep ==
  ASSUME Steps, NEW w \in Workers, CloseLocked(w)
  PROVE  LifeStep
<1>1. /\ RegistryInduction /\ TablesTyped /\ workers[w].kind # "shutdown"
      /\ workers[w].name \in Names /\ workers[w] \in Worker
      /\ workers \in [Workers -> Worker] /\ workers' \in [Workers -> Worker]
      /\ services \in [Names -> Incarnations \cup {None}]
      /\ records \in [Incarnations -> Record]
      /\ UNCHANGED <<services, closing, allowed>>
  BY KindOf DEF Steps, RegistryInduction, TablesTyped, Worker, CloseLocked
<1>2. PICK i \in Incarnations \cup {None} : i = services[workers[w].name]
  BY <1>1
<1>3. CASE /\ i # None /\ records' = Marked(records, i)
           /\ workers' = [workers EXCEPT ![w].pc = "await", ![w].inc = i]
  <2>1. i \in Incarnations
    BY <1>3
  <2>2. OnlyMoves(w) /\ workers'[w].kind # "shutdown"
    BY <1>1, <1>3 DEF OnlyMoves, Worker
  <2>3. ASSUME NEW j \in Incarnations
        PROVE  /\ records'[j].task = records[j].task /\ records'[j].name = records[j].name
               /\ records'[j].chat = records[j].chat
               /\ (records'[j].stop <=> records[j].stop \/ j \in {i})
    <3>1. CASE j = i
      BY <1>1, <1>3, <2>1, <3>1, MarkedOne
    <3>2. CASE j # i
      <4>1. records'[j] = records[j]
        BY <1>1, <1>3, <2>1, <3>2, MarkedOne
      <4> QED
        BY <3>2, <4>1
    <3> QED
      BY <3>1, <3>2
  <2> QED
    BY <1>1, <2>1, <2>2, <2>3, TellsToStop
<1>4. CASE Return(w) /\ UNCHANGED records
  BY <1>1, <1>4, ReturnsQuietly, QuietUnseen, TablesStay
<1>5. CASE Continue(w, workers[w].left, Without(w)) /\ UNCHANGED records
  BY <1>1, <1>5, ContinuesQuietly, QuietUnseen, TablesStay
<1> QED
  BY <1>2, <1>3, <1>4, <1>5 DEF CloseLocked

LEMMA CloseDoneUnseen ==
  ASSUME Steps, NEW w \in Workers, CloseDone(w)
  PROVE  LifeStep
<1> DEFINE left == IF w = Maintain /\ closing THEN {} ELSE workers[w].left
<1>1. /\ RegistryInduction /\ TablesTyped /\ workers[w].kind # "shutdown"
      /\ workers[w].name \in Names /\ records[workers[w].inc].task = "done"
      /\ Unlisted(workers[w].name, workers[w].inc)
      /\ Continue(w, left, lock) /\ UNCHANGED <<records, closing, allowed>>
  BY KindOf DEF Steps, RegistryInduction, TablesTyped, Worker, CloseDone
<1> HIDE DEF left
<1>2. OnlyFrees
  BY <1>1, UnlistedFrees
<1>3. OnlyMoves(w) /\ workers'[w].kind # "shutdown"
  BY <1>1, ContinuesQuietly
<1> QED
  BY <1>1, <1>2, <1>3, QuietUnseen
LEMMA ShutdownBeginIsStep ==
  ASSUME Steps, NEW w \in Ops, ShutdownBegin(w)
  PROVE  LifeStep
<1>1. /\ RegistryInduction /\ TablesTyped /\ ~closing /\ closing'
      /\ UNCHANGED <<services, records, allowed>>
      /\ workers' = [v \in Workers |->
           CASE v = w -> Resting("shutdown", "mark")
             [] v = Maintain /\ workers[v].pc # "await" -> Resting("maintain", "ended")
             [] OTHER -> workers[v]]
  BY DEF Steps, RegistryInduction, ShutdownBegin
<1>2. Stage = "open"
  BY <1>1, OpenStage
<1>3. \A v \in Ops : ~(workers'[v].kind = "shutdown" /\ workers'[v].pc = "ended")
  <2>1. ASSUME NEW v \in Ops PROVE ~(workers'[v].kind = "shutdown" /\ workers'[v].pc = "ended")
    <3>1. v \in Workers /\ v # Maintain
      BY MaintainIsNoOp
    <3>2. CASE v = w
      <4>1. workers'[v] = Resting("shutdown", "mark")
        BY <1>1, <3>1, <3>2
      <4> QED
        BY <4>1 DEF Resting
    <3>3. CASE v # w
      <4>1. workers'[v] = workers[v]
        BY <1>1, <3>1, <3>3
      <4>2. workers[v].kind # "shutdown"
        BY <1>1, <3>1 DEF RegistryInduction, KindsSound
      <4> QED
        BY <4>1, <4>2
    <3> QED
      BY <3>2, <3>3
  <2> QED
    BY <2>1
<1>4. Stage' = "closing"
  BY <1>1, <1>3 DEF Stage
<1>5. Phases' = Phases
  BY <1>1, TablesStay, PhasesStay
<1>6. SLC!Close
  BY <1>1, <1>2, <1>4, <1>5 DEF SLC!Close
<1>7. SLC!LNext
  BY <1>6 DEF SLC!LNext
<1> QED
  BY <1>7 DEF LifeStep

LEMMA ShutdownMarkIsStep ==
  ASSUME Steps, NEW w \in Workers, ShutdownMark(w)
  PROVE  LifeStep
<1> DEFINE listed == {i \in Incarnations : \E n \in Names : services[n] = i}
<1>1. /\ records \in [Incarnations -> Record] /\ workers[w] \in Worker
      /\ workers \in [Workers -> Worker] /\ workers' \in [Workers -> Worker]
      /\ workers[w].pc = "mark" /\ UNCHANGED <<services, closing, allowed>>
      /\ workers' = [workers EXCEPT ![w].pc = "next", ![w].left = Snapshot]
      /\ records' = [i \in Incarnations |->
           IF i \in listed THEN Marked(records, i)[i] ELSE records[i]]
  BY DEF Steps, RegistryInduction, TablesTyped, ShutdownMark
<1>2. OnlyMoves(w) /\ workers'[w].pc = "next"
  BY <1>1 DEF OnlyMoves, Worker
<1> HIDE DEF listed
<1>3. ASSUME NEW i \in Incarnations
      PROVE  /\ records'[i].task = records[i].task /\ records'[i].name = records[i].name
             /\ records'[i].chat = records[i].chat
             /\ (records'[i].stop <=> records[i].stop \/ i \in listed)
  <2>1. CASE i \in listed
    <3>1. records'[i] = Marked(records, i)[i]
      BY <1>1, <2>1
    <3> QED
      BY <1>1, <2>1, <3>1, MarkedOne
  <2>2. CASE i \notin listed
    <3>1. records'[i] = records[i]
      BY <1>1, <2>2
    <3> QED
      BY <2>2, <3>1
  <2> QED
    BY <2>1, <2>2
<1>4. listed \in SUBSET Incarnations
  BY DEF listed
<1>5. PICK some \in SUBSET Incarnations : some = listed
  BY <1>4
<1> QED
  BY <1>1, <1>2, <1>3, <1>5, TellsToStop

(* The shutdown that returns: everything it saw is unlisted, and no start is   *)
(* under way since it had the lock.                                          *)
LEMMA ShutdownEndsIsStep ==
  ASSUME Steps, NEW w \in Ops, workers[w].pc = "next", workers[w].kind = "shutdown",
         workers[w].left = {}, Return(w), UNCHANGED <<services, records, lock, closing, allowed>>
  PROVE  LifeStep
<1>1. /\ RegistryInduction /\ TablesTyped /\ closing /\ w \in Workers
      /\ workers \in [Workers -> Worker]
  BY MaintainIsNoOp DEF Steps, RegistryInduction, TablesTyped, KindsSound
<1>2. /\ \A v \in Workers : workers[v].pc \notin {"ready", "undo"}
      /\ \A n \in Names : services[n] = None
  BY <1>1 DEF RegistryInduction, ShutdownSound, MarkedAll
<1>3. Alive = {}
  <2>1. \A i \in Alive : records[i].name \in Names /\ i # None
    BY <1>1, RegistryAssumption DEF Alive, TablesTyped, Record, RegistryAssumption
  <2> QED
    BY <1>1, <1>2, <2>1 DEF RegistryInduction, LivingSound
<1>4. SLC!Living = {}
  BY <1>1, <1>3, LivingIsAlive
<1>5. Stage' = "closed"
  <2>1. workers'[w] = Resting("shutdown", "ended")
    BY <1>1 DEF Return
  <2>2. workers'[w].kind = "shutdown" /\ workers'[w].pc = "ended"
    BY <2>1 DEF Resting
  <2> QED
    BY <2>2 DEF Stage
<1>6. Phases' = Phases
  BY <1>1, TablesStay, PhasesStay
<1>7. CASE Stage = "closing"
  <2>1. SLC!Closed
    BY <1>4, <1>5, <1>6, <1>7 DEF SLC!Closed
  <2>2. SLC!LNext
    BY <2>1 DEF SLC!LNext
  <2> QED
    BY <2>2 DEF LifeStep
<1>8. CASE Stage # "closing"
  <2>1. Stage' = Stage
    BY <1>1, <1>5, <1>8 DEF Stage
  <2> QED
    BY <1>6, <2>1, SameCycle DEF LifeStep
<1> QED
  BY <1>7, <1>8

LEMMA ShutdownClosedIsStep ==
  ASSUME Steps, NEW w \in Workers, ShutdownClosed(w)
  PROVE  LifeStep
<1>1. /\ RegistryInduction /\ TablesTyped /\ w \in Ops
      /\ workers[w] \in Worker /\ workers \in [Workers -> Worker]
      /\ workers' \in [Workers -> Worker]
      /\ workers[w].pc = "next" /\ workers[w].kind = "shutdown"
      /\ UNCHANGED <<records, lock, closing, allowed>>
  BY KindOf DEF Steps, RegistryInduction, TablesTyped, ShutdownClosed, Suspend
<1>2. CASE \E e \in workers[w].left :
             /\ records[e[2]].task = "done"
             /\ Unlisted(e[1], e[2])
             /\ workers' = [workers EXCEPT ![w].left = @ \ {e}]
  <2>1. PICK e \in workers[w].left :
             /\ records[e[2]].task = "done"
             /\ Unlisted(e[1], e[2])
             /\ workers' = [workers EXCEPT ![w].left = @ \ {e}]
    BY <1>2
  <2>2. e[1] \in Names
    BY <1>1 DEF Worker
  <2>3. OnlyFrees
    BY <1>1, <2>1, <2>2, UnlistedFrees
  <2>4. OnlyMoves(w) /\ workers'[w].pc = "next"
    BY <1>1, <2>1 DEF OnlyMoves, Worker
  <2> QED
    BY <1>1, <2>3, <2>4, Unseen DEF LifeStep
<1>3. CASE workers[w].left = {} /\ Return(w) /\ UNCHANGED services
  BY <1>1, <1>3, ShutdownEndsIsStep
<1> QED
  BY <1>2, <1>3 DEF ShutdownClosed
(* A lifecycle task moves on: its phase changes when it ends, only then.        *)
LEMMA TaskIsStep ==
  ASSUME Steps, NEW i \in Alive, UNCHANGED <<services, workers, closing, allowed>>,
         \A j \in Incarnations \ {i} : records'[j] = records[j],
         records'[i].name = records[i].name, records'[i].chat = records[i].chat,
         records'[i].stop = records[i].stop,
         \/ records'[i].task = "serving"
         \/ records'[i].task = "done" /\ Phases[i] \in {"starting", "leaving"}
  PROVE  LifeStep
<1>1. RegistryInduction /\ TablesTyped /\ TablesTyped' /\ i \in Incarnations
  BY DEF Steps, RegistryInduction, Alive
<1>2. Stage' = Stage
  BY DEF Stage
<1>3. \A j \in Incarnations :
        records'[j].name = records[j].name /\ records'[j].chat = records[j].chat
  OBVIOUS
<1>4. \A j \in Incarnations \ {i} : PhaseOf(j)' = PhaseOf(j)
  BY DEF PhaseOf
<1>5. Phases' = [Phases EXCEPT ![i] = Phases'[i]]
  BY <1>1, <1>4, OnePhase
<1>6. CASE records'[i].task = "serving"
  <2>1. i \in Alive'
    BY <1>1, <1>6 DEF Alive
  <2>2. Phases'[i] = Phases[i]
    BY <1>1, <2>1, PhaseCases, PhaseCasesNext DEF Phased
  <2>3. Phases' = Phases
    BY <1>5, <2>2 DEF Phases
  <2> QED
    BY <1>2, <1>3, <2>3, SameCycle DEF LifeStep
<1>7. CASE records'[i].task = "done" /\ Phases[i] \in {"starting", "leaving"}
  <2>1. Phases'[i] = "gone"
    BY <1>1, <1>7, PhaseCasesNext DEF Phased
  <2>2. /\ [k \in Incarnations |-> records'[k].name] = [k \in Incarnations |-> records[k].name]
        /\ [k \in Incarnations |-> records'[k].chat] = [k \in Incarnations |-> records[k].chat]
    BY <1>3
  <2>3. SLC!End(i)
    BY <1>2, <1>5, <1>7, <2>1, <2>2 DEF SLC!End
  <2>4. SLC!LNext
    BY <1>1, <2>3 DEF SLC!LNext
  <2> QED
    BY <2>4 DEF LifeStep
<1> QED
  BY <1>6, <1>7

LEMMA LifecycleReadyIsStep ==
  ASSUME Steps, NEW i \in Incarnations, LifecycleReady(i)
  PROVE  LifeStep
<1>1. /\ TablesTyped /\ ListedSound /\ records \in [Incarnations -> Record]
      /\ records[i].task = "starting" /\ UNCHANGED <<services, workers, closing, allowed>>
  BY DEF Steps, RegistryInduction, TablesTyped, LifecycleReady
<1>2. PICK outcome \in {"serving", "done"} : records' = [records EXCEPT ![i].task = outcome]
  BY DEF LifecycleReady
<1>3. /\ \A j \in Incarnations \ {i} : records'[j] = records[j]
      /\ records'[i].name = records[i].name /\ records'[i].chat = records[i].chat
      /\ records'[i].stop = records[i].stop /\ records'[i].task = outcome
  BY <1>1, <1>2 DEF Record
<1>4. i \in Alive /\ i # None /\ records[i].name \in Names
  BY <1>1, RegistryAssumption DEF Alive, Record, RegistryAssumption
<1>5. services[records[i].name] # i
  BY <1>1, <1>4 DEF ListedSound
<1>6. Phases[i] \in {"starting", "leaving"}
  BY <1>1, <1>4, <1>5, PhaseCases DEF Phased
<1> QED
  BY <1>1, <1>2, <1>3, <1>4, <1>6, TaskIsStep

LEMMA LifecycleStopIsStep ==
  ASSUME Steps, NEW i \in Incarnations, LifecycleStop(i)
  PROVE  LifeStep
<1>1. /\ TablesTyped /\ records \in [Incarnations -> Record]
      /\ records[i].task = "serving" /\ records[i].stop
      /\ UNCHANGED <<services, workers, closing, allowed>>
  BY DEF Steps, RegistryInduction, TablesTyped, LifecycleStop
<1>2. i \in Alive /\ records[i] \in Record
  BY <1>1 DEF Alive
<1>3. Phases[i] = "leaving"
  BY <1>1, <1>2, PhaseCases DEF Phased
<1>4. /\ \A j \in Incarnations \ {i} : records'[j] = records[j]
      /\ records'[i].name = records[i].name /\ records'[i].chat = records[i].chat
      /\ records'[i].stop = records[i].stop /\ records'[i].task \in {"serving", "done"}
  <2>1. CASE records' = [records EXCEPT ![i].accepting = FALSE]
    BY <1>1, <1>2, <2>1 DEF Record
  <2>2. CASE records' = [records EXCEPT ![i].task = "done"]
    BY <1>1, <1>2, <2>2 DEF Record
  <2> QED
    BY <2>1, <2>2 DEF LifecycleStop
<1> QED
  BY <1>1, <1>2, <1>3, <1>4, TaskIsStep

LEMMA GuardChangesIsStep ==
  ASSUME Steps, NEW c \in Chats, GuardChanges(c)
  PROVE  LifeStep
<1>1. /\ records \in [Incarnations -> Record] /\ UNCHANGED <<services, closing, workers>>
      /\ allowed' = [allowed EXCEPT ![c] = ~@]
      /\ records' = [i \in Incarnations |->
           IF records[i].chat = c /\ records[i].task # "none"
           THEN [records[i] EXCEPT !.revoked = TRUE] ELSE records[i]]
  BY DEF Steps, RegistryInduction, TablesTyped, GuardChanges
<1>2. ASSUME NEW i \in Incarnations
      PROVE  /\ records'[i].task = records[i].task /\ records'[i].stop = records[i].stop
             /\ records'[i].name = records[i].name /\ records'[i].chat = records[i].chat
  BY <1>1 DEF Record
<1>3. \A i \in Incarnations : PhaseOf(i)' = PhaseOf(i)
  BY <1>1, <1>2 DEF PhaseOf
<1>4. Phases' = Phases
  BY <1>3 DEF Phases
<1>5. Stage' = Stage
  BY <1>1 DEF Stage
<1>6. /\ [k \in Incarnations |-> records'[k].name] = [k \in Incarnations |-> records[k].name]
      /\ [k \in Incarnations |-> records'[k].chat] = [k \in Incarnations |-> records[k].chat]
  BY <1>2
<1>7. SLC!Permit(c)
  BY <1>1, <1>4, <1>5, <1>6 DEF SLC!Permit
<1>8. SLC!LNext
  BY <1>7 DEF SLC!LNext
<1> QED
  BY <1>8 DEF LifeStep

LEMMA LifeBegins == RegistryInit => SLC!LInit
<1> SUFFICES ASSUME RegistryInit PROVE SLC!LInit
  OBVIOUS
<1>1. TablesTyped /\ RegistryInduction /\ ~closing /\ allowed = [c \in Chats |-> TRUE]
  BY InitSound DEF RegistryInit, RegistryInduction
<1>2. \A i \in Incarnations : records[i].task = "none"
  BY DEF RegistryInit
<1>3. Phases = [i \in Incarnations |-> "none"]
  <2>1. \A i \in Incarnations : Phases[i] = "none"
    BY <1>1, <1>2, PhaseCases DEF Phased
  <2> QED
    BY <2>1 DEF Phases
<1>4. Stage = "open"
  BY <1>1, OpenStage
<1>5. /\ [i \in Incarnations |-> records[i].name] \in [Incarnations -> Names]
      /\ [i \in Incarnations |-> records[i].chat] \in [Incarnations -> Chats]
  BY <1>1 DEF TablesTyped, Record
<1> QED
  BY <1>1, <1>3, <1>4, <1>5 DEF SLC!LInit

LEMMA NextIsStep == Steps /\ [RegistryNext]_rvars => [SLC!LNext]_(SLC!lvars)
<1> SUFFICES ASSUME Steps, [RegistryNext]_rvars PROVE LifeStep
  BY DEF LifeStep
<1>1. CASE \E w \in Ops : \/ \E c \in Chats, n \in Names, v \in Versions : StartBegin(w, c, n, v)
                          \/ \E n \in Names, o \in Owners : CloseBegin(w, n, o)
                          \/ \E o \in Owners : CloseScopeBegin(w, o)
  BY <1>1, BeginUnseen
<1>2. CASE \E w \in Ops : ShutdownBegin(w) \/ Cancelled(w)
  BY <1>2, ShutdownBeginIsStep, CancelledIsStep
<1>3. CASE MaintainBegin
  BY <1>3, MaintainBeginUnseen
<1>4. CASE \E w \in Workers : StartLocked(w) \/ StartReady(w) \/ StartUndo(w)
  BY <1>4, StartLockedIsStep, StartReadyIsStep, StartUndoUnseen
<1>5. CASE \E w \in Workers :
             CloseLocked(w) \/ CloseDone(w) \/ ShutdownMark(w) \/ ShutdownClosed(w)
  BY <1>5, CloseLockedIsStep, CloseDoneUnseen, ShutdownMarkIsStep, ShutdownClosedIsStep
<1>6. CASE \E i \in Incarnations : LifecycleReady(i) \/ LifecycleStop(i)
  BY <1>6, LifecycleReadyIsStep, LifecycleStopIsStep
<1>7. CASE \E c \in Chats : GuardChanges(c)
  BY <1>7, GuardChangesIsStep
<1>8. CASE UNCHANGED rvars
  BY <1>8 DEF rvars, LifeStep, SLC!lvars, Phases, PhaseOf, Stage
<1> QED
  BY <1>1, <1>2, <1>3, <1>4, <1>5, <1>6, <1>7, <1>8 DEF RegistryNext, OpStep, Lifecycle

(* The registry, with its lock and queue, its lifecycle tasks, cancellations,     *)
(* snapshots and shutdown, implements the life cycle of a service that           *)
(* ServiceLifeCycle promises (embassy_runtime.py).                            *)
THEOREM RegistryImplementsLifeCycle == RegistrySpec => ImplementsServiceLifeCycle
<1>1. RegistryInduction /\ RegistryInduction' /\ [RegistryNext]_rvars => [SLC!LNext]_(SLC!lvars)
  BY NextIsStep DEF Steps
<1> QED
  BY <1>1, LifeBegins, RegistryInductive, PTL
     DEF RegistrySpec, ImplementsServiceLifeCycle, SLC!LSpec

(* No step of the life cycle makes more live than there is room for.           *)
LEMMA CapacityKept ==
  ASSUME Steps, WithinCapacity, [SLC!LNext]_(SLC!lvars)
  PROVE  WithinCapacity'
<1>1. /\ TablesTyped /\ TablesTyped' /\ IsFiniteSet(Incarnations) /\ ServiceCapacity \in Nat
      /\ Alive \subseteq Incarnations
  BY RegistryAssumption DEF Steps, RegistryInduction, RegistryAssumption, Alive
<1>2. SLC!Living = Alive /\ SLC!Living' = Alive'
  <2>1. (TablesTyped => SLC!Living = Alive)'
    BY LivingIsAlive, PTL
  <2> QED
    BY <1>1, <2>1, LivingIsAlive
<1>3. IsFiniteSet(Alive) /\ Cardinality(Alive) \in Nat
  BY <1>1, FS_Subset, FS_CardinalityType
<1>4. CASE Alive' \subseteq Alive
  <2>1. Cardinality(Alive') <= Cardinality(Alive) /\ Cardinality(Alive') \in Nat
    BY <1>3, <1>4, FS_Subset, FS_CardinalityType
  <2> QED
    BY <1>1, <1>3, <2>1 DEF WithinCapacity
<1>5. ASSUME NEW i \in Incarnations, NEW n \in Names, NEW c \in Chats, SLC!Begin(i, n, c)
      PROVE  WithinCapacity'
  <2>1. Cardinality(Alive) < ServiceCapacity
    BY <1>2, <1>5, SameCardinality DEF SLC!Begin
  <2>2. Alive' \in SUBSET (Alive \cup {i})
    BY <1>2, <1>5 DEF SLC!Begin, SLC!Living
  <2>3. /\ IsFiniteSet(Alive \cup {i}) /\ Cardinality(Alive \cup {i}) \in Nat
        /\ Cardinality(Alive \cup {i}) <= Cardinality(Alive) + 1
    <3>1. /\ IsFiniteSet(Alive \cup {i})
          /\ Cardinality(Alive \cup {i})
               = IF i \in Alive THEN Cardinality(Alive) ELSE Cardinality(Alive) + 1
      BY <1>3, FS_AddElement
    <3> QED
      BY <1>3, <3>1
  <2>4. Cardinality(Alive') <= Cardinality(Alive \cup {i}) /\ Cardinality(Alive') \in Nat
    BY <2>2, <2>3, FS_Subset, FS_CardinalityType
  <2> QED
    BY <1>1, <1>3, <2>1, <2>3, <2>4 DEF WithinCapacity
<1>6. ASSUME NEW some \in SUBSET SLC!Stoppable, SLC!Leave(some) PROVE Alive' \subseteq Alive
  <2>1. \A i \in Incarnations : Phases'[i] = IF i \in some THEN "leaving" ELSE Phases[i]
    BY <1>6 DEF SLC!Leave
  <2>2. \A i \in some : Phases[i] \in {"starting", "published"}
    BY DEF SLC!Stoppable
  <2> QED
    BY <1>2, <2>1, <2>2 DEF SLC!Living
<1>7. ASSUME NEW i \in Incarnations, SLC!Publish(i) \/ SLC!End(i) PROVE Alive' \subseteq Alive
  <2>1. Phases[i] \in {"starting", "leaving"}
    BY <1>7 DEF SLC!Publish, SLC!End
  <2>2. \A j \in Incarnations \ {i} : Phases'[j] = Phases[j]
    BY <1>7 DEF SLC!Publish, SLC!End, Phases
  <2> QED
    BY <1>2, <2>1, <2>2 DEF SLC!Living
<1>8. ASSUME \/ \E c \in Chats : SLC!Permit(c)
             \/ SLC!Close \/ SLC!Closed \/ UNCHANGED SLC!lvars
      PROVE  Alive' \subseteq Alive
  BY <1>2, <1>8 DEF SLC!Permit, SLC!Close, SLC!Closed, SLC!lvars, SLC!Living
<1> QED
  BY <1>4, <1>5, <1>6, <1>7, <1>8 DEF SLC!LNext

LEMMA CapacityHolds == RegistrySpec => []WithinCapacity
<1>1. RegistryInit => WithinCapacity
  <2> SUFFICES ASSUME RegistryInit PROVE WithinCapacity
    OBVIOUS
  <2>1. Alive = {}
    BY DEF RegistryInit, Alive
  <2> QED
    BY <2>1, FS_EmptySet, RegistryAssumption DEF WithinCapacity, RegistryAssumption
<1>2. RegistryInduction /\ RegistryInduction' /\ WithinCapacity /\ [RegistryNext]_rvars
        => WithinCapacity'
  BY NextIsStep, CapacityKept DEF Steps
<1> QED
  BY <1>1, <1>2, RegistryInductive, PTL DEF RegistrySpec

(* Who runs on, if anybody does, is a worker.                                *)
LEMMA RunningHolds == RegistrySpec => []RunningTyped
<1>1. RegistryInit => RunningTyped
  BY DEF RegistryInit, RunningTyped
<1>2. RunningTyped /\ [RegistryNext]_rvars => RunningTyped'
  <2> SUFFICES ASSUME RunningTyped, [RegistryNext]_rvars PROVE RunningTyped'
    OBVIOUS
  <2>1. \A w \in Workers : \A q : Acquire(w, q) => RunningTyped'
    BY DEF Acquire, RunningTyped
  <2>2. \A q : Suspend(q) => RunningTyped'
    BY DEF Suspend, RunningTyped
  <2>3. ASSUME NEW w \in Workers, NEW left, NEW q, Continue(w, left, q) PROVE RunningTyped'
    <3>1. (\E v \in Workers : Acquire(v, q)) \/ Suspend(q)
      BY <2>3 DEF Continue
    <3> QED
      BY <2>1, <2>2, <3>1
  <2>4. CASE \E w \in Ops : \/ \E c \in Chats, n \in Names, v \in Versions : StartBegin(w, c, n, v)
                            \/ \E n \in Names, o \in Owners : CloseBegin(w, n, o)
                            \/ \E o \in Owners : CloseScopeBegin(w, o)
                            \/ ShutdownBegin(w)
    BY <2>1, <2>4, MaintainIsNoOp DEF StartBegin, CloseBegin, CloseScopeBegin, ShutdownBegin
  <2>5. CASE MaintainBegin
    BY <2>3, <2>5, MaintainIsNoOp DEF MaintainBegin
  <2>6. CASE \E w \in Workers :
               Cancelled(w) \/ StartLocked(w) \/ StartReady(w) \/ StartUndo(w)
    BY <2>2, <2>6 DEF Cancelled, StartLocked, StartReady, StartUndo
  <2>7. CASE \E w \in Workers :
               CloseLocked(w) \/ CloseDone(w) \/ ShutdownMark(w) \/ ShutdownClosed(w)
    BY <2>2, <2>3, <2>7 DEF CloseLocked, CloseDone, ShutdownMark, ShutdownClosed
  <2>8. CASE \/ \E i \in Incarnations : LifecycleReady(i) \/ LifecycleStop(i)
             \/ \E c \in Chats : GuardChanges(c)
             \/ UNCHANGED rvars
    BY <2>8 DEF LifecycleReady, LifecycleStop, GuardChanges, rvars, RunningTyped
  <2> QED
    BY <2>4, <2>5, <2>6, <2>7, <2>8, MaintainIsNoOp DEF RegistryNext, OpStep, Lifecycle
<1> QED
  BY <1>1, <1>2, PTL DEF RegistrySpec

(* Whatever operations meet, are cancelled or refused, no lifecycle task is      *)
(* orphaned, a name has one living incarnation, what is listed serves, no more    *)
(* live than there is room for, and when shutdown() has returned nothing lives,   *)
(* nothing is listed and no start is under way (embassy_runtime.py).            *)
THEOREM RegistryIsSound == RegistrySpec => []RegistryInvariant
<1>1. RegistryInduction /\ RunningTyped /\ WithinCapacity => RegistryInvariant
  BY InductionImplies DEF RegistryInvariant, RegistryTypeOK, TablesTyped, RunningTyped
<1> QED
  BY <1>1, RegistryInductive, RunningHolds, CapacityHolds, PTL

(* When shutdown() has returned nothing lives and nothing is listed, also if       *)
(* starts, closes or the maintenance were under way (close_all, 169-185).       *)
THEOREM ShutdownsAreComplete == RegistrySpec => []ShutdownIsComplete
BY RegistryInductive, InductionImplies, PTL
=============================================================================
