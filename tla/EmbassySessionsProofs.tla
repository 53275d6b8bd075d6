------------------------- MODULE EmbassySessionsProofs -------------------------
(***************************************************************************)
(* Theorems about the sessions of one published specialist, for any number  *)
(* of requests, origins and identifiers and any limits, with clean-ups that  *)
(* suspend and with those that do not.                                      *)
(***************************************************************************)
EXTENDS EmbassySessions, SequenceTheorems, FiniteSetTheorems, WellFoundedInduction, TLAPS

(* The table and the contexts fit each other.                                *)
TableSound(table, ctx) ==
  /\ table \in [Ids -> SessionRow] /\ ctx \in [Ids -> {"none", "live", "cleaned"}]
  /\ \A i \in Ids : table[i].state = "open" <=> ctx[i] = "live"
  /\ Cardinality(Open(table)) <= SessionLimit

(* The session of a running request is its own; only a clean-up that suspends  *)
(* lets it be removed under the request.                                     *)
Used(table, reqs) ==
  \A r \in Requests : reqs[r].pc = "run" =>
    /\ table[reqs[r].id].state # "free"
    /\ table[reqs[r].id].state = "open" =>
         table[reqs[r].id].active /\ table[reqs[r].id].origin = reqs[r].origin
    /\ ~suspends => table[reqs[r].id].state = "open"

(* A slot, and an identifier of its own, for each running request.           *)
SlotsSound ==
  /\ active = Cardinality(Running) /\ tasks = Running /\ active <= MaxConcurrency
  /\ \A r \in Running : requests[r].id \in Ids
  /\ \A r, q \in Running : r # q => requests[r].id # requests[q].id

(* No request starts once the drain has begun, and what it waits for covers   *)
(* those that run.                                                          *)
DrainSound ==
  /\ accepting <=> drain.pc = "open"
  /\ drain.pc \in {"waiting", "cancelling", "final"} => tasks \subseteq drain.awaited
  /\ drain.pc \in {"clearing", "stopped"} => tasks = {}
  /\ drain.pc = "stopped" => Open(sessions) = {}

NoSweep == ~suspends => \A r \in Requests : requests[r].pc # "sweep"

(* The remembered times of an origin are its last admissions, in order; those *)
(* that were dropped are out of the window.                                  *)
Remembered(times, let, t) ==
  \E m \in 0..Len(let) :
    /\ Len(times) = Len(let) - m
    /\ \A k \in 1..Len(times) : times[k] = let[k + m]
    /\ \A k \in 1..m : let[k] <= t - Window

Spaced(let) ==
  \A k \in 1..Len(let) : k + PerMinute <= Len(let) => let[k + PerMinute] - let[k] >= Window

RatesSound ==
  ~suspends => \A o \in Origins :
    /\ \A k \in 1..Len(admitted[o]) : admitted[o][k] <= now
    /\ Remembered(rates[o], admitted[o], now)
    /\ Spaced(admitted[o])

Induction ==
  /\ SessionTypeOK /\ SlotsSound /\ TableSound(sessions, contexts) /\ Used(sessions, requests)
  /\ DrainSound /\ NoSweep /\ RatesSound

-----------------------------------------------------------------------------
(* Sessions.                                                                 *)
LEMMA SomeOriginTyped == Origins # {} => SomeOrigin \in Origins
BY DEF SomeOrigin

LEMMA BlankTyped ==
  ASSUME NEW o \in Origins, NEW state \in {"free", "open", "gone"}
  PROVE  Blank(state) \in SessionRow
BY SomeOriginTyped DEF Blank, SessionRow

LEMMA PoppedShape ==
  ASSUME NEW S, SessionTypeOK
  PROVE  /\ Popped(S) \in [Ids -> SessionRow]
         /\ Cleaned(S) \in [Ids -> {"none", "live", "cleaned"}]
         /\ Open(Popped(S)) = Open(sessions) \ S
         /\ \A i \in Ids : i \notin S \/ sessions[i].state # "open" =>
              Popped(S)[i] = sessions[i] /\ Cleaned(S)[i] = contexts[i]
         /\ \A i \in Ids \cap S : sessions[i].state = "open" =>
              Popped(S)[i] = Blank("gone") /\ (contexts[i] = "live" => Cleaned(S)[i] = "cleaned")
<1>1. sessions \in [Ids -> SessionRow] /\ contexts \in [Ids -> {"none", "live", "cleaned"}]
  BY DEF SessionTypeOK
<1>2. \A i \in Ids : sessions[i] \in SessionRow /\ sessions[i].origin \in Origins
  BY <1>1 DEF SessionRow
<1>3. \A i \in Ids : Blank("gone") \in SessionRow
  BY <1>2, BlankTyped
<1>4. Popped(S) \in [Ids -> SessionRow] /\ Cleaned(S) \in [Ids -> {"none", "live", "cleaned"}]
  BY <1>1, <1>3 DEF Popped, Cleaned
<1>5. \A i \in Ids : i \notin S \/ sessions[i].state # "open" =>
        Popped(S)[i] = sessions[i] /\ Cleaned(S)[i] = contexts[i]
  BY DEF Popped, Cleaned, Open
<1>6. \A i \in Ids \cap S : sessions[i].state = "open" =>
        Popped(S)[i] = Blank("gone") /\ (contexts[i] = "live" => Cleaned(S)[i] = "cleaned")
  BY DEF Popped, Cleaned, Open
<1>7. Blank("gone").state = "gone"
  BY DEF Blank
<1>8. Open(Popped(S)) = Open(sessions) \ S
  BY <1>5, <1>6, <1>7 DEF Open
<1> QED
  BY <1>4, <1>5, <1>6, <1>8

(* Removing sessions keeps the tables sound, if those in use are spared where *)
(* nothing suspends.                                                        *)
LEMMA PoppedTable ==
  ASSUME NEW S, SessionTypeOK, TableSound(sessions, contexts)
  PROVE  TableSound(Popped(S), Cleaned(S))
<1>1. Blank("gone").state = "gone"
  BY DEF Blank
<1>2. \A i \in Ids : Popped(S)[i].state = "open" <=> Cleaned(S)[i] = "live"
  <2>1. TAKE i \in Ids
  <2>2. CASE i \in S /\ sessions[i].state = "open"
    <3>1. Popped(S)[i] = Blank("gone") /\ Cleaned(S)[i] = "cleaned"
      BY <2>2, PoppedShape DEF TableSound
    <3> QED
      BY <1>1, <3>1
  <2>3. CASE ~(i \in S /\ sessions[i].state = "open")
    <3>1. Popped(S)[i] = sessions[i] /\ Cleaned(S)[i] = contexts[i]
      BY <2>3, PoppedShape
    <3> QED
      BY <3>1 DEF TableSound
  <2> QED
    BY <2>2, <2>3
<1>3. Cardinality(Open(Popped(S))) <= SessionLimit
  <2>1. IsFiniteSet(Open(sessions)) /\ Open(Popped(S)) \subseteq Open(sessions)
    BY PoppedShape, SessionAssumption, FS_Subset DEF SessionAssumption, Open
  <2>2. /\ Cardinality(Open(Popped(S))) <= Cardinality(Open(sessions))
        /\ Cardinality(Open(sessions)) \in Nat /\ Cardinality(Open(Popped(S))) \in Nat
    BY <2>1, FS_Subset, FS_CardinalityType
  <2> QED
    BY <2>2, SessionAssumption DEF SessionAssumption, TableSound
<1> QED
  BY <1>2, <1>3, PoppedShape DEF TableSound

LEMMA PoppedUsed ==
  ASSUME NEW S, SessionTypeOK, SlotsSound, Used(sessions, requests),
         ~suspends => \A r \in Running : requests[r].id \notin S
  PROVE  Used(Popped(S), requests)
<1>1. Blank("gone").state = "gone"
  BY DEF Blank
<1>2. ASSUME NEW r \in Requests, requests[r].pc = "run"
      PROVE  /\ Popped(S)[requests[r].id].state # "free"
             /\ Popped(S)[requests[r].id].state = "open" =>
                  /\ Popped(S)[requests[r].id].active
                  /\ Popped(S)[requests[r].id].origin = requests[r].origin
             /\ ~suspends => Popped(S)[requests[r].id].state = "open"
  <2>1. requests[r].id \in Ids /\ (~suspends => requests[r].id \notin S)
    BY <1>2 DEF SlotsSound, Running
  <2>2. CASE requests[r].id \in S /\ sessions[requests[r].id].state = "open"
    BY <1>1, <2>1, <2>2, PoppedShape
  <2>3. CASE ~(requests[r].id \in S /\ sessions[requests[r].id].state = "open")
    <3>1. Popped(S)[requests[r].id] = sessions[requests[r].id]
      BY <2>1, <2>3, PoppedShape
    <3> QED
      BY <1>2, <3>1 DEF Used
  <2> QED
    BY <2>2, <2>3
<1> QED
  BY <1>2 DEF Used

(* A request that has ended holds no session.                                *)
LEMMA UsedFewer ==
  ASSUME NEW table, NEW reqs, NEW more, Used(table, more),
         \A r \in Requests : reqs[r].pc = "run" => reqs[r] = more[r]
  PROVE  Used(table, reqs)
BY DEF Used

LEMMA IdleTyped ==
  ASSUME NEW o \in Origins
  PROVE  IdleRequest \in RequestState /\ IdleRequest.pc = "idle"
BY SomeOriginTyped DEF IdleRequest, RequestState

-----------------------------------------------------------------------------
(* The sliding window: what Fresh() drops is out of it.                      *)
LEMMA LastOne ==
  ASSUME NEW n \in Nat, NEW S \in SUBSET (0..n), 0 \in S
  PROVE  \E k \in S : \A j \in S : j <= k
<1> DEFINE T == {n - j : j \in S}
           R == OpToRel(<, Nat)
<1>1. T \subseteq Nat /\ T # {}
  OBVIOUS
<1>2. IsWellFoundedOn(R, Nat)
  BY NatLessThanWellFounded
<1> HIDE DEF R
<1>3. \E x \in T : \A y \in T : ~ (<<y, x>> \in R)
  BY <1>1, <1>2, WFMin
<1>4. \A x, y \in Nat : y < x => <<y, x>> \in R
  BY DEF R, OpToRel
<1>5. PICK k \in S : \A j \in S : ~ (<<n - j, n - k>> \in R)
  BY <1>3
<1>6. ASSUME NEW j \in S PROVE j <= k
  <2>1. j \in 0..n /\ k \in 0..n
    OBVIOUS
  <2>2. n - j \in Nat /\ n - k \in Nat
    BY <2>1
  <2>3. ~ (n - j < n - k)
    BY <1>4, <1>5, <2>2
  <2> QED
    BY <2>1, <2>3
<1> QED
  BY <1>5, <1>6

LEMMA FreshIsSuffix ==
  ASSUME NEW o \in Origins, NEW t \in Nat, rates[o] \in Seq(Nat)
  PROVE  \E m \in 0..Len(rates[o]) :
           /\ Fresh(o, t) = SubSeq(rates[o], m + 1, Len(rates[o]))
           /\ \A j \in 1..m : rates[o][j] <= t - Window
<1> DEFINE q == rates[o]
           old == {k \in 0..Len(q) : \A j \in 1..k : q[j] <= t - Window}
           last == CHOOSE k \in old : \A j \in old : j <= k
<1>1. Len(q) \in Nat
  BY LenProperties
<1>2. 0 \in old /\ old \in SUBSET (0..Len(q))
  BY <1>1
<1> HIDE DEF old
<1>3. \E k \in old : \A j \in old : j <= k
  BY <1>1, <1>2, LastOne
<1>4. last \in old
  BY <1>3
<1>5. Fresh(o, t) = SubSeq(q, last + 1, Len(q))
  BY DEF Fresh, old
<1> HIDE DEF last
<1> QED
  BY <1>4, <1>5 DEF old

LEMMA FreshTyped ==
  ASSUME NEW o \in Origins, NEW t \in Nat, rates[o] \in Seq(Nat)
  PROVE  Fresh(o, t) \in Seq(Nat)
<1>1. PICK m \in 0..Len(rates[o]) : Fresh(o, t) = SubSeq(rates[o], m + 1, Len(rates[o]))
  BY FreshIsSuffix
<1>2. \A i \in (m + 1)..Len(rates[o]) : rates[o][i] \in Nat
  BY LenProperties, ElementOfSeq
<1> QED
  BY <1>1, <1>2, LenProperties, SubSeqProperties
LEMMA FreshShape ==
  ASSUME NEW o \in Origins, NEW t \in Nat, rates[o] \in Seq(Nat)
  PROVE  /\ Fresh(o, t) \in Seq(Nat)
         /\ \E m \in 0..Len(rates[o]) :
              /\ Len(Fresh(o, t)) = Len(rates[o]) - m
              /\ \A k \in 1..Len(Fresh(o, t)) : Fresh(o, t)[k] = rates[o][k + m]
              /\ \A j \in 1..m : rates[o][j] <= t - Window
<1> DEFINE q == rates[o]
           f == Fresh(o, t)
<1>1. PICK m \in 0..Len(q) : f = SubSeq(q, m + 1, Len(q)) /\ \A j \in 1..m : q[j] <= t - Window
  BY FreshIsSuffix
<1>2. f \in Seq(Nat)
  BY FreshTyped
<1>3. Len(q) \in Nat /\ m \in Nat /\ m <= Len(q)
  BY LenProperties
<1> HIDE DEF q, f
<1>4. q \in Seq(Nat)
  BY DEF q
<1>5. \A i \in (m + 1)..Len(q) : q[i] \in Nat
  BY <1>3, <1>4, LenProperties, ElementOfSeq
<1>6. Len(f) = Len(q) - m /\ \A k \in 1..Len(f) : f[k] = q[m + k]
  <2>1. CASE m + 1 <= Len(q) + 1
    <3>1. /\ Len(SubSeq(q, m + 1, Len(q))) = Len(q) - (m + 1) + 1
          /\ \A i \in 1..(Len(q) - (m + 1) + 1) :
               SubSeq(q, m + 1, Len(q))[i] = q[(m + 1) + i - 1]
      BY <1>3, <1>4, <1>5, <2>1, SubSeqProperties
    <3>2. Len(f) = Len(q) - m
      BY <1>1, <1>3, <3>1
    <3>3. \A k \in 1..Len(f) : f[k] = q[(m + 1) + k - 1]
      BY <1>1, <1>3, <3>1, <3>2
    <3>4. ASSUME NEW k \in 1..Len(f) PROVE f[k] = q[m + k]
      <4>1. (m + 1) + k - 1 = m + k
        BY <1>3
      <4> QED
        BY <3>3, <4>1
    <3> QED
      BY <3>2, <3>4
  <2> QED
    BY <1>3, <2>1
<1>7. ASSUME NEW k \in 1..Len(f) PROVE f[k] = q[k + m]
  <2>1. m + k = k + m
    BY <1>3
  <2> QED
    BY <1>6, <2>1
<1> QED
  BY <1>1, <1>2, <1>6, <1>7 DEF f, q

(* Pruning forgets only what is out of the window.                           *)
LEMMA PrunedIsRemembered ==
  ASSUME NEW o \in Origins, now \in Nat, rates[o] \in Seq(Nat), admitted[o] \in Seq(Nat),
         Remembered(rates[o], admitted[o], now)
  PROVE  Remembered(Fresh(o, now), admitted[o], now)
<1> DEFINE q == rates[o]
           f == Fresh(o, now)
           a == admitted[o]
<1>1. PICK m \in 0..Len(q) : /\ Len(f) = Len(q) - m
                             /\ \A k \in 1..Len(f) : f[k] = q[k + m]
                             /\ \A j \in 1..m : q[j] <= now - Window
  BY FreshShape
<1>2. PICK p \in 0..Len(a) : /\ Len(q) = Len(a) - p
                             /\ \A k \in 1..Len(q) : q[k] = a[k + p]
                             /\ \A k \in 1..p : a[k] <= now - Window
  BY DEF Remembered
<1>3. Len(q) \in Nat /\ Len(a) \in Nat /\ m \in Nat /\ p \in Nat /\ m <= Len(q) /\ p <= Len(a)
  BY LenProperties
<1> HIDE DEF q, f, a
<1>4. m + p \in 0..Len(a) /\ Len(f) = Len(a) - (m + p)
  BY <1>1, <1>2, <1>3
<1>5. ASSUME NEW k \in 1..Len(f) PROVE f[k] = a[k + (m + p)]
  <2>1. k \in Nat /\ k + m \in 1..Len(q) /\ (k + m) + p = k + (m + p)
    BY <1>1, <1>3
  <2>2. f[k] = q[k + m] /\ q[k + m] = a[(k + m) + p]
    BY <1>1, <1>2, <2>1
  <2> QED
    BY <2>1, <2>2
<1>6. ASSUME NEW k \in 1..(m + p) PROVE a[k] <= now - Window
  <2>1. CASE k <= p
    BY <1>2, <1>3, <2>1
  <2>2. CASE k > p
    <3>1. k - p \in 1..m /\ k - p \in 1..Len(q) /\ (k - p) + p = k
      BY <1>3, <2>2
    <3>2. q[k - p] = a[(k - p) + p] /\ q[k - p] <= now - Window
      BY <1>1, <1>2, <3>1
    <3> QED
      BY <3>1, <3>2
  <2> QED
    BY <1>3, <2>1, <2>2
<1>7. Remembered(f, a, now)
  BY <1>4, <1>5, <1>6 DEF Remembered
<1> QED
  BY <1>7 DEF f, a

(* An admission below the rate keeps the admissions spaced.                  *)
LEMMA ChargedIsSpaced ==
  ASSUME NEW f \in Seq(Nat), NEW a \in Seq(Nat), now \in Nat, Len(f) < PerMinute,
         Remembered(f, a, now), Spaced(a)
  PROVE  Remembered(Append(f, now), Append(a, now), now) /\ Spaced(Append(a, now))
<1> DEFINE g == Append(f, now)
           b == Append(a, now)
<1>1. PICK m \in 0..Len(a) : /\ Len(f) = Len(a) - m
                             /\ \A k \in 1..Len(f) : f[k] = a[k + m]
                             /\ \A k \in 1..m : a[k] <= now - Window
  BY DEF Remembered
<1>2. Len(f) \in Nat /\ Len(a) \in Nat /\ m \in Nat /\ m <= Len(a) /\ PerMinute \in Nat /\ Window \in Nat
  BY LenProperties, SessionAssumption DEF SessionAssumption
<1>3. /\ Len(g) = Len(f) + 1 /\ g[Len(f) + 1] = now /\ \A k \in 1..Len(f) : g[k] = f[k]
      /\ Len(b) = Len(a) + 1 /\ b[Len(a) + 1] = now /\ \A k \in 1..Len(a) : b[k] = a[k]
  BY AppendProperties
<1>4. \A k \in 1..Len(a) : a[k] \in Nat
  BY ElementOfSeq, LenProperties
<1> HIDE DEF g, b
<1>5. Remembered(g, b, now)
  <2>1. m \in 0..Len(b) /\ Len(g) = Len(b) - m
    BY <1>1, <1>2, <1>3
  <2>2. ASSUME NEW k \in 1..Len(g) PROVE g[k] = b[k + m]
    <3>1. CASE k <= Len(f)
      <4>1. k \in 1..Len(f) /\ k + m \in 1..Len(a)
        BY <1>1, <1>2, <1>3, <3>1
      <4> QED
        BY <1>1, <1>3, <4>1
    <3>2. CASE k = Len(f) + 1
      <4>1. k + m = Len(a) + 1
        BY <1>1, <1>2, <3>2
      <4> QED
        BY <1>3, <3>2, <4>1
    <3> QED
      BY <1>2, <1>3, <3>1, <3>2, SMTT(30)
  <2>3. ASSUME NEW k \in 1..m PROVE b[k] <= now - Window
    <3>1. k \in 1..Len(a)
      BY <1>2
    <3> QED
      BY <1>1, <1>3, <3>1
  <2> QED
    BY <2>1, <2>2, <2>3 DEF Remembered
<1>6. ASSUME NEW k \in 1..Len(b), k + PerMinute <= Len(b)
      PROVE  b[k + PerMinute] - b[k] >= Window
  <2>1. CASE k + PerMinute <= Len(a)
    <3>1. k \in 1..Len(a) /\ k + PerMinute \in 1..Len(a)
      BY <1>2, <1>3, <2>1
    <3>2. a[k + PerMinute] - a[k] >= Window
      BY <2>1, <3>1 DEF Spaced
    <3>3. b[k] = a[k] /\ b[k + PerMinute] = a[k + PerMinute]
      BY <1>3, <3>1
    <3> QED
      BY <3>2, <3>3
  <2>2. CASE k + PerMinute = Len(a) + 1
    <3>1. k \in 1..m /\ k \in 1..Len(a)
      BY <1>1, <1>2, <1>3, <2>2
    <3>2. b[k] = a[k] /\ a[k] <= now - Window /\ b[k + PerMinute] = now /\ a[k] \in Nat
      BY <1>1, <1>3, <1>4, <2>2, <3>1
    <3>3. now - a[k] >= Window
      BY <1>2, <3>2
    <3>4. b[k + PerMinute] - b[k] = now - a[k]
      BY <3>2
    <3> QED
      BY <3>3, <3>4
  <2>3. k + PerMinute <= Len(a) \/ k + PerMinute = Len(a) + 1
    <3>1. k \in Nat /\ k + PerMinute <= Len(b) /\ Len(b) = Len(a) + 1
      BY <1>2, <1>3, <1>6
    <3> QED
      BY <1>2, <3>1
  <2> QED
    BY <2>1, <2>2, <2>3
<1>7. Spaced(b)
  BY <1>6 DEF Spaced
<1> QED
  BY <1>5, <1>7 DEF g, b
LEMMA FreshIsTyped ==
  ASSUME NEW t \in Nat, SessionTypeOK
  PROVE  \A p \in Origins : Fresh(p, t) \in Seq(Nat)
<1> SUFFICES ASSUME NEW p \in Origins PROVE Fresh(p, t) \in Seq(Nat)
  OBVIOUS
<1>1. rates[p] \in Seq(Nat)
  BY DEF SessionTypeOK
<1> QED
  BY <1>1, FreshShape

(* A decision with the time just read leaves the rates as they should be.     *)
LEMMA DecideRates ==
  ASSUME NEW r, NEW o \in Origins, NEW sid, NEW t \in Nat, NEW table, NEW ctx,
         SessionTypeOK, RatesSound, ~suspends => t = now,
         Decide(r, o, sid, t, table, ctx)
  PROVE  /\ rates' \in [Origins -> Seq(Nat)] /\ admitted' \in [Origins -> Seq(Nat)]
         /\ ~suspends => \A p \in Origins :
              /\ \A k \in 1..Len(admitted'[p]) : admitted'[p][k] <= now
              /\ Remembered(rates'[p], admitted'[p], now)
              /\ Spaced(admitted'[p])
<1>1. /\ rates \in [Origins -> Seq(Nat)] /\ admitted \in [Origins -> Seq(Nat)] /\ now \in Nat
      /\ \A p \in Origins : rates[p] \in Seq(Nat) /\ admitted[p] \in Seq(Nat)
  BY DEF SessionTypeOK
<1>2. \A p \in Origins : Fresh(p, t) \in Seq(Nat)
  BY FreshIsTyped
<1>3. ASSUME ~suspends, NEW p \in Origins
      PROVE  /\ \A k \in 1..Len(admitted[p]) : admitted[p][k] <= now
             /\ Remembered(rates[p], admitted[p], now) /\ Spaced(admitted[p])
             /\ Remembered(Fresh(p, t), admitted[p], now)
  <2>1. /\ \A k \in 1..Len(admitted[p]) : admitted[p][k] <= now
        /\ Remembered(rates[p], admitted[p], now) /\ Spaced(admitted[p]) /\ t = now
    BY <1>3 DEF RatesSound
  <2> QED
    BY <1>1, <2>1, PrunedIsRemembered
<1>4. CASE Refuse(r, o, sid, t, table, ctx)
  <2>1. admitted' = admitted /\ (rates' = [p \in Origins |-> Fresh(p, t)] \/ rates' = rates)
    BY <1>4 DEF Refuse
  <2>2. rates' \in [Origins -> Seq(Nat)] /\ admitted' \in [Origins -> Seq(Nat)]
    BY <1>1, <1>2, <2>1
  <2>3. \A p \in Origins : rates'[p] = Fresh(p, t) \/ rates'[p] = rates[p]
    BY <2>1
  <2> QED
    BY <1>3, <2>1, <2>2, <2>3
<1>5. CASE Enter(r, o, sid, t, table, ctx)
  <2>1. /\ rates' = [p \in Origins |-> IF p = o THEN Append(Fresh(p, t), t) ELSE Fresh(p, t)]
        /\ admitted' = [admitted EXCEPT ![o] = Append(admitted[o], now)]
        /\ Len(Fresh(o, t)) < PerMinute
    BY <1>5 DEF Enter, Charge, Allowed
  <2>2. Append(Fresh(o, t), t) \in Seq(Nat) /\ Append(admitted[o], now) \in Seq(Nat)
    BY <1>1, <1>2, AppendProperties
  <2>3. rates' \in [Origins -> Seq(Nat)] /\ admitted' \in [Origins -> Seq(Nat)]
    BY <1>1, <1>2, <2>1, <2>2
  <2>4. /\ rates'[o] = Append(Fresh(o, t), t) /\ admitted'[o] = Append(admitted[o], now)
        /\ \A p \in Origins \ {o} : rates'[p] = Fresh(p, t) /\ admitted'[p] = admitted[p]
    BY <1>1, <2>1
  <2>5. ASSUME ~suspends
        PROVE  /\ \A k \in 1..Len(admitted'[o]) : admitted'[o][k] <= now
               /\ Remembered(rates'[o], admitted'[o], now) /\ Spaced(admitted'[o])
    <3>1. t = now
      BY <2>5
    <3>2. Remembered(rates'[o], admitted'[o], now) /\ Spaced(admitted'[o])
      BY <1>1, <1>2, <1>3, <2>1, <2>4, <2>5, <3>1, ChargedIsSpaced
    <3>3. /\ Len(Append(admitted[o], now)) = Len(admitted[o]) + 1
          /\ Append(admitted[o], now)[Len(admitted[o]) + 1] = now
          /\ \A k \in 1..Len(admitted[o]) : Append(admitted[o], now)[k] = admitted[o][k]
          /\ Len(admitted[o]) \in Nat
      BY <1>1, AppendProperties, LenProperties
    <3>4. \A k \in 1..Len(admitted[o]) : admitted[o][k] <= now
      BY <1>3, <2>5
    <3>5. ASSUME NEW k \in 1..(Len(admitted[o]) + 1)
          PROVE  Append(admitted[o], now)[k] <= now
      <4>1. CASE k \in 1..Len(admitted[o])
        BY <3>3, <3>4, <4>1
      <4>2. CASE k = Len(admitted[o]) + 1
        BY <1>1, <3>3, <4>2
      <4> QED
        BY <3>3, <4>1, <4>2
    <3> QED
      BY <2>4, <3>2, <3>3, <3>5
  <2> QED
    BY <1>3, <2>3, <2>4, <2>5
<1> QED
  BY <1>4, <1>5 DEF Decide

LEMMA RatesKept ==
  ASSUME SessionTypeOK, RatesSound, rates' = rates, admitted' = admitted, suspends' = suspends,
         now' \in Nat, now <= now'
  PROVE  RatesSound'
<1>1. ASSUME ~suspends, NEW p \in Origins
      PROVE  /\ \A k \in 1..Len(admitted[p]) : admitted[p][k] <= now'
             /\ Remembered(rates[p], admitted[p], now')
             /\ Spaced(admitted[p])
  <2>1. /\ \A k \in 1..Len(admitted[p]) : admitted[p][k] <= now
        /\ Remembered(rates[p], admitted[p], now) /\ Spaced(admitted[p])
    BY <1>1 DEF RatesSound
  <2>2. /\ admitted[p] \in Seq(Nat) /\ Len(admitted[p]) \in Nat /\ now \in Nat /\ Window \in Nat
        /\ \A k \in 1..Len(admitted[p]) : admitted[p][k] \in Nat
    BY SessionAssumption, LenProperties, ElementOfSeq DEF SessionTypeOK, SessionAssumption
  <2>3. \A k \in 1..Len(admitted[p]) : admitted[p][k] <= now'
    BY <2>1, <2>2
  <2>4. PICK m \in 0..Len(admitted[p]) :
          /\ Len(rates[p]) = Len(admitted[p]) - m
          /\ \A k \in 1..Len(rates[p]) : rates[p][k] = admitted[p][k + m]
          /\ \A k \in 1..m : admitted[p][k] <= now - Window
    BY <2>1 DEF Remembered
  <2>5. ASSUME NEW k \in 1..m PROVE admitted[p][k] <= now' - Window
    <3>1. k \in 1..Len(admitted[p])
      BY <2>2
    <3>2. admitted[p][k] <= now - Window /\ admitted[p][k] \in Nat
      BY <2>2, <2>4, <3>1
    <3> QED
      BY <2>2, <3>2, SMTT(30)
  <2>6. Remembered(rates[p], admitted[p], now')
    BY <2>4, <2>5 DEF Remembered
  <2> QED
    BY <2>1, <2>3, <2>6
<1> QED
  BY <1>1 DEF RatesSound, Remembered, Spaced
-----------------------------------------------------------------------------
(* Slots.                                                                    *)
LEMMA RunningIsFinite == IsFiniteSet(Running) /\ Cardinality(Running) \in Nat
BY SessionAssumption, FS_Subset, FS_CardinalityType DEF SessionAssumption, Running

(* A request that does not run, and does not start, leaves the slots alone.   *)
LEMMA WaitingSlots ==
  ASSUME NEW r \in Requests, NEW v \in RequestState, SessionTypeOK, SlotsSound,
         requests[r].pc # "run", v.pc # "run",
         requests' = [requests EXCEPT ![r] = v], active' = active, tasks' = tasks
  PROVE  /\ requests' \in [Requests -> RequestState] /\ SlotsSound'
         /\ Running' = Running
         /\ \A q \in Requests : requests'[q].pc = "run" => requests'[q] = requests[q]
<1>1. requests \in [Requests -> RequestState]
  BY DEF SessionTypeOK
<1>2. requests' \in [Requests -> RequestState] /\ requests'[r] = v
      /\ \A q \in Requests \ {r} : requests'[q] = requests[q]
  BY <1>1
<1>3. \A q \in Requests : requests'[q].pc = "run" => requests'[q] = requests[q]
  BY <1>2
<1>4. Running' = Running
  BY <1>2 DEF Running
<1>5. \A q \in Running : requests'[q] = requests[q] /\ q \in Requests
  BY <1>2 DEF Running
<1>6. SlotsSound'
  BY <1>4, <1>5 DEF SlotsSound
<1> QED
  BY <1>2, <1>3, <1>4, <1>6

LEMMA TakeSlots ==
  ASSUME NEW r \in Requests, NEW o \in Origins, NEW i \in Ids, SessionTypeOK, SlotsSound,
         requests[r].pc # "run", active < MaxConcurrency, Take(r, o, i),
         \A q \in Running : requests[q].id # i
  PROVE  /\ requests' \in [Requests -> RequestState] /\ active' \in Nat /\ tasks' \subseteq Requests
         /\ SlotsSound'
         /\ requests'[r].pc = "run" /\ requests'[r].id = i /\ requests'[r].origin = o
         /\ \A q \in Requests \ {r} : requests'[q] = requests[q]
<1> DEFINE v == [IdleRequest EXCEPT !.pc = "run", !.origin = o, !.id = i]
<1>1. requests \in [Requests -> RequestState] /\ active \in Nat /\ tasks \subseteq Requests
  BY DEF SessionTypeOK
<1>2. IdleRequest \in RequestState
  BY IdleTyped
<1>3. v \in RequestState /\ v.pc = "run" /\ v.id = i /\ v.origin = o
  BY <1>2 DEF RequestState
<1>4. active' = active + 1 /\ tasks' = tasks \cup {r} /\ requests' = [requests EXCEPT ![r] = v]
  BY DEF Take
<1> HIDE DEF v
<1>5. /\ requests' \in [Requests -> RequestState] /\ requests'[r] = v
      /\ \A q \in Requests \ {r} : requests'[q] = requests[q]
  BY <1>1, <1>3, <1>4
<1>6. Running' = Running \cup {r} /\ r \notin Running
  <2>1. \A q \in Requests : q \in Running' <=> q \in Running \/ q = r
    BY <1>3, <1>5 DEF Running
  <2>2. r \notin Running /\ Running \subseteq Requests /\ Running' \subseteq Requests
    BY DEF Running
  <2> QED
    BY <2>1, <2>2
<1>7. Cardinality(Running') = Cardinality(Running) + 1
  BY <1>6, RunningIsFinite, FS_AddElement
<1>8. active' = Cardinality(Running') /\ tasks' = Running' /\ active' <= MaxConcurrency
  BY <1>1, <1>4, <1>6, <1>7, SessionAssumption DEF SlotsSound, SessionAssumption
<1>9. \A q \in Running : q # r /\ requests'[q] = requests[q]
  BY <1>5, <1>6 DEF Running
<1>10. /\ \A q \in Running' : requests'[q].id \in Ids
       /\ \A q, p \in Running' : q # p => requests'[q].id # requests'[p].id
  BY <1>3, <1>5, <1>6, <1>9 DEF SlotsSound
<1>11. SlotsSound'
  BY <1>8, <1>10 DEF SlotsSound
<1> QED
  BY <1>1, <1>3, <1>4, <1>5, <1>11

LEMMA ReleaseSlots ==
  ASSUME NEW r \in Requests, SessionTypeOK, SlotsSound, requests[r].pc = "run", Release(r)
  PROVE  /\ requests' \in [Requests -> RequestState] /\ active' \in Nat
         /\ tasks' \subseteq tasks /\ SlotsSound'
         /\ \A q \in Requests : requests'[q].pc = "run" => q # r /\ requests'[q] = requests[q]
<1>1. requests \in [Requests -> RequestState] /\ active \in Nat /\ tasks \subseteq Requests
  BY DEF SessionTypeOK
<1>2. requests[r].origin \in Origins
  BY <1>1 DEF RequestState
<1>3. IdleRequest \in RequestState /\ IdleRequest.pc = "idle"
  BY <1>2, IdleTyped
<1>4. active' = active - 1 /\ tasks' = tasks \ {r} /\ requests' = [requests EXCEPT ![r] = IdleRequest]
  BY DEF Release
<1>5. /\ requests' \in [Requests -> RequestState] /\ requests'[r] = IdleRequest
      /\ \A q \in Requests \ {r} : requests'[q] = requests[q]
  BY <1>1, <1>3, <1>4
<1>6. Running' = Running \ {r} /\ r \in Running
  BY <1>3, <1>5 DEF Running
<1>7. Cardinality(Running') = Cardinality(Running) - 1 /\ Cardinality(Running') \in Nat
  <2>1. Cardinality(Running') = Cardinality(Running) - 1
    BY <1>6, RunningIsFinite, FS_RemoveElement
  <2>2. IsFiniteSet(Running')
    BY <1>6, RunningIsFinite, FS_Subset
  <2> QED
    BY <2>1, <2>2, FS_CardinalityType
<1>8. active' = Cardinality(Running') /\ tasks' = Running' /\ active' <= MaxConcurrency
  BY <1>1, <1>4, <1>6, <1>7, SessionAssumption DEF SlotsSound, SessionAssumption
<1>9. \A q \in Running' : q \in Running /\ requests'[q] = requests[q]
  BY <1>5, <1>6 DEF Running
<1>10. /\ \A q \in Running' : requests'[q].id \in Ids
       /\ \A q, p \in Running' : q # p => requests'[q].id # requests'[p].id
  BY <1>9 DEF SlotsSound
<1>11. SlotsSound'
  BY <1>8, <1>10 DEF SlotsSound
<1>12. \A q \in Requests : requests'[q].pc = "run" => q # r /\ requests'[q] = requests[q]
  BY <1>3, <1>5
<1> QED
  BY <1>4, <1>5, <1>7, <1>8, <1>11, <1>12
-----------------------------------------------------------------------------
(* A decision, whether it refuses or enters, on a sound table.               *)
LEMMA RefuseSound ==
  ASSUME NEW r \in Requests, NEW o \in Origins, NEW sid, NEW t, NEW table, NEW ctx,
         SessionTypeOK, SlotsSound, TableSound(table, ctx), Used(table, requests),
         requests[r].pc # "run", active' = active, tasks' = tasks,
         sessions' = table, contexts' = ctx, requests' = [requests EXCEPT ![r] = IdleRequest]
  PROVE  /\ requests' \in [Requests -> RequestState] /\ active' \in Nat /\ tasks' \subseteq Requests
         /\ SlotsSound' /\ TableSound(sessions', contexts') /\ Used(sessions', requests')
         /\ tasks' = tasks
         /\ \A q \in Requests : requests'[q].pc = "sweep" => requests[q].pc = "sweep"
<1>1. IdleRequest \in RequestState /\ IdleRequest.pc = "idle"
  BY IdleTyped
<1>2. /\ requests' \in [Requests -> RequestState] /\ SlotsSound'
      /\ \A q \in Requests : requests'[q].pc = "run" => requests'[q] = requests[q]
  BY <1>1, WaitingSlots
<1>3. Used(table, requests')
  BY <1>2, UsedFewer
<1>4. requests \in [Requests -> RequestState] /\ active \in Nat /\ tasks \subseteq Requests
  BY DEF SessionTypeOK
<1>5. \A q \in Requests : requests'[q].pc = "sweep" => requests[q].pc = "sweep"
  BY <1>1, <1>4
<1> QED
  BY <1>2, <1>3, <1>4, <1>5

LEMMA ResumeTable ==
  ASSUME NEW table, NEW ctx, NEW sid \in Ids, TableSound(table, ctx)
  PROVE  TableSound([table EXCEPT ![sid].active = TRUE], ctx)
<1> DEFINE next == [table EXCEPT ![sid].active = TRUE]
<1>1. table \in [Ids -> SessionRow] /\ ctx \in [Ids -> {"none", "live", "cleaned"}]
  BY DEF TableSound
<1>2. next \in [Ids -> SessionRow]
  BY <1>1 DEF SessionRow
<1>3. \A i \in Ids : next[i].state = table[i].state
  BY <1>1 DEF SessionRow
<1> HIDE DEF next
<1>4. Open(next) = Open(table)
  BY <1>3 DEF Open
<1>5. TableSound(next, ctx)
  BY <1>1, <1>2, <1>3, <1>4 DEF TableSound
<1> QED
  BY <1>5 DEF next

LEMMA CreateTable ==
  ASSUME NEW table, NEW ctx, NEW i \in Ids, NEW row \in SessionRow,
         TableSound(table, ctx), table[i].state = "free", row.state = "open",
         Cardinality(Open(table)) < SessionLimit
  PROVE  TableSound([table EXCEPT ![i] = row], [ctx EXCEPT ![i] = "live"])
<1> DEFINE next == [table EXCEPT ![i] = row]
           live == [ctx EXCEPT ![i] = "live"]
<1>1. table \in [Ids -> SessionRow] /\ ctx \in [Ids -> {"none", "live", "cleaned"}]
  BY DEF TableSound
<1>2. /\ next \in [Ids -> SessionRow] /\ next[i] = row
      /\ \A j \in Ids \ {i} : next[j] = table[j]
  BY <1>1
<1>3. /\ live \in [Ids -> {"none", "live", "cleaned"}] /\ live[i] = "live"
      /\ \A j \in Ids \ {i} : live[j] = ctx[j]
  BY <1>1
<1> HIDE DEF next, live
<1>4. \A j \in Ids : next[j].state = "open" <=> live[j] = "live"
  BY <1>2, <1>3 DEF TableSound
<1>5. Open(next) = Open(table) \cup {i} /\ i \notin Open(table)
  <2>1. \A j \in Ids : j \in Open(next) <=> j \in Open(table) \/ j = i
    BY <1>2 DEF Open
  <2>2. i \notin Open(table) /\ Open(table) \subseteq Ids /\ Open(next) \subseteq Ids
    BY DEF Open
  <2> QED
    BY <2>1, <2>2
<1>6. Cardinality(Open(next)) <= SessionLimit
  <2>1. IsFiniteSet(Open(table)) /\ Cardinality(Open(table)) \in Nat
    BY SessionAssumption, FS_Subset, FS_CardinalityType DEF SessionAssumption, Open
  <2>2. Cardinality(Open(next)) = Cardinality(Open(table)) + 1
    BY <1>5, <2>1, FS_AddElement
  <2> QED
    BY <2>1, <2>2, SessionAssumption DEF SessionAssumption
<1>7. TableSound(next, live)
  BY <1>2, <1>3, <1>4, <1>6 DEF TableSound
<1> QED
  BY <1>7 DEF next, live

(* The session taken is nobody else's, so the others' stay as they are.       *)
LEMMA UsedTaken ==
  ASSUME NEW r \in Requests, NEW o, NEW i \in Ids, NEW table, NEW next,
         SlotsSound, Used(table, requests), \A q \in Running : requests[q].id # i,
         requests'[r].pc = "run", requests'[r].id = i, requests'[r].origin = o,
         \A q \in Requests \ {r} : requests'[q] = requests[q],
         next[i].state = "open", next[i].active, next[i].origin = o,
         \A j \in Ids \ {i} : next[j] = table[j]
  PROVE  Used(next, requests')
<1>1. ASSUME NEW q \in Requests, requests'[q].pc = "run"
      PROVE  /\ next[requests'[q].id].state # "free"
             /\ next[requests'[q].id].state = "open" =>
                  next[requests'[q].id].active /\ next[requests'[q].id].origin = requests'[q].origin
             /\ ~suspends => next[requests'[q].id].state = "open"
  <2>1. CASE q = r
    BY <2>1
  <2>2. CASE q # r
    <3>1. requests'[q] = requests[q] /\ requests[q].pc = "run" /\ q \in Running
      BY <1>1, <2>2 DEF Running
    <3>2. requests[q].id \in Ids \ {i}
      BY <3>1 DEF SlotsSound
    <3>3. next[requests[q].id] = table[requests[q].id]
      BY <3>2
    <3> QED
      BY <3>1, <3>3 DEF Used
  <2> QED
    BY <2>1, <2>2
<1> QED
  BY <1>1 DEF Used

LEMMA EnterSound ==
  ASSUME NEW r \in Requests, NEW o \in Origins, NEW sid \in Ids \cup {NoId}, NEW t \in Nat,
         NEW table, NEW ctx,
         SessionTypeOK, SlotsSound, TableSound(table, ctx), Used(table, requests),
         requests[r].pc # "run", Enter(r, o, sid, t, table, ctx)
  PROVE  /\ requests' \in [Requests -> RequestState] /\ active' \in Nat /\ tasks' \subseteq Requests
         /\ SlotsSound' /\ TableSound(sessions', contexts') /\ Used(sessions', requests')
         /\ accepting
         /\ \A q \in Requests : requests'[q].pc = "sweep" => requests[q].pc = "sweep"
<1>1. /\ accepting /\ active < MaxConcurrency
      /\ sid # NoId => Resumable(table, o, sid, t)
      /\ sid = NoId => Cardinality(Open(table)) < SessionLimit
  BY DEF Enter, Allowed, Eligible
<1>2. CASE /\ sid # NoId
           /\ Take(r, o, sid)
           /\ sessions' = [table EXCEPT ![sid].active = TRUE]
           /\ contexts' = ctx
  <2>1. sid \in Ids /\ Resumable(table, o, sid, t)
    BY <1>1, <1>2
  <2>2. \A q \in Running : requests[q].id # sid
    BY <2>1 DEF Used, Resumable, Running
  <2>3. /\ requests' \in [Requests -> RequestState] /\ active' \in Nat /\ tasks' \subseteq Requests
        /\ SlotsSound'
        /\ requests'[r].pc = "run" /\ requests'[r].id = sid /\ requests'[r].origin = o
        /\ \A q \in Requests \ {r} : requests'[q] = requests[q]
    BY <1>1, <1>2, <2>1, <2>2, TakeSlots
  <2>4. /\ TableSound(sessions', ctx)
        /\ sessions'[sid].state = "open" /\ sessions'[sid].active /\ sessions'[sid].origin = o
        /\ \A i \in Ids \ {sid} : sessions'[i] = table[i]
    <3>1. table \in [Ids -> SessionRow] /\ sessions' = [table EXCEPT ![sid].active = TRUE]
      BY <1>2 DEF TableSound
    <3>2. TableSound(sessions', ctx)
      BY <2>1, <3>1, ResumeTable
    <3>3. table[sid].state = "open" /\ table[sid].origin = o
      BY <2>1 DEF Resumable
    <3> QED
      BY <2>1, <3>1, <3>2, <3>3 DEF SessionRow
  <2>5. Used(sessions', requests')
    BY <2>1, <2>2, <2>3, <2>4, UsedTaken
  <2> QED
    BY <1>1, <1>2, <2>3, <2>4, <2>5
<1>3. ASSUME sid = NoId,
             NEW i \in Ids, table[i].state = "free", Take(r, o, i),
             sessions' = [table EXCEPT ![i] =
               [state |-> "open", origin |-> o, expires |-> t + IdleExpiry, active |-> TRUE]],
             contexts' = [ctx EXCEPT ![i] = "live"]
      PROVE  /\ requests' \in [Requests -> RequestState] /\ active' \in Nat /\ tasks' \subseteq Requests
             /\ SlotsSound' /\ TableSound(sessions', contexts') /\ Used(sessions', requests')
             /\ \A q \in Requests : requests'[q].pc = "sweep" => requests[q].pc = "sweep"
  <2>1. \A q \in Running : requests[q].id # i
    BY <1>3 DEF Used, Running
  <2>2. /\ requests' \in [Requests -> RequestState] /\ active' \in Nat /\ tasks' \subseteq Requests
        /\ SlotsSound'
        /\ requests'[r].pc = "run" /\ requests'[r].id = i /\ requests'[r].origin = o
        /\ \A q \in Requests \ {r} : requests'[q] = requests[q]
    BY <1>1, <1>3, <2>1, TakeSlots
  <2>3. /\ TableSound(sessions', contexts')
        /\ sessions'[i].state = "open" /\ sessions'[i].active /\ sessions'[i].origin = o
        /\ \A j \in Ids \ {i} : sessions'[j] = table[j]
    <3> DEFINE row == [state |-> "open", origin |-> o, expires |-> t + IdleExpiry, active |-> TRUE]
    <3>1. t + IdleExpiry \in Nat
      BY SessionAssumption DEF SessionAssumption
    <3>2. row \in SessionRow /\ row.state = "open" /\ row.active /\ row.origin = o
      BY <3>1 DEF SessionRow
    <3>3. /\ table \in [Ids -> SessionRow]
          /\ sessions' = [table EXCEPT ![i] = row] /\ contexts' = [ctx EXCEPT ![i] = "live"]
      BY <1>3 DEF TableSound
    <3> HIDE DEF row
    <3>4. TableSound([table EXCEPT ![i] = row], [ctx EXCEPT ![i] = "live"])
      BY <1>1, <1>3, <3>2, CreateTable
    <3>5. sessions'[i] = row /\ \A j \in Ids \ {i} : sessions'[j] = table[j]
      BY <3>3
    <3> QED
      BY <3>2, <3>3, <3>4, <3>5
  <2>4. Used(sessions', requests')
    BY <2>1, <2>2, <2>3, UsedTaken
  <2> QED
    BY <2>2, <2>3, <2>4
<1>4. CASE /\ sid = NoId
           /\ sessions' = table /\ contexts' = ctx
           /\ requests' = [requests EXCEPT ![r] = IdleRequest]
           /\ UNCHANGED <<active, tasks>>
  BY <1>1, <1>4, RefuseSound
<1> QED
  BY <1>1, <1>2, <1>3, <1>4 DEF Enter
-----------------------------------------------------------------------------
(* One lemma per action: it keeps the induction.                             *)
LEMMA Assembled ==
  ASSUME suspends' = suspends, suspends \in CleanUps,
         TableSound(sessions', contexts'), Used(sessions', requests'),
         rates' \in [Origins -> Seq(Nat)], admitted' \in [Origins -> Seq(Nat)],
         active' \in Nat, tasks' \subseteq Requests, accepting' \in BOOLEAN, now' \in Nat,
         requests' \in [Requests -> RequestState], drain' \in DrainState,
         SlotsSound', DrainSound', NoSweep', RatesSound'
  PROVE  Induction'
<1>1. sessions' \in [Ids -> SessionRow] /\ contexts' \in [Ids -> {"none", "live", "cleaned"}]
  BY DEF TableSound
<1>2. SessionTypeOK'
  BY <1>1 DEF SessionTypeOK
<1>3. TableSound(sessions, contexts)'
  BY DEF TableSound, Open
<1>4. Used(sessions, requests)'
  BY DEF Used
<1> QED
  BY <1>2, <1>3, <1>4 DEF Induction

LEMMA RemoveSound ==
  ASSUME NEW S, Induction, Remove(S), ~suspends => \A r \in Running : requests[r].id \notin S
  PROVE  /\ TableSound(sessions', contexts') /\ Used(sessions', requests)
         /\ Open(sessions') = Open(sessions) \ S
<1>1. sessions' = Popped(S) /\ contexts' = Cleaned(S)
  BY DEF Remove
<1>2. TableSound(Popped(S), Cleaned(S)) /\ Used(Popped(S), requests)
      /\ Open(Popped(S)) = Open(sessions) \ S
  BY PoppedTable, PoppedUsed, PoppedShape DEF Induction
<1> QED
  BY <1>1, <1>2

LEMMA DecideSound ==
  ASSUME NEW r \in Requests, NEW o \in Origins, NEW sid \in Ids \cup {NoId}, NEW t \in Nat,
         NEW table, NEW ctx, Induction, TableSound(table, ctx), Used(table, requests),
         requests[r].pc # "run", ~suspends => t = now, Open(table) \subseteq Open(sessions),
         Decide(r, o, sid, t, table, ctx), UNCHANGED <<accepting, now, drain, suspends>>
  PROVE  Induction'
<1>1. SessionTypeOK /\ SlotsSound /\ DrainSound /\ NoSweep /\ RatesSound
  BY DEF Induction
<1>2. /\ requests' \in [Requests -> RequestState] /\ active' \in Nat /\ tasks' \subseteq Requests
      /\ SlotsSound' /\ TableSound(sessions', contexts') /\ Used(sessions', requests')
      /\ \A q \in Requests : requests'[q].pc = "sweep" => requests[q].pc = "sweep"
      /\ accepting \/ (tasks' = tasks /\ sessions' = table)
  <2>1. CASE Refuse(r, o, sid, t, table, ctx)
    <3>1. /\ active' = active /\ tasks' = tasks /\ sessions' = table /\ contexts' = ctx
          /\ requests' = [requests EXCEPT ![r] = IdleRequest]
      BY <2>1 DEF Refuse
    <3> QED
      BY <1>1, <3>1, RefuseSound
  <2>2. CASE Enter(r, o, sid, t, table, ctx)
    BY <1>1, <2>2, EnterSound
  <2> QED
    BY <2>1, <2>2 DEF Decide
<1>3. /\ rates' \in [Origins -> Seq(Nat)] /\ admitted' \in [Origins -> Seq(Nat)]
      /\ ~suspends => \A p \in Origins :
           /\ \A k \in 1..Len(admitted'[p]) : admitted'[p][k] <= now
           /\ Remembered(rates'[p], admitted'[p], now)
           /\ Spaced(admitted'[p])
  BY <1>1, DecideRates
<1>4. RatesSound'
  BY <1>3 DEF RatesSound, Remembered, Spaced
<1>5. NoSweep'
  BY <1>1, <1>2 DEF NoSweep
<1>6. DrainSound'
  <2>1. CASE accepting
    BY <1>1, <2>1 DEF DrainSound
  <2>2. CASE tasks' = tasks /\ sessions' = table
    <3>1. Open(sessions)' \subseteq Open(sessions)
      BY <2>2 DEF Open
    <3> QED
      BY <1>1, <2>2, <3>1 DEF DrainSound
  <2> QED
    BY <1>2, <2>1, <2>2
<1>7. /\ suspends \in CleanUps /\ accepting' \in BOOLEAN /\ now' \in Nat /\ drain' \in DrainState
      /\ suspends' = suspends
  BY <1>1 DEF SessionTypeOK
<1> QED
  BY <1>2, <1>3, <1>4, <1>5, <1>6, <1>7, Assembled
LEMMA AskSound ==
  ASSUME NEW r \in Requests, NEW o \in Origins, NEW sid \in Ids \cup {NoId},
         Induction, Ask(r, o, sid), suspends' = suspends
  PROVE  Induction'
<1>1. /\ SessionTypeOK /\ SlotsSound /\ DrainSound /\ NoSweep /\ RatesSound
      /\ TableSound(sessions, contexts) /\ Used(sessions, requests)
      /\ requests[r].pc = "idle" /\ accepting /\ UNCHANGED <<accepting, now, drain>>
  BY DEF Induction, Ask
<1>2. ASSUME suspends, NEW i \in Expired, Remove({i}),
             requests' = [requests EXCEPT ![r] =
               [pc |-> "sweep", origin |-> o, id |-> sid, at |-> now, doomed |-> Expired \ {i}]],
             UNCHANGED <<rates, active, tasks, admitted>>
      PROVE  Induction'
  <2> DEFINE v == [pc |-> "sweep", origin |-> o, id |-> sid, at |-> now, doomed |-> Expired \ {i}]
  <2>1. Expired \ {i} \in SUBSET Ids /\ now \in Nat
    BY <1>1 DEF Expired, Open, SessionTypeOK
  <2>2. v \in RequestState /\ v.pc = "sweep"
    BY <2>1 DEF RequestState
  <2>3. requests' = [requests EXCEPT ![r] = v]
    BY <1>2
  <2> HIDE DEF v
  <2>4. /\ requests' \in [Requests -> RequestState] /\ SlotsSound'
        /\ \A q \in Requests : requests'[q].pc = "run" => requests'[q] = requests[q]
    BY <1>1, <1>2, <2>2, <2>3, WaitingSlots
  <2>5. TableSound(sessions', contexts') /\ Used(sessions', requests)
    BY <1>2, RemoveSound
  <2>6. Used(sessions', requests')
    BY <2>4, <2>5, UsedFewer
  <2>7. DrainSound' /\ NoSweep'
    BY <1>1, <1>2 DEF DrainSound, NoSweep
  <2>8. RatesSound'
    BY <1>1, <1>2, <2>1, RatesKept
  <2>9. /\ suspends \in CleanUps /\ accepting' \in BOOLEAN /\ now' \in Nat /\ drain' \in DrainState
        /\ rates' \in [Origins -> Seq(Nat)] /\ admitted' \in [Origins -> Seq(Nat)]
        /\ active' \in Nat /\ tasks' \subseteq Requests
    BY <1>1, <1>2 DEF SessionTypeOK
  <2> QED
    BY <2>4, <2>5, <2>6, <2>7, <2>8, <2>9, Assembled
<1>3. ASSUME Decide(r, o, sid, now, Popped(Expired), Cleaned(Expired)) PROVE Induction'
  <2>1. ~suspends => \A q \in Running : requests[q].id \notin Expired
    BY <1>1 DEF Expired, Used, Running
  <2>2. TableSound(Popped(Expired), Cleaned(Expired)) /\ Used(Popped(Expired), requests)
    BY <1>1, <2>1, PoppedTable, PoppedUsed
  <2>3. Open(Popped(Expired)) \subseteq Open(sessions) /\ now \in Nat
    <3>1. Open(Popped(Expired)) = Open(sessions) \ Expired
      BY <1>1, PoppedShape
    <3> QED
      BY <1>1, <3>1 DEF SessionTypeOK
  <2> QED
    BY <1>1, <1>3, <2>2, <2>3, DecideSound
<1> QED
  BY <1>2, <1>3 DEF Ask

LEMMA SweepSound ==
  ASSUME NEW r \in Requests, Induction, Sweep(r), suspends' = suspends
  PROVE  Induction'
<1>1. /\ SessionTypeOK /\ SlotsSound /\ DrainSound /\ NoSweep /\ RatesSound
      /\ TableSound(sessions, contexts) /\ Used(sessions, requests)
      /\ requests[r].pc = "sweep" /\ UNCHANGED <<accepting, now, drain>> /\ suspends
  BY DEF Induction, Sweep, NoSweep
<1>2. requests \in [Requests -> RequestState] /\ requests[r] \in RequestState
  BY <1>1 DEF SessionTypeOK
<1>3. ASSUME NEW i \in requests[r].doomed, Remove({i}),
             requests' = [requests EXCEPT ![r].doomed = @ \ {i}],
             UNCHANGED <<rates, active, tasks, admitted>>
      PROVE  Induction'
  <2> DEFINE v == [requests[r] EXCEPT !.doomed = @ \ {i}]
  <2>1. v \in RequestState /\ v.pc = "sweep"
    BY <1>1, <1>2 DEF RequestState
  <2>2. requests' = [requests EXCEPT ![r] = v]
    BY <1>3
  <2> HIDE DEF v
  <2>3. /\ requests' \in [Requests -> RequestState] /\ SlotsSound'
        /\ \A q \in Requests : requests'[q].pc = "run" => requests'[q] = requests[q]
    BY <1>1, <1>3, <2>1, <2>2, WaitingSlots
  <2>4. TableSound(sessions', contexts') /\ Used(sessions', requests)
        /\ Open(sessions') \subseteq Open(sessions)
    BY <1>1, <1>3, RemoveSound
  <2>5. Used(sessions', requests')
    BY <2>3, <2>4, UsedFewer
  <2>6. Open(sessions)' \subseteq Open(sessions)
    BY <2>4 DEF Open
  <2>7. DrainSound' /\ NoSweep'
    BY <1>1, <1>3, <2>6 DEF DrainSound, NoSweep
  <2>8. RatesSound'
    <3>1. now' \in Nat /\ now <= now'
      BY <1>1 DEF SessionTypeOK
    <3> QED
      BY <1>1, <1>3, <3>1, RatesKept
  <2>9. /\ suspends \in CleanUps /\ accepting' \in BOOLEAN /\ now' \in Nat /\ drain' \in DrainState
        /\ rates' \in [Origins -> Seq(Nat)] /\ admitted' \in [Origins -> Seq(Nat)]
        /\ active' \in Nat /\ tasks' \subseteq Requests
    BY <1>1, <1>3 DEF SessionTypeOK
  <2> QED
    BY <2>3, <2>4, <2>5, <2>7, <2>8, <2>9, Assembled
<1>4. CASE Decide(r, requests[r].origin, requests[r].id, requests[r].at, sessions, contexts)
  <2>1. requests[r].origin \in Origins /\ requests[r].id \in Ids \cup {NoId} /\ requests[r].at \in Nat
    BY <1>2 DEF RequestState
  <2> QED
    BY <1>1, <1>4, <2>1, DecideSound
<1> QED
  BY <1>3, <1>4 DEF Sweep
LEMMA AbandonSound ==
  ASSUME NEW r \in Requests, Induction, Abandon(r), suspends' = suspends
  PROVE  Induction'
<1>1. /\ SessionTypeOK /\ SlotsSound /\ DrainSound /\ NoSweep /\ RatesSound
      /\ TableSound(sessions, contexts) /\ Used(sessions, requests)
      /\ requests[r].pc = "sweep" /\ requests' = [requests EXCEPT ![r] = IdleRequest]
      /\ UNCHANGED <<sessions, contexts, rates, active, tasks, accepting, now, drain, admitted>>
  BY DEF Induction, Abandon
<1>2. requests \in [Requests -> RequestState] /\ requests[r].origin \in Origins
  BY <1>1 DEF SessionTypeOK, RequestState
<1>3. IdleRequest \in RequestState /\ IdleRequest.pc = "idle"
  BY <1>2, IdleTyped
<1>4. /\ requests' \in [Requests -> RequestState] /\ SlotsSound'
      /\ \A q \in Requests : requests'[q].pc = "run" => requests'[q] = requests[q]
  BY <1>1, <1>3, WaitingSlots
<1>5. TableSound(sessions', contexts') /\ Used(sessions', requests')
  BY <1>1, <1>4, UsedFewer
<1>6. DrainSound'
  BY <1>1 DEF DrainSound, Open
<1>7. NoSweep'
  BY <1>1, <1>2, <1>3 DEF NoSweep
<1>8. RatesSound'
  <2>1. now' \in Nat /\ now <= now'
    BY <1>1 DEF SessionTypeOK
  <2> QED
    BY <1>1, <2>1, RatesKept
<1>9. /\ suspends \in CleanUps /\ accepting' \in BOOLEAN /\ now' \in Nat /\ drain' \in DrainState
      /\ rates' \in [Origins -> Seq(Nat)] /\ admitted' \in [Origins -> Seq(Nat)]
      /\ active' \in Nat /\ tasks' \subseteq Requests
  BY <1>1 DEF SessionTypeOK
<1> QED
  BY <1>4, <1>5, <1>6, <1>7, <1>8, <1>9, Assembled

(* What a request that ends does besides its own session.                    *)
LEMMA ReleaseSound ==
  ASSUME NEW r \in Requests, Induction, requests[r].pc = "run", Release(r), suspends' = suspends,
         TableSound(sessions', contexts'), Used(sessions', requests'),
         Open(sessions') \subseteq Open(sessions)
  PROVE  Induction'
<1>1. /\ SessionTypeOK /\ SlotsSound /\ DrainSound /\ NoSweep /\ RatesSound
      /\ UNCHANGED <<rates, accepting, now, drain, admitted>>
      /\ requests' = [requests EXCEPT ![r] = IdleRequest]
  BY DEF Induction, Release
<1>2. /\ requests' \in [Requests -> RequestState] /\ active' \in Nat
      /\ tasks' \subseteq tasks /\ SlotsSound'
  BY <1>1, ReleaseSlots
<1>3. DrainSound'
  <2>1. Open(sessions)' \subseteq Open(sessions)
    BY DEF Open
  <2> QED
    BY <1>1, <1>2, <2>1 DEF DrainSound
<1>4. NoSweep'
  <2>1. requests \in [Requests -> RequestState] /\ requests[r].origin \in Origins
    BY <1>1 DEF SessionTypeOK, RequestState
  <2>2. IdleRequest.pc = "idle"
    BY DEF IdleRequest
  <2> QED
    BY <1>1, <2>1, <2>2 DEF NoSweep
<1>5. RatesSound'
  <2>1. now' \in Nat /\ now <= now'
    BY <1>1 DEF SessionTypeOK
  <2> QED
    BY <1>1, <2>1, RatesKept
<1>6. /\ suspends \in CleanUps /\ accepting' \in BOOLEAN /\ now' \in Nat /\ drain' \in DrainState
      /\ rates' \in [Origins -> Seq(Nat)] /\ admitted' \in [Origins -> Seq(Nat)]
      /\ tasks' \subseteq Requests
  BY <1>1, <1>2 DEF SessionTypeOK
<1> QED
  BY <1>2, <1>3, <1>4, <1>5, <1>6, Assembled

(* The session a request leaves is no other request's.                       *)
LEMMA LeftBehind ==
  ASSUME NEW r \in Requests, Induction, requests[r].pc = "run", Release(r), NEW next,
         \A j \in Ids \ {requests[r].id} : next[j] = sessions[j]
  PROVE  Used(next, requests')
<1>1. SessionTypeOK /\ SlotsSound /\ Used(sessions, requests)
  BY DEF Induction
<1>2. \A q \in Requests : requests'[q].pc = "run" => q # r /\ requests'[q] = requests[q]
  BY <1>1, ReleaseSlots
<1>3. ASSUME NEW q \in Requests, requests'[q].pc = "run"
      PROVE  next[requests'[q].id] = sessions[requests[q].id] /\ requests'[q] = requests[q]
  <2>1. q \in Running /\ r \in Running /\ q # r /\ requests'[q] = requests[q]
    BY <1>2, <1>3 DEF Running
  <2>2. requests[q].id \in Ids \ {requests[r].id}
    BY <1>1, <2>1 DEF SlotsSound
  <2> QED
    BY <2>1, <2>2
<1> QED
  BY <1>1, <1>3 DEF Used

LEMMA RemovedByItsRequest ==
  ASSUME NEW r \in Requests, Induction, requests[r].pc = "run", Release(r), suspends' = suspends,
         Remove({requests[r].id})
  PROVE  Induction'
<1>1. SessionTypeOK /\ TableSound(sessions, contexts)
  BY DEF Induction
<1>2. sessions' = Popped({requests[r].id}) /\ contexts' = Cleaned({requests[r].id})
  BY DEF Remove
<1>3. TableSound(sessions', contexts')
  BY <1>1, <1>2, PoppedTable
<1>4. \A j \in Ids \ {requests[r].id} : sessions'[j] = sessions[j]
  BY <1>2 DEF Popped
<1>5. Used(sessions', requests')
  BY <1>4, LeftBehind
<1>6. Open(Popped({requests[r].id})) = Open(sessions) \ {requests[r].id}
  BY <1>1, PoppedShape
<1>7. Open(sessions') \subseteq Open(sessions)
  BY <1>2, <1>6
<1> QED
  BY <1>3, <1>5, <1>7, ReleaseSound

LEMMA FailSound ==
  ASSUME NEW r \in Requests, Induction, Fail(r), suspends' = suspends
  PROVE  Induction'
BY RemovedByItsRequest DEF Fail

LEMMA AnswerSound ==
  ASSUME NEW r \in Requests, Induction, Answer(r), suspends' = suspends
  PROVE  Induction'
<1>1. requests[r].pc = "run" /\ Release(r)
  BY DEF Answer
<1>2. CASE Remove({requests[r].id})
  BY <1>1, <1>2, RemovedByItsRequest
<1>3. CASE /\ sessions' = [sessions EXCEPT ![requests[r].id] =
                [@ EXCEPT !.expires = now + IdleExpiry, !.active = FALSE]]
           /\ UNCHANGED contexts
  <2>1. /\ SessionTypeOK /\ TableSound(sessions, contexts)
        /\ sessions \in [Ids -> SessionRow] /\ requests[r].id \in Ids
    BY <1>1 DEF Induction, SessionTypeOK, SlotsSound, Running
  <2>2. now + IdleExpiry \in Nat
    BY <2>1, SessionAssumption DEF SessionTypeOK, SessionAssumption
  <2>3. sessions' \in [Ids -> SessionRow]
    BY <1>3, <2>1, <2>2 DEF SessionRow
  <2>4. \A j \in Ids : sessions'[j].state = sessions[j].state
    BY <1>3, <2>1, <2>2 DEF SessionRow
  <2>5. Open(sessions') = Open(sessions)
    BY <2>4 DEF Open
  <2>6. TableSound(sessions', contexts')
    BY <1>3, <2>1, <2>3, <2>4, <2>5 DEF TableSound
  <2>7. \A j \in Ids \ {requests[r].id} : sessions'[j] = sessions[j]
    BY <1>3, <2>1
  <2>8. Used(sessions', requests')
    BY <1>1, <2>7, LeftBehind
  <2> QED
    BY <1>1, <2>5, <2>6, <2>8, ReleaseSound
<1> QED
  BY <1>2, <1>3 DEF Answer
(* Sessions are removed, or the drain moves on; no request does.             *)
LEMMA RequestsKept ==
  ASSUME Induction, suspends' = suspends,
         UNCHANGED <<rates, active, tasks, now, requests, admitted>>,
         TableSound(sessions', contexts'), Used(sessions', requests),
         accepting' \in BOOLEAN, drain' \in DrainState, DrainSound'
  PROVE  Induction'
<1>1. SessionTypeOK /\ SlotsSound /\ NoSweep /\ RatesSound
  BY DEF Induction
<1>2. SlotsSound' /\ NoSweep'
  BY <1>1 DEF SlotsSound, Running, NoSweep
<1>3. RatesSound'
  <2>1. now' \in Nat /\ now <= now'
    BY <1>1 DEF SessionTypeOK
  <2> QED
    BY <1>1, <2>1, RatesKept
<1>4. /\ suspends \in CleanUps /\ now' \in Nat
      /\ rates' \in [Origins -> Seq(Nat)] /\ admitted' \in [Origins -> Seq(Nat)]
      /\ active' \in Nat /\ tasks' \subseteq Requests /\ requests' \in [Requests -> RequestState]
  BY <1>1 DEF SessionTypeOK
<1>5. Used(sessions', requests')
  BY UsedFewer
<1> QED
  BY <1>2, <1>3, <1>4, <1>5, Assembled

(* A session that is not in use may go at any time.                          *)
LEMMA RemoveIdle ==
  ASSUME NEW i \in Ids, Induction, suspends' = suspends, ~sessions[i].active, Remove({i}),
         UNCHANGED <<rates, active, tasks, accepting, now, requests, drain, admitted>>
  PROVE  Induction'
<1>1. SessionTypeOK /\ Used(sessions, requests) /\ DrainSound
  BY DEF Induction
<1>2. ~suspends => \A r \in Running : requests[r].id \notin {i}
  BY <1>1 DEF Used, Running
<1>3. /\ TableSound(sessions', contexts') /\ Used(sessions', requests)
      /\ Open(sessions') = Open(sessions) \ {i}
  BY <1>2, RemoveSound
<1>4. DrainSound'
  <2>1. Open(sessions)' \subseteq Open(sessions)
    BY <1>3 DEF Open
  <2> QED
    BY <1>1, <2>1 DEF DrainSound
<1>5. accepting' \in BOOLEAN /\ drain' \in DrainState
  BY <1>1 DEF SessionTypeOK
<1> QED
  BY <1>3, <1>4, <1>5, RequestsKept

LEMMA FinishSound ==
  ASSUME NEW o \in Origins, NEW i \in Ids, Induction, Finish(o, i), suspends' = suspends
  PROVE  Induction'
BY RemoveIdle DEF Finish

LEMMA ExpireSound ==
  ASSUME NEW i \in Ids, Induction, Expire(i), suspends' = suspends
  PROVE  Induction'
BY RemoveIdle DEF Expire, Expired

(* Nothing runs any more: every session may go.                              *)
LEMMA RemoveInDrain ==
  ASSUME NEW S, Induction, tasks = {}, Remove(S), suspends' = suspends
  PROVE  /\ TableSound(sessions', contexts') /\ Used(sessions', requests)
         /\ Open(sessions') = Open(sessions) \ S
<1>1. Running = {}
  BY DEF Induction, SlotsSound
<1> QED
  BY <1>1, RemoveSound

LEMMA DrainSoundStep ==
  ASSUME Induction, DrainStep, suspends' = suspends
  PROVE  Induction'
<1>1. /\ SessionTypeOK /\ SlotsSound /\ DrainSound
      /\ TableSound(sessions, contexts) /\ Used(sessions, requests)
  BY DEF Induction
<1>2. /\ drain \in DrainState /\ tasks \subseteq Requests /\ accepting \in BOOLEAN
      /\ drain.pc \in {"open", "waiting", "cancelling", "clearing", "final", "stopped"}
      /\ drain.left \subseteq Ids /\ drain.awaited \subseteq Requests
  BY <1>1 DEF SessionTypeOK, DrainState
<1>3. CASE DrainBegin
  <2>1. /\ drain.pc = "open" /\ accepting' = FALSE
        /\ drain' = [pc |-> "waiting", awaited |-> tasks, left |-> {}]
        /\ UNCHANGED <<sessions, contexts, rates, active, tasks, now, requests, admitted>>
    BY <1>3 DEF DrainBegin
  <2>2. drain' \in DrainState
    BY <1>2, <2>1 DEF DrainState
  <2>3. DrainSound'
    BY <2>1 DEF DrainSound
  <2> QED
    BY <1>1, <2>1, <2>2, <2>3, RequestsKept
<1>4. CASE DrainTimeout
  <2>1. /\ drain.pc = "waiting" /\ drain' = [drain EXCEPT !.pc = "cancelling"]
        /\ UNCHANGED <<sessions, contexts, rates, active, tasks, accepting, now, requests, admitted>>
    BY <1>4 DEF DrainTimeout
  <2>2. drain' \in DrainState /\ drain'.pc = "cancelling" /\ drain'.awaited = drain.awaited
    BY <1>2, <2>1 DEF DrainState
  <2>3. DrainSound'
    BY <1>1, <2>1, <2>2 DEF DrainSound
  <2> QED
    BY <1>1, <1>2, <2>1, <2>2, <2>3, RequestsKept
<1>5. CASE DrainClear
  <2>1. UNCHANGED <<rates, active, tasks, accepting, now, requests, admitted>>
    BY <1>5 DEF DrainClear
  <2>2. CASE /\ drain.pc \in {"waiting", "cancelling"}
             /\ drain.awaited \cap tasks = {}
             /\ drain' = [drain EXCEPT !.pc = "clearing", !.left = Open(sessions)]
             /\ UNCHANGED <<sessions, contexts>>
    <3>1. Open(sessions) \in SUBSET Ids
      BY DEF Open
    <3>2. drain' \in DrainState /\ drain'.pc = "clearing"
      BY <1>2, <2>2, <3>1 DEF DrainState
    <3>3. tasks = {}
      BY <1>1, <2>2 DEF DrainSound
    <3>4. DrainSound'
      BY <1>1, <2>1, <2>2, <3>2, <3>3 DEF DrainSound
    <3> QED
      BY <1>1, <1>2, <2>1, <2>2, <3>2, <3>4, RequestsKept
  <2>3. ASSUME drain.pc = "clearing", NEW i \in drain.left, Remove({i}),
               drain' = [drain EXCEPT !.left = @ \ {i}]
        PROVE  Induction'
    <3>1. drain' \in DrainState /\ drain'.pc = "clearing"
      BY <1>2, <2>3 DEF DrainState
    <3>2. tasks = {}
      BY <1>1, <2>3 DEF DrainSound
    <3>3. TableSound(sessions', contexts') /\ Used(sessions', requests)
      BY <2>3, <3>2, RemoveInDrain
    <3>4. DrainSound'
      BY <1>1, <2>1, <2>3, <3>1, <3>2 DEF DrainSound
    <3> QED
      BY <1>2, <2>1, <3>1, <3>3, <3>4, RequestsKept
  <2>4. CASE /\ drain.pc = "clearing" /\ drain.left = {}
             /\ drain' = [pc |-> "final", awaited |-> tasks, left |-> {}]
             /\ UNCHANGED <<sessions, contexts>>
    <3>1. drain' \in DrainState
      BY <1>2, <2>4 DEF DrainState
    <3>2. DrainSound'
      BY <1>1, <2>1, <2>4 DEF DrainSound
    <3> QED
      BY <1>1, <1>2, <2>1, <2>4, <3>1, <3>2, RequestsKept
  <2> QED
    BY <1>5, <2>2, <2>3, <2>4 DEF DrainClear
<1>6. CASE DrainOverrun
  <2>1. /\ drain.pc \in {"waiting", "cancelling", "clearing"}
        /\ drain' = [pc |-> "final", awaited |-> tasks, left |-> {}]
        /\ UNCHANGED <<sessions, contexts, rates, active, tasks, accepting, now, requests, admitted>>
    BY <1>6 DEF DrainOverrun
  <2>2. drain' \in DrainState
    BY <1>2, <2>1 DEF DrainState
  <2>3. DrainSound'
    BY <1>1, <2>1 DEF DrainSound
  <2> QED
    BY <1>1, <1>2, <2>1, <2>2, <2>3, RequestsKept
<1>7. CASE DrainFinal
  <2>1. /\ drain.pc = "final" /\ drain.awaited \cap tasks = {} /\ Remove(Ids)
        /\ drain' = [drain EXCEPT !.pc = "stopped"]
        /\ UNCHANGED <<rates, active, tasks, accepting, now, requests, admitted>>
    BY <1>7 DEF DrainFinal
  <2>2. drain' \in DrainState /\ drain'.pc = "stopped"
    BY <1>2, <2>1 DEF DrainState
  <2>3. tasks = {}
    BY <1>1, <2>1 DEF DrainSound
  <2>4. /\ TableSound(sessions', contexts') /\ Used(sessions', requests)
        /\ Open(sessions') = Open(sessions) \ Ids
    BY <2>1, <2>3, RemoveInDrain
  <2>5. Open(sessions)' = {}
    BY <2>4 DEF Open
  <2>6. DrainSound'
    BY <1>1, <2>1, <2>2, <2>3, <2>5 DEF DrainSound
  <2> QED
    BY <1>2, <2>1, <2>2, <2>4, <2>6, RequestsKept
<1> QED
  BY <1>3, <1>4, <1>5, <1>6, <1>7 DEF DrainStep

LEMMA TickSound ==
  ASSUME Induction, Tick, suspends' = suspends
  PROVE  Induction'
<1>1. /\ SessionTypeOK /\ SlotsSound /\ DrainSound /\ NoSweep /\ RatesSound
      /\ TableSound(sessions, contexts) /\ Used(sessions, requests)
      /\ now' = now + 1
      /\ UNCHANGED <<sessions, contexts, rates, active, tasks, accepting, requests, drain, admitted>>
  BY DEF Induction, Tick
<1>2. now' \in Nat /\ now <= now'
  BY <1>1 DEF SessionTypeOK
<1>3. RatesSound'
  BY <1>1, <1>2, RatesKept
<1>4. SlotsSound' /\ DrainSound' /\ NoSweep'
  BY <1>1 DEF SlotsSound, Running, DrainSound, NoSweep, Open
<1>5. TableSound(sessions', contexts') /\ Used(sessions', requests')
  BY <1>1, UsedFewer
<1>6. /\ suspends \in CleanUps /\ accepting' \in BOOLEAN /\ drain' \in DrainState
      /\ rates' \in [Origins -> Seq(Nat)] /\ admitted' \in [Origins -> Seq(Nat)]
      /\ active' \in Nat /\ tasks' \subseteq Requests /\ requests' \in [Requests -> RequestState]
  BY <1>1 DEF SessionTypeOK
<1> QED
  BY <1>2, <1>3, <1>4, <1>5, <1>6, Assembled
LEMMA InitSound ==
  ASSUME SessionInit
  PROVE  Induction
<1>1. SomeOrigin \in Origins
  BY SomeOriginTyped, SessionAssumption DEF SessionAssumption
<1>2. IdleRequest \in RequestState /\ IdleRequest.pc = "idle"
  BY <1>1, IdleTyped
<1>3. Blank("free") \in SessionRow /\ Blank("free").state = "free"
  BY <1>1, BlankTyped DEF Blank
<1>4. /\ sessions = [i \in Ids |-> Blank("free")] /\ contexts = [i \in Ids |-> "none"]
      /\ rates = [o \in Origins |-> <<>>] /\ admitted = [o \in Origins |-> <<>>]
      /\ active = 0 /\ tasks = {} /\ accepting = TRUE /\ now = 0
      /\ requests = [r \in Requests |-> IdleRequest]
      /\ drain = [pc |-> "open", awaited |-> {}, left |-> {}] /\ suspends \in CleanUps
  BY DEF SessionInit
<1>5. <<>> \in Seq(Nat) /\ Len(<<>>) = 0
  BY EmptySeq
<1>6. sessions \in [Ids -> SessionRow] /\ contexts \in [Ids -> {"none", "live", "cleaned"}]
  BY <1>3, <1>4
<1>7. rates \in [Origins -> Seq(Nat)] /\ admitted \in [Origins -> Seq(Nat)]
  BY <1>4, <1>5
<1>8. requests \in [Requests -> RequestState] /\ drain \in DrainState /\ drain.pc = "open"
  BY <1>2, <1>4 DEF DrainState
<1>9. SessionTypeOK
  BY <1>4, <1>6, <1>7, <1>8 DEF SessionTypeOK
<1>10. Running = {}
  BY <1>2, <1>4 DEF Running
<1>11. SlotsSound
  BY <1>4, <1>10, FS_EmptySet, SessionAssumption DEF SlotsSound, SessionAssumption
<1>12. TableSound(sessions, contexts)
  <2>1. \A i \in Ids : sessions[i].state # "open" /\ contexts[i] # "live"
    BY <1>3, <1>4
  <2>2. Open(sessions) = {}
    BY <2>1 DEF Open
  <2> QED
    BY <1>6, <2>1, <2>2, FS_EmptySet, SessionAssumption DEF TableSound, SessionAssumption
<1>13. Used(sessions, requests) /\ NoSweep
  BY <1>2, <1>4 DEF Used, NoSweep
<1>14. DrainSound
  BY <1>4, <1>8 DEF DrainSound
<1>15. RatesSound
  <2>1. ASSUME NEW o \in Origins PROVE rates[o] = <<>> /\ admitted[o] = <<>>
    BY <1>4
  <2>2. Remembered(<<>>, <<>>, now) /\ Spaced(<<>>)
    BY <1>5 DEF Remembered, Spaced
  <2> QED
    BY <1>5, <2>1, <2>2 DEF RatesSound
<1> QED
  BY <1>9, <1>11, <1>12, <1>13, <1>14, <1>15 DEF Induction

LEMMA StepSound ==
  ASSUME Induction, [SessionNext]_svars
  PROVE  Induction'
<1>1. CASE SessionNext
  <2>1. suspends' = suspends /\ SessionStep
    BY <1>1 DEF SessionNext
  <2>2. ASSUME NEW r \in Requests, NEW o \in Origins, NEW sid \in Ids \cup {NoId}, Ask(r, o, sid)
        PROVE  Induction'
    BY <2>1, <2>2, AskSound
  <2>3. ASSUME NEW r \in Requests, Sweep(r) \/ Abandon(r) \/ Answer(r) \/ Fail(r)
        PROVE  Induction'
    BY <2>1, <2>3, SweepSound, AbandonSound, AnswerSound, FailSound
  <2>4. ASSUME NEW o \in Origins, NEW i \in Ids, Finish(o, i)
        PROVE  Induction'
    BY <2>1, <2>4, FinishSound
  <2>5. ASSUME NEW i \in Ids, Expire(i)
        PROVE  Induction'
    BY <2>1, <2>5, ExpireSound
  <2>6. CASE DrainStep
    BY <2>1, <2>6, DrainSoundStep
  <2>7. CASE Tick
    BY <2>1, <2>7, TickSound
  <2> QED
    BY <2>1, <2>2, <2>3, <2>4, <2>5, <2>6, <2>7 DEF SessionStep
<1>2. CASE UNCHANGED svars
  <2>1. /\ SessionTypeOK /\ SlotsSound /\ DrainSound /\ NoSweep /\ RatesSound
        /\ TableSound(sessions, contexts) /\ Used(sessions, requests)
    BY DEF Induction
  <2>2. /\ UNCHANGED <<rates, active, tasks, accepting, now, requests, drain, admitted>>
        /\ sessions' = sessions /\ contexts' = contexts /\ suspends' = suspends
    BY <1>2 DEF svars
  <2>3. TableSound(sessions', contexts') /\ Used(sessions', requests)
    BY <2>1, <2>2
  <2>4. accepting' \in BOOLEAN /\ drain' \in DrainState
    BY <2>1, <2>2 DEF SessionTypeOK
  <2>5. DrainSound'
    BY <2>1, <2>2 DEF DrainSound, Open
  <2> QED
    BY <2>2, <2>3, <2>4, <2>5, RequestsKept
<1> QED
  BY <1>1, <1>2

-----------------------------------------------------------------------------
(* The sessions, their slots, their times and the drain fit each other in     *)
(* every state of the session manager of one service.                       *)
THEOREM SessionsInduction == SessionSpec => []Induction
<1>1. SessionInit => Induction
  BY InitSound
<1>2. Induction /\ [SessionNext]_svars => Induction'
  BY StepSound
<1> QED
  BY <1>1, <1>2, PTL DEF SessionSpec

(* Every variable keeps its type.                                            *)
THEOREM SessionTypesHold == SessionSpec => []SessionTypeOK
<1>1. Induction => SessionTypeOK
  BY DEF Induction
<1> QED
  BY <1>1, SessionsInduction, PTL

(* No path out of ask() leaks or frees a slot twice, and no interleaving of    *)
(* requests gets past the concurrency or the session limit (ask, 95-115).     *)
THEOREM LimitsAreKept == SessionSpec => []LimitsHold
<1>1. Induction => LimitsHold
  BY DEF Induction, SlotsSound, TableSound, LimitsHold
<1> QED
  BY <1>1, SessionsInduction, PTL

(* No origin is let in more often than its rate in any window of the clock,    *)
(* where no clean-up suspends (ask, 97-112).                                 *)
THEOREM RatesAreKept == SessionSpec => []RateIsBounded
<1>1. Induction => RateIsBounded
  BY DEF Induction, RatesSound, Spaced, RateIsBounded
<1> QED
  BY <1>1, SessionsInduction, PTL

(* Two running requests never share a native context, and a request never      *)
(* runs in the context of another origin (ask, 86-94 and 119-124).           *)
THEOREM ContextsAreExclusive == SessionSpec => []SessionIsExclusive
<1>1. ASSUME Induction PROVE SessionIsExclusive
  <2>1. SlotsSound /\ Used(sessions, requests)
    BY <1>1 DEF Induction
  <2> QED
    BY <2>1 DEF SlotsSound, Used, Running, SessionIsExclusive
<1> QED
  BY <1>1, SessionsInduction, PTL

(* Every variable keeps its type and, where no clean-up suspends, nothing        *)
(* removes the context a request runs in (ask, 78-82; finish, 152;            *)
(* maintenance, 202).                                                       *)
THEOREM ContextsStay == SessionSpec => []SessionInvariant
<1>1. ASSUME Induction PROVE ContextInUse
  <2>1. SlotsSound /\ Used(sessions, requests) /\ TableSound(sessions, contexts)
    BY <1>1 DEF Induction
  <2> QED
    BY <2>1 DEF SlotsSound, Used, TableSound, Running, ContextInUse
<1>2. Induction => SessionInvariant
  BY <1>1 DEF SessionInvariant, Induction
<1> QED
  BY <1>2, SessionsInduction, PTL

(* A drain that came to its end left no request and no context behind, even if *)
(* it was cut short or a request was sweeping when it began (ask, 83; drain).   *)
THEOREM DrainsLeaveNothing == SessionSpec => []DrainedIsEmpty
<1>1. ASSUME Induction, drain.pc = "stopped"
      PROVE  /\ Running = {} /\ active = 0
             /\ \A i \in Ids : sessions[i].state # "open" /\ contexts[i] # "live"
  <2>1. tasks = {} /\ Open(sessions) = {} /\ tasks = Running /\ active = Cardinality(Running)
    BY <1>1 DEF Induction, DrainSound, SlotsSound
  <2>2. Running = {} /\ active = 0
    BY <2>1, FS_EmptySet
  <2>3. \A i \in Ids : sessions[i].state # "open"
    BY <2>1 DEF Open
  <2> QED
    BY <1>1, <2>2, <2>3 DEF Induction, TableSound
<1>2. Induction => DrainedIsEmpty
  BY <1>1 DEF DrainedIsEmpty
<1> QED
  BY <1>2, SessionsInduction, PTL

(* A drain waits for the requests that run, for all of them and nothing else, at  *)
(* each of its stages (drain, 160-164; embassy_runtime lifecycle, 88-104).       *)
THEOREM DrainsNeverStick == SessionSpec => []DrainIsNeverStuck
<1>1. ASSUME Induction, drain.pc \notin {"open", "stopped"}
      PROVE  drain.awaited \cap tasks = Running
  <2>1. tasks = Running /\ drain \in DrainState
    BY <1>1 DEF Induction, SlotsSound, SessionTypeOK
  <2>2. CASE drain.pc \in {"waiting", "cancelling", "final"}
    BY <1>1, <2>1, <2>2 DEF Induction, DrainSound
  <2>3. CASE drain.pc = "clearing"
    BY <1>1, <2>1, <2>3 DEF Induction, DrainSound
  <2> QED
    BY <1>1, <2>1, <2>2, <2>3 DEF DrainState
<1>2. Induction => DrainIsNeverStuck
  BY <1>1 DEF DrainIsNeverStuck
<1> QED
  BY <1>2, SessionsInduction, PTL
=============================================================================
