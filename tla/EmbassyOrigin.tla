----------------------------- MODULE EmbassyOrigin -----------------------------
(***************************************************************************)
(* How a remote request is attributed: the gateway beside sam-node           *)
(* (src/helpers/embassy_gateway.py) asks the broker for its challenge, signs  *)
(* a proof for it and forwards the request once; the broker                   *)
(* (src/helpers/embassy_origin.py) verifies the proof before the request      *)
(* reaches a specialist.                                                    *)
(*                                                                         *)
(* A proof is known by the call it was signed for, which stands for its nonce *)
(* and for the body it digests.  Proofs travel unordered; they may be lost,    *)
(* delayed or delivered again, also with another path or body.  The broker may *)
(* restart.  Time is counted in parts of a second, which int() cuts off.       *)
(* The clock goes forward.                                                  *)
(***************************************************************************)
EXTENDS Integers, FiniteSets, Sequences

CONSTANTS
  Calls,       \* requests that reach the gateway
  Peers,       \* peers that sam-node stamps on a request
  Anonymous,   \* no x-peer-id: a probe or catalog request of sam-node itself
  Services,    \* published services
  Second,      \* ticks in a second
  Lifetime,    \* 30 seconds in the code
  Skew,        \* 5 seconds in the code
  Offsets,     \* by how many ticks the gateway's clock may be ahead
  Capacity,    \* 10000 in the code
  MaxTime,     \* bound: last tick of the broker's clock
  MaxBoots     \* bound: broker starts

ASSUME OriginAssumption ==
  /\ IsFiniteSet(Calls)
  /\ Anonymous \notin Peers
  /\ Second \in Nat \ {0} /\ Lifetime \in Nat /\ Skew \in Nat
  /\ Offsets \subseteq Nat /\ Offsets # {}
  /\ Capacity \in Nat /\ MaxTime \in Nat /\ MaxBoots \in Nat

VARIABLES
  gateway,    \* where each call stands in the gateway, and what it carries
  proofs,     \* the claims signed so far
  boot,       \* which start of the broker this is; stands for its challenge
  seen,       \* self.seen: nonces with their expiry
  now,        \* the broker's clock
  handled     \* history: the requests passed on to a specialist for each nonce

ovars == <<gateway, proofs, boot, seen, now, handled>>

Methods == {"listing", "call"}
Request == [peer: Peers \cup {Anonymous}, service: Services, method: Methods]
GatewayState ==
  [pc: {"new", "challenged", "forwarded", "refused"}, request: Request, audience: Nat]
Claims == [nonce: Calls, request: Request, at: Nat, audience: Nat]

OriginTypeOK ==
  /\ gateway \in [Calls -> GatewayState]
  /\ proofs \subseteq Claims
  /\ boot \in Nat
  /\ seen \subseteq [nonce: Calls, expiry: Nat]
  /\ now \in Nat
  /\ handled \in [Calls -> Seq(Request)]

OriginInit ==
  /\ gateway \in [Calls -> {[pc |-> "new", request |-> r, audience |-> 0] : r \in Request}]
  /\ proofs = {}
  /\ boot = 1
  /\ seen = {}
  /\ now = 0
  /\ handled = [c \in Calls |-> <<>>]

-----------------------------------------------------------------------------
(* Without a peer only the listing methods go on, here and in the broker.     *)
Attributed(request) == request.peer # Anonymous \/ request.method = "listing"

(* The request is read and the current challenge fetched; either may fail.     *)
FetchChallenge(c) ==
  /\ gateway[c].pc = "new"
  /\ \/ /\ Attributed(gateway[c].request)
        /\ gateway' = [gateway EXCEPT ![c].pc = "challenged", ![c].audience = boot]
     \/ gateway' = [gateway EXCEPT ![c].pc = "refused"]
  /\ UNCHANGED <<proofs, boot, seen, now, handled>>

(* sign() and the one POST; its answer may be lost, and is never asked for again. *)
Forward(c) ==
  /\ gateway[c].pc = "challenged"
  /\ \E offset \in Offsets :
       proofs' = proofs \cup
         {[nonce |-> c, request |-> gateway[c].request, audience |-> gateway[c].audience,
           at |-> (now + offset) \div Second]}
  /\ gateway' = [gateway EXCEPT ![c].pc = "forwarded"]
  /\ UNCHANGED <<boot, seen, now, handled>>

-----------------------------------------------------------------------------
\* Mutant: the path is not among the compared claims.
GenuineAnywhere(p, service, method) == p.audience = boot /\ p.request.method = method

(* The signed claims must be those of the request that carries them.           *)
Genuine(p, service, method) ==
  /\ p.audience = boot
  /\ p.request.service = service
  /\ p.request.method = method

Expiry(p) == p.at * Second + Lifetime * Second

InTime(p) ==
  /\ p.at * Second <= now + Skew * Second
  /\ now <= Expiry(p)

\* Mutant: an entry is dropped at the last instant its proof is still in time.
UnexpiredEarly == {s \in seen : s.expiry > now}

(* What is left of seen once expired nonces are dropped.                       *)
Unexpired == {s \in seen : s.expiry >= now}

Replayed(p) == \E s \in Unexpired : s.nonce = p.nonce

Full == Cardinality(Unexpired) >= Capacity

Entry(p) == [nonce |-> p.nonce, expiry |-> Expiry(p)]

(* The nonce is spent; the middleware then refuses an anonymous call.          *)
Accept(p, service, method) ==
  /\ ~Replayed(p)
  /\ ~Full
  /\ seen' = Unexpired \cup {Entry(p)}
  /\ \/ /\ p.request.peer # Anonymous \/ method = "listing"
        /\ handled' = [handled EXCEPT ![p.nonce] =
             Append(@, [peer |-> p.request.peer, service |-> service, method |-> method])]
     \/ /\ p.request.peer = Anonymous /\ method # "listing"
        /\ UNCHANGED handled

Refuse(p) ==
  /\ Replayed(p) \/ Full
  /\ seen' = Unexpired
  /\ UNCHANGED handled

(* verify() and the middleware, which have no await between them: any request    *)
(* may arrive with any proof that was ever signed.                             *)
Verify(p, service, method) ==
  /\ Genuine(p, service, method)
  /\ InTime(p)
  /\ Accept(p, service, method) \/ Refuse(p)
  /\ UNCHANGED <<gateway, proofs, boot, now>>

\* Mutant: the challenge outlives the process, the nonces do not.
RestartSameChallenge ==
  /\ boot < MaxBoots
  /\ seen' = {}
  /\ UNCHANGED <<gateway, proofs, boot, now, handled>>

(* A new verifier: no nonces, another challenge.                              *)
Restart ==
  /\ boot < MaxBoots
  /\ boot' = boot + 1
  /\ seen' = {}
  /\ UNCHANGED <<gateway, proofs, now, handled>>

Tick ==
  /\ now < MaxTime
  /\ now' = now + 1
  /\ UNCHANGED <<gateway, proofs, boot, seen, handled>>

OriginNext ==
  \/ \E c \in Calls : FetchChallenge(c) \/ Forward(c)
  \/ \E p \in proofs, service \in Services, method \in Methods : Verify(p, service, method)
  \/ Restart
  \/ Tick

OriginSpec == OriginInit /\ [][OriginNext]_ovars

-----------------------------------------------------------------------------
(* A forwarded request reaches a specialist at most once, however often its     *)
(* proof is delivered and whenever the broker restarts (verify, 112-123; the    *)
(* challenge, 80; the gateway's "Never retry", 130).                           *)
HandledOnce == \A c \in Calls : Len(handled[c]) <= 1

(* What a specialist is given is what that caller sent to that service, under    *)
(* the peer sam-node stamped on it, and only listings come without a peer        *)
(* (verify, 90-108; OriginMiddleware, 159-170).                                *)
HandledAsSent ==
  \A c \in Calls : \A k \in 1..Len(handled[c]) :
    /\ handled[c][k] = gateway[c].request
    /\ gateway[c].pc = "forwarded"
    /\ handled[c][k].peer = Anonymous => handled[c][k].method = "listing"

(* A nonce is not forgotten while its proof would still be taken (115-123).      *)
SeenCoversWindow ==
  \A p \in proofs :
    handled[p.nonce] # <<>> /\ p.audience = boot /\ InTime(p)
      => \E s \in seen : s.nonce = p.nonce /\ s.expiry >= now

=============================================================================
