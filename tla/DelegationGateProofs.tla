------------------------ MODULE DelegationGateProofs ------------------------
(***************************************************************************)
(* Theorems about the outbound gate, for every value of the constants: any  *)
(* number of projects, chats, processes, threads, decisions, descriptors    *)
(* and configurations.  The gate is one client of the store, so the lemmas  *)
(* of DecisionStoreProofs carry over once every step of the gate is shown   *)
(* to be a step of the store.                                               *)
(***************************************************************************)
EXTENDS DelegationGate, DecisionStoreProofs

Approving == {"a_boundary", "a_issue", "a_evidence", "a_update"}
Owning == {"consume", "evidence", "admit", "call", "finish"}
Matched == {"policy", "recheck", "claim", "consume", "evidence", "admit", "call"}
Cleared == {"claim", "consume", "evidence", "admit", "call"}
Paid == {"evidence", "admit", "call"}
Loaded == {"describe", "resolve"} \cup Matched \cup Approving

\* Where an activation names a call.
Naming == {"load", "kill", "p_evidence", "p_kill", "admit", "finish"} \cup Loaded

Honest(x) == x.outcome \in {"deny", PolicyOf[<<x.tool, x.config>>]}
Approved(d) == <<"approval", d>> \in audit

(* The activation r and what it holds have the types of its program counter. *)
Shaped(r) ==
  /\ r \in ThreadState
  /\ r.pc \in Naming => r.id \in Calls
  /\ r.pc \in Naming \ {"evidence", "call", "finish"} => r.id \in Decisions
  /\ r.pc = "p_create" \/ (r.pc \in Loaded /\ r.id \in Decisions) =>
       r.payload \in Payloads /\ Honest(r.payload)
  /\ r.pc = "p_create" => r.payload.lease = NoLease
  /\ r.pc \in Matched /\ r.id \in Decisions =>
       r.tool = r.payload.tool /\ r.config = r.payload.config

(* What was loaded is still a row of this chat, and an approval in the copy  *)
(* was audited before it could be stored.                                    *)
Grounded(r) ==
  r.pc \in Loaded /\ r.id \in Decisions =>
    /\ ScopeOf[r.id] = r.chat
    /\ decisions[r.id].state # "absent"
    /\ r.payload.lease # NoLease => r.pc = "a_evidence" \/ Approved(r.id)

(* An open decision seen by an approval after its barrier check, or by a     *)
(* claim, cannot be of a stopped profile: the stop would have spent it.      *)
Unstopped(r) ==
  /\ r.pc \in {"a_issue", "a_evidence", "a_update", "claim"} /\ Open(r.id) =>
       ~Stopped(r.chat)
  /\ r.pc = "recheck" /\ Open(r.id) => r.tool \in Conforming \/ Stopped(r.chat)
  /\ r.pc = "claim" /\ Open(r.id) => r.tool \in Conforming

(* From the claim to the end of the finally block an activation owns its     *)
(* call: the slot is its own and the row keeps what it was checked against.  *)
Owns(r) ==
  r.pc \in Owning =>
    /\ r.id \in started /\ ScopeOf[r.id] = r.chat
    /\ sessions[r.chat].active = r.id
    /\ r.pc # "finish" /\ r.id \in Decisions =>
         decisions[r.id].payload = r.payload /\ r.tool \in Conforming

(* What has been established about a call on its way to dispatch.            *)
Authorised(r) ==
  /\ r.pc \in Cleared /\ r.id \in Decisions =>
       /\ PolicyOf[<<r.tool, r.config>>] # "deny" /\ r.payload.outcome # "deny"
       /\ PolicyOf[<<r.tool, r.config>>] = "needs_approval" => r.payload.lease # NoLease
  /\ r.pc \in Paid /\ r.id \in Decisions /\ PolicyOf[<<r.tool, r.config>>] = "needs_approval" =>
       /\ r.payload.lease \in Leases
       /\ leases[r.payload.lease].uses = 1
       /\ leases[r.payload.lease].binding =
            [chat |-> r.chat, tool |-> r.tool, config |-> r.config]
  /\ r.pc = "admit" => <<"dispatch", r.id>> \in audit
  /\ r.pc \in {"consume", "evidence", "admit"} /\ r.id \in Decisions => dispatches[r.id] = 0
  /\ r.pc = "call" \/ (r.pc = "evidence" /\ r.id \in Natives) =>
       \E a \in admissions : a.id = r.id

Fits(r) == Shaped(r) /\ Grounded(r) /\ Unstopped(r) /\ Owns(r) /\ Authorised(r)

(* The rows of the tables, whoever reads them next.                          *)
RowsFit ==
  /\ \A d \in Decisions : decisions[d].state # "absent" =>
       /\ decisions[d].payload \in Payloads /\ Honest(decisions[d].payload)
       /\ decisions[d].payload.lease # NoLease => Approved(d)
  /\ \A l \in Leases : leases[l].state = "absent" => leases[l].uses = 0
  /\ now \in 0..MaxTime

OneOwner ==
  \A t, u \in Threads :
    threads[t].pc \in Owning /\ threads[u].pc \in Owning /\ Id(t) = Id(u) => t = u

GateInduction ==
  /\ GateTypeOK /\ AdmissionHoldsSlot /\ ClaimedIsSpent
  /\ \A t \in Threads : Fits(threads[t])
  /\ RowsFit /\ StopKillsApprovals
  /\ OneOwner /\ DispatchedOnce /\ DispatchIsAuthorised
-----------------------------------------------------------------------------
(* One activation moves at a time, unless a process dies.                    *)
Turn(t) == Request(t) \/ Step(t) \/ StorageFault(t)

LEMMA OthersWait ==
  ASSUME GateTypeOK, NEW t \in Threads, Turn(t), NEW u \in Threads, u # t
  PROVE  threads'[u] = threads[u]
BY DEF Turn, Request, Step, PreflightStep, ApproveStep, InvokeStep, ControlStep,
   StorageFault, PreflightBegin, PreflightDescribe, PreflightPolicy, PreflightOutcome,
   PreflightCreate, PreflightEvidence, PreflightKill, ApproveBegin, ApproveBoundary,
   ApproveIssue, ApproveEvidence, ApproveUpdate, InvokeBegin, InvokeLoad,
   InvokeDescribe, InvokeResolve, InvokePolicy, InvokeRecheck, InvokeClaim,
   InvokeConsume, InvokeEvidence, InvokeAdmit, Call, Release, InvokeKill, NativeBegin,
   NativeEvidence, StopBegin, StopLeases, ResumeBegin, ResumeEvidence, ResumeOpen, Goto,
   Return, Begin, GateTypeOK

(* Every step of the gate is one transaction of the store, or none.          *)
LEMMA GateIsStoreClient ==
  GateTypeOK /\ RowsFit /\ (\A t \in Threads : Fits(threads[t])) /\ [Next]_vars
    => [StoreNext]_storeVars
<1> SUFFICES ASSUME GateTypeOK, RowsFit, \A t \in Threads : Fits(threads[t]), [Next]_vars
             PROVE  [StoreNext]_storeVars
  OBVIOUS
<1>1. ASSUME NEW c \in Chats, Read(c) PROVE StoreNext
  BY <1>1 DEF StoreNext
<1>2. \A t \in Threads : Chat(t) \in Chats /\ Proc(t) \in Processes
  BY GateAssumption DEF GateTypeOK, ThreadState, GateAssumption, Chat, Proc
<1>3. ASSUME NEW t \in Threads, PreflightCreate(t) PROVE [StoreNext]_storeVars
  <2>1. CASE UNCHANGED storeVars
    BY <2>1
  <2>2. ASSUME NEW d \in Decisions,
               Create(Proc(t), Chat(t), d, [Payload(t) EXCEPT !.deadline = now + TTL])
        PROVE  StoreNext
    <3>1. Payload(t) \in Payloads
      BY <1>3 DEF Fits, Shaped, PreflightCreate, At, Payload
    <3>2. [Payload(t) EXCEPT !.deadline = now + TTL] \in Payloads
      BY <3>1, GateAssumption, StoreAssumption, SMTT(30)
         DEF GateAssumption, StoreAssumption, Sealed, RowsFit
    <3> QED
      BY <1>2, <2>2, <3>2 DEF StoreNext, DecisionStep
  <2> QED
    BY <1>3, <2>1, <2>2 DEF PreflightCreate
<1>4. ASSUME NEW t \in Threads, PreflightKill(t) \/ InvokeKill(t) PROVE StoreNext
  <2>1. Id(t) \in Decisions
    BY <1>4 DEF Fits, Shaped, Naming, PreflightKill, InvokeKill, At, Id
  <2> QED
    BY <1>2, <1>4, <2>1, StoreAssumption
       DEF StoreNext, DecisionStep, PreflightKill, InvokeKill, StoreAssumption
<1>5. ASSUME NEW t \in Threads, NEW c \in Chats, NEW d \in Decisions, ApproveBegin(t, c, d)
      PROVE  StoreNext
  BY <1>1, <1>5 DEF ApproveBegin, Load
<1>6. ASSUME NEW t \in Threads, ApproveUpdate(t) PROVE [StoreNext]_storeVars
  <2>1. Id(t) \in Decisions /\ Payload(t) \in Payloads
    BY <1>6, StoreAssumption DEF Fits, Shaped, Naming, Loaded, Approving,
       ApproveUpdate, At, Id, Payload, StoreAssumption, Calls
  <2> QED
    BY <1>2, <1>6, <2>1 DEF ApproveUpdate, StoreNext, DecisionStep
<1>7. ASSUME NEW t \in Threads, InvokeLoad(t) PROVE [StoreNext]_storeVars
  BY <1>1, <1>2, <1>7 DEF InvokeLoad, Load
<1>8. ASSUME NEW t \in Threads, InvokeClaim(t) PROVE [StoreNext]_storeVars
  <2>1. Id(t) \in Decisions /\ Payload(t) \in Payloads
    BY <1>8, StoreAssumption DEF Fits, Shaped, Naming, Loaded, Matched,
       InvokeClaim, At, Id, Payload, StoreAssumption, Calls
  <2> QED
    BY <1>2, <1>8, <2>1 DEF InvokeClaim, StoreNext, DecisionStep
<1>9. ASSUME NEW t \in Threads, InvokeAdmit(t) PROVE [StoreNext]_storeVars
  <2>1. Id(t) \in Decisions /\ Payload(t) \in Payloads
    BY <1>9, StoreAssumption DEF Fits, Shaped, Naming, Loaded, Matched,
       InvokeAdmit, At, Id, Payload, StoreAssumption, Calls
  <2>2. Payload(t).deadline \in 0..(MaxTime + TTL)
    BY <2>1, GateAssumption DEF GateAssumption, Sealed
  <2> QED
    BY <1>2, <1>9, <2>1, <2>2, StoreAssumption
       DEF InvokeAdmit, StoreNext, DecisionStep, StoreAssumption
<1>10. ASSUME NEW t \in Threads, Release(t) PROVE StoreNext
  <2>1. Id(t) \in Calls
    BY <1>10 DEF Fits, Shaped, Naming, Release, At, Id
  <2> QED
    BY <1>2, <1>10, <2>1, StoreAssumption
       DEF Release, StoreNext, DecisionStep, Calls, StoreAssumption
<1>11. ASSUME NEW t \in Threads, Request(t) PROVE [StoreNext]_storeVars
  BY <1>1, <1>5, <1>11 DEF Request, PreflightBegin, StopBegin, ResumeBegin, InvokeBegin,
     NativeBegin, StoreNext
<1>12. ASSUME NEW t \in Threads, ResumeOpen(t) PROVE StoreNext
  BY <1>2, <1>12 DEF ResumeOpen, StoreNext
<1>13. ASSUME NEW t \in Threads, Step(t) PROVE [StoreNext]_storeVars
  BY <1>1, <1>2, <1>3, <1>4, <1>6, <1>7, <1>8, <1>9, <1>10, <1>12, <1>13 DEF Step,
     PreflightStep, ApproveStep, InvokeStep, ControlStep, PreflightDescribe,
     PreflightPolicy, PreflightOutcome, PreflightEvidence, ApproveBoundary,
     ApproveIssue, ApproveEvidence, InvokeDescribe, InvokeResolve, InvokePolicy,
     InvokeRecheck, InvokeConsume, InvokeEvidence, NativeEvidence, Call, StopLeases,
     ResumeEvidence
<1>14. CASE Environment
  BY <1>14, StoreAssumption DEF Environment, Revoke, LoseKey, Crash, Clock, ToolDrift,
     ConfigDrift, StoreNext, DecisionStep, StoreAssumption
<1>15. CASE UNCHANGED vars
  BY <1>15 DEF vars, storeVars
<1> QED
  BY <1>11, <1>13, <1>14, <1>15 DEF Next, StorageFault
-----------------------------------------------------------------------------
(* What a step leaves alone, whoever takes it: everything but the slot, the  *)
(* admission and the count of the call x it is about.                        *)
Undisturbed(x) ==
  /\ started \subseteq started' /\ audit \subseteq audit'
  /\ \A d \in Decisions : decisions[d].state # "absent" =>
       /\ decisions'[d].state # "absent"
       /\ ~Open(d) => decisions'[d].state # "open" /\ decisions'[d].payload = decisions[d].payload
       /\ decisions'[d].state = "open" =>
            control'[ProfileOfCall(d)].stopped = control[ProfileOfCall(d)].stopped
  /\ \A l \in Leases : leases[l].uses = 1 =>
       leases'[l].uses = 1 /\ leases'[l].binding = leases[l].binding
  /\ \A c \in Chats : sessions[c].active \notin {x, NoCall} =>
       sessions'[c].active = sessions[c].active
  /\ \A a \in admissions : a.id # x => a \in admissions'
  /\ \A d \in Decisions : d # x => dispatches'[d] = dispatches[d]

\* The call a step of t is about.
Own(t) == IF threads[t].pc \in {"admit", "finish"} THEN Id(t) ELSE NoCall

(* The lease and the history part.                                           *)
LeasesKept ==
  \A l \in Leases : leases[l].uses = 1 =>
    leases'[l].uses = 1 /\ leases'[l].binding = leases[l].binding

LEMMA LeaseOperations ==
  ASSUME GateTypeOK, RowsFit
  PROVE  /\ \A b : \A l \in Leases, c \in Chats : LS!Issue(l, c, b, LeaseTTL) => LeasesKept
         /\ \A l, b : LS!Consume(l, b) => LeasesKept
         /\ \A c \in Chats : LS!RevokeProfile(c) => LeasesKept
         /\ UNCHANGED leases => LeasesKept
<1>1. \A b : \A l \in Leases, c \in Chats : LS!Issue(l, c, b, LeaseTTL) => LeasesKept
  BY DEF LS!Issue, LeasesKept, RowsFit, GateTypeOK, LS!LeaseTypeOK
<1>2. \A l, b : LS!Consume(l, b) => LeasesKept
  BY DEF LS!Consume, LS!Consumable, LeasesKept, GateTypeOK, LS!LeaseTypeOK, LS!LeaseRow
<1>3. \A c \in Chats : LS!RevokeProfile(c) => LeasesKept
  BY DEF LS!RevokeProfile, LS!Revoked, LeasesKept, GateTypeOK, LS!LeaseTypeOK, LS!LeaseRow
<1> QED
  BY <1>1, <1>2, <1>3 DEF LeasesKept

(* Each step of an activation uses at most one operation of the store.       *)
LEMMA DisturbsOwnSlot ==
  ASSUME GateTypeOK, RowsFit, AdmissionHoldsSlot, \A t \in Threads : Fits(threads[t]),
         NEW t \in Threads, Turn(t)
  PROVE  StoreKeeps(Own(t))
<1> DEFINE x == Own(t)
<1> HIDE DEF x
<1> SUFFICES StoreKeeps(x)
  BY DEF x
<1>0. StoreTypeOK
  BY DEF GateTypeOK
<1>1. /\ Chat(t) \in Chats /\ Proc(t) \in Processes
      /\ threads[t].pc \in Naming \ {"evidence", "call", "finish"} => Id(t) \in Decisions
      /\ threads[t].pc \in Naming => Id(t) \in Calls
  BY GateAssumption
     DEF GateTypeOK, ThreadState, GateAssumption, Chat, Proc, Fits, Shaped, Id
<1>2. CASE Request(t)
  BY <1>0, <1>2, StoreOperations DEF Request, PreflightBegin, StopBegin, ResumeBegin,
     ApproveBegin, Load, InvokeBegin, NativeBegin
<1>3. CASE PreflightDescribe(t) \/ PreflightPolicy(t) \/ PreflightOutcome(t) \/ PreflightEvidence(t)
  BY <1>0, <1>1, <1>3, StoreOperations DEF PreflightDescribe, PreflightPolicy,
     PreflightOutcome, PreflightEvidence
<1>4. CASE PreflightCreate(t)
  BY <1>0, <1>1, <1>4, StoreOperations DEF PreflightCreate
<1>5. CASE PreflightKill(t) \/ InvokeKill(t)
  BY <1>0, <1>1, <1>5, StoreOperations DEF PreflightKill, InvokeKill, At, Naming
<1>6. CASE ApproveBoundary(t) \/ ApproveIssue(t) \/ ApproveEvidence(t)
  BY <1>0, <1>1, <1>6, StoreOperations DEF ApproveBoundary, ApproveIssue, ApproveEvidence
<1>7. CASE ApproveUpdate(t)
  BY <1>0, <1>1, <1>7, StoreOperations DEF ApproveUpdate, At, Naming, Loaded, Approving
<1>8. CASE \/ InvokeLoad(t) \/ InvokeDescribe(t) \/ InvokeResolve(t) \/ InvokePolicy(t)
           \/ InvokeRecheck(t) \/ InvokeConsume(t) \/ InvokeEvidence(t) \/ NativeEvidence(t)
           \/ Call(t)
  BY <1>0, <1>1, <1>8, StoreOperations DEF InvokeLoad, Load, InvokeDescribe,
     InvokeResolve, InvokePolicy, InvokeRecheck, InvokeConsume, InvokeEvidence,
     NativeEvidence, Call
<1>9. CASE InvokeClaim(t)
  BY <1>0, <1>1, <1>9, StoreOperations DEF InvokeClaim, At, Naming, Loaded, Matched
<1>10. CASE InvokeAdmit(t)
  BY <1>0, <1>1, <1>10, StoreOperations DEF InvokeAdmit, At, Naming
<1>11. CASE Release(t)
  <2>1. x = Id(t)
    BY <1>11 DEF Release, At, Own, Owning, x
  <2> QED
    BY <1>0, <1>1, <1>11, <2>1, StoreOperations DEF Release, At, Naming
<1>12. CASE ControlStep(t) \/ StorageFault(t)
  BY <1>0, <1>1, <1>12, StoreOperations DEF ControlStep, StopLeases, ResumeEvidence,
     ResumeOpen, StorageFault
<1> QED
  BY <1>2, <1>3, <1>4, <1>5, <1>6, <1>7, <1>8, <1>9, <1>10, <1>11, <1>12
     DEF Turn, Step, PreflightStep, ApproveStep, InvokeStep

LEMMA DisturbsOwnCall ==
  ASSUME GateTypeOK, RowsFit, AdmissionHoldsSlot, \A t \in Threads : Fits(threads[t]),
         NEW t \in Threads, Turn(t)
  PROVE  Undisturbed(Own(t))
<1>0. Chat(t) \in Chats
  BY SMTT(30) DEF GateTypeOK, ThreadState, Chat
<1>1. LeasesKept
  BY ZenonT(40), <1>0, LeaseOperations DEF Turn, Request, Step, PreflightStep, ApproveStep,
     InvokeStep, ControlStep, StorageFault, PreflightBegin, PreflightDescribe,
     PreflightPolicy, PreflightOutcome, PreflightCreate, PreflightEvidence,
     PreflightKill, ApproveBegin, ApproveBoundary, ApproveIssue, ApproveEvidence,
     ApproveUpdate, InvokeBegin, InvokeLoad, InvokeDescribe, InvokeResolve,
     InvokePolicy, InvokeRecheck, InvokeClaim, InvokeConsume, InvokeEvidence,
     InvokeAdmit, Call, Release, InvokeKill, NativeBegin, NativeEvidence, StopBegin,
     StopLeases, ResumeBegin, ResumeEvidence, ResumeOpen
<1>2. audit \subseteq audit'
  BY DEF Turn, Request, Step, PreflightStep, ApproveStep, InvokeStep, ControlStep,
     StorageFault, PreflightBegin, PreflightDescribe, PreflightPolicy, PreflightOutcome,
     PreflightCreate, PreflightEvidence, PreflightKill, ApproveBegin, ApproveBoundary,
     ApproveIssue, ApproveEvidence, ApproveUpdate, InvokeBegin, InvokeLoad,
     InvokeDescribe, InvokeResolve, InvokePolicy, InvokeRecheck, InvokeClaim,
     InvokeConsume, InvokeEvidence, InvokeAdmit, Call, Release, InvokeKill, NativeBegin,
     NativeEvidence, StopBegin, StopLeases, ResumeBegin, ResumeEvidence, ResumeOpen,
     rest
<1>3. \A d \in Decisions : d # Own(t) => dispatches'[d] = dispatches[d]
  <2>1. CASE InvokeAdmit(t)
    BY <2>1 DEF InvokeAdmit, At, Own, Owning, GateTypeOK
  <2>2. CASE ~InvokeAdmit(t)
    <3> dispatches' = dispatches
      BY <2>2 DEF Turn, Request, Step, PreflightStep, ApproveStep, InvokeStep,
         ControlStep, StorageFault, PreflightBegin, PreflightDescribe, PreflightPolicy,
         PreflightOutcome, PreflightCreate, PreflightEvidence, PreflightKill,
         ApproveBegin, ApproveBoundary, ApproveIssue, ApproveEvidence, ApproveUpdate,
         InvokeBegin, InvokeLoad, InvokeDescribe, InvokeResolve, InvokePolicy,
         InvokeRecheck, InvokeClaim, InvokeConsume, InvokeEvidence, Call, Release,
         InvokeKill, NativeBegin, NativeEvidence, StopBegin, StopLeases, ResumeBegin,
         ResumeEvidence, ResumeOpen, rest
    <3> QED BY SMTT(30)
  <2> QED BY <2>1, <2>2
<1> QED
  BY <1>1, <1>2, <1>3, DisturbsOwnSlot
     DEF Undisturbed, StoreKeeps, RowsKept, SlotsKept, LeasesKept
LEMMA EnvironmentDisturbsNothing ==
  ASSUME GateTypeOK, AdmissionHoldsSlot, Environment
  PROVE  Undisturbed(NoCall)
<1>0. StoreTypeOK
  BY DEF GateTypeOK
<1>1. StoreKeeps(NoCall)
  <2>1. ASSUME NEW c \in Chats, NEW d \in Decisions, Revoke(c, d) PROVE StoreKeeps(NoCall)
    BY <1>0, <2>1, StoreOperations DEF Revoke
  <2>2. ASSUME NEW p \in Processes, LoseKey(p) \/ Crash(p) PROVE StoreKeeps(NoCall)
    BY <1>0, <2>2, StoreOperations DEF LoseKey, Crash
  <2>3. CASE Clock
    <3>1. PICK p \in Processes : TRUE
      BY StoreAssumption DEF StoreAssumption
    <3> QED
      BY <1>0, <2>3, <3>1, StoreOperations DEF Clock
  <2>4. CASE ToolDrift \/ ConfigDrift
    BY <1>0, <2>4, StoreOperations DEF ToolDrift, ConfigDrift
  <2> QED
    BY <2>1, <2>2, <2>3, <2>4 DEF Environment
<1>2. leases' = leases /\ audit' = audit /\ dispatches' = dispatches
  BY DEF Environment, Revoke, LoseKey, Crash, Clock, ToolDrift, ConfigDrift, rest
<1> QED
  BY <1>1, <1>2 DEF Undisturbed, StoreKeeps, RowsKept, SlotsKept

(* What an activation relies on survives every step that is not about its    *)
(* own call.                                                                *)
LEMMA FitsIsStable ==
  ASSUME GateTypeOK, ClaimedIsSpent, NEW r, Fits(r), NEW x, Undisturbed(x), r.pc \in Owning => r.id # x
  PROVE  Fits(r)'
<1>0. /\ r.id \in Decisions => ProfileOfCall(r.id) = ProfileOf[ScopeOf[r.id]]
      /\ r.pc \in Naming \ {"evidence", "call", "finish"} => r.id \in Decisions
      /\ r.pc \in Naming => r.id \in Calls
      /\ r.pc \in Loaded => r.pc \in Naming
      /\ r.pc \in Loaded /\ r.id \in Decisions =>
           ScopeOf[r.id] = r.chat /\ decisions[r.id].state # "absent"
  BY DEF Fits, Shaped, Grounded, ProfileOfCall, Naming
<1>1. Shaped(r)'
  BY DEF Fits, Shaped, Honest
<1>2. Grounded(r)'
  BY DEF Fits, Grounded, Undisturbed, Approved
<1>3. Unstopped(r)'
  BY <1>0 DEF Fits, Unstopped, Undisturbed, Open, Stopped, Naming, Loaded, Matched,
     Approving
<1>4. Owns(r)'
  <2>1. CASE r.pc \in Owning
    <3>1. r.id \in Calls /\ r.chat \in Chats /\ r.id # NoCall
      BY <2>1, <1>0, StoreAssumption
         DEF Fits, Shaped, ThreadState, Naming, Owning, StoreAssumption, Loaded, Matched
    <3>2. r.id \in started' /\ sessions'[r.chat].active = r.id
      BY <2>1, <3>1 DEF Fits, Owns, Undisturbed
    <3>3. r.pc # "finish" /\ r.id \in Decisions => decisions'[r.id].payload = r.payload
      BY <2>1, <3>1 DEF Fits, Owns, ClaimedIsSpent, Undisturbed, Open
    <3> QED
      BY <2>1, <3>1, <3>2, <3>3 DEF Fits, Owns
  <2> QED
    BY <2>1 DEF Owns
<1>5. Authorised(r)'
  <2>1. /\ r.pc \in Cleared => r.pc \in Owning \/ r.pc = "claim"
        /\ r.pc \in Paid \cup {"consume", "evidence", "admit"} => r.pc \in Owning
    BY DEF Cleared, Owning, Paid
  <2>2. r.pc = "call" \/ (r.pc = "evidence" /\ r.id \in Natives) =>
          \E a \in admissions' : a.id = r.id
    BY <2>1 DEF Fits, Authorised, Undisturbed, Paid
  <2>3. r.pc = "admit" => <<"dispatch", r.id>> \in audit'
    BY DEF Fits, Authorised, Undisturbed
  <2>4. r.pc \in {"consume", "evidence", "admit"} /\ r.id \in Decisions => dispatches'[r.id] = 0
    BY <2>1 DEF Fits, Authorised, Undisturbed
  <2>5. ASSUME r.pc \in Paid, r.id \in Decisions, PolicyOf[<<r.tool, r.config>>] = "needs_approval"
        PROVE  /\ r.payload.lease \in Leases
               /\ leases'[r.payload.lease].uses = 1
               /\ leases'[r.payload.lease].binding =
                    [chat |-> r.chat, tool |-> r.tool, config |-> r.config]
    BY <2>5 DEF Fits, Authorised, Undisturbed
  <2> QED
    BY <2>2, <2>3, <2>4, <2>5 DEF Fits, Authorised
<1> QED
  BY <1>1, <1>2, <1>3, <1>4, <1>5 DEF Fits
-----------------------------------------------------------------------------
(* A step leaves its own activation fit.  Leaving is always fine.            *)
LEMMA LeavingFits ==
  ASSUME GateTypeOK, NEW t \in Threads, Return(t)
  PROVE  Fits(threads[t])'
<1>1. threads'[t] = Idle
  BY DEF Return, GateTypeOK
<1>2. Idle \in ThreadState /\ Idle.pc = "idle"
  BY GateAssumption DEF Idle, ThreadState, PCs, GateAssumption
<1> QED
  BY <1>1, <1>2 DEF Fits, Shaped, Grounded, Unstopped, Owns, Authorised, Naming, Loaded,
     Matched, Cleared, Paid, Approving, Owning

\* The assumptions of the lemmas below.
Ready(t) ==
  /\ t \in Threads /\ GateTypeOK /\ GateTypeOK' /\ AdmissionHoldsSlot /\ ClaimedIsSpent
  /\ RowsFit /\ RowsFit' /\ DispatchedOnce /\ \A u \in Threads : Fits(threads[u])

(* The activation keeps what it had, under its new program counter.          *)
LEMMA Carried ==
  ASSUME NEW t, Ready(t), Turn(t), threads[t].pc \notin {"admit", "finish"}
  PROVE  Fits(threads[t]) /\ \E r : r = threads[t] /\ Fits(r) /\ Fits(r)'
<1>1. PICK r : r = threads[t]
  OBVIOUS
<1>2. Fits(r) /\ Undisturbed(NoCall)
  BY <1>1, DisturbsOwnCall DEF Ready, Own
<1>3. r.pc \in Owning => r.id # NoCall
  BY <1>1, <1>2, StoreAssumption
     DEF Fits, Shaped, Naming, Owning, StoreAssumption, Loaded, Matched
<1>4. Fits(r)'
  BY <1>2, <1>3, FitsIsStable DEF Ready
<1> QED
  BY <1>1, <1>2, <1>4

LEMMA BeginningFits ==
  ASSUME NEW t, Ready(t), Request(t)
  PROVE  Fits(threads[t])'
<1> USE DEF Ready
<1>0. threads'[t] \in ThreadState
  BY DEF GateTypeOK
<1>1. ASSUME NEW pc, NEW c, NEW x, Begin(t, pc, c, x)
      PROVE  /\ threads'[t].pc = pc /\ threads'[t].chat = c /\ threads'[t].id = x
  BY <1>1 DEF Begin, Idle, GateTypeOK
<1>2. ASSUME NEW c \in Chats, NEW pc \in {"p_describe", "s_leases", "r_evidence"},
             Begin(t, pc, c, NoCall)
      PROVE  Fits(threads[t])'
  <2>1. threads'[t].pc = pc
    BY <1>1, <1>2
  <2> QED
    BY <1>0, <1>2, <2>1 DEF Fits, Shaped, Grounded, Unstopped, Owns, Authorised, Naming,
       Loaded, Matched, Cleared, Paid, Approving, Owning
<1>3. ASSUME NEW c \in Chats, NEW d \in Decisions, Begin(t, "load", c, d)
      PROVE  Fits(threads[t])'
  <2>1. threads'[t].pc = "load" /\ threads'[t].id = d
    BY <1>1, <1>3
  <2> QED
    BY <1>0, <2>1 DEF Fits, Shaped, Grounded, Unstopped, Owns, Authorised, Naming,
       Loaded, Matched, Cleared, Paid, Approving, Owning, Calls
<1>4. ASSUME NEW c \in Chats, NEW n \in Natives, NativeBegin(t, c, n)
      PROVE  Fits(threads[t])'
  <2>1. threads'[t].pc = "evidence" /\ threads'[t].id = n /\ threads'[t].chat = c
    BY <1>1, <1>4 DEF NativeBegin
  <2>2. n \in started' /\ ScopeOf[n] = c /\ sessions'[c].active = n /\ n \in Calls
    BY <1>4 DEF NativeBegin, BeginNative, GateTypeOK, StoreTypeOK, Calls
  <2>3. n \notin Decisions
    BY StoreAssumption DEF StoreAssumption
  <2>4. \E a \in admissions' : a.id = n
    <3>1. AdmissionOf(n) \in admissions'
      BY <1>4 DEF NativeBegin, BeginNative
    <3>2. AdmissionOf(n).id = n
      BY DEF AdmissionOf
    <3> QED
      BY <3>1, <3>2
  <2> QED
    <3>1. Authorised(threads[t])'
      BY <2>1, <2>3, <2>4 DEF Authorised
    <3> QED
      BY <1>0, <2>1, <2>2, <2>3, <3>1 DEF Fits, Shaped, Grounded, Unstopped, Owns, Naming,
         Loaded, Matched, Approving, Owning
<1>5. ASSUME NEW c \in Chats, NEW d \in Decisions, ApproveBegin(t, c, d)
      PROVE  Fits(threads[t])'
  <2>1. /\ threads'[t].pc = "a_boundary" /\ threads'[t].id = d /\ threads'[t].chat = c
        /\ threads'[t].payload = decisions[d].payload
    BY <1>5 DEF ApproveBegin, GateTypeOK
  <2>2. ScopeOf[d] = c /\ decisions[d].state = "open" /\ decisions' = decisions /\ audit' = audit
    BY <1>5 DEF ApproveBegin, Load, Loadable, Read, rest
  <2>3. /\ decisions[d].payload \in Payloads /\ Honest(decisions[d].payload)
        /\ decisions[d].payload.lease # NoLease => Approved(d)
    BY <2>2 DEF RowsFit
  <2> QED
    BY <1>0, <2>1, <2>2, <2>3 DEF Fits, Shaped, Grounded, Unstopped, Owns, Authorised,
       Naming, Loaded, Matched, Cleared, Paid, Approving, Owning, Calls, Honest,
       Approved
<1> QED
  BY <1>2, <1>3, <1>4, <1>5, LeavingFits
     DEF Request, PreflightBegin, StopBegin, ResumeBegin, InvokeBegin
LEMMA PreflightFits ==
  ASSUME NEW t, Ready(t), Turn(t), PreflightStep(t)
  PROVE  Fits(threads[t])'
<1> USE DEF Ready
<1>0. threads'[t] \in ThreadState
  BY DEF GateTypeOK
<1>1. ASSUME threads'[t].pc \in {"p_policy", "p_outcome"} PROVE Fits(threads[t])'
  BY <1>0, <1>1 DEF Fits, Shaped, Grounded, Unstopped, Owns, Authorised, Naming, Loaded,
     Matched, Cleared, Paid, Approving, Owning
<1>2. CASE PreflightDescribe(t) \/ PreflightPolicy(t)
  <2>1. Return(t) \/ threads'[t].pc \in {"p_policy", "p_outcome"}
    BY <1>2 DEF PreflightDescribe, PreflightPolicy, Goto, GateTypeOK, ThreadState
  <2> QED
    BY <1>1, <2>1, LeavingFits
<1>3. CASE PreflightOutcome(t)
  <2>1. PICK y \in Outcomes :
          /\ y \in {"deny", Policy(t)}
          /\ threads'[t].payload =
               [tool |-> threads[t].tool, config |-> threads[t].config, outcome |-> y,
                lease |-> NoLease, deadline |-> 0]
    <3>1. Policy(t) \in Outcomes
      BY GateAssumption DEF GateTypeOK, ThreadState, Policy, GateAssumption
    <3>2. "deny" \in Outcomes
      BY DEF Outcomes
    <3> QED
      BY <1>3, <3>1, <3>2 DEF PreflightOutcome, GateTypeOK
  <2>2. threads'[t].payload \in Payloads
    BY <2>1, GateAssumption, StoreAssumption
       DEF Sealed, GateAssumption, StoreAssumption, GateTypeOK, ThreadState
  <2>3. Honest(threads'[t].payload) /\ threads'[t].payload.lease = NoLease
    BY <2>1 DEF Honest, Policy
  <2>4. threads'[t].pc = "p_create"
    BY <1>3 DEF PreflightOutcome, GateTypeOK
  <2> QED
    BY <1>0, <2>2, <2>3, <2>4 DEF Fits, Shaped, Grounded, Unstopped, Owns, Authorised,
       Naming, Loaded, Matched, Cleared, Paid, Approving, Owning, Honest
<1>4. CASE PreflightCreate(t)
  <2>1. CASE Return(t)
    BY <2>1, LeavingFits
  <2>2. ASSUME NEW d \in Decisions, NEW y,
               threads' = [threads EXCEPT ![t].pc = "p_evidence", ![t].id = d, ![t].payload = y]
        PROVE  Fits(threads[t])'
    <3>1. threads'[t].pc = "p_evidence" /\ threads'[t].id = d
      BY <2>2 DEF GateTypeOK, ThreadState
    <3> QED
      BY <1>0, <3>1 DEF Fits, Shaped, Grounded, Unstopped, Owns, Authorised, Naming,
         Loaded, Matched, Cleared, Paid, Approving, Owning, Calls
  <2> QED
    BY <1>4, <2>1, <2>2 DEF PreflightCreate
<1>5. CASE PreflightEvidence(t) \/ PreflightKill(t)
  BY <1>5, LeavingFits DEF PreflightEvidence, PreflightKill
<1> QED
  BY <1>2, <1>3, <1>4, <1>5 DEF PreflightStep

LEMMA ApproveFits ==
  ASSUME NEW t, Ready(t), Turn(t), ApproveStep(t)
  PROVE  Fits(threads[t])'
<1> USE DEF Ready
<1>0. threads'[t] \in ThreadState
  BY DEF GateTypeOK
<1>1. PICK r : r = threads[t] /\ Fits(r) /\ Fits(r)' /\ r.pc \in Approving
  BY Carried DEF ApproveStep, ApproveBoundary, ApproveIssue, ApproveEvidence,
     ApproveUpdate, At, Approving
<1>2. /\ r.id \in Decisions /\ ScopeOf[r.id] = r.chat
      /\ r.payload \in Payloads /\ Honest(r.payload) /\ Honest(r.payload)'
      /\ decisions'[r.id].state # "absent" /\ r.id \in Calls /\ r \in ThreadState
  BY <1>1 DEF Fits, Shaped, Grounded, Naming, Loaded, Approving
<1>3. ASSUME NEW pc \in Approving, threads'[t].pc = pc, threads'[t].id = r.id,
             threads'[t].chat = r.chat, threads'[t].payload \in Payloads,
             Honest(threads'[t].payload),
             threads'[t].payload.lease # NoLease => pc = "a_evidence" \/ Approved(r.id)',
             pc # "a_boundary" /\ Open(r.id)' => ~Stopped(r.chat)'
      PROVE  Fits(threads[t])'
  <2>1. Shaped(threads[t])'
    BY <1>0, <1>2, <1>3 DEF Shaped, Naming, Loaded, Matched, Approving, Honest
  <2>2. Grounded(threads[t])'
    BY <1>2, <1>3 DEF Grounded, Approved
  <2>3. Unstopped(threads[t])'
    BY <1>2, <1>3 DEF Unstopped, Approving, Open, Stopped
  <2>4. Owns(threads[t])' /\ Authorised(threads[t])'
    BY <1>3 DEF Owns, Authorised, Owning, Cleared, Paid, Approving
  <2> QED
    BY <2>1, <2>2, <2>3, <2>4 DEF Fits
<1>4. CASE ApproveBoundary(t)
  <2>1. \/ Return(t)
        \/ /\ threads'[t] = [r EXCEPT !.pc = "a_issue"]
           /\ ~Stopped(r.chat) /\ control' = control /\ r.payload.lease = NoLease
    BY <1>1, <1>4 DEF ApproveBoundary, Goto, GateTypeOK, Chat, Payload, Read
  <2>2. CASE Return(t)
    BY <2>2, LeavingFits
  <2>3. CASE ~Return(t)
    <3>1. threads'[t].pc = "a_issue" /\ threads'[t].id = r.id /\ threads'[t].chat = r.chat
          /\ threads'[t].payload = r.payload
      BY <1>2, <2>1, <2>3 DEF ThreadState
    <3> QED
      BY <1>2, <1>3, <2>1, <2>3, <3>1 DEF Approving, Stopped
  <2> QED
    BY <2>2, <2>3
<1>5. CASE ApproveIssue(t)
  <2>1. CASE Return(t)
    BY <2>1, LeavingFits
  <2>2. CASE ~Return(t)
    <3>1. PICK l \in Leases :
            threads'[t] = [r EXCEPT !.pc = "a_evidence", !.payload.lease = l]
      BY <1>1, <1>5, <2>2 DEF ApproveIssue, GateTypeOK
    <3>2. /\ threads'[t].pc = "a_evidence" /\ threads'[t].id = r.id /\ threads'[t].chat = r.chat
          /\ threads'[t].payload = [r.payload EXCEPT !.lease = l]
      BY <1>2, <3>1 DEF ThreadState
    <3>3. threads'[t].payload \in Payloads /\ Honest(threads'[t].payload)
      BY <1>2, <3>2, GateAssumption DEF GateAssumption, Sealed, Honest
    <3>4. Open(r.id)' => ~Stopped(r.chat)'
      BY <1>1, <1>5 DEF Fits, Unstopped, ApproveIssue, At
    <3> QED
      BY <1>3, <3>2, <3>3, <3>4 DEF Approving
  <2> QED
    BY <2>1, <2>2
<1>6. CASE ApproveEvidence(t)
  <2>1. /\ threads'[t].pc = "a_update" /\ threads'[t].id = r.id /\ threads'[t].chat = r.chat
        /\ threads'[t].payload = r.payload
    BY <1>1, <1>6, <1>2 DEF ApproveEvidence, Goto, GateTypeOK, ThreadState
  <2>2. Approved(r.id)'
    BY <1>1, <1>6 DEF ApproveEvidence, Approved, Id
  <2>3. Open(r.id)' => ~Stopped(r.chat)'
    BY <1>1, <1>6 DEF Fits, Unstopped, ApproveEvidence, At
  <2> QED
    BY <1>2, <1>3, <2>1, <2>2, <2>3 DEF Approving
<1>7. CASE ApproveUpdate(t)
  BY <1>7, LeavingFits DEF ApproveUpdate
<1> QED
  BY <1>4, <1>5, <1>6, <1>7 DEF ApproveStep
(* Before the claim an invocation checks; it holds nothing but a copy.       *)
Checking == {"describe", "resolve", "policy", "recheck", "claim"}

LEMMA CheckFits ==
  ASSUME NEW t, Ready(t), Turn(t),
         \/ InvokeLoad(t) \/ InvokeDescribe(t) \/ InvokeResolve(t) \/ InvokePolicy(t)
         \/ InvokeRecheck(t) \/ InvokeKill(t)
  PROVE  Fits(threads[t])'
<1> USE DEF Ready
<1>0. threads'[t] \in ThreadState
  BY DEF GateTypeOK
<1>1. PICK r : r = threads[t] /\ Fits(r) /\ Fits(r)' /\ r.id \in Decisions /\ r \in ThreadState
  <2>1. threads[t].pc \in {"load", "kill"} \cup Checking
    BY DEF InvokeLoad, InvokeDescribe, InvokeResolve, InvokePolicy, InvokeRecheck,
       InvokeKill, At, Checking
  <2> QED
    BY <2>1, Carried DEF Fits, Shaped, Naming, Loaded, Matched, Checking
<1>2. CASE Return(t)
  BY <1>2, LeavingFits, SMTT(30)
<1>3. ASSUME threads'[t].pc = "kill", threads'[t].id = r.id PROVE Fits(threads[t])'
  BY <1>0, <1>1, <1>3 DEF Fits, Shaped, Grounded, Unstopped, Owns, Authorised, Naming,
     Loaded, Matched, Cleared, Paid, Approving, Owning, Calls
<1>4. ASSUME NEW pc \in Checking, threads'[t].pc = pc, threads'[t].id = r.id,
             threads'[t].chat = r.chat, threads'[t].payload = r.payload,
             r.payload \in Payloads, Honest(r.payload), ScopeOf[r.id] = r.chat,
             decisions'[r.id].state # "absent",
             r.payload.lease # NoLease => Approved(r.id)',
             pc \in Matched => /\ threads'[t].tool = r.payload.tool
                               /\ threads'[t].config = r.payload.config,
             pc = "claim" =>
               /\ PolicyOf[<<threads'[t].tool, threads'[t].config>>] # "deny"
               /\ r.payload.outcome # "deny"
               /\ PolicyOf[<<threads'[t].tool, threads'[t].config>>] = "needs_approval" =>
                    r.payload.lease # NoLease
               /\ Open(r.id)' => ~Stopped(r.chat)' /\ threads'[t].tool \in Conforming,
             pc = "recheck" /\ Open(r.id)' => threads'[t].tool \in Conforming \/ Stopped(r.chat)'
      PROVE  Fits(threads[t])'
  <2>1. Shaped(threads[t])'
    BY <1>0, <1>1, <1>4 DEF Shaped, Naming, Loaded, Matched, Checking, Honest, Calls
  <2>2. Grounded(threads[t])'
    BY <1>1, <1>4 DEF Grounded, Approved
  <2>3. Unstopped(threads[t])'
    BY <1>1, <1>4 DEF Unstopped, Checking, Open, Stopped
  <2>4. Owns(threads[t])' /\ Authorised(threads[t])'
    BY <1>1, <1>4, SMTT(30) DEF Owns, Authorised, Owning, Cleared, Paid, Checking
  <2> QED
    BY <2>1, <2>2, <2>3, <2>4 DEF Fits
<1>5. CASE InvokeLoad(t) /\ ~Return(t)
  <2>1. /\ threads'[t].pc = "describe" /\ threads'[t].id = r.id /\ threads'[t].chat = r.chat
        /\ threads'[t].payload = decisions[r.id].payload
    BY <1>1, <1>5 DEF InvokeLoad, GateTypeOK, ThreadState, Id
  <2>2. /\ ScopeOf[r.id] = r.chat /\ decisions[r.id].state = "open"
        /\ decisions' = decisions /\ audit' = audit
    BY <1>1, <1>5 DEF InvokeLoad, Load, Loadable, Read, rest, Id, Chat
  <2>3. /\ decisions[r.id].payload \in Payloads /\ Honest(decisions[r.id].payload)
        /\ decisions[r.id].payload.lease # NoLease => Approved(r.id)
    BY <1>1, <2>2, SMTT(30) DEF RowsFit
  <2> QED
    BY <1>0, <1>1, <2>1, <2>2, <2>3 DEF Fits, Shaped, Grounded, Unstopped, Owns,
       Authorised, Naming, Loaded, Matched, Cleared, Paid, Approving, Owning, Calls,
       Honest, Approved
<1>6. CASE InvokeDescribe(t) /\ ~Return(t)
  <2>1. \/ threads'[t].pc = "kill" /\ threads'[t].id = r.id
        \/ /\ threads'[t].pc = "resolve" /\ threads'[t].id = r.id /\ threads'[t].chat = r.chat
           /\ threads'[t].payload = r.payload
    BY <1>1, <1>6 DEF InvokeDescribe, Goto, GateTypeOK, ThreadState
  <2>2. r.pc = "describe"
    BY <1>1, <1>6, SMTT(30) DEF InvokeDescribe, At
  <2> QED
    BY <1>1, <1>3, <1>4, <2>1, <2>2
       DEF Fits, Shaped, Grounded, Loaded, Checking, Matched
<1>7. CASE InvokeResolve(t)
  <2>1. /\ threads'[t].id = r.id /\ threads'[t].chat = r.chat
        /\ threads'[t].payload = r.payload
        /\ threads'[t].tool = r.tool /\ threads'[t].config = config
        /\ threads'[t].pc = IF r.tool = r.payload.tool /\ config = r.payload.config
                            THEN "policy" ELSE "kill"
    BY <1>1, <1>7 DEF InvokeResolve, GateTypeOK, ThreadState, Payload
  <2>2. r.pc = "resolve"
    BY <1>1, <1>7, SMTT(30) DEF InvokeResolve, At
  <2> QED
    BY <1>1, <1>3, <1>4, <2>1, <2>2
       DEF Fits, Shaped, Grounded, Loaded, Checking, Matched
<1>8. CASE InvokePolicy(t) /\ ~Return(t)
  <2>1. /\ threads'[t] = [r EXCEPT !.pc = threads'[t].pc]
        /\ \/ threads'[t].pc = "kill"
           \/ threads'[t].pc = "recheck" /\ (Stopped(r.chat) \/ r.tool \in Conforming)
    BY <1>1, <1>8 DEF InvokePolicy, Goto, GateTypeOK, ThreadState, Chat
  <2>2. r.pc = "policy" /\ control' = control
    BY <1>1, <1>8 DEF InvokePolicy, At, Read
  <2>3. /\ threads'[t].id = r.id /\ threads'[t].chat = r.chat
        /\ threads'[t].payload = r.payload /\ threads'[t].tool = r.tool
        /\ threads'[t].config = r.config
    BY <1>1, <2>1 DEF ThreadState
  <2> QED
    BY <1>1, <1>3, <1>4, <2>1, <2>2, <2>3
       DEF Fits, Shaped, Grounded, Loaded, Checking, Matched, Stopped
<1>9. CASE InvokeRecheck(t) /\ ~Return(t)
  <2>1. /\ threads'[t] = [r EXCEPT !.pc = "claim"]
        /\ ~Stopped(r.chat)
        /\ PolicyOf[<<r.tool, r.config>>] # "deny" /\ r.payload.outcome # "deny"
        /\ PolicyOf[<<r.tool, r.config>>] = "needs_approval" => r.payload.lease # NoLease
    BY <1>1, <1>9 DEF InvokeRecheck, Goto, GateTypeOK, ThreadState, Chat, Policy, Payload
  <2>2. r.pc = "recheck" /\ control' = control /\ decisions' = decisions
    BY <1>1, <1>9 DEF InvokeRecheck, At, Read
  <2>3. /\ threads'[t].id = r.id /\ threads'[t].chat = r.chat
        /\ threads'[t].payload = r.payload /\ threads'[t].tool = r.tool
        /\ threads'[t].config = r.config /\ threads'[t].pc = "claim"
    BY <1>1, <2>1 DEF ThreadState
  <2>4. Open(r.id) => r.tool \in Conforming
    BY <1>1, <2>1, <2>2 DEF Fits, Unstopped
  <2>5. Open(r.id)' => ~Stopped(r.chat)' /\ threads'[t].tool \in Conforming
    BY <2>1, <2>2, <2>3, <2>4 DEF Open, Stopped
  <2> QED
    BY <1>1, <1>4, <2>1, <2>2, <2>3, <2>5
       DEF Fits, Shaped, Grounded, Loaded, Checking, Matched
<1>10. CASE InvokeKill(t)
  BY <1>2, <1>10 DEF InvokeKill
<1> QED
  BY <1>2, <1>5, <1>6, <1>7, <1>8, <1>9, <1>10
LEMMA ClaimFits ==
  ASSUME NEW t, Ready(t), Turn(t), InvokeClaim(t)
  PROVE  Fits(threads[t])'
<1> USE DEF Ready
<1>0. threads'[t] \in ThreadState
  BY DEF GateTypeOK
<1>1. PICK r : /\ r = threads[t] /\ Fits(r) /\ Fits(r)' /\ r.id \in Decisions /\ r.pc = "claim"
               /\ r \in ThreadState
  BY Carried DEF InvokeClaim, At, Fits, Shaped, Naming, Loaded, Matched
<1>2. CASE Return(t)
  BY <1>2, LeavingFits
<1>3. CASE ~Return(t)
  <2>1. /\ threads'[t].id = r.id /\ threads'[t].chat = r.chat
        /\ threads'[t].payload = r.payload /\ threads'[t].tool = r.tool
        /\ threads'[t].config = r.config
        /\ threads'[t].pc = IF PolicyOf[<<r.tool, r.config>>] = "needs_approval"
                            THEN "consume" ELSE "evidence"
    BY <1>1, <1>3 DEF InvokeClaim, Goto, GateTypeOK, ThreadState, Policy
  <2>2. Claim(Proc(t), r.chat, r.id, r.payload)
    BY <1>1, <1>3 DEF InvokeClaim, Chat, Id, Payload
  <2>3. /\ Open(r.id) /\ ScopeOf[r.id] = r.chat /\ decisions[r.id].payload = r.payload
        /\ r.id \in started' /\ sessions'[r.chat].active = r.id
        /\ decisions'[r.id].payload = r.payload /\ dispatches' = dispatches
        /\ r.id \notin started
    BY <1>1, <1>3, <2>2 DEF Claim, Loadable, Open, GateTypeOK, StoreTypeOK, DecisionRow,
       ThreadState, InvokeClaim, rest, ClaimedIsSpent
  <2>4. Shaped(threads[t])'
    BY <1>0, <1>1, <2>1 DEF Fits, Shaped, Naming, Loaded, Matched, Honest, Calls
  <2>5. Grounded(threads[t])'
    BY <1>1, <2>1 DEF Fits, Grounded, Approved, Loaded, Matched
  <2>6. Unstopped(threads[t])'
    BY <2>1 DEF Unstopped
  <2>7. Owns(threads[t])'
    BY <1>1, <2>1, <2>3 DEF Fits, Owns, Unstopped
  <2>8. Authorised(threads[t])'
    <3>1. dispatches'[r.id] = 0
      BY <1>1, <2>3 DEF DispatchedOnce, GateTypeOK
    <3>2. r.id \notin Natives
      BY <1>1, StoreAssumption DEF StoreAssumption
    <3> QED
      BY <1>1, <2>1, <3>1, <3>2 DEF Fits, Authorised, Cleared, Paid
  <2> QED
    BY <2>4, <2>5, <2>6, <2>7, <2>8 DEF Fits
<1> QED
  BY <1>2, <1>3
(* On the way to dispatch the slot, the row and what was established stay.   *)
LEMMA DispatchFits ==
  ASSUME NEW t, Ready(t), Turn(t),
         InvokeConsume(t) \/ InvokeEvidence(t) \/ NativeEvidence(t) \/ Call(t)
  PROVE  Fits(threads[t])'
<1> USE DEF Ready
<1>0. threads'[t] \in ThreadState
  BY DEF GateTypeOK
<1>1. PICK r : /\ r = threads[t] /\ Fits(r) /\ Fits(r)' /\ r.id \in Calls
               /\ r.pc \in {"consume", "evidence", "call"} /\ r \in ThreadState
  BY Carried DEF InvokeConsume, InvokeEvidence, NativeEvidence, Call, At, Fits, Shaped,
     Naming, Loaded, Matched
<1>2. PICK pc \in {"evidence", "admit", "call", "finish"} :
        /\ threads'[t] = [r EXCEPT !.pc = pc]
        /\ pc = "admit" => /\ r.id \in Decisions /\ <<"dispatch", r.id>> \in audit'
                           /\ r.pc = "evidence"
        /\ pc = "call" => r.id \in Natives /\ r.pc = "evidence"
        /\ pc = "evidence" => /\ r.pc = "consume"
                              /\ LS!Consume(r.payload.lease, Binding(t))
  <2>1. CASE InvokeConsume(t)
    BY <1>1, <2>1 DEF InvokeConsume, Goto, GateTypeOK, At, Payload
  <2>2. CASE InvokeEvidence(t)
    BY <1>1, <2>2 DEF InvokeEvidence, Goto, GateTypeOK, At, Id
  <2>3. CASE NativeEvidence(t)
    BY <1>1, <2>3 DEF NativeEvidence, Goto, GateTypeOK, At, Id
  <2>4. CASE Call(t)
    BY <1>1, <2>4 DEF Call, Goto, GateTypeOK
  <2> QED
    BY <2>1, <2>2, <2>3, <2>4
<1>3. /\ threads'[t].id = r.id /\ threads'[t].chat = r.chat
      /\ threads'[t].payload = r.payload /\ threads'[t].tool = r.tool
      /\ threads'[t].config = r.config /\ threads'[t].pc = pc
  BY <1>1, <1>2 DEF ThreadState
<1>4. Shaped(threads[t])'
  BY <1>0, <1>1, <1>2, <1>3 DEF Fits, Shaped, Naming, Loaded, Matched, Honest, Calls,
     Approving
<1>5. Grounded(threads[t])'
  BY <1>1, <1>2, <1>3 DEF Fits, Grounded, Approved, Loaded, Matched, Approving
<1>6. Unstopped(threads[t])'
  BY <1>3 DEF Unstopped
<1>7. Owns(threads[t])'
  BY <1>1, <1>3 DEF Fits, Owns, Owning
<1>8. Authorised(threads[t])'
  <2>1. r.pc = "call" => pc = "finish"
    BY <1>1, <1>2
  <2>2. CASE pc = "finish"
    BY <1>3, <2>2 DEF Authorised, Cleared, Paid
  <2>3. CASE pc = "call"
    <3>1. r.id \notin Decisions
      BY <1>2, <2>3, StoreAssumption DEF StoreAssumption
    <3>2. \E a \in admissions' : a.id = r.id
      BY <1>1, <1>2, <2>3 DEF Fits, Authorised
    <3> QED
      BY <1>3, <2>3, <3>1, <3>2 DEF Authorised
  <2>4. CASE pc = "admit"
    BY <1>1, <1>2, <1>3, <2>4, SMTT(30) DEF Fits, Authorised, Cleared, Paid
  <2>5. CASE pc = "evidence"
    <3>1. /\ r.payload.lease \in Leases
          /\ leases'[r.payload.lease].uses = 1
          /\ leases'[r.payload.lease].binding = [chat |-> r.chat, tool |-> r.tool, config |-> r.config]
      BY <1>1, <1>2, <2>5 DEF LS!Consume, LS!Consumable, LS!LeaseTypeOK, LS!LeaseRow,
         GateTypeOK, Binding, Chat
    <3>2. r.id \notin Natives
      BY <1>1, <1>2, <2>5, StoreAssumption
         DEF Fits, Shaped, Naming, Loaded, Matched, StoreAssumption
    <3> QED
      BY <1>1, <1>2, <1>3, <2>5, <3>1, <3>2 DEF Fits, Authorised, Cleared, Paid
  <2> QED
    BY <2>2, <2>3, <2>4, <2>5
<1> QED
  BY <1>4, <1>5, <1>6, <1>7, <1>8 DEF Fits

LEMMA AdmitFits ==
  ASSUME NEW t, Ready(t), Turn(t), InvokeAdmit(t)
  PROVE  Fits(threads[t])'
<1> USE DEF Ready
<1>0. threads'[t] \in ThreadState
  BY DEF GateTypeOK
<1>1. PICK r : /\ r = threads[t] /\ Fits(r) /\ r.id \in Decisions /\ r.pc = "admit"
               /\ r \in ThreadState /\ r.id \in Calls
  BY DEF InvokeAdmit, At, Fits, Shaped, Naming, Loaded, Matched
<1>2. PICK pc \in {"call", "finish"} :
        /\ threads'[t] = [r EXCEPT !.pc = pc]
        /\ pc = "call" => Admit(r.chat, r.id, r.payload.deadline)
        /\ sessions'[r.chat].active = sessions[r.chat].active
        /\ decisions' = decisions /\ started' = started /\ leases' = leases /\ audit' = audit
  BY <1>1 DEF InvokeAdmit, Goto, GateTypeOK, Chat, Id, Payload, Admit, Touched,
     StoreTypeOK, SessionRow, storeVars, history, rest, ThreadState
<1>3. /\ threads'[t].id = r.id /\ threads'[t].chat = r.chat
      /\ threads'[t].payload = r.payload /\ threads'[t].tool = r.tool
      /\ threads'[t].config = r.config /\ threads'[t].pc = pc
  BY <1>1, <1>2 DEF ThreadState
<1>4. Shaped(threads[t])'
  BY <1>0, <1>1, <1>2, <1>3 DEF Fits, Shaped, Naming, Loaded, Matched, Honest, Approving
<1>5. Grounded(threads[t])'
  BY <1>1, <1>2, <1>3 DEF Fits, Grounded, Approved, Loaded, Matched, Approving
<1>6. Unstopped(threads[t])'
  BY <1>3 DEF Unstopped
<1>7. Owns(threads[t])'
  BY <1>1, <1>2, <1>3 DEF Fits, Owns, Owning
<1>8. Authorised(threads[t])'
  <2>1. CASE pc = "finish"
    BY <1>3, <2>1 DEF Authorised, Cleared, Paid
  <2>2. CASE pc = "call"
    <3>1. \E a \in admissions' : a.id = r.id
      <4>1. AdmissionOf(r.id) \in admissions'
        BY <1>2, <2>2 DEF Admit
      <4>2. AdmissionOf(r.id).id = r.id
        BY DEF AdmissionOf
      <4> QED
        BY <4>1, <4>2
    <3>2. Authorised(r) /\ leases' = leases
      BY <1>1, <1>2 DEF Fits
    <3>3. PolicyOf[<<r.tool, r.config>>] = "needs_approval" =>
            /\ r.payload.lease \in Leases
            /\ leases'[r.payload.lease].uses = 1
            /\ leases'[r.payload.lease].binding =
                 [chat |-> r.chat, tool |-> r.tool, config |-> r.config]
      BY <1>1, <3>2 DEF Authorised, Paid
    <3>4. /\ PolicyOf[<<r.tool, r.config>>] # "deny" /\ r.payload.outcome # "deny"
          /\ PolicyOf[<<r.tool, r.config>>] = "needs_approval" => r.payload.lease # NoLease
      BY <1>1, <3>2 DEF Authorised, Cleared
    <3> QED
      BY <1>3, <2>2, <3>1, <3>3, <3>4 DEF Authorised
  <2> QED
    BY <2>1, <2>2
<1> QED
  BY <1>4, <1>5, <1>6, <1>7, <1>8 DEF Fits
LEMMA FaultFits ==
  ASSUME NEW t, Ready(t), Turn(t), StorageFault(t) \/ ControlStep(t)
  PROVE  Fits(threads[t])'
<1> USE DEF Ready
<1>0. threads'[t] \in ThreadState
  BY DEF GateTypeOK
<1>1. CASE Return(t)
  BY <1>1, LeavingFits
<1>2. CASE StorageFault(t) /\ ~Return(t)
  <2>1. PICK r : r = threads[t] /\ Fits(r) /\ r \in ThreadState
    BY DEF GateTypeOK
  <2>2. \/ threads'[t] = [r EXCEPT !.pc = "finish"] /\ r.pc \in {"consume", "evidence", "admit"}
        \/ threads'[t] = [r EXCEPT !.pc = "p_kill"] /\ r.pc = "p_evidence"
    <3>1. /\ OnFault[r.pc] # "idle" /\ threads'[t] = [r EXCEPT !.pc = OnFault[r.pc]]
          /\ r.pc \in PCs
      BY <1>2, <2>1 DEF StorageFault, Goto, GateTypeOK, Faulty
    <3> QED
      BY <3>1 DEF OnFault
  <2>3. CASE threads'[t] = [r EXCEPT !.pc = "p_kill"] /\ r.pc = "p_evidence"
    <3>1. threads'[t].pc = "p_kill" /\ threads'[t].id = r.id /\ r.id \in Decisions
      BY <2>1, <2>3 DEF ThreadState, Fits, Shaped, Naming
    <3> QED
      BY <1>0, <3>1 DEF Fits, Shaped, Grounded, Unstopped, Owns, Authorised, Naming,
         Loaded, Matched, Cleared, Paid, Approving, Owning, Calls
  <2>4. CASE threads'[t] = [r EXCEPT !.pc = "finish"] /\ r.pc \in {"consume", "evidence", "admit"}
    <3>1. /\ threads'[t].pc = "finish" /\ threads'[t].id = r.id /\ threads'[t].chat = r.chat
          /\ r.id \in Calls
      BY <2>1, <2>4 DEF ThreadState, Fits, Shaped, Naming, Loaded, Matched
    <3>2. started' = started /\ sessions' = sessions
      BY <1>2 DEF StorageFault, storeVars
    <3>3. Owns(threads[t])'
      BY <2>1, <2>4, <3>1, <3>2 DEF Fits, Owns, Owning
    <3> QED
      BY <1>0, <3>1, <3>3 DEF Fits, Shaped, Grounded, Unstopped, Authorised, Naming,
         Loaded, Matched, Cleared, Paid, Approving
  <2> QED
    BY <2>2, <2>3, <2>4
<1>3. CASE ControlStep(t) /\ ~Return(t)
  <2>1. threads'[t].pc = "r_open"
    BY <1>3 DEF ControlStep, StopLeases, ResumeEvidence, ResumeOpen, Goto, GateTypeOK,
       ThreadState
  <2> QED
    BY <1>0, <2>1 DEF Fits, Shaped, Grounded, Unstopped, Owns, Authorised, Naming, Loaded,
       Matched, Cleared, Paid, Approving, Owning
<1> QED
  BY <1>1, <1>2, <1>3

(* Every activation is fit after every step, its own or another's.           *)
LEMMA FitStep ==
  ASSUME GateInduction, GateTypeOK', RowsFit', [Next]_vars
  PROVE  \A u \in Threads : Fits(threads[u])'
<1> SUFFICES ASSUME NEW u \in Threads PROVE Fits(threads[u])'
  OBVIOUS
<1> USE DEF GateInduction
<1>1. ASSUME NEW x, Undisturbed(x), threads'[u] = threads[u],
             threads[u].pc \in Owning => Id(u) # x
      PROVE  Fits(threads[u])'
  <2>1. PICK r : r = threads[u]
    OBVIOUS
  <2>2. Fits(r)'
    BY <1>1, <2>1, FitsIsStable DEF Id
  <2> QED
    BY <1>1, <2>1, <2>2
<1>2. threads[u].pc \in Owning => Id(u) # NoCall
  BY StoreAssumption DEF Fits, Shaped, Naming, Owning, Loaded, Matched, Id,
     StoreAssumption
<1>3. ASSUME NEW t \in Threads, Turn(t) PROVE Fits(threads[u])'
  <2>1. CASE u = t
    <3>1. Ready(t)
      BY DEF Ready
    <3>2. CASE Release(t)
      BY <2>1, <3>2, LeavingFits DEF Release
    <3> QED
      BY <1>3, <2>1, <3>1, <3>2, BeginningFits, PreflightFits, ApproveFits, CheckFits,
         ClaimFits, DispatchFits, AdmitFits, FaultFits DEF Turn, Step, InvokeStep
  <2>2. CASE u # t
    <3>1. threads[u].pc \in Owning => Id(u) # Own(t)
      BY <1>2, <2>2 DEF Own, OneOwner, Owning
    <3> QED
      BY <1>1, <1>3, <2>2, <3>1, OthersWait, DisturbsOwnCall
  <2> QED
    BY <2>1, <2>2
<1>4. CASE Environment
  <2>1. Undisturbed(NoCall)
    BY <1>4, EnvironmentDisturbsNothing
  <2>2. CASE threads'[u] = threads[u]
    BY <1>1, <1>2, <2>1, <2>2
  <2>3. CASE threads'[u] # threads[u]
    <3>1. threads'[u] = Idle
      BY <1>4, <2>3 DEF Environment, Crash, Revoke, LoseKey, Clock, ToolDrift, ConfigDrift
    <3>2. Idle.pc = "idle" /\ threads'[u] \in ThreadState
      BY DEF Idle, GateTypeOK
    <3> QED
      BY <3>1, <3>2 DEF Fits, Shaped, Grounded, Unstopped, Owns, Authorised, Naming,
         Loaded, Matched, Cleared, Paid, Approving, Owning
  <2> QED
    BY <2>2, <2>3
<1>5. CASE UNCHANGED vars
  <2>1. Undisturbed(NoCall)
    BY <1>5 DEF vars, storeVars, rest, Undisturbed, Open
  <2> QED
    BY <1>1, <1>2, <1>5, <2>1 DEF vars
<1> QED
  BY <1>3, <1>4, <1>5 DEF Next, Turn
-----------------------------------------------------------------------------
(* The types of the gate.                                                    *)
LEMMA ThreadsTyped ==
  ASSUME GateTypeOK, RowsFit, \A u \in Threads : Fits(threads[u]), NEW t \in Threads, Turn(t)
  PROVE  threads' \in [Threads -> ThreadState]
<1>1. Idle \in ThreadState
  BY GateAssumption DEF Idle, ThreadState, PCs, GateAssumption
<1>2. ASSUME NEW r \in ThreadState, threads' = [threads EXCEPT ![t] = r]
      PROVE  threads' \in [Threads -> ThreadState]
  BY <1>2 DEF GateTypeOK
<1>3. ASSUME Return(t) PROVE threads' \in [Threads -> ThreadState]
  BY <1>1, <1>2, <1>3 DEF Return
<1>4. ASSUME NEW pc \in PCs, Goto(t, pc) PROVE threads' \in [Threads -> ThreadState]
  BY <1>4 DEF Goto, GateTypeOK, ThreadState
<1>5. ASSUME NEW pc \in PCs, NEW c \in Chats, NEW x \in Calls \cup {NoCall}, Begin(t, pc, c, x)
      PROVE  threads' \in [Threads -> ThreadState]
  BY <1>1, <1>2, <1>5 DEF Begin, ThreadState, GateTypeOK
<1>6. {"p_describe", "p_policy", "p_outcome", "p_create", "p_evidence", "p_kill", "a_boundary",
       "a_issue", "a_evidence", "a_update", "load", "describe", "resolve", "policy", "recheck",
       "claim", "consume", "evidence", "admit", "call", "finish", "kill", "s_leases",
       "r_evidence", "r_open"} \subseteq PCs
  BY DEF PCs, InvokePC, PreflightPC, ApprovePC, ControlPC
<1>7. CASE Request(t)
  <2>1. ASSUME NEW c \in Chats, NEW d \in Decisions, ApproveBegin(t, c, d)
        PROVE  threads' \in [Threads -> ThreadState]
    <3>1. decisions[d].payload \in Payloads /\ decisions[d].payload.tool \in Tools
      BY <2>1, GateAssumption DEF ApproveBegin, Load, Loadable, RowsFit, GateAssumption,
         Sealed
    <3> QED
      BY <2>1, <3>1, <1>6, <1>2 DEF ApproveBegin, ThreadState, Calls, GateTypeOK
  <2>2. ASSUME NEW c \in Chats, NEW n \in Natives, NativeBegin(t, c, n)
        PROVE  threads' \in [Threads -> ThreadState]
    BY <2>2, <1>5, <1>6 DEF NativeBegin, Calls
  <2>3. ASSUME NEW c \in Chats, PreflightBegin(t, c) \/ StopBegin(t, c) \/ ResumeBegin(t, c)
        PROVE  threads' \in [Threads -> ThreadState]
    BY <2>3, <1>3, <1>5, <1>6 DEF PreflightBegin, StopBegin, ResumeBegin
  <2>4. ASSUME NEW c \in Chats, NEW d \in Decisions, InvokeBegin(t, c, d)
        PROVE  threads' \in [Threads -> ThreadState]
    BY <2>4, <1>3, <1>5, <1>6 DEF InvokeBegin, Calls
  <2> QED
    BY <1>7, <2>1, <2>2, <2>3, <2>4 DEF Request
<1>8. CASE PreflightStep(t)
  <2>1. CASE PreflightDescribe(t)
    BY <1>3, <1>6, <2>1 DEF PreflightDescribe, GateTypeOK, ThreadState
  <2>2. CASE PreflightPolicy(t)
    BY <1>3, <1>4, <1>6, <2>2 DEF PreflightPolicy
  <2>3. CASE PreflightOutcome(t)
    <3>1. PICK y \in Payloads :
            threads' = [threads EXCEPT ![t].pc = "p_create", ![t].payload = y]
      <4>1. /\ Policy(t) \in Outcomes /\ "deny" \in Outcomes
            /\ threads[t].tool \in Tools /\ threads[t].config \in Configs
        BY GateAssumption DEF GateTypeOK, ThreadState, Policy, GateAssumption, Outcomes
      <4>2. \A y \in Outcomes :
              [tool |-> threads[t].tool, config |-> threads[t].config, outcome |-> y,
               lease |-> NoLease, deadline |-> 0] \in Payloads
        BY <4>1, GateAssumption, StoreAssumption DEF Sealed, GateAssumption,
           StoreAssumption
      <4> QED
        BY <2>3, <4>1, <4>2 DEF PreflightOutcome
    <3> QED
      BY ZenonT(40), <1>6, <3>1 DEF GateTypeOK, ThreadState
  <2>4. CASE PreflightCreate(t)
    <3>1. ASSUME NEW d \in Decisions,
                 threads' = [threads EXCEPT ![t].pc = "p_evidence", ![t].id = d,
                   ![t].payload = [Payload(t) EXCEPT !.deadline = now + TTL]]
          PROVE  threads' \in [Threads -> ThreadState]
      <4> DEFINE y == [Payload(t) EXCEPT !.deadline = now + TTL]
      <4>1. Payload(t) \in Payloads
        BY <2>4 DEF Fits, Shaped, PreflightCreate, At, Payload
      <4>2. y \in Payloads
        BY <4>1, GateAssumption, StoreAssumption
           DEF GateAssumption, StoreAssumption, Sealed, RowsFit
      <4> HIDE DEF y
      <4> DEFINE r == [threads[t] EXCEPT !.pc = "p_evidence", !.id = d, !.payload = y]
      <4>3. threads' = [threads EXCEPT ![t] = r]
        BY <3>1 DEF y, GateTypeOK
      <4>4. ASSUME NEW s \in ThreadState
            PROVE  [s EXCEPT !.pc = "p_evidence", !.id = d, !.payload = y] \in ThreadState
        BY <1>6, <4>2 DEF ThreadState, Calls
      <4>5. r \in ThreadState
        BY <4>4 DEF GateTypeOK
      <4> QED
        BY <1>2, <4>3, <4>5
    <3> QED
      BY <1>3, <2>4, <3>1 DEF PreflightCreate
  <2>5. CASE PreflightEvidence(t) \/ PreflightKill(t)
    BY <1>3, <2>5 DEF PreflightEvidence, PreflightKill
  <2> QED
    BY <1>8, <2>1, <2>2, <2>3, <2>4, <2>5 DEF PreflightStep
<1>9. CASE ApproveStep(t)
  <2>1. CASE ApproveIssue(t)
    <3>1. ASSUME NEW l \in Leases,
                 threads' = [threads EXCEPT ![t].pc = "a_evidence", ![t].payload.lease = l]
          PROVE  threads' \in [Threads -> ThreadState]
      <4> DEFINE y == [Payload(t) EXCEPT !.lease = l]
      <4>1. Payload(t) \in Payloads
        BY <2>1 DEF Fits, Shaped, ApproveIssue, At, Payload, Loaded, Approving, Naming
      <4>2. y \in Payloads
        BY <4>1, GateAssumption DEF GateAssumption, Sealed
      <4>3. threads' = [threads EXCEPT ![t].pc = "a_evidence", ![t].payload = y]
        BY <3>1, <4>1 DEF GateTypeOK, ThreadState, Payload
      <4> HIDE DEF y
      <4> QED
        BY ZenonT(40), <1>6, <4>2, <4>3 DEF GateTypeOK, ThreadState
    <3> QED
      BY <1>3, <2>1, <3>1 DEF ApproveIssue
  <2>2. CASE ~ApproveIssue(t)
    BY <1>3, <1>4, <1>6, <1>9, <2>2 DEF ApproveStep, ApproveBoundary, ApproveEvidence,
       ApproveUpdate
  <2> QED
    BY <2>1, <2>2
<1>10. CASE InvokeStep(t)
  <2>1. CASE InvokeLoad(t)
    <3>1. ASSUME decisions[Id(t)].payload \in Payloads,
                 threads' = [threads EXCEPT ![t].pc = "describe",
                                            ![t].payload = decisions[Id(t)].payload]
          PROVE  threads' \in [Threads -> ThreadState]
      BY ZenonT(40), <1>6, <3>1 DEF GateTypeOK, ThreadState
    <3>2. Loadable(Proc(t), Chat(t), Id(t)) => decisions[Id(t)].payload \in Payloads
      BY <2>1 DEF InvokeLoad, At, Fits, Shaped, Naming, Loadable, RowsFit, Id
    <3> QED
      BY <1>3, <2>1, <3>1, <3>2 DEF InvokeLoad, Load
  <2>2. CASE InvokeDescribe(t)
    <3>1. ASSUME threads' = [threads EXCEPT ![t].tool = tool, ![t].pc = "resolve"]
          PROVE  threads' \in [Threads -> ThreadState]
      BY ZenonT(40), <1>6, <3>1 DEF GateTypeOK, ThreadState
    <3> QED
      BY <1>3, <1>4, <1>6, <2>2, <3>1 DEF InvokeDescribe
  <2>3. CASE InvokeResolve(t)
    <3>1. PICK pc \in PCs : threads' = [threads EXCEPT ![t].config = config, ![t].pc = pc]
      BY <1>6, <2>3 DEF InvokeResolve
    <3> QED
      BY ZenonT(40), <3>1 DEF GateTypeOK, ThreadState
  <2>4. CASE ~InvokeLoad(t) /\ ~InvokeDescribe(t) /\ ~InvokeResolve(t)
    BY <1>3, <1>4, <1>6, <1>10, <2>4 DEF InvokeStep, InvokePolicy, InvokeRecheck,
       InvokeClaim, InvokeConsume, InvokeEvidence, NativeEvidence, InvokeAdmit, Call,
       Release, InvokeKill
  <2> QED
    BY <2>1, <2>2, <2>3, <2>4
<1>11. CASE ControlStep(t)
  BY <1>3, <1>4, <1>6, <1>11 DEF ControlStep, StopLeases, ResumeEvidence, ResumeOpen
<1>12. CASE StorageFault(t)
  <2>1. OnFault[threads[t].pc] \in PCs
    <3>1. threads[t].pc \in PCs
      BY SMTT(30) DEF GateTypeOK, ThreadState
    <3> QED
      BY <1>6, <3>1 DEF OnFault, PCs
  <2> QED
    BY <1>3, <1>4, <1>12, <2>1 DEF StorageFault
<1> QED
  BY <1>7, <1>8, <1>9, <1>10, <1>11, <1>12 DEF Turn, Step
LEMMA LeasesTyped ==
  ASSUME GateTypeOK, NEW t \in Threads, Turn(t)
  PROVE  LS!LeaseTypeOK'
<1>1. ASSUME NEW l \in Leases, LS!Issue(l, Chat(t), Binding(t), LeaseTTL) PROVE LS!LeaseTypeOK'
  <2>1. Chat(t) \in Chats /\ Binding(t) \in Bindings /\ now + LeaseTTL \in Nat
    BY GateAssumption
       DEF GateTypeOK, ThreadState, Chat, Binding, Bindings, StoreTypeOK, GateAssumption
  <2> QED
    BY <1>1, <2>1 DEF LS!Issue, LS!LeaseTypeOK, LS!LeaseRow, GateTypeOK
<1>2. ASSUME NEW l, NEW b, LS!Consume(l, b) PROVE LS!LeaseTypeOK'
  BY <1>2 DEF LS!Consume, LS!Consumable, LS!LeaseTypeOK, LS!LeaseRow, GateTypeOK
<1>3. ASSUME NEW c \in Chats, LS!RevokeProfile(c) PROVE LS!LeaseTypeOK'
  BY <1>3 DEF LS!RevokeProfile, LS!Revoked, LS!LeaseTypeOK, LS!LeaseRow, GateTypeOK
<1>4. CASE leases' = leases
  BY <1>4 DEF LS!LeaseTypeOK, GateTypeOK
<1>5. Chat(t) \in Chats
  BY SMTT(30) DEF GateTypeOK, ThreadState, Chat
<1> QED
  BY <1>1, <1>2, <1>3, <1>4, <1>5 DEF Turn, Request, Step, PreflightStep, ApproveStep,
     InvokeStep, ControlStep, StorageFault, PreflightBegin, PreflightDescribe,
     PreflightPolicy, PreflightOutcome, PreflightCreate, PreflightEvidence,
     PreflightKill, ApproveBegin, ApproveBoundary, ApproveIssue, ApproveEvidence,
     ApproveUpdate, InvokeBegin, InvokeLoad, InvokeDescribe, InvokeResolve,
     InvokePolicy, InvokeRecheck, InvokeClaim, InvokeConsume, InvokeEvidence,
     InvokeAdmit, Call, Release, InvokeKill, NativeBegin, NativeEvidence, StopBegin,
     StopLeases, ResumeBegin, ResumeEvidence, ResumeOpen

LEMMA HistoryTyped ==
  ASSUME GateTypeOK, \A u \in Threads : Fits(threads[u]), NEW t \in Threads, Turn(t)
  PROVE  /\ audit' \subseteq {"preflight", "approval", "dispatch", "admitted"} \X Calls
         /\ faults' \in Nat /\ dispatches' \in [Decisions -> Nat]
         /\ tool' \in Tools /\ config' \in Configs
<1>1. CASE \/ PreflightEvidence(t) \/ ApproveEvidence(t) \/ InvokeEvidence(t) \/ NativeEvidence(t)
  <2>1. Id(t) \in Calls
    BY <1>1 DEF Fits, Shaped, Naming, Loaded, Approving, Matched, At, Id,
       PreflightEvidence, ApproveEvidence, InvokeEvidence, NativeEvidence
  <2> QED
    BY <1>1, <2>1 DEF PreflightEvidence, ApproveEvidence, InvokeEvidence,
       NativeEvidence, world, rest, GateTypeOK
<1>2. CASE InvokeAdmit(t)
  BY <1>2 DEF InvokeAdmit, world, GateTypeOK
<1>3. CASE StorageFault(t)
  BY <1>3 DEF StorageFault, world, GateTypeOK
<1>4. CASE UNCHANGED <<world, rest>>
  BY <1>4 DEF world, rest, GateTypeOK
<1> QED
  BY <1>1, <1>2, <1>3, <1>4 DEF Turn, Request, Step, PreflightStep, ApproveStep,
     InvokeStep, ControlStep, PreflightBegin, PreflightDescribe, PreflightPolicy,
     PreflightOutcome, PreflightCreate, PreflightKill, ApproveBegin, ApproveBoundary,
     ApproveIssue, ApproveUpdate, InvokeBegin, InvokeLoad, InvokeDescribe,
     InvokeResolve, InvokePolicy, InvokeRecheck, InvokeClaim, InvokeConsume, Call,
     Release, InvokeKill, NativeBegin, StopBegin, StopLeases, ResumeBegin,
     ResumeEvidence, ResumeOpen

LEMMA GateTypeStep ==
  GateTypeOK /\ RowsFit /\ (\A t \in Threads : Fits(threads[t])) /\ [Next]_vars => GateTypeOK'
<1> SUFFICES ASSUME GateTypeOK, RowsFit, \A t \in Threads : Fits(threads[t]), [Next]_vars
             PROVE  GateTypeOK'
  OBVIOUS
<1>1. StoreTypeOK'
  BY GateIsStoreClient, TypeStep DEF GateTypeOK
<1>2. ASSUME NEW t \in Threads, Turn(t) PROVE GateTypeOK'
  BY <1>1, <1>2, ThreadsTyped, LeasesTyped, HistoryTyped DEF GateTypeOK
<1>3. CASE Environment
  <2>1. Idle \in ThreadState
    BY GateAssumption DEF Idle, ThreadState, PCs, GateAssumption
  <2>2. threads' \in [Threads -> ThreadState]
    BY <1>3, <2>1 DEF Environment, Crash, Revoke, LoseKey, Clock, ToolDrift,
       ConfigDrift, GateTypeOK
  <2>3. leases' = leases /\ audit' = audit /\ dispatches' = dispatches /\ faults' \in Nat
    BY <1>3 DEF Environment, Crash, Revoke, LoseKey, Clock, ToolDrift, ConfigDrift,
       rest, GateTypeOK
  <2>4. tool' \in Tools /\ config' \in Configs
    BY <1>3 DEF Environment, Crash, Revoke, LoseKey, Clock, ToolDrift, ConfigDrift,
       world, GateTypeOK
  <2> QED
    BY <1>1, <2>2, <2>3, <2>4 DEF GateTypeOK, LS!LeaseTypeOK
<1>4. CASE UNCHANGED vars
  BY <1>1, <1>4 DEF vars, world, rest, GateTypeOK, LS!LeaseTypeOK
<1> QED
  BY <1>2, <1>3, <1>4 DEF Next, Turn
-----------------------------------------------------------------------------
(* Where the payload of a row comes from: it was sealed by a preflight, or   *)
(* stored by an approval, or it is the one that was there.                   *)
LEMMA PayloadStep ==
  ASSUME GateTypeOK, RowsFit, \A t \in Threads : Fits(threads[t]), [Next]_vars,
         NEW d \in Decisions
  PROVE  \/ /\ decisions'[d].payload = decisions[d].payload
            /\ decisions'[d].state # "absent" => decisions[d].state # "absent"
            /\ decisions'[d].state = "open" => Open(d)
         \/ \E y \in Payloads :
              /\ decisions'[d].payload = y /\ Honest(y) /\ y.lease = NoLease
         \/ \E t \in Threads :
              /\ ApproveUpdate(t) /\ Id(t) = d /\ Open(d)
              /\ decisions'[d].payload = Payload(t) /\ Payload(t) \in Payloads
              /\ Honest(Payload(t)) /\ (Payload(t).lease # NoLease => Approved(d))
              /\ ~Stopped(Chat(t)) /\ ScopeOf[d] = Chat(t) /\ UNCHANGED <<control, audit>>
<1> DEFINE Kept == /\ decisions'[d].payload = decisions[d].payload
                   /\ decisions'[d].state # "absent" => decisions[d].state # "absent"
                   /\ decisions'[d].state = "open" => Open(d)
<1> USE DEF tables, history
<1>1. ASSUME NEW c \in Chats, RevokeScope(c) \/ ResumeScope(c) PROVE Kept
  BY <1>1 DEF RevokeScope, ResumeScope, InvalidateProfile, GateTypeOK, StoreTypeOK,
     DecisionRow, Open
<1>2. ASSUME NEW c \in Chats, NEW e \in Decisions, Invalidate(c, e) PROVE Kept
  BY <1>2 DEF Invalidate, GateTypeOK, StoreTypeOK, DecisionRow, Open
<1>3. ASSUME NEW c \in Chats, NEW e \in Decisions, NEW p, NEW y, Claim(p, c, e, y) PROVE Kept
  BY <1>3 DEF Claim, Loadable, GateTypeOK, StoreTypeOK, DecisionRow, Open
<1>4. ASSUME decisions' = decisions PROVE Kept
  BY <1>4 DEF Open
<1>5. ASSUME NEW t \in Threads, PreflightCreate(t)
      PROVE  Kept \/ \E y \in Payloads :
                       decisions'[d].payload = y /\ Honest(y) /\ y.lease = NoLease
  <2>1. CASE UNCHANGED storeVars
    BY <1>4, <2>1 DEF storeVars
  <2>2. ASSUME NEW e \in Decisions,
               Create(Proc(t), Chat(t), e, [Payload(t) EXCEPT !.deadline = now + TTL])
        PROVE  Kept \/ \E y \in Payloads :
                         decisions'[d].payload = y /\ Honest(y) /\ y.lease = NoLease
    <3> DEFINE y == [Payload(t) EXCEPT !.deadline = now + TTL]
    <3>1. Payload(t) \in Payloads /\ Honest(Payload(t)) /\ Payload(t).lease = NoLease
      BY <1>5 DEF Fits, Shaped, PreflightCreate, At, Payload
    <3>2. y \in Payloads /\ Honest(y) /\ y.lease = NoLease
      BY <3>1, GateAssumption, StoreAssumption
         DEF GateAssumption, StoreAssumption, Sealed, RowsFit, Honest
    <3> HIDE DEF y
    <3>3. CASE d = e
      <4>1. decisions'[d].payload = y
        BY <2>2, <3>3 DEF Create, y
      <4> QED
        BY <3>2, <4>1
    <3>4. CASE d # e
      BY <2>2, <3>4 DEF Create, GateTypeOK, StoreTypeOK, DecisionRow, Open, Lapsed, Stored
    <3> QED
      BY <3>3, <3>4
  <2> QED
    BY <1>5, <2>1, <2>2 DEF PreflightCreate
<1>6. ASSUME NEW t \in Threads, ApproveUpdate(t), ~Kept
      PROVE  /\ ApproveUpdate(t) /\ Id(t) = d /\ Open(d)
             /\ decisions'[d].payload = Payload(t) /\ Payload(t) \in Payloads
             /\ Honest(Payload(t)) /\ (Payload(t).lease # NoLease => Approved(d))
             /\ ~Stopped(Chat(t)) /\ ScopeOf[d] = Chat(t) /\ UNCHANGED <<control, audit>>
  <2>1. Update(Proc(t), Chat(t), Id(t), Payload(t)) /\ Id(t) \in Decisions
    BY <1>4, <1>6 DEF ApproveUpdate, storeVars, Fits, Shaped, Naming, Loaded, Approving,
       At, Id
  <2>2. Id(t) = d /\ Open(d) /\ ScopeOf[d] = Chat(t) /\ decisions'[d].payload = Payload(t)
    BY <1>6, <2>1 DEF Update, Loadable, Open, GateTypeOK, StoreTypeOK
  <2>3. UNCHANGED <<control, audit>>
    BY <1>6, <2>1 DEF Update, ApproveUpdate, rest
  <2>4. threads[t].pc = "a_update" /\ Fits(threads[t])
    BY <1>6 DEF ApproveUpdate, At
  <2>5. /\ Payload(t) \in Payloads /\ Honest(Payload(t))
        /\ Payload(t).lease # NoLease => Approved(d)
        /\ ~Stopped(Chat(t))
    BY <2>2, <2>4 DEF Fits, Shaped, Grounded, Unstopped, Loaded, Approving, Payload, Id,
       Chat
  <2> QED
    BY <1>6, <2>2, <2>3, <2>5
<1>7. ASSUME NEW t \in Threads, PreflightKill(t) \/ InvokeKill(t) PROVE Kept
  BY <1>2, <1>7 DEF PreflightKill, InvokeKill, Fits, Shaped, Naming, At, Id, Chat,
     GateTypeOK, ThreadState
<1>8. ASSUME NEW t \in Threads, InvokeClaim(t) PROVE Kept
  BY <1>3, <1>4, <1>8 DEF InvokeClaim, storeVars, Fits, Shaped, Naming, Loaded, Matched,
     At, Id, Chat, GateTypeOK, ThreadState
<1>9. ASSUME NEW t \in Threads, Request(t) PROVE Kept
  BY <1>1, <1>4, <1>9 DEF Request, PreflightBegin, StopBegin, ResumeBegin, ApproveBegin,
     Load, Read, InvokeBegin, NativeBegin, BeginNative, storeVars
<1>10. ASSUME NEW t \in Threads, ResumeOpen(t) PROVE Kept
  BY <1>1, <1>10 DEF ResumeOpen, GateTypeOK, ThreadState, Chat
<1>11. ASSUME NEW t \in Threads,
              \/ PreflightDescribe(t) \/ PreflightPolicy(t) \/ PreflightOutcome(t)
              \/ PreflightEvidence(t) \/ ApproveBoundary(t) \/ ApproveIssue(t)
              \/ ApproveEvidence(t) \/ InvokeLoad(t) \/ InvokeDescribe(t) \/ InvokeResolve(t)
              \/ InvokePolicy(t) \/ InvokeRecheck(t) \/ InvokeConsume(t) \/ InvokeEvidence(t)
              \/ NativeEvidence(t) \/ InvokeAdmit(t) \/ Call(t) \/ Release(t) \/ StopLeases(t)
              \/ ResumeEvidence(t) \/ StorageFault(t)
       PROVE  Kept
  <2>1. decisions' = decisions
    BY <1>11 DEF PreflightDescribe, PreflightPolicy, PreflightOutcome,
       PreflightEvidence, ApproveBoundary, ApproveIssue, ApproveEvidence, InvokeLoad,
       Load, InvokeDescribe, InvokeResolve, InvokePolicy, InvokeRecheck, InvokeConsume,
       InvokeEvidence, NativeEvidence, InvokeAdmit, Admit, Call, Release, Finish,
       StopLeases, ResumeEvidence, StorageFault, Read, storeVars
  <2> QED
    BY <1>4, <2>1
<1>12. CASE Environment
  BY <1>2, <1>4, <1>12 DEF Environment, Revoke, LoseKey, Crash, Rotate, Clock, Tick,
     ToolDrift, ConfigDrift, storeVars
<1>13. CASE UNCHANGED vars
  BY <1>4, <1>13 DEF vars, storeVars
<1> QED
  BY <1>5, <1>6, <1>7, <1>8, <1>9, <1>10, <1>11, <1>12, <1>13, SMTT(30)
     DEF Next, Step, PreflightStep, ApproveStep, InvokeStep, ControlStep
LEMMA RowsStep ==
  ASSUME GateTypeOK, GateTypeOK', RowsFit, AdmissionHoldsSlot, \A t \in Threads : Fits(threads[t]),
         [Next]_vars
  PROVE  RowsFit'
<1>1. ASSUME NEW d \in Decisions, decisions'[d].state # "absent"
      PROVE  /\ decisions'[d].payload \in Payloads /\ Honest(decisions'[d].payload)
             /\ decisions'[d].payload.lease # NoLease => <<"approval", d>> \in audit'
  <2>1. audit \subseteq audit'
    <3>1. ASSUME NEW t \in Threads, Turn(t) PROVE audit \subseteq audit'
      BY <3>1, DisturbsOwnCall DEF Undisturbed
    <3>2. CASE Environment
      BY <3>2, EnvironmentDisturbsNothing DEF Undisturbed
    <3>3. CASE UNCHANGED vars
      BY <3>3 DEF vars, rest
    <3> QED
      BY <3>1, <3>2, <3>3 DEF Next, Turn
  <2> QED
    BY <1>1, <2>1, PayloadStep DEF RowsFit, Approved
<1>2. \A l \in Leases : leases'[l].state = "absent" => leases'[l].uses = 0
  <2>1. ASSUME NEW k \in Leases, NEW c, NEW b, LS!Issue(k, c, b, LeaseTTL), NEW l \in Leases,
               leases'[l].state = "absent"
        PROVE  leases'[l].uses = 0
    BY <2>1 DEF LS!Issue, LS!LeaseTypeOK, LS!LeaseRow, GateTypeOK, RowsFit
  <2>2. ASSUME NEW k, NEW b, LS!Consume(k, b), NEW l \in Leases, leases'[l].state = "absent"
        PROVE  leases'[l].uses = 0
    BY <2>2 DEF LS!Consume, LS!Consumable, LS!LeaseTypeOK, LS!LeaseRow, GateTypeOK,
       RowsFit
  <2>3. ASSUME NEW c \in Chats, LS!RevokeProfile(c), NEW l \in Leases, leases'[l].state = "absent"
        PROVE  leases'[l].uses = 0
    BY <2>3 DEF LS!RevokeProfile, LS!Revoked, LS!LeaseTypeOK, LS!LeaseRow, GateTypeOK,
       RowsFit
  <2>4. CASE leases' = leases
    BY <2>4, SMTT(30) DEF RowsFit
  <2>5. ASSUME NEW t \in Threads, Turn(t)
        PROVE  \A l \in Leases : leases'[l].state = "absent" => leases'[l].uses = 0
    <3>1. Chat(t) \in Chats
      BY DEF GateTypeOK, ThreadState, Chat
    <3> QED
      BY <2>1, <2>2, <2>3, <2>4, <2>5, <3>1 DEF Turn, Request, Step, PreflightStep,
         ApproveStep, InvokeStep, ControlStep, StorageFault, PreflightBegin,
         PreflightDescribe, PreflightPolicy, PreflightOutcome, PreflightCreate,
         PreflightEvidence, PreflightKill, ApproveBegin, ApproveBoundary, ApproveIssue,
         ApproveEvidence, ApproveUpdate, InvokeBegin, InvokeLoad, InvokeDescribe,
         InvokeResolve, InvokePolicy, InvokeRecheck, InvokeClaim, InvokeConsume,
         InvokeEvidence, InvokeAdmit, Call, Release, InvokeKill, NativeBegin,
         NativeEvidence, StopBegin, StopLeases, ResumeBegin, ResumeEvidence, ResumeOpen
  <2>6. CASE Environment \/ UNCHANGED vars
    BY <2>4, <2>6 DEF Environment, Revoke, LoseKey, Crash, Clock, ToolDrift,
       ConfigDrift, vars
  <2> QED
    BY <2>5, <2>6 DEF Next, Turn
<1>3. now' \in 0..MaxTime
  BY GateIsStoreClient, StoreStep DEF RowsFit, Read, RevokeScope, ResumeScope, Create,
     Update, Claim, Admit, Finish, Invalidate, BeginNative, Rotate, Tick, storeVars
<1> QED
  BY <1>1, <1>2, <1>3 DEF RowsFit, Approved

(* A stop and an approval: whichever comes second finds the other's mark.    *)
LEMMA StopStep ==
  ASSUME GateTypeOK, RowsFit, AdmissionHoldsSlot, StopKillsApprovals,
         \A t \in Threads : Fits(threads[t]), [Next]_vars
  PROVE  StopKillsApprovals'
<1> SUFFICES ASSUME NEW d \in Decisions, decisions'[d].state = "open",
                    control'[ProfileOfCall(d)].stopped
             PROVE  decisions'[d].payload.lease = NoLease
  BY DEF StopKillsApprovals, ProfileOfCall
<1>1. CASE \E y \in Payloads : decisions'[d].payload = y /\ y.lease = NoLease
  BY <1>1
<1>2. ASSUME decisions'[d].payload = decisions[d].payload, Open(d)
      PROVE  decisions'[d].payload.lease = NoLease
  <2>1. ASSUME NEW x, Undisturbed(x) PROVE decisions'[d].payload.lease = NoLease
    BY <1>2, <2>1 DEF Undisturbed, StopKillsApprovals, Open
  <2>2. CASE UNCHANGED vars
    BY <1>2, <2>2 DEF vars, storeVars, StopKillsApprovals, Open
  <2> QED
    BY <2>1, <2>2, DisturbsOwnCall, EnvironmentDisturbsNothing DEF Next, Turn
<1>3. ASSUME NEW t \in Threads, ~Stopped(Chat(t)), ScopeOf[d] = Chat(t), control' = control
      PROVE  FALSE
  BY <1>3 DEF Stopped, ProfileOfCall
<1> QED
  BY <1>1, <1>2, <1>3, PayloadStep
(* Whoever becomes the owner of a call starts it.                            *)
LEMMA OwnersStart ==
  ASSUME GateTypeOK, ClaimedIsSpent, \A u \in Threads : Fits(threads[u]),
         NEW t \in Threads, Turn(t), threads'[t].pc \in Owning
  PROVE  \/ threads[t].pc \in Owning /\ threads'[t].id = Id(t)
         \/ threads'[t].id \notin started
<1>1. CASE Return(t)
  BY <1>1 DEF Return, GateTypeOK, Idle, Owning
<1>2. CASE Request(t)
  <2>1. ASSUME NEW c, NEW n, NativeBegin(t, c, n) PROVE threads'[t].id \notin started
    BY <2>1 DEF NativeBegin, BeginNative, Begin, Idle, GateTypeOK
  <2>2. ASSUME NEW pc, NEW c, NEW x, Begin(t, pc, c, x) PROVE threads'[t].pc = pc
    BY <2>2 DEF Begin, Idle, GateTypeOK
  <2>3. ASSUME NEW c, NEW d, ApproveBegin(t, c, d) PROVE FALSE
    BY <2>3 DEF ApproveBegin, GateTypeOK, Owning
  <2> QED
    BY <1>1, <1>2, <2>1, <2>2, <2>3 DEF Request, PreflightBegin, StopBegin, ResumeBegin,
       InvokeBegin, Owning
<1>3. CASE InvokeClaim(t) /\ ~Return(t)
  <2>1. threads'[t].id = Id(t)
    BY <1>3 DEF InvokeClaim, Goto, GateTypeOK, ThreadState, Id
  <2>2. Id(t) \in Decisions
    BY <1>3 DEF InvokeClaim, At, Fits, Shaped, Naming, Loaded, Matched, Id
  <2>3. Id(t) \notin started
    BY <1>3, <2>2 DEF InvokeClaim, Claim, Loadable, ClaimedIsSpent
  <2> QED
    BY <2>1, <2>3
<1>4. CASE \/ InvokeConsume(t) \/ InvokeEvidence(t) \/ NativeEvidence(t) \/ InvokeAdmit(t)
           \/ Call(t)
  BY <1>4 DEF InvokeConsume, InvokeEvidence, NativeEvidence, InvokeAdmit, Call, At, Goto,
     GateTypeOK, ThreadState, Id, Owning
<1>5. CASE PreflightStep(t) /\ ~Return(t)
  <2>1. ASSUME NEW y, threads' = [threads EXCEPT ![t].pc = "p_create", ![t].payload = y]
        PROVE  FALSE
    BY <2>1 DEF GateTypeOK, ThreadState, Owning
  <2>2. ASSUME NEW d, NEW y,
               threads' = [threads EXCEPT ![t].pc = "p_evidence", ![t].id = d, ![t].payload = y]
        PROVE  FALSE
    BY <2>2 DEF GateTypeOK, ThreadState, Owning
  <2>3. CASE PreflightDescribe(t) \/ PreflightPolicy(t)
    BY <1>5, <2>3 DEF PreflightDescribe, PreflightPolicy, Goto, GateTypeOK, ThreadState,
       Owning
  <2> QED
    BY <1>5, <2>1, <2>2, <2>3 DEF PreflightStep, PreflightOutcome, PreflightCreate,
       PreflightEvidence, PreflightKill
<1>6. CASE ApproveStep(t) /\ ~Return(t)
  BY <1>6 DEF ApproveStep, ApproveBoundary, ApproveIssue, ApproveEvidence,
     ApproveUpdate, Goto, GateTypeOK, ThreadState, Owning
<1>7. CASE /\ ~Return(t)
           /\ \/ InvokeLoad(t) \/ InvokeDescribe(t) \/ InvokeResolve(t) \/ InvokePolicy(t)
              \/ InvokeRecheck(t) \/ InvokeKill(t) \/ Release(t) \/ ControlStep(t)
  BY <1>7 DEF InvokeLoad, InvokeDescribe, InvokeResolve, InvokePolicy, InvokeRecheck,
     InvokeKill, Release, ControlStep, StopLeases, ResumeEvidence, ResumeOpen, Goto,
     GateTypeOK, ThreadState, Owning
<1>8. CASE StorageFault(t) /\ ~Return(t)
  <2>1. /\ threads'[t].pc = OnFault[threads[t].pc] /\ threads'[t].id = Id(t)
        /\ threads[t].pc \in PCs
    BY <1>8 DEF StorageFault, Goto, GateTypeOK, ThreadState, Id
  <2> QED
    BY <2>1 DEF OnFault, Owning
<1> QED
  BY <1>1, <1>2, <1>3, <1>4, <1>5, <1>6, <1>7, <1>8 DEF Turn, Step, InvokeStep

LEMMA OwnerStep ==
  ASSUME GateTypeOK, ClaimedIsSpent, OneOwner, \A u \in Threads : Fits(threads[u]), [Next]_vars
  PROVE  OneOwner'
<1>1. ASSUME NEW t \in Threads, Turn(t), NEW u \in Threads, u # t,
             threads'[t].pc \in Owning, threads'[u].pc \in Owning, threads'[t].id = threads'[u].id
      PROVE  FALSE
  <2>1. threads'[u] = threads[u]
    BY <1>1, OthersWait
  <2>2. Id(u) \in started
    BY <1>1, <2>1 DEF Fits, Owns, Id
  <2> QED
    BY <1>1, <2>1, <2>2, OwnersStart DEF OneOwner, Id
<1>2. ASSUME NEW t \in Threads, Turn(t), NEW u \in Threads, NEW v \in Threads, u # t, v # t,
             threads'[u].pc \in Owning, threads'[v].pc \in Owning, threads'[u].id = threads'[v].id
      PROVE  u = v
  BY <1>2, OthersWait DEF OneOwner, Id
<1>3. ASSUME NEW t \in Threads, Turn(t) PROVE OneOwner'
  BY <1>1, <1>2, <1>3 DEF OneOwner, Id
<1>4. CASE Environment
  <2>1. \A u \in Threads : threads'[u] = threads[u] \/ threads'[u] = Idle
    BY <1>4 DEF Environment, Crash, Revoke, LoseKey, Clock, ToolDrift, ConfigDrift
  <2>2. Idle.pc \notin Owning
    BY DEF Idle, Owning
  <2> QED
    BY <2>1, <2>2 DEF OneOwner, Id
<1>5. CASE UNCHANGED vars
  BY <1>5 DEF vars, OneOwner, Id
<1> QED
  BY <1>3, <1>4, <1>5 DEF Next, Turn

(* What a dispatch does: only a claimed call that has not left may leave.    *)
LEMMA DispatchStep ==
  ASSUME GateTypeOK, DispatchedOnce, ClaimedIsSpent, RowsFit, AdmissionHoldsSlot,
         \A u \in Threads : Fits(threads[u]), [Next]_vars, NEW d \in Decisions
  PROVE  \/ dispatches'[d] = dispatches[d]
         \/ \E t \in Threads :
              InvokeAdmit(t) /\ Id(t) = d /\ dispatches[d] = 0 /\ dispatches'[d] = 1
<1>1. ASSUME NEW t \in Threads, InvokeAdmit(t), dispatches'[d] # dispatches[d]
      PROVE  Id(t) = d /\ dispatches[d] = 0 /\ dispatches'[d] = 1
  <2>1. Id(t) = d /\ dispatches'[d] = dispatches[d] + 1
    BY <1>1 DEF InvokeAdmit, GateTypeOK
  <2>2. dispatches[d] = 0
    BY <1>1, <2>1 DEF InvokeAdmit, At, Fits, Authorised, Id
  <2> QED
    BY <2>1, <2>2
<1>2. ASSUME NEW t \in Threads, Turn(t), ~InvokeAdmit(t)
      PROVE  dispatches' = dispatches
  BY <1>2 DEF Turn, Request, Step, PreflightStep, ApproveStep, InvokeStep, ControlStep,
     StorageFault, PreflightBegin, PreflightDescribe, PreflightPolicy, PreflightOutcome,
     PreflightCreate, PreflightEvidence, PreflightKill, ApproveBegin, ApproveBoundary,
     ApproveIssue, ApproveEvidence, ApproveUpdate, InvokeBegin, InvokeLoad,
     InvokeDescribe, InvokeResolve, InvokePolicy, InvokeRecheck, InvokeClaim,
     InvokeConsume, InvokeEvidence, Call, Release, InvokeKill, NativeBegin,
     NativeEvidence, StopBegin, StopLeases, ResumeBegin, ResumeEvidence, ResumeOpen,
     rest
<1>3. CASE Environment \/ UNCHANGED vars
  <2> dispatches' = dispatches
    BY <1>3 DEF Environment, Revoke, LoseKey, Crash, Clock, ToolDrift, ConfigDrift,
       vars, rest
  <2> QED
    OBVIOUS
<1> QED
  BY <1>1, <1>2, <1>3 DEF Next, Turn

LEMMA StartedGrows ==
  ASSUME GateTypeOK, RowsFit, AdmissionHoldsSlot, \A u \in Threads : Fits(threads[u]), [Next]_vars
  PROVE  UNCHANGED vars \/ \E x : Undisturbed(x)
BY DisturbsOwnCall, EnvironmentDisturbsNothing DEF Next, Turn

LEMMA OnceStep ==
  ASSUME GateTypeOK, DispatchedOnce, ClaimedIsSpent, RowsFit, AdmissionHoldsSlot,
         \A u \in Threads : Fits(threads[u]), [Next]_vars
  PROVE  DispatchedOnce'
<1> SUFFICES ASSUME NEW d \in Decisions
             PROVE  dispatches'[d] <= 1 /\ (dispatches'[d] > 0 => d \in started')
  BY DEF DispatchedOnce
<1>1. started \subseteq started'
  BY StartedGrows DEF Undisturbed, vars, storeVars
<1>2. CASE dispatches'[d] = dispatches[d]
  BY <1>1, <1>2 DEF DispatchedOnce
<1>3. ASSUME NEW t \in Threads, InvokeAdmit(t), Id(t) = d, dispatches'[d] = 1
      PROVE  dispatches'[d] <= 1 /\ d \in started'
  BY <1>1, <1>3 DEF InvokeAdmit, At, Id, Fits, Owns, Owning
<1> QED
  BY <1>2, <1>3, DispatchStep
(* What authorised a call that left cannot change behind it.                 *)
Lawful(d, sealed) ==
  /\ d \in started /\ <<"dispatch", d>> \in audit
  /\ PolicyOf[<<sealed.tool, sealed.config>>] # "deny"
  /\ PolicyOf[<<sealed.tool, sealed.config>>] = "needs_approval" =>
       /\ <<"approval", d>> \in audit
       /\ sealed.lease \in Leases
       /\ leases[sealed.lease].uses = 1
       /\ leases[sealed.lease].binding =
            [chat |-> ScopeOf[d], tool |-> sealed.tool, config |-> sealed.config]

LEMMA AuthorisedStep ==
  ASSUME GateTypeOK, DispatchedOnce, ClaimedIsSpent, RowsFit, AdmissionHoldsSlot,
         DispatchIsAuthorised, \A u \in Threads : Fits(threads[u]), [Next]_vars
  PROVE  DispatchIsAuthorised'
<1>1. CASE UNCHANGED vars
  BY <1>1 DEF vars, storeVars, rest, DispatchIsAuthorised
<1>2. ASSUME NEW x, Undisturbed(x), NEW d \in Decisions, dispatches'[d] > 0
      PROVE  Lawful(d, decisions[d].payload)'
  <2>1. Lawful(d, decisions[d].payload)
    <3>1. CASE dispatches'[d] = dispatches[d]
      BY <1>2, <3>1 DEF DispatchIsAuthorised, DispatchedOnce, Lawful
    <3>2. ASSUME NEW t \in Threads, InvokeAdmit(t), Id(t) = d
          PROVE  Lawful(d, decisions[d].payload)
      <4>1. PICK r : r = threads[t] /\ r.pc = "admit" /\ r.id = d /\ Fits(r)
        BY <3>2 DEF InvokeAdmit, At, Id
      <4>2. /\ d \in started /\ ScopeOf[d] = r.chat /\ decisions[d].payload = r.payload
            /\ r.tool = r.payload.tool /\ r.config = r.payload.config
            /\ r.payload.lease # NoLease => <<"approval", d>> \in audit
        BY <4>1 DEF Fits, Owns, Owning, Shaped, Grounded, Matched, Loaded, Approved
      <4>3. /\ <<"dispatch", d>> \in audit
            /\ PolicyOf[<<r.tool, r.config>>] # "deny"
            /\ PolicyOf[<<r.tool, r.config>>] = "needs_approval" =>
                 /\ r.payload.lease # NoLease /\ r.payload.lease \in Leases
                 /\ leases[r.payload.lease].uses = 1
                 /\ leases[r.payload.lease].binding =
                      [chat |-> r.chat, tool |-> r.tool, config |-> r.config]
        BY <4>1 DEF Fits, Authorised, Cleared, Paid
      <4> QED
        BY <4>2, <4>3 DEF Lawful
    <3> QED
      BY <3>1, <3>2, DispatchStep
  <2>2. decisions'[d].payload = decisions[d].payload
    BY <1>2, <2>1 DEF Lawful, ClaimedIsSpent, Undisturbed, Open
  <2> QED
    BY <1>2, <2>1, <2>2 DEF Lawful, Undisturbed
<1> QED
  BY <1>1, <1>2, StartedGrows DEF DispatchIsAuthorised, Lawful

-----------------------------------------------------------------------------
LEMMA GateInit == Init => GateInduction
<1> SUFFICES ASSUME Init PROVE GateInduction
  OBVIOUS
<1>1. StoreTypeOK /\ AdmissionHoldsSlot /\ ClaimedIsSpent
  BY StoreAssumption DEF Init, StoreInit, StoreTypeOK, DecisionRow, SessionRow,
     ControlRow, RowStates, Keys, StoreAssumption, AdmissionHoldsSlot, ClaimedIsSpent
<1>2. Idle \in ThreadState /\ Idle.pc = "idle"
  BY GateAssumption DEF Idle, ThreadState, PCs, GateAssumption
<1>3. GateTypeOK
  BY <1>1, <1>2, GateAssumption DEF Init, GateTypeOK, LS!LeaseInit, LS!LeaseTypeOK,
     LS!LeaseRow, GateAssumption
<1>4. \A t \in Threads : Fits(threads[t])
  BY <1>2 DEF Init, Fits, Shaped, Grounded, Unstopped, Owns, Authorised, Naming, Loaded,
     Matched, Cleared, Paid, Approving, Owning
<1>5. RowsFit /\ StopKillsApprovals
  BY StoreAssumption DEF Init, StoreInit, LS!LeaseInit, RowsFit, StopKillsApprovals,
     StoreAssumption
<1>6. OneOwner /\ DispatchedOnce /\ DispatchIsAuthorised
  BY <1>2 DEF Init, OneOwner, Owning, DispatchedOnce, DispatchIsAuthorised
<1> QED
  BY <1>1, <1>3, <1>4, <1>5, <1>6 DEF GateInduction

LEMMA GateStep == GateInduction /\ [Next]_vars => GateInduction'
<1> SUFFICES ASSUME GateInduction, [Next]_vars PROVE GateInduction'
  OBVIOUS
<1> USE DEF GateInduction
<1>1. GateTypeOK'
  BY GateTypeStep
<1>2. AdmissionHoldsSlot' /\ ClaimedIsSpent'
  BY GateIsStoreClient, SlotStep, SpentStep DEF GateTypeOK
<1>3. RowsFit'
  BY <1>1, RowsStep
<1>4. \A t \in Threads : Fits(threads[t])'
  BY <1>1, <1>3, FitStep
<1>5. StopKillsApprovals' /\ OneOwner' /\ DispatchedOnce' /\ DispatchIsAuthorised'
  BY StopStep, OwnerStep, OnceStep, AuthorisedStep
<1> QED
  BY <1>1, <1>2, <1>3, <1>4, <1>5

(* The inductive invariant of the gate.                                      *)
THEOREM GateInduces == Spec => []GateInduction
BY GateInit, GateStep, PTL DEF Spec

(* No decision is dispatched twice.                                          *)
THEOREM DispatchedAtMostOnce == Spec => []AtMostOneDispatch
<1>1. GateInduction => AtMostOneDispatch
  BY DEF GateInduction, DispatchedOnce, AtMostOneDispatch
<1> QED
  BY <1>1, GateInduces, PTL

(* Types hold, every call in flight is an admitted row that holds its slot,  *)
(* and no approval outlives a stop.                                          *)
THEOREM GateIsSound == Spec => []GateInvariant
<1>1. ASSUME GateInduction, NEW t \in Threads, InFlight(t)
      PROVE  /\ \E a \in admissions : a.id = Id(t) /\ a.profile = ProfileOf[Chat(t)]
             /\ sessions[Chat(t)].active = Id(t)
  <2>1. threads[t].pc = "call" /\ Fits(threads[t])
    BY <1>1 DEF InFlight, At, GateInduction
  <2>2. /\ ScopeOf[Id(t)] = Chat(t) /\ sessions[Chat(t)].active = Id(t)
        /\ \E a \in admissions : a.id = Id(t)
    BY <2>1 DEF Fits, Owns, Owning, Authorised, Id, Chat
  <2> QED
    BY <1>1, <2>2 DEF GateInduction, AdmissionHoldsSlot, ProfileOfCall
<1>2. GateInduction => GateInvariant
  BY <1>1 DEF GateInduction, GateInvariant, InFlightIsAdmitted
<1> QED
  BY <1>2, GateInduces, PTL

(* Whatever left was audited, permitted and, where it had to be, approved.   *)
THEOREM DispatchesAreAuthorised == Spec => []DispatchIsAuthorised
<1>1. GateInduction => DispatchIsAuthorised
  BY DEF GateInduction
<1> QED
  BY <1>1, GateInduces, PTL

(* Whatever is in flight fits the schema and the decision that was sealed.   *)
THEOREM DispatchesAreValidated == Spec => []DispatchIsValidated
<1>1. ASSUME GateInduction, NEW t \in Threads, InFlight(t), Id(t) \in Decisions
      PROVE  /\ threads[t].tool \in Conforming
             /\ threads[t].tool = decisions[Id(t)].payload.tool
             /\ threads[t].config = decisions[Id(t)].payload.config
  <2>1. threads[t].pc = "call" /\ Fits(threads[t])
    BY <1>1 DEF InFlight, At, GateInduction
  <2> QED
    BY <1>1, <2>1 DEF Fits, Shaped, Owns, Owning, Matched, Id
<1>2. GateInduction => DispatchIsValidated
  BY <1>1 DEF DispatchIsValidated
<1> QED
  BY <1>2, GateInduces, PTL

(* The gate is a client of the store: what holds of StoreSpec holds here.    *)
THEOREM GateImplementsStore == Spec => StoreSpec
<1>1. Init => StoreInit
  BY DEF Init
<1>2. GateInduction /\ [Next]_vars => [StoreNext]_storeVars
  BY GateIsStoreClient DEF GateInduction
<1> QED
  BY <1>1, <1>2, GateInduces, PTL DEF Spec, StoreSpec

(* Only a claim, a native call and an admission start something.             *)
LEMMA BeginsUnstopped ==
  ASSUME GateInduction, [Next]_vars, NEW x \in Calls,
         \/ x \notin started /\ x \in started'
         \/ x \notin {a.id : a \in admissions} /\ x \in {a.id : a \in admissions'}
  PROVE  ~control[ProfileOfCall(x)].stopped
<1> USE DEF GateInduction, tables, history
<1>1. CASE started' = started /\ admissions' \subseteq admissions
  BY <1>1
<1>2. ASSUME NEW d, admissions' \subseteq admissions \cup {AdmissionOf(d)},
             started' \subseteq started \cup {d}
      PROVE  x = d
  BY <1>2 DEF AdmissionOf
<1>3. ASSUME NEW t \in Threads, InvokeClaim(t), started' # started
      PROVE  ~control[ProfileOfCall(x)].stopped
  <2>1. Claim(Proc(t), Chat(t), Id(t), Payload(t))
    BY <1>3 DEF InvokeClaim, storeVars
  <2>2. x = Id(t) /\ Open(x) /\ ScopeOf[x] = Chat(t)
    BY <2>1 DEF Claim, Loadable, Open
  <2>3. threads[t].pc = "claim" /\ Fits(threads[t])
    BY <1>3 DEF InvokeClaim, At
  <2> QED
    BY <2>2, <2>3 DEF Fits, Unstopped, Id, Chat, Stopped, ProfileOfCall
<1>4. ASSUME NEW t \in Threads, NEW c \in Chats, NEW n \in Natives, NativeBegin(t, c, n)
      PROVE  ~control[ProfileOfCall(x)].stopped
  <2>1. x = n
    BY <1>2, <1>4 DEF NativeBegin, BeginNative
  <2> QED
    BY <1>4, <2>1 DEF NativeBegin, BeginNative, Stopped, ProfileOfCall
<1>5. ASSUME NEW t \in Threads, InvokeAdmit(t), ~UNCHANGED storeVars
      PROVE  ~control[ProfileOfCall(x)].stopped
  <2>1. Admit(Chat(t), Id(t), Payload(t).deadline)
    BY <1>5 DEF InvokeAdmit
  <2>2. x = Id(t)
    BY <1>2, <2>1, SMTT(30) DEF Admit
  <2> QED
    BY <2>1, <2>2 DEF Admit, Stopped, ProfileOfCall
<1>6. ASSUME NEW t \in Threads, Turn(t), ~InvokeClaim(t), ~InvokeAdmit(t),
             \A c \in Chats, n \in Natives : ~NativeBegin(t, c, n)
      PROVE  started' = started /\ admissions' \subseteq admissions
  BY <1>6, ZenonT(60) DEF Turn, Request, Step, PreflightStep, ApproveStep, InvokeStep, ControlStep,
     StorageFault, PreflightBegin, PreflightDescribe, PreflightPolicy, PreflightOutcome,
     PreflightCreate, PreflightEvidence, PreflightKill, ApproveBegin, ApproveBoundary,
     ApproveIssue, ApproveEvidence, ApproveUpdate, InvokeBegin, InvokeLoad,
     InvokeDescribe, InvokeResolve, InvokePolicy, InvokeRecheck, InvokeConsume,
     InvokeEvidence, Call, Release, InvokeKill, NativeEvidence, StopBegin, StopLeases,
     ResumeBegin, ResumeEvidence, ResumeOpen, Read, Create, Load, Update, Finish,
     Invalidate, RevokeScope, ResumeScope, storeVars
<1>7. CASE Environment \/ UNCHANGED vars
  BY <1>1, <1>7 DEF Environment, Revoke, Invalidate, LoseKey, Crash, Rotate, Clock, Tick,
     ToolDrift, ConfigDrift, vars, storeVars
<1>8. ASSUME NEW t \in Threads, InvokeClaim(t), started' = started
      PROVE  admissions' \subseteq admissions
  BY <1>8 DEF InvokeClaim, Claim, storeVars
<1>9. ASSUME UNCHANGED storeVars PROVE started' = started /\ admissions' \subseteq admissions
  BY <1>9 DEF storeVars
<1> QED
  BY <1>1, <1>3, <1>4, <1>5, <1>6, <1>7, <1>8, <1>9 DEF Next, Turn

(* No call of a stopped profile is claimed or admitted.                      *)
THEOREM NothingStartsWhileStopped == Spec => NothingBeginsWhileStopped
<1>1. GateInduction /\ [Next]_vars =>
        [\A x \in Calls :
           \/ x \notin started /\ x \in started'
           \/ x \notin {a.id : a \in admissions} /\ x \in {a.id : a \in admissions'}
           => ~control[ProfileOfCall(x)].stopped]_vars
  BY BeginsUnstopped
<1> QED
  BY <1>1, GateInduces, PTL DEF Spec, NothingBeginsWhileStopped
-----------------------------------------------------------------------------
(***************************************************************************)
(* The gate implements the life cycle ApprovedDispatch promises: each step  *)
(* of the gate is one abstract step or none.  The store operations are      *)
(* mapped first, then the steps that make them; what the gate checked at    *)
(* earlier steps, and what no other step can have disturbed since, comes    *)
(* from GateInduction.                                                      *)
(***************************************************************************)

(* An approval under way carries the lease it was issued.                    *)
ApprovalHasLease ==
  \A t \in Threads : threads[t].pc \in {"a_evidence", "a_update"} => Payload(t).lease # NoLease

Refining == GateInduction /\ ApprovalHasLease

(* The steps of the gate.                                                    *)
LEMMA LeaseCarried ==
  ASSUME Refining, GateTypeOK', [Next]_vars
  PROVE  ApprovalHasLease'
<1> USE DEF Refining, GateInduction
<1> SUFFICES ASSUME NEW u \in Threads, threads'[u].pc \in {"a_evidence", "a_update"}
             PROVE  threads'[u].payload.lease # NoLease
  BY DEF ApprovalHasLease, Payload
<1>1. CASE threads'[u] = threads[u]
  BY <1>1 DEF ApprovalHasLease, Payload
<1>2. threads'[u] # Idle
  BY DEF Idle
<1>3. PICK r : r = threads[u] /\ r \in ThreadState /\ Fits(r)
  BY DEF GateTypeOK
<1>4. CASE ApproveIssue(u)
  <2>1. ~Return(u)
    BY <1>2 DEF Return, GateTypeOK
  <2>2. PICK l \in Leases :
          threads'[u] = [r EXCEPT !.pc = "a_evidence", !.payload.lease = l]
    BY <1>3, <1>4, <2>1 DEF ApproveIssue, GateTypeOK
  <2>3. threads'[u].payload = [r.payload EXCEPT !.lease = l]
    BY <1>3, <2>2 DEF ThreadState
  <2>4. r.pc = "a_issue"
    BY <1>3, <1>4 DEF ApproveIssue, At
  <2>5. r.payload \in Payloads
    BY <1>3, <2>4 DEF Fits, Shaped, Naming, Loaded, Approving
  <2> QED
    BY <2>3, <2>5, GateAssumption DEF GateAssumption, Sealed
<1>5. CASE ApproveEvidence(u)
  <2>1. threads'[u] = [r EXCEPT !.pc = "a_update"] /\ r.pc = "a_evidence"
    BY <1>3, <1>5 DEF ApproveEvidence, Goto, At, GateTypeOK
  <2>2. threads'[u].payload = r.payload
    BY <1>3, <2>1 DEF ThreadState
  <2> QED
    BY <1>3, <2>1, <2>2 DEF ApprovalHasLease, Payload
<1>6. ASSUME Turn(u), ~ApproveIssue(u), ~ApproveEvidence(u) PROVE FALSE
  <2>1. ASSUME NEW pc \in PCs \ {"a_evidence", "a_update"}, Goto(u, pc) PROVE FALSE
    BY <1>3, <2>1 DEF Goto, ThreadState, GateTypeOK
  <2>2. ~Return(u)
    BY <1>2 DEF Return, GateTypeOK
  <2>3. ASSUME NEW pc, pc \notin {"a_evidence", "a_update"}, NEW c, NEW x, Begin(u, pc, c, x)
        PROVE  FALSE
    BY <2>3 DEF Begin, Idle, GateTypeOK
  <2>4. ASSUME Request(u) PROVE FALSE
    BY <1>3, <2>2, <2>3, <2>4 DEF Request, PreflightBegin, ApproveBegin, InvokeBegin,
       NativeBegin, StopBegin, ResumeBegin, GateTypeOK
  <2>5. ASSUME PreflightStep(u) PROVE FALSE
    <3>1. CASE PreflightDescribe(u)
      BY <1>3, <2>2, <3>1 DEF PreflightDescribe, GateTypeOK, ThreadState
    <3>2. CASE PreflightOutcome(u)
      <4>1. threads'[u].pc = "p_create"
        BY <1>3, <3>2 DEF PreflightOutcome, GateTypeOK, ThreadState
      <4> QED
        BY <4>1
    <3>3. CASE PreflightCreate(u)
      <4>1. PICK d, y : threads' = [threads EXCEPT ![u].pc = "p_evidence", ![u].id = d,
                                                   ![u].payload = y]
        BY <2>2, <3>3 DEF PreflightCreate
      <4>2. threads'[u].pc = "p_evidence"
        BY <1>3, <4>1 DEF GateTypeOK, ThreadState
      <4> QED
        BY <4>2
    <3>4. CASE PreflightPolicy(u) \/ PreflightEvidence(u) \/ PreflightKill(u)
      BY <2>1, <2>2, <3>4 DEF PreflightPolicy, PreflightEvidence, PreflightKill, PCs,
         PreflightPC
    <3> QED
      BY <2>5, <3>1, <3>2, <3>3, <3>4 DEF PreflightStep
  <2>6. ASSUME ApproveStep(u) PROVE FALSE
    BY <1>3, <1>6, <2>2, <2>6 DEF ApproveStep, ApproveBoundary, ApproveUpdate, Goto,
       GateTypeOK, ThreadState
  <2>7. ASSUME InvokeStep(u) \/ ControlStep(u) PROVE FALSE
    <3>1. \A pc \in {"recheck", "kill", "claim", "consume", "evidence", "finish", "admit",
                     "call", "r_open"} : ~Goto(u, pc)
      BY <2>1 DEF PCs, InvokePC, PreflightPC, ControlPC
    <3>2. CASE InvokeLoad(u) \/ InvokeDescribe(u)
      BY <1>3, <2>2, <3>1, <3>2 DEF InvokeLoad, InvokeDescribe, GateTypeOK, ThreadState
    <3>3. CASE InvokeResolve(u)
      <4>1. threads'[u].pc \in {"policy", "kill"}
        BY <1>3, <3>3 DEF InvokeResolve, GateTypeOK, ThreadState
      <4> QED
        BY <4>1
    <3>4. CASE \/ InvokePolicy(u) \/ InvokeRecheck(u) \/ InvokeClaim(u) \/ InvokeConsume(u)
               \/ InvokeEvidence(u) \/ NativeEvidence(u) \/ InvokeAdmit(u) \/ Call(u)
               \/ Release(u) \/ InvokeKill(u)
      BY <2>2, <3>1, <3>4 DEF InvokePolicy, InvokeRecheck, InvokeClaim, InvokeConsume,
         InvokeEvidence, NativeEvidence, InvokeAdmit, Call, Release, InvokeKill
    <3>5. CASE ControlStep(u)
      BY <2>2, <3>1, <3>5 DEF ControlStep, StopLeases, ResumeEvidence, ResumeOpen
    <3> QED
      BY <2>7, <3>2, <3>3, <3>4, <3>5 DEF InvokeStep
  <2>8. ASSUME StorageFault(u) PROVE FALSE
    <3>1. r.pc \in PCs /\ OnFault[r.pc] \in {"finish", "p_kill", "idle"}
      BY <1>3 DEF ThreadState, OnFault
    <3> QED
      BY <1>3, <2>1, <2>2, <2>8, <3>1
         DEF StorageFault, PCs, InvokePC, PreflightPC
  <2> QED
    BY <1>6, <2>4, <2>5, <2>6, <2>7, <2>8 DEF Turn, Step
<1>7. ASSUME NEW t \in Threads, Turn(t), t # u PROVE threads'[u].payload.lease # NoLease
  BY <1>1, <1>7, OthersWait
<1>8. CASE Environment \/ UNCHANGED vars
  BY <1>1, <1>2, <1>8 DEF Environment, Crash, Revoke, LoseKey, Clock, ToolDrift,
     ConfigDrift, vars
<1> QED
  BY <1>4, <1>5, <1>6, <1>7, <1>8 DEF Next, Turn

(* A gate's tables have the types the life cycle is read from.               *)
LEMMA PhasesTyped == GateTypeOK => PhaseTypeOK
BY DEF GateTypeOK, PhaseTypeOK

(* The payload an invocation claims with was cleared, by policy or approval. *)
LEMMA ClaimCleared ==
  ASSUME GateInduction, NEW t \in Threads, At(t, "claim"), Id(t) \in Decisions
  PROVE  Payload(t) \in Granted
<1>1. PICK r : r = threads[t] /\ Fits(r) /\ r.pc = "claim" /\ r.id \in Decisions
               /\ r \in ThreadState
  BY DEF GateInduction, At, Id, GateTypeOK
<1>2. r.payload \in Payloads /\ Honest(r.payload)
      /\ r.tool = r.payload.tool /\ r.config = r.payload.config
  BY <1>1 DEF Fits, Shaped, Loaded, Matched
<1>3. /\ PolicyOf[<<r.tool, r.config>>] # "deny" /\ r.payload.outcome # "deny"
      /\ PolicyOf[<<r.tool, r.config>>] = "needs_approval" => r.payload.lease # NoLease
  BY <1>1 DEF Fits, Authorised, Cleared
<1>4. PolicyOf[<<r.tool, r.config>>] \in Outcomes
  BY <1>1, GateAssumption DEF GateAssumption, ThreadState
<1> QED
  BY <1>1, <1>2, <1>3, <1>4, GateAssumption DEF Honest, Outcomes, Payload, GateAssumption,
     Consented

LEMMA TurnRefines ==
  ASSUME Refining, NEW t \in Threads, Turn(t)
  PROVE  [AD!ANext]_AD!avars
<1> USE PhasesTyped DEF Refining, GateInduction
<1>1. Chat(t) \in Chats /\ Proc(t) \in Processes /\ ProfileOf[Chat(t)] \in Profiles
      /\ \A c \in Chats : ProfileOf[c] \in Profiles
  BY GateAssumption, StoreAssumption, SMTT(30) DEF GateTypeOK, ThreadState, GateAssumption, Chat,
     Proc, StoreAssumption
<1>2. ASSUME ~InvokeAdmit(t) PROVE dispatches' = dispatches
  BY <1>2 DEF Turn, Request, Step, PreflightStep, ApproveStep, InvokeStep, ControlStep,
     StorageFault, PreflightBegin, PreflightDescribe, PreflightPolicy, PreflightOutcome,
     PreflightCreate, PreflightEvidence, PreflightKill, ApproveBegin, ApproveBoundary,
     ApproveIssue, ApproveEvidence, ApproveUpdate, InvokeBegin, InvokeLoad,
     InvokeDescribe, InvokeResolve, InvokePolicy, InvokeRecheck, InvokeClaim,
     InvokeConsume, InvokeEvidence, Call, Release, InvokeKill, NativeBegin,
     NativeEvidence, StopBegin, StopLeases, ResumeBegin, ResumeEvidence, ResumeOpen,
     rest
<1>3. ASSUME dispatches' = dispatches, (\E c \in Chats : Read(c)) \/ UNCHANGED storeVars
      PROVE  [AD!ANext]_AD!avars
  BY <1>3, Unseen
<1>4. ASSUME PreflightCreate(t) PROVE [AD!ANext]_AD!avars
  <2>1. dispatches' = dispatches
    BY <1>4 DEF PreflightCreate, rest
  <2>2. CASE UNCHANGED storeVars
    BY <1>3, <2>1, <2>2
  <2>3. ASSUME NEW d \in Decisions,
               Create(Proc(t), Chat(t), d, [Payload(t) EXCEPT !.deadline = now + TTL])
        PROVE  AD!Propose(d)
    BY <1>1, <2>1, <2>3, CreateProposes
  <2> QED
    BY <1>4, <2>2, <2>3 DEF PreflightCreate, AD!ANext
<1>5. ASSUME NEW c \in Chats, NEW d \in Decisions, Invalidate(c, d), dispatches' = dispatches
      PROVE  [AD!ANext]_AD!avars
  BY <1>5, InvalidateKills DEF AD!ANext
<1>6. ASSUME PreflightKill(t) \/ InvokeKill(t) PROVE [AD!ANext]_AD!avars
  <2>1. Id(t) \in Decisions /\ dispatches' = dispatches
    BY <1>6 DEF Fits, Shaped, Naming, PreflightKill, InvokeKill, At, Id, rest
  <2> QED
    BY <1>1, <1>5, <1>6, <2>1 DEF PreflightKill, InvokeKill
<1>7. ASSUME ApproveUpdate(t) PROVE [AD!ANext]_AD!avars
  <2>1. Id(t) \in Decisions /\ dispatches' = dispatches
    BY <1>7, StoreAssumption DEF Fits, Shaped, Naming, Loaded, Approving, ApproveUpdate,
       At, Id, rest
  <2>2. Payload(t) \in Granted /\ (Open(Id(t)) => ~Stopped(Chat(t)))
    <3>1. Payload(t).lease # NoLease /\ (Open(Id(t)) => ~Stopped(Chat(t)))
      BY <1>7 DEF ApproveUpdate, At, ApprovalHasLease, Fits, Unstopped, Id, Chat
    <3>2. Payload(t) \in Payloads
      BY <1>7, <2>1 DEF ApproveUpdate, At, Fits, Shaped, Loaded, Approving, Id, Payload
    <3> QED
      BY <3>1, <3>2, GateAssumption DEF GateAssumption, Consented
  <2> QED
    BY <1>1, <1>3, <1>7, <2>1, <2>2, UpdateClears DEF ApproveUpdate, AD!ANext
<1>8. ASSUME InvokeClaim(t) PROVE [AD!ANext]_AD!avars
  <2>1. Id(t) \in Decisions /\ dispatches' = dispatches /\ At(t, "claim")
    BY <1>8 DEF Fits, Shaped, Naming, Loaded, Matched, InvokeClaim, At, Id, rest
  <2>2. Open(Id(t)) => ~Stopped(Chat(t))
    BY <1>8 DEF InvokeClaim, At, Fits, Unstopped, Id, Chat
  <2>3. ASSUME Claim(Proc(t), Chat(t), Id(t), Payload(t)) PROVE AD!ANext
    <3>1. Open(Id(t))
      BY <2>3 DEF Claim, Loadable, Open
    <3>2. Payload(t) \in Granted
      BY <2>1, ClaimCleared
    <3> QED
      BY <1>1, <2>1, <2>2, <2>3, <3>1, <3>2, ClaimClaims
  <2>4. Claim(Proc(t), Chat(t), Id(t), Payload(t)) \/ UNCHANGED storeVars
    BY <1>8 DEF InvokeClaim
  <2> QED
    BY <1>3, <2>1, <2>3, <2>4
<1>9. ASSUME InvokeAdmit(t) PROVE [AD!ANext]_AD!avars
  <2>1. Id(t) \in Decisions /\ Id(t) \in started /\ dispatches[Id(t)] = 0
    BY <1>9 DEF Fits, Shaped, Owns, Authorised, Naming, Owning, InvokeAdmit, At, Id
  <2>2. CASE UNCHANGED <<storeVars, dispatches>>
    BY <1>3, <2>2
  <2>3. CASE Admit(Chat(t), Id(t), Payload(t).deadline)
             /\ dispatches' = [dispatches EXCEPT ![Id(t)] = dispatches[Id(t)] + 1]
    BY <1>1, <2>1, <2>3, AdmitSends DEF AD!ANext
  <2> QED
    BY <1>9, <2>2, <2>3 DEF InvokeAdmit
<1>10. ASSUME Release(t) PROVE [AD!ANext]_AD!avars
  <2>1. /\ Id(t) \in Calls /\ sessions[Chat(t)].active = Id(t) /\ dispatches' = dispatches
        /\ Finish(Chat(t), Id(t))
    BY <1>10 DEF Fits, Shaped, Owns, Naming, Owning, Release, At, Id, Chat, rest
  <2> QED
    BY <1>1, <2>1, FinishReleases DEF AD!ANext
<1>11. ASSUME NEW c \in Chats, RevokeScope(c) \/ ResumeScope(c), dispatches' = dispatches
       PROVE  [AD!ANext]_AD!avars
  BY <1>1, <1>11, ControlSwitches DEF RevokeScope, ResumeScope, AD!ANext
<1>12. ASSUME ResumeOpen(t) PROVE [AD!ANext]_AD!avars
  BY <1>1, <1>11, <1>12 DEF ResumeOpen, rest
<1>13. ASSUME NEW c \in Chats, NEW n \in Natives, NativeBegin(t, c, n)
       PROVE  [AD!ANext]_AD!avars
  BY <1>13, NativeCharges DEF NativeBegin, rest, AD!ANext
<1>14. ASSUME Request(t) PROVE [AD!ANext]_AD!avars
  BY <1>3, <1>11, <1>13, <1>14 DEF Request, PreflightBegin, StopBegin, ResumeBegin,
     ApproveBegin, InvokeBegin, Load, rest
<1>15. ASSUME \/ PreflightDescribe(t) \/ PreflightPolicy(t) \/ PreflightOutcome(t)
              \/ PreflightEvidence(t) \/ ApproveBoundary(t) \/ ApproveIssue(t)
              \/ ApproveEvidence(t) \/ InvokeLoad(t) \/ InvokeDescribe(t)
              \/ InvokeResolve(t) \/ InvokePolicy(t) \/ InvokeRecheck(t)
              \/ InvokeConsume(t) \/ InvokeEvidence(t) \/ NativeEvidence(t) \/ Call(t)
              \/ StopLeases(t) \/ ResumeEvidence(t) \/ StorageFault(t)
       PROVE  [AD!ANext]_AD!avars
  BY <1>1, <1>3, <1>15 DEF PreflightDescribe, PreflightPolicy, PreflightOutcome,
     PreflightEvidence, ApproveBoundary, ApproveIssue, ApproveEvidence, InvokeLoad,
     InvokeDescribe, InvokeResolve, InvokePolicy, InvokeRecheck, InvokeConsume,
     InvokeEvidence, NativeEvidence, Call, StopLeases, ResumeEvidence, StorageFault,
     Load, rest
<1> QED
  BY <1>4, <1>6, <1>7, <1>8, <1>9, <1>10, <1>12, <1>14, <1>15 DEF Turn, Step,
     PreflightStep, ApproveStep, InvokeStep, ControlStep

LEMMA RefiningInit == Init => Refining /\ AD!AInit
<1> SUFFICES ASSUME Init PROVE Refining /\ AD!AInit
  OBVIOUS
<1>1. ApprovalHasLease
  BY DEF Init, Idle, ApprovalHasLease
<1>2. AD!AInit
  BY StoreAssumption DEF Init, StoreInit, AD!AInit, PhaseOf
<1> QED
  BY <1>1, <1>2, GateInit DEF Refining

LEMMA GateRefines == Refining /\ [Next]_vars => [AD!ANext]_AD!avars
<1> SUFFICES ASSUME Refining, [Next]_vars PROVE [AD!ANext]_AD!avars
  OBVIOUS
<1> USE PhasesTyped DEF Refining, GateInduction
<1>1. ASSUME NEW c \in Chats, NEW d \in Decisions, Revoke(c, d) PROVE [AD!ANext]_AD!avars
  BY <1>1, InvalidateKills DEF Revoke, rest, AD!ANext
<1>2. CASE Environment
  BY <1>1, <1>2, Unseen DEF Environment, LoseKey, Crash, Clock, ToolDrift, ConfigDrift,
     rest
<1>3. CASE UNCHANGED vars
  BY <1>3, Unseen DEF vars, rest
<1> QED
  BY <1>2, <1>3, TurnRefines DEF Next, Turn

(* Every behaviour of the gate is one of the life cycle it promises: a       *)
(* decision is cleared, claimed and sent at most once and in that order,     *)
(* within the slot and the budget of its chat, and dies with a stop.         *)
THEOREM GateImplementsLifeCycle == Spec => ImplementsApprovedDispatch
<1>1. Refining /\ [Next]_vars => Refining'
  BY GateStep, LeaseCarried DEF Refining, GateInduction
<1> QED
  BY <1>1, RefiningInit, GateRefines, PTL DEF Spec, ImplementsApprovedDispatch, AD!ASpec
=============================================================================
