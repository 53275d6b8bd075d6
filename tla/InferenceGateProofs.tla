-------------------------- MODULE InferenceGateProofs --------------------------
(***************************************************************************)
(* Theorems about the inference gate, for every value of the constants: any *)
(* number of projects, chats, processes, threads, decisions, configurations *)
(* and nodes.  The runs leave the clock still to stay within reach; here it *)
(* moves, in either direction, between any two steps.                       *)
(***************************************************************************)
EXTENDS InferenceGate, DecisionStoreProofs

Clock == Tick /\ UNCHANGED <<leases, threads, config, rest>>
TimedNext == Next \/ Clock
TimedSpec == Init /\ [][TimedNext]_vars

Proposing == {"p_config", "p_discover", "p_create"}
Approving == {"a_config", "a_issue", "a_update"}
Matched == {"claim", "consume", "evidence", "admit", "post"}
Holding == {"config", "discover", "recheck"} \cup Matched
Loaded == Approving \cup Holding
Owning == {"consume", "evidence", "admit", "post", "finish"}
Paid == {"evidence", "admit", "post"}

\* Where a request names a decision.
Naming == Loaded \cup {"a_audit", "kill", "finish"}

(* The request r has what its program counter says it has: once it may claim, *)
(* the node of its client, the route it found and the route that was sealed   *)
(* are one, and its configuration is the sealed one and permits the class.   *)
Shaped(r) ==
  /\ r \in ThreadState
  /\ r.pc \in Naming => r.id \in Decisions
  /\ r.pc \in Proposing \cup Loaded => r.payload \in Payloads
  /\ r.pc \in {"a_update"} \cup Holding => r.payload.lease # NoLease
  /\ r.pc = "recheck" => r.route = NodeOf[r.client]
  /\ r.pc \in Matched =>
       /\ r.route = r.payload.route /\ r.route = NodeOf[r.client]
       /\ SealOf[r.config] = r.payload.seal /\ Permits(r.config, r.payload.class)

(* What was loaded is still a row of this chat.                              *)
Grounded(r) ==
  r.pc \in Loaded => ScopeOf[r.id] = r.chat /\ decisions[r.id].state # "absent"

(* An open decision seen by an approval after its barrier check, or by a     *)
(* claim, cannot be of a stopped profile: the stop would have spent it.      *)
Unstopped(r) ==
  r.pc \in {"a_issue", "a_update", "claim"} /\ Open(r.id) => ~Stopped(r.chat)

(* From the claim to the end of the finally block a request owns its call.   *)
Owns(r) ==
  r.pc \in Owning =>
    /\ r.id \in started /\ ScopeOf[r.id] = r.chat
    /\ sessions[r.chat].active = r.id
    /\ r.pc # "finish" => decisions[r.id].payload = r.payload

(* The use of a lease bound to this payload.                                 *)
Consumed(r) ==
  /\ r.payload.lease \in Leases
  /\ leases[r.payload.lease].uses = 1
  /\ leases[r.payload.lease].binding =
       [chat |-> r.chat, route |-> r.payload.route, seal |-> r.payload.seal,
        class |-> r.payload.class]

Authorised(r) ==
  /\ r.pc \in Paid => Consumed(r)
  /\ r.pc = "admit" => <<"admitting", r.id>> \in audit
  /\ r.pc \in {"consume", "evidence", "admit"} => dispatches[r.id] = 0

Fits(r) == Shaped(r) /\ Grounded(r) /\ Unstopped(r) /\ Owns(r) /\ Authorised(r)

RowsFit ==
  /\ \A d \in Decisions : decisions[d].state # "absent" => decisions[d].payload \in Payloads
  /\ \A l \in Leases : leases[l].state = "absent" => leases[l].uses = 0
  /\ now \in 0..MaxTime

OneOwner ==
  \A t, u \in Threads :
    threads[t].pc \in Owning /\ threads[u].pc \in Owning /\ Id(t) = Id(u) => t = u

InferenceInduction ==
  /\ InferenceTypeOK /\ AdmissionHoldsSlot /\ ClaimedIsSpent
  /\ \A t \in Threads : Fits(threads[t])
  /\ RowsFit /\ OneOwner /\ DispatchedOnce /\ SentOnEvidence
-----------------------------------------------------------------------------
(* One request moves at a time, unless a process dies; the rest of the world *)
(* moves by itself.                                                         *)
Begins(t) ==
  \/ \E c \in Chats, class \in Classes : PreflightBegin(t, c, class)
  \/ \E c \in Chats, d \in Decisions : ApproveBegin(t, c, d) \/ InvokeBegin(t, c, d)

Turn(t) == Begins(t) \/ Step(t) \/ StorageFault(t)

World == (\E p \in Processes : Crash(p)) \/ Others \/ RevokeLeases \/ Drift \/ Clock

LEMMA TimedSteps ==
  [TimedNext]_vars => (\E t \in Threads : Turn(t)) \/ World \/ UNCHANGED vars
<1>1. Next => (\E t \in Threads : Turn(t)) \/ World
  <2>1. ASSUME NEW t \in Threads,
               \/ \E c \in Chats, class \in Classes : PreflightBegin(t, c, class)
               \/ \E c \in Chats, d \in Decisions : ApproveBegin(t, c, d) \/ InvokeBegin(t, c, d)
               \/ Step(t) \/ StorageFault(t)
        PROVE  Turn(t)
    BY <2>1, ZenonT(60) DEF Turn, Begins
  <2> QED
    BY <2>1 DEF Next, World
<1> QED
  BY <1>1 DEF TimedNext, World

LEMMA OthersWait ==
  ASSUME InferenceTypeOK, NEW t \in Threads, Turn(t), NEW u \in Threads, u # t
  PROVE  threads'[u] = threads[u]
BY DEF Turn, Begins, Step, StorageFault, PreflightBegin, PreflightConfig, PreflightDiscover,
   PreflightCreate, ApproveBegin, ApproveConfig, ApproveIssue, ApproveUpdate, ApproveAudit,
   InvokeBegin, InvokeConfig, InvokeDiscover, InvokeRecheck, InvokeKill, InvokeClaim,
   InvokeConsume, InvokeEvidence, InvokeAdmit, InvokePost, InvokeFinish, Config, Serve, Goto,
   Return, Unwind, InferenceTypeOK

(* What a request that makes a call of the store knows about it.             *)
LEMMA Typed ==
  ASSUME InferenceTypeOK, RowsFit, NEW t \in Threads, Fits(threads[t])
  PROVE  /\ Chat(t) \in Chats /\ ProcessOf[t] \in Processes
         /\ threads[t].pc \in Naming => Id(t) \in Decisions /\ Id(t) \in Calls
         /\ threads[t].pc \in Proposing \cup Loaded => Payload(t) \in Payloads
<1>1. threads[t] \in ThreadState
  BY DEF InferenceTypeOK
<1> QED
  BY <1>1, InferenceAssumption
     DEF ThreadState, InferenceAssumption, Chat, Id, Payload, Fits, Shaped, Calls

LEMMA ProposalTyped ==
  ASSUME RowsFit, NEW y \in Payloads
  PROVE  [y EXCEPT !.deadline = now + TTL] \in Payloads
BY InferenceAssumption, StoreAssumption DEF InferenceAssumption, StoreAssumption, Sealed, RowsFit

(* Every step of the gate is one transaction of the store, or none.          *)
LEMMA InferenceIsStoreClient ==
  InferenceTypeOK /\ RowsFit /\ (\A t \in Threads : Fits(threads[t])) /\ [TimedNext]_vars
    => [StoreNext]_storeVars
<1> SUFFICES ASSUME InferenceTypeOK, RowsFit, \A t \in Threads : Fits(threads[t]),
                    [TimedNext]_vars
             PROVE  [StoreNext]_storeVars
  OBVIOUS
<1>1. ASSUME NEW c \in Chats, Read(c) PROVE StoreNext
  BY <1>1 DEF StoreNext
<1>2. ASSUME NEW t \in Threads, Begins(t) PROVE [StoreNext]_storeVars
  BY <1>1, <1>2 DEF Begins, PreflightBegin, ApproveBegin, InvokeBegin, Load
<1>3. ASSUME NEW t \in Threads,
             PreflightConfig(t) \/ ApproveConfig(t) \/ InvokeConfig(t) \/ InvokeRecheck(t)
      PROVE  StoreNext
  BY <1>1, <1>3, Typed DEF PreflightConfig, ApproveConfig, InvokeConfig, InvokeRecheck, Config
<1>4. ASSUME NEW t \in Threads, PreflightCreate(t) PROVE [StoreNext]_storeVars
  <2>1. Payload(t) \in Payloads
    BY <1>4, Typed DEF PreflightCreate, At, Proposing
  <2>2. [Payload(t) EXCEPT !.deadline = now + TTL] \in Payloads
    BY <2>1, ProposalTyped
  <2> QED
    BY <1>4, <2>2, Typed DEF PreflightCreate, StoreNext, DecisionStep
<1>5. ASSUME NEW t \in Threads, ApproveUpdate(t) PROVE [StoreNext]_storeVars
  <2>1. Id(t) \in Decisions /\ Payload(t) \in Payloads
    BY <1>5, Typed DEF ApproveUpdate, At, Naming, Loaded, Approving
  <2> QED
    BY <1>5, <2>1, Typed DEF ApproveUpdate, StoreNext, DecisionStep
<1>6. ASSUME NEW t \in Threads, InvokeClaim(t) PROVE [StoreNext]_storeVars
  <2>1. Id(t) \in Decisions /\ Payload(t) \in Payloads
    BY <1>6, Typed DEF InvokeClaim, At, Naming, Loaded, Holding, Matched
  <2> QED
    BY <1>6, <2>1, Typed DEF InvokeClaim, StoreNext, DecisionStep
<1>7. ASSUME NEW t \in Threads, InvokeAdmit(t) PROVE [StoreNext]_storeVars
  <2>1. Id(t) \in Decisions /\ Payload(t) \in Payloads
    BY <1>7, Typed DEF InvokeAdmit, At, Naming, Loaded, Holding, Matched
  <2>2. Payload(t).deadline \in 0..(MaxTime + TTL)
    BY <2>1, InferenceAssumption DEF InferenceAssumption, Sealed
  <2>3. CASE UNCHANGED storeVars
    BY <2>3
  <2>4. CASE Admit(Chat(t), Id(t), Payload(t).deadline)
    <3>1. DecisionStep(ProcessOf[t], Chat(t), Id(t))
      BY <2>2, <2>4 DEF DecisionStep
    <3> QED
      BY <2>1, <3>1, Typed DEF StoreNext
  <2> QED
    BY <1>7, <2>3, <2>4 DEF InvokeAdmit
<1>8. ASSUME NEW t \in Threads, InvokeKill(t) \/ InvokeFinish(t) PROVE StoreNext
  <2>1. Id(t) \in Decisions
    BY <1>8, Typed DEF InvokeKill, InvokeFinish, At, Naming
  <2> QED
    BY <1>8, <2>1, Typed DEF InvokeKill, InvokeFinish, StoreNext, DecisionStep
<1>9. ASSUME NEW t \in Threads, Turn(t) PROVE [StoreNext]_storeVars
  BY <1>2, <1>3, <1>4, <1>5, <1>6, <1>7, <1>8, <1>9 DEF Turn, Step, StorageFault,
     PreflightDiscover, ApproveIssue, ApproveAudit, InvokeDiscover, InvokeConsume,
     InvokeEvidence, InvokePost
<1>10. CASE World
  <2>1. CASE Others
    BY <2>1, StoreAssumption DEF Others, StoreNext, DecisionStep, StoreAssumption
  <2>2. CASE ~Others
    BY <1>10, <2>2 DEF World, Crash, RevokeLeases, Drift, Clock, StoreNext
  <2> QED
    BY <2>1, <2>2
<1>11. CASE UNCHANGED vars
  BY <1>11 DEF vars, storeVars
<1> QED
  BY <1>9, <1>10, <1>11, TimedSteps
-----------------------------------------------------------------------------
(* What a step leaves alone, whoever takes it: everything but the slot, the  *)
(* admission and the count of the call x it is about.                        *)
LeasesKept ==
  \A l \in Leases : leases[l].uses = 1 =>
    leases'[l].uses = 1 /\ leases'[l].binding = leases[l].binding

Undisturbed(x) ==
  /\ StoreKeeps(x) /\ LeasesKept /\ audit \subseteq audit'
  /\ \A d \in Decisions : d # x => dispatches'[d] = dispatches[d]

\* The call a step of t is about.
Own(t) == IF threads[t].pc \in {"admit", "finish"} THEN Id(t) ELSE NoCall

LEMMA LeaseOperations ==
  ASSUME InferenceTypeOK, RowsFit
  PROVE  /\ \A b : \A l \in Leases, c \in Chats : LS!Issue(l, c, b, LeaseTTL) => LeasesKept
         /\ \A l, b : LS!Consume(l, b) => LeasesKept
         /\ \A c \in Chats : LS!RevokeProfile(c) => LeasesKept
         /\ UNCHANGED leases => LeasesKept
<1>1. \A b : \A l \in Leases, c \in Chats : LS!Issue(l, c, b, LeaseTTL) => LeasesKept
  BY DEF LS!Issue, LeasesKept, RowsFit, InferenceTypeOK, LS!LeaseTypeOK
<1>2. \A l, b : LS!Consume(l, b) => LeasesKept
  BY DEF LS!Consume, LS!Consumable, LeasesKept, InferenceTypeOK, LS!LeaseTypeOK, LS!LeaseRow
<1>3. \A c \in Chats : LS!RevokeProfile(c) => LeasesKept
  BY DEF LS!RevokeProfile, LS!Revoked, LeasesKept, InferenceTypeOK, LS!LeaseTypeOK, LS!LeaseRow
<1> QED
  BY <1>1, <1>2, <1>3 DEF LeasesKept

(* Each step of a request uses at most one operation of the store.           *)
LEMMA DisturbsOwnSlot ==
  ASSUME InferenceTypeOK, RowsFit, AdmissionHoldsSlot, \A t \in Threads : Fits(threads[t]),
         NEW t \in Threads, Turn(t)
  PROVE  StoreKeeps(Own(t))
<1> DEFINE x == Own(t)
<1> HIDE DEF x
<1> SUFFICES StoreKeeps(x)
  BY DEF x
<1>0. StoreTypeOK
  BY DEF InferenceTypeOK
<1>1. /\ Chat(t) \in Chats /\ ProcessOf[t] \in Processes
      /\ threads[t].pc \in Naming => Id(t) \in Decisions /\ Id(t) \in Calls
  BY Typed
<1>2. CASE Begins(t)
  BY <1>0, <1>2, StoreOperations DEF Begins, PreflightBegin, ApproveBegin, InvokeBegin, Load
<1>3. CASE PreflightConfig(t) \/ ApproveConfig(t) \/ InvokeConfig(t) \/ InvokeRecheck(t)
  BY <1>0, <1>1, <1>3, StoreOperations
     DEF PreflightConfig, ApproveConfig, InvokeConfig, InvokeRecheck, Config
<1>4. CASE PreflightCreate(t)
  BY <1>0, <1>1, <1>4, StoreOperations DEF PreflightCreate
<1>5. CASE ApproveUpdate(t)
  BY <1>0, <1>1, <1>5, StoreOperations DEF ApproveUpdate, At, Naming, Loaded, Approving
<1>6. CASE InvokeKill(t)
  BY <1>0, <1>1, <1>6, StoreOperations DEF InvokeKill, At, Naming
<1>7. CASE InvokeClaim(t)
  BY <1>0, <1>1, <1>7, StoreOperations DEF InvokeClaim, At, Naming, Loaded, Holding, Matched
<1>8. CASE InvokeAdmit(t)
  BY <1>0, <1>1, <1>8, StoreOperations DEF InvokeAdmit, At, Naming, Loaded, Holding, Matched
<1>9. CASE InvokeFinish(t)
  <2>1. x = Id(t)
    BY <1>9 DEF InvokeFinish, At, Own, x
  <2> QED
    BY <1>0, <1>1, <1>9, <2>1, StoreOperations DEF InvokeFinish, At, Naming
<1>10. CASE UNCHANGED storeVars
  BY <1>0, <1>10, StoreOperations
<1> QED
  BY <1>2, <1>3, <1>4, <1>5, <1>6, <1>7, <1>8, <1>9, <1>10 DEF Turn, Step, StorageFault,
     PreflightDiscover, ApproveIssue, ApproveAudit, InvokeDiscover, InvokeConsume,
     InvokeEvidence, InvokePost

LEMMA DisturbsOwnCall ==
  ASSUME InferenceTypeOK, RowsFit, AdmissionHoldsSlot, \A t \in Threads : Fits(threads[t]),
         NEW t \in Threads, Turn(t)
  PROVE  Undisturbed(Own(t))
<1>0. Chat(t) \in Chats
  BY Typed
<1>1. LeasesKept
  BY ZenonT(40), <1>0, LeaseOperations DEF Turn, Begins, Step, StorageFault, PreflightBegin,
     PreflightConfig, PreflightDiscover, PreflightCreate, ApproveBegin, ApproveConfig,
     ApproveIssue, ApproveUpdate, ApproveAudit, InvokeBegin, InvokeConfig, InvokeDiscover,
     InvokeRecheck, InvokeKill, InvokeClaim, InvokeConsume, InvokeEvidence, InvokeAdmit,
     InvokePost, InvokeFinish
<1>2. audit \subseteq audit'
  BY DEF Turn, Begins, Step, StorageFault, PreflightBegin, PreflightConfig, PreflightDiscover,
     PreflightCreate, ApproveBegin, ApproveConfig, ApproveIssue, ApproveUpdate, ApproveAudit,
     InvokeBegin, InvokeConfig, InvokeDiscover, InvokeRecheck, InvokeKill, InvokeClaim,
     InvokeConsume, InvokeEvidence, InvokeAdmit, InvokePost, InvokeFinish, Audited, rest
<1>3. \A d \in Decisions : d # Own(t) => dispatches'[d] = dispatches[d]
  <2>1. CASE InvokeAdmit(t)
    BY <2>1 DEF InvokeAdmit, At, Own, InferenceTypeOK
  <2>2. CASE ~InvokeAdmit(t)
    <3> dispatches' = dispatches
      BY <2>2 DEF Turn, Begins, Step, StorageFault, PreflightBegin, PreflightConfig,
         PreflightDiscover, PreflightCreate, ApproveBegin, ApproveConfig, ApproveIssue,
         ApproveUpdate, ApproveAudit, InvokeBegin, InvokeConfig, InvokeDiscover,
         InvokeRecheck, InvokeKill, InvokeClaim, InvokeConsume, InvokeEvidence, InvokePost,
         InvokeFinish, rest
    <3> QED OBVIOUS
  <2> QED
    BY <2>1, <2>2
<1> QED
  BY <1>1, <1>2, <1>3, DisturbsOwnSlot DEF Undisturbed

(* The world disturbs native calls at most.                                  *)
LEMMA WorldDisturbsNatives ==
  ASSUME InferenceTypeOK, RowsFit, AdmissionHoldsSlot, World
  PROVE  \E x \in Natives \cup {NoCall} : Undisturbed(x)
<1>0. StoreTypeOK
  BY DEF InferenceTypeOK
<1>1. \E x \in Natives \cup {NoCall} : StoreKeeps(x)
  <2>1. CASE Others
    <3>1. ASSUME NEW c \in Chats, NEW n \in Natives, Finish(c, n) PROVE StoreKeeps(n)
      BY <1>0, <3>1, StoreOperations DEF Calls
    <3>2. ASSUME \/ \E c \in Chats : RevokeScope(c) \/ ResumeScope(c)
                 \/ \E c \in Chats, d \in Decisions : Invalidate(c, d)
                 \/ \E c \in Chats, n \in Natives : BeginNative(c, n)
          PROVE  StoreKeeps(NoCall)
      BY <1>0, <3>2, StoreOperations
    <3> QED
      BY <2>1, <3>1, <3>2 DEF Others
  <2>2. ASSUME NEW p \in Processes, Crash(p) PROVE StoreKeeps(NoCall)
    BY <1>0, <2>2, StoreOperations DEF Crash
  <2>3. CASE Clock
    <3>1. PICK p \in Processes : TRUE
      BY StoreAssumption DEF StoreAssumption
    <3>2. StoreKeeps(NoCall)
      BY <1>0, <2>3, <3>1, StoreOperations DEF Clock
    <3> QED
      BY <3>2
  <2>4. CASE RevokeLeases \/ Drift
    <3>1. StoreKeeps(NoCall)
      BY <1>0, <2>4, StoreOperations DEF RevokeLeases, Drift
    <3> QED
      BY <3>1
  <2> QED
    BY <2>1, <2>2, <2>3, <2>4 DEF World
<1>2. audit' = audit /\ dispatches' = dispatches /\ LeasesKept
  BY LeaseOperations DEF World, Crash, Others, RevokeLeases, Drift, Clock, rest
<1> QED
  BY <1>1, <1>2 DEF Undisturbed

(* What a request relies on survives every step that is not about its call.  *)
LEMMA FitsIsStable ==
  ASSUME InferenceTypeOK, ClaimedIsSpent, NEW r, Fits(r), NEW x, Undisturbed(x),
         r.pc \in Owning => r.id # x
  PROVE  Fits(r)'
<1> USE DEF Undisturbed, StoreKeeps, RowsKept, SlotsKept
<1>0. /\ r.id \in Decisions => ProfileOfCall(r.id) = ProfileOf[ScopeOf[r.id]]
      /\ r.pc \in Naming => r.id \in Decisions
      /\ r.pc \in Loaded => /\ r.pc \in Naming
                            /\ ScopeOf[r.id] = r.chat /\ decisions[r.id].state # "absent"
  BY DEF Fits, Shaped, Grounded, ProfileOfCall, Naming
<1>1. Shaped(r)'
  BY DEF Fits, Shaped
<1>2. Grounded(r)'
  BY <1>0 DEF Fits, Grounded
<1>3. Unstopped(r)'
  BY <1>0 DEF Fits, Unstopped, Open, Stopped, Naming, Loaded, Holding, Matched, Approving
<1>4. Owns(r)'
  <2>1. CASE r.pc \in Owning
    <3>1. r.id \in Decisions /\ r.chat \in Chats /\ r.id # NoCall
      BY <2>1, <1>0, StoreAssumption DEF Fits, Shaped, ThreadState, Naming, Owning,
         StoreAssumption, Loaded, Holding, Matched, Calls
    <3>2. r.id \in started' /\ sessions'[r.chat].active = r.id
      BY <2>1, <3>1 DEF Fits, Owns
    <3>3. r.pc # "finish" => decisions'[r.id].payload = r.payload
      BY <2>1, <3>1 DEF Fits, Owns, ClaimedIsSpent, Open
    <3> QED
      BY <2>1, <3>1, <3>2, <3>3 DEF Fits, Owns
  <2> QED
    BY <2>1 DEF Owns
<1>5. Authorised(r)'
  <2>1. r.pc \in {"consume", "evidence", "admit"} => r.pc \in Owning /\ r.id \in Decisions
    BY <1>0 DEF Owning, Naming, Loaded, Holding, Matched
  <2>2. r.pc \in Paid => Consumed(r)'
    BY DEF Fits, Authorised, Consumed, LeasesKept
  <2>3. r.pc = "admit" => <<"admitting", r.id>> \in audit'
    BY DEF Fits, Authorised
  <2>4. r.pc \in {"consume", "evidence", "admit"} => dispatches'[r.id] = 0
    BY <2>1 DEF Fits, Authorised
  <2> QED
    BY <2>2, <2>3, <2>4 DEF Authorised
<1> QED
  BY <1>1, <1>2, <1>3, <1>4, <1>5 DEF Fits
-----------------------------------------------------------------------------
(* The types of the gate.                                                    *)
LEMMA IdleTyped == Idle \in ThreadState /\ Idle.pc = "idle"
BY InferenceAssumption DEF Idle, ThreadState, PCs, InferenceAssumption

LEMMA ThreadsTyped ==
  ASSUME InferenceTypeOK, RowsFit, \A u \in Threads : Fits(threads[u]), NEW t \in Threads, Turn(t)
  PROVE  threads' \in [Threads -> ThreadState]
<1>1. /\ Chat(t) \in Chats
      /\ threads[t].pc \in Naming => Id(t) \in Decisions
      /\ threads[t].pc \in Proposing \cup Loaded => Payload(t) \in Payloads
  BY Typed
<1>2. ASSUME NEW r \in ThreadState, threads' = [threads EXCEPT ![t] = r]
      PROVE  threads' \in [Threads -> ThreadState]
  BY <1>2 DEF InferenceTypeOK
<1>3. ASSUME Return(t) PROVE threads' \in [Threads -> ThreadState]
  BY <1>2, <1>3, IdleTyped DEF Return
<1>4. ASSUME NEW pc \in PCs, Goto(t, pc) PROVE threads' \in [Threads -> ThreadState]
  BY <1>4 DEF Goto, InferenceTypeOK, ThreadState
<1>5. ASSUME NEW pc \in PCs, Unwind(t, pc), Id(t) \in Decisions
      PROVE  threads' \in [Threads -> ThreadState]
  <2>1. [Idle EXCEPT !.pc = pc, !.chat = Chat(t), !.id = Id(t)] \in ThreadState
    BY <1>1, <1>5, IdleTyped DEF ThreadState
  <2> QED
    BY <1>2, <1>5, <2>1 DEF Unwind, Chat, Id
<1>6. ASSUME NEW c \in Chats, NEW d \in Decisions \cup {NoCall}, NEW pc \in PCs,
             NEW k \in Configs, NEW y \in Payloads, Serve(t, c, d, pc, k, y)
      PROVE  threads' \in [Threads -> ThreadState]
  <2>1. [Idle EXCEPT !.pc = pc, !.chat = c, !.id = d, !.client = k, !.payload = y]
          \in ThreadState
    BY IdleTyped DEF ThreadState
  <2> QED
    BY <1>2, <1>6, <2>1 DEF Serve
<1>7. ASSUME NEW class, NEW pc \in PCs, Config(t, class, pc)
      PROVE  threads' \in [Threads -> ThreadState]
  <2>1. CASE threads' = [threads EXCEPT ![t].pc = pc, ![t].config = config]
    BY <2>1, ZenonT(60) DEF InferenceTypeOK, ThreadState
  <2> QED
    BY <1>3, <1>7, <2>1 DEF Config
<1>8. {"p_config", "p_discover", "p_create", "a_config", "a_issue", "a_update", "a_audit",
       "config", "discover", "recheck", "kill", "claim", "consume", "evidence", "admit",
       "post", "finish"} \subseteq PCs
  BY DEF PCs, ReadPC, WritePC, AuditPC
<1>9. \A d \in Decisions : decisions[d].state = "open" => decisions[d].payload \in Payloads
  BY DEF RowsFit
<1>10. config \in Configs /\ StartConfig \in Configs /\ \A k \in Configs : NodeOf[k] \in Nodes
  BY InferenceAssumption DEF InferenceTypeOK, InferenceAssumption
<1>11. CASE Begins(t)
  <2>1. ASSUME NEW c \in Chats, NEW class \in Classes, PreflightBegin(t, c, class)
        PROVE  threads' \in [Threads -> ThreadState]
    <3>1. [route |-> Idle.route, seal |-> SealOf[StartConfig], class |-> class,
           lease |-> NoLease, deadline |-> 0] \in Payloads
      BY <1>10, InferenceAssumption, StoreAssumption
         DEF Idle, Sealed, Seals, InferenceAssumption, StoreAssumption
    <3> QED
      BY <1>6, <1>8, <1>10, <2>1, <3>1 DEF PreflightBegin
  <2>2. ASSUME NEW c \in Chats, NEW d \in Decisions, ApproveBegin(t, c, d) \/ InvokeBegin(t, c, d)
        PROVE  threads' \in [Threads -> ThreadState]
    BY <1>6, <1>8, <1>9, <1>10, <2>2 DEF ApproveBegin, InvokeBegin, Load, Loadable
  <2> QED
    BY <1>11, <2>1, <2>2 DEF Begins
<1>12. CASE PreflightConfig(t) \/ InvokeConfig(t) \/ InvokeRecheck(t)
  <2>1. CASE InvokeRecheck(t)
    <3>1. PICK pc \in {"claim", "kill"} : Config(t, Payload(t).class, pc)
      BY <2>1 DEF InvokeRecheck
    <3> QED
      BY <1>7, <1>8, <3>1
  <2> QED
    BY <1>7, <1>8, <1>12, <2>1 DEF PreflightConfig, InvokeConfig
<1>13. CASE PreflightDiscover(t)
  <2>1. CASE Return(t)
    BY <1>3, <2>1
  <2>2. CASE ~Return(t)
    <3> DEFINE n == NodeOf[threads[t].client]
               y == [Payload(t) EXCEPT !.route = n, !.seal = SealOf[threads[t].config]]
    <3>1. threads[t] \in ThreadState /\ n \in Nodes /\ SealOf[threads[t].config] \in Seals
      BY <1>10 DEF InferenceTypeOK, ThreadState, Seals
    <3>2. Payload(t) \in Payloads
      BY <1>1, <1>13 DEF PreflightDiscover, At, Proposing
    <3>3. y \in Payloads
      BY <3>1, <3>2, InferenceAssumption DEF InferenceAssumption, Sealed
    <3>4. threads' = [threads EXCEPT ![t] =
            [threads[t] EXCEPT !.pc = "p_create", !.route = n, !.payload = y]]
      <4>1. ASSUME NEW s \in ThreadState, s.payload \in Sealed, NEW q
            PROVE  [s EXCEPT !.pc = "p_create", !.route = n, !.payload.route = n,
                             !.payload.seal = q]
                   = [s EXCEPT !.pc = "p_create", !.route = n,
                               !.payload = [s.payload EXCEPT !.route = n, !.seal = q]]
        BY <4>1 DEF ThreadState, Sealed
      <4>2. threads' = [threads EXCEPT ![t] =
              [threads[t] EXCEPT !.pc = "p_create", !.route = n, !.payload.route = n,
                                 !.payload.seal = SealOf[threads[t].config]]]
        BY <1>13, <2>2, <3>1 DEF PreflightDiscover, InferenceTypeOK
      <4> QED
        BY <3>1, <3>2, <4>1, <4>2, InferenceAssumption DEF Payload, InferenceAssumption
    <3> HIDE DEF n, y
    <3>5. ASSUME NEW s \in ThreadState
          PROVE  [s EXCEPT !.pc = "p_create", !.route = n, !.payload = y] \in ThreadState
      BY <1>8, <3>1, <3>3 DEF ThreadState
    <3> QED
      BY <1>2, <3>1, <3>4, <3>5
  <2> QED
    BY <2>1, <2>2
<1>14. CASE ApproveConfig(t)
  <2>1. CASE Return(t)
    BY <1>3, <2>1
  <2>2. CASE ~Return(t)
    <3>1. Payload(t).route \in Nodes
      BY <1>1, <1>14, InferenceAssumption
         DEF ApproveConfig, At, Loaded, Approving, InferenceAssumption, Sealed
    <3>2. threads' = [threads EXCEPT ![t] =
            [threads[t] EXCEPT !.pc = "a_issue", !.config = config, !.route = Payload(t).route]]
      BY <1>14, <2>2 DEF ApproveConfig, InferenceTypeOK, ThreadState, Payload
    <3>3. ASSUME NEW s \in ThreadState, NEW n \in Nodes
          PROVE  [s EXCEPT !.pc = "a_issue", !.config = config, !.route = n] \in ThreadState
      BY <1>8, <1>10 DEF ThreadState
    <3> QED
      BY <1>2, <3>1, <3>2, <3>3 DEF InferenceTypeOK
  <2> QED
    BY <2>1, <2>2
<1>15. CASE ApproveIssue(t)
  <2>1. CASE Return(t)
    BY <1>3, <2>1
  <2>2. ASSUME NEW l \in Leases,
               threads' = [threads EXCEPT ![t].pc = "a_update", ![t].payload.lease = l]
        PROVE  threads' \in [Threads -> ThreadState]
    <3> DEFINE y == [Payload(t) EXCEPT !.lease = l]
    <3>1. Payload(t) \in Payloads
      BY <1>1, <1>15 DEF ApproveIssue, At, Loaded, Approving
    <3>2. y \in Payloads
      BY <3>1, InferenceAssumption DEF InferenceAssumption, Sealed
    <3>3. threads' = [threads EXCEPT ![t] = [threads[t] EXCEPT !.pc = "a_update", !.payload = y]]
      BY <2>2, <3>1 DEF InferenceTypeOK, ThreadState, Payload
    <3> HIDE DEF y
    <3>4. ASSUME NEW s \in ThreadState
          PROVE  [s EXCEPT !.pc = "a_update", !.payload = y] \in ThreadState
      BY <1>8, <3>2 DEF ThreadState
    <3> QED
      BY <1>2, <3>3, <3>4 DEF InferenceTypeOK
  <2> QED
    BY <1>15, <2>1, <2>2 DEF ApproveIssue
<1>16. CASE InvokeDiscover(t)
  <2>1. CASE Unwind(t, "kill")
    BY <1>1, <1>5, <1>8, <1>16, <2>1
       DEF InvokeDiscover, At, Naming, Loaded, Holding
  <2>2. CASE ~Unwind(t, "kill")
    <3>1. threads' = [threads EXCEPT ![t] =
            [threads[t] EXCEPT !.pc = "recheck", !.route = NodeOf[threads[t].client]]]
      BY <1>16, <2>2 DEF InvokeDiscover, InferenceTypeOK
    <3>2. ASSUME NEW s \in ThreadState, NEW n \in Nodes
          PROVE  [s EXCEPT !.pc = "recheck", !.route = n] \in ThreadState
      BY <1>8 DEF ThreadState
    <3>3. NodeOf[threads[t].client] \in Nodes
      BY <1>10 DEF InferenceTypeOK, ThreadState
    <3> QED
      BY <1>2, <3>1, <3>2, <3>3 DEF InferenceTypeOK
  <2> QED
    BY <2>1, <2>2
<1>17. CASE PreflightCreate(t) \/ ApproveAudit(t) \/ InvokeKill(t) \/ InvokeFinish(t)
  BY <1>3, <1>17 DEF PreflightCreate, ApproveAudit, InvokeKill, InvokeFinish
<1>18. CASE ApproveUpdate(t) \/ InvokeClaim(t) \/ InvokeConsume(t) \/ InvokeEvidence(t)
            \/ InvokeAdmit(t) \/ InvokePost(t)
  <2>1. Id(t) \in Decisions
    BY <1>1, <1>18 DEF ApproveUpdate, InvokeClaim, InvokeConsume, InvokeEvidence, InvokeAdmit,
       InvokePost, At, Naming, Loaded, Approving, Holding, Matched
  <2> QED
    BY <1>3, <1>4, <1>5, <1>8, <1>18, <2>1 DEF ApproveUpdate, InvokeClaim, InvokeConsume,
       InvokeEvidence, InvokeAdmit, InvokePost
<1>19. CASE StorageFault(t)
  <2>1. CASE threads[t].pc \in {"consume", "evidence", "admit"}
    <3>1. OnFault(threads[t].pc) = "finish" /\ Id(t) \in Decisions
      BY <1>1, <2>1 DEF OnFault, Naming, Loaded, Holding, Matched
    <3> QED
      BY <1>5, <1>8, <1>19, <3>1 DEF StorageFault
  <2>2. CASE threads[t].pc \notin {"consume", "evidence", "admit"}
    <3>1. OnFault(threads[t].pc) = "idle"
      BY <2>2 DEF OnFault
    <3> QED
      BY <1>3, <1>19, <3>1 DEF StorageFault
  <2> QED
    BY <2>1, <2>2
<1> QED
  BY <1>11, <1>12, <1>13, <1>14, <1>15, <1>16, <1>17, <1>18, <1>19 DEF Turn, Step

LEMMA LeasesTyped ==
  ASSUME InferenceTypeOK, RowsFit, \A u \in Threads : Fits(threads[u]), NEW t \in Threads, Turn(t)
  PROVE  LS!LeaseTypeOK'
<1>1. CASE ApproveIssue(t) /\ leases' # leases
  <2>1. PICK l \in Leases : LS!Issue(l, Chat(t), Binding(t), LeaseTTL)
    BY <1>1 DEF ApproveIssue
  <2>2. Payload(t) \in Payloads /\ Chat(t) \in Chats
    BY <1>1, Typed DEF ApproveIssue, At, Loaded, Approving
  <2>3. /\ threads[t].route \in Nodes /\ SealOf[threads[t].config] \in Seals
        /\ Payload(t).class \in Classes /\ now + LeaseTTL \in Nat
    BY <2>2, InferenceAssumption
       DEF InferenceTypeOK, ThreadState, Seals, StoreTypeOK, InferenceAssumption, Sealed
  <2>4. Binding(t) \in Bindings
    BY <2>2, <2>3 DEF Binding, Bindings
  <2> QED
    BY <2>1, <2>2, <2>3, <2>4 DEF LS!Issue, LS!LeaseTypeOK, LS!LeaseRow, InferenceTypeOK
<1>2. ASSUME NEW l, NEW b, LS!Consume(l, b) PROVE LS!LeaseTypeOK'
  BY <1>2 DEF LS!Consume, LS!Consumable, LS!LeaseTypeOK, LS!LeaseRow, InferenceTypeOK
<1>3. CASE leases' = leases
  BY <1>3 DEF LS!LeaseTypeOK, InferenceTypeOK
<1> QED
  BY <1>1, <1>2, <1>3 DEF Turn, Begins, Step, StorageFault, PreflightBegin,
     PreflightConfig, PreflightDiscover, PreflightCreate, ApproveBegin, ApproveConfig,
     ApproveUpdate, ApproveAudit, InvokeBegin, InvokeConfig, InvokeDiscover,
     InvokeRecheck, InvokeKill, InvokeClaim, InvokeConsume, InvokeEvidence, InvokeAdmit,
     InvokePost, InvokeFinish

LEMMA HistoryTyped ==
  ASSUME InferenceTypeOK, RowsFit, \A u \in Threads : Fits(threads[u]), NEW t \in Threads, Turn(t)
  PROVE  /\ audit' \subseteq {"approved", "admitting"} \X Decisions
         /\ faults' \in Nat /\ dispatches' \in [Decisions -> Nat]
         /\ config' \in Configs
<1>1. CASE InvokeEvidence(t)
  <2>1. Id(t) \in Decisions
    BY <1>1, Typed DEF InvokeEvidence, At, Naming, Loaded, Holding, Matched
  <2> QED
    BY <1>1, <2>1 DEF InvokeEvidence, Audited, InferenceTypeOK
<1>2. CASE ApproveAudit(t)
  <2>1. Id(t) \in Decisions
    BY <1>2, Typed DEF ApproveAudit, At, Naming
  <2> QED
    BY <1>2, <2>1 DEF ApproveAudit, Audited, InferenceTypeOK
<1>3. CASE InvokeAdmit(t)
  BY <1>3 DEF InvokeAdmit, InferenceTypeOK
<1>4. CASE StorageFault(t)
  BY <1>4 DEF StorageFault, InferenceTypeOK
<1>5. CASE UNCHANGED <<config, rest>>
  BY <1>5 DEF rest, InferenceTypeOK
<1> QED
  BY <1>1, <1>2, <1>3, <1>4, <1>5 DEF Turn, Begins, Step, PreflightBegin, PreflightConfig,
     PreflightDiscover, PreflightCreate, ApproveBegin, ApproveConfig, ApproveIssue,
     ApproveUpdate, InvokeBegin, InvokeConfig, InvokeDiscover, InvokeRecheck, InvokeKill,
     InvokeClaim, InvokeConsume, InvokePost, InvokeFinish

LEMMA InferenceTypeStep ==
  InferenceTypeOK /\ RowsFit /\ (\A t \in Threads : Fits(threads[t])) /\ [TimedNext]_vars
    => InferenceTypeOK'
<1> SUFFICES ASSUME InferenceTypeOK, RowsFit, \A t \in Threads : Fits(threads[t]),
                    [TimedNext]_vars
             PROVE  InferenceTypeOK'
  OBVIOUS
<1>1. StoreTypeOK'
  BY InferenceIsStoreClient, TypeStep DEF InferenceTypeOK
<1>2. ASSUME NEW t \in Threads, Turn(t) PROVE InferenceTypeOK'
  BY <1>1, <1>2, ThreadsTyped, LeasesTyped, HistoryTyped DEF InferenceTypeOK
<1>3. CASE World
  <2>1. threads' \in [Threads -> ThreadState]
    BY <1>3, IdleTyped DEF World, Crash, Others, RevokeLeases, Drift, Clock, InferenceTypeOK
  <2>2. LS!LeaseTypeOK'
    <3>1. ASSUME NEW c \in Chats, LS!RevokeProfile(c) PROVE LS!LeaseTypeOK'
      BY <3>1 DEF LS!RevokeProfile, LS!Revoked, LS!LeaseTypeOK, LS!LeaseRow, InferenceTypeOK
    <3>2. CASE leases' = leases
      BY <3>2 DEF LS!LeaseTypeOK, InferenceTypeOK
    <3> QED
      BY <1>3, <3>1, <3>2 DEF World, Crash, Others, RevokeLeases, Drift, Clock
  <2>3. audit' = audit /\ dispatches' = dispatches /\ faults' \in Nat
    BY <1>3 DEF World, Crash, Others, RevokeLeases, Drift, Clock, rest, InferenceTypeOK
  <2>4. config' \in Configs
    BY <1>3 DEF World, Crash, Others, RevokeLeases, Drift, Clock, InferenceTypeOK
  <2> QED
    BY <1>1, <2>1, <2>2, <2>3, <2>4 DEF InferenceTypeOK
<1>4. CASE UNCHANGED vars
  BY <1>1, <1>4 DEF vars, rest, InferenceTypeOK, LS!LeaseTypeOK
<1> QED
  BY <1>2, <1>3, <1>4, TimedSteps
-----------------------------------------------------------------------------
(* A step leaves its own request fit.  Leaving is always fine.               *)

\* The assumptions of the lemmas below.
Ready(t) ==
  /\ t \in Threads /\ InferenceTypeOK /\ InferenceTypeOK' /\ AdmissionHoldsSlot
  /\ ClaimedIsSpent /\ RowsFit /\ RowsFit' /\ DispatchedOnce
  /\ \A u \in Threads : Fits(threads[u])

\* Program counters at which a request relies on nothing but what it names.
Free == {"idle", "p_config", "p_discover", "p_create", "a_audit", "kill"}

LEMMA FreeFits ==
  ASSUME NEW r \in ThreadState, r.pc \in Free, r.pc \in Naming => r.id \in Decisions,
         r.pc \in Proposing => r.payload \in Payloads
  PROVE  Fits(r)
BY DEF Fits, Shaped, Grounded, Unstopped, Owns, Authorised, Free, Naming, Loaded, Holding,
   Matched, Paid, Proposing, Approving, Owning

LEMMA LeavingFits ==
  ASSUME NEW t, Ready(t), Return(t)
  PROVE  Fits(threads[t])'
<1>1. threads'[t] = Idle
  BY DEF Ready, Return, InferenceTypeOK
<1>2. Fits(Idle)
  BY IdleTyped, FreeFits DEF Free, Naming, Loaded, Holding, Matched, Approving, Proposing
<1>3. Fits(Idle)'
  BY IdleTyped DEF Fits, Shaped, Grounded, Unstopped, Owns, Authorised, Naming, Loaded,
     Holding, Matched, Paid, Proposing, Approving, Owning
<1> QED
  BY <1>1, <1>3

(* A request that keeps its scope and identifier and drops the rest.         *)
LEMMA UnwindingFits ==
  ASSUME NEW t, Ready(t), threads[t].pc \in Naming,
         NEW pc \in {"a_audit", "kill", "finish"}, Unwind(t, pc),
         pc = "finish" => /\ Id(t) \in started' /\ ScopeOf[Id(t)] = Chat(t)
                          /\ sessions'[Chat(t)].active = Id(t)
  PROVE  Fits(threads[t])'
<1>1. /\ threads'[t].pc = pc /\ threads'[t].id = Id(t) /\ threads'[t].chat = Chat(t)
      /\ threads'[t] \in ThreadState
  BY DEF Ready, Unwind, InferenceTypeOK, Idle, Id, Chat
<1>2. Id(t) \in Decisions
  BY Typed DEF Ready
<1> QED
  BY <1>1, <1>2 DEF Fits, Shaped, Grounded, Unstopped, Owns, Authorised, Naming, Loaded,
     Holding, Matched, Paid, Proposing, Approving, Owning

(* The request keeps what it had, under its new program counter.             *)
LEMMA Carried ==
  ASSUME NEW t, Ready(t), Turn(t), threads[t].pc \notin {"admit", "finish"}
  PROVE  \E r : r = threads[t] /\ r \in ThreadState /\ Fits(r) /\ Fits(r)'
<1>1. PICK r : r = threads[t]
  OBVIOUS
<1>2. Fits(r) /\ Undisturbed(NoCall) /\ r \in ThreadState
  BY <1>1, DisturbsOwnCall DEF Ready, Own, InferenceTypeOK
<1>3. r.pc \in Owning => r.id # NoCall
  BY <1>1, <1>2, StoreAssumption
     DEF Fits, Shaped, Naming, Owning, StoreAssumption, Loaded, Holding, Matched, Calls
<1>4. Fits(r)'
  BY <1>2, <1>3, FitsIsStable DEF Ready
<1> QED
  BY <1>1, <1>2, <1>4

LEMMA BeginningFits ==
  ASSUME NEW t, Ready(t), Begins(t)
  PROVE  Fits(threads[t])'
<1> USE DEF Ready
<1>0. threads'[t] \in ThreadState
  BY DEF InferenceTypeOK
<1>1. ASSUME NEW c, NEW d, NEW pc, NEW k, NEW y, Serve(t, c, d, pc, k, y)
      PROVE  /\ threads'[t].pc = pc /\ threads'[t].chat = c /\ threads'[t].id = d
             /\ threads'[t].payload = y
  BY <1>1 DEF Serve, Idle, InferenceTypeOK
<1>2. ASSUME NEW c \in Chats, NEW class \in Classes, PreflightBegin(t, c, class)
      PROVE  Fits(threads[t])'
  <2>1. threads'[t].pc = "p_config"
    BY <1>1, <1>2 DEF PreflightBegin
  <2>2. threads'[t].payload \in Payloads
    <3>1. [route |-> Idle.route, seal |-> SealOf[StartConfig], class |-> class,
           lease |-> NoLease, deadline |-> 0] \in Payloads
      BY InferenceAssumption, StoreAssumption
         DEF Idle, Sealed, Seals, InferenceAssumption, StoreAssumption
    <3> QED
      BY <1>1, <1>2, <3>1 DEF PreflightBegin
  <2> QED
    BY <1>0, <2>1, <2>2 DEF Fits, Shaped, Grounded, Unstopped, Owns, Authorised, Naming,
       Loaded, Holding, Matched, Paid, Proposing, Approving, Owning
<1>3. ASSUME NEW c \in Chats, NEW d \in Decisions, ApproveBegin(t, c, d) \/ InvokeBegin(t, c, d)
      PROVE  Fits(threads[t])'
  <2>1. /\ threads'[t].id = d /\ threads'[t].chat = c
        /\ threads'[t].payload = decisions[d].payload
        /\ \/ threads'[t].pc = "a_config"
           \/ threads'[t].pc = "config" /\ decisions[d].payload.lease # NoLease
    BY <1>1, <1>3 DEF ApproveBegin, InvokeBegin
  <2>2. ScopeOf[d] = c /\ decisions[d].state = "open" /\ decisions' = decisions
    BY <1>3 DEF ApproveBegin, InvokeBegin, Load, Loadable, Read
  <2>3. decisions[d].payload \in Payloads
    BY <2>2 DEF RowsFit
  <2> QED
    BY <1>0, <2>1, <2>2, <2>3 DEF Fits, Shaped, Grounded, Unstopped, Owns, Authorised,
       Naming, Loaded, Holding, Matched, Paid, Proposing, Approving, Owning
<1> QED
  BY <1>2, <1>3 DEF Begins

LEMMA PreflightFits ==
  ASSUME NEW t, Ready(t), Turn(t),
         PreflightConfig(t) \/ PreflightDiscover(t) \/ PreflightCreate(t)
  PROVE  Fits(threads[t])'
<1>1. PICK r : r = threads[t] /\ r \in ThreadState /\ Fits(r)
  BY Carried DEF PreflightConfig, PreflightDiscover, PreflightCreate, At
<1>2. r.payload \in Payloads /\ threads'[t] \in ThreadState
  BY <1>1 DEF Ready, PreflightConfig, PreflightDiscover, PreflightCreate, At, Fits, Shaped,
     Proposing, InferenceTypeOK
<1>3. CASE Return(t)
  BY <1>3, LeavingFits
<1>4. CASE PreflightConfig(t) /\ ~Return(t)
  <2>1. threads'[t].pc = "p_discover" /\ threads'[t].payload = r.payload
    BY <1>1, <1>4, SMTT(30) DEF PreflightConfig, Config, Ready, InferenceTypeOK, ThreadState
  <2> QED
    BY <1>2, <2>1 DEF Fits, Shaped, Grounded, Unstopped, Owns, Authorised, Naming,
       Loaded, Holding, Matched, Paid, Proposing, Approving, Owning
<1>5. CASE PreflightDiscover(t) /\ ~Return(t)
  <2>1. threads'[t] = [r EXCEPT !.pc = "p_create", !.route = NodeOf[r.client],
                                !.payload.route = NodeOf[r.client],
                                !.payload.seal = SealOf[r.config]]
    <3>1. t \in Threads /\ threads \in [Threads -> ThreadState]
      BY SMTT(30) DEF Ready, InferenceTypeOK
    <3> DEFINE n == NodeOf[threads[t].client]
               q == SealOf[threads[t].config]
    <3>2. threads' = [threads EXCEPT ![t].pc = "p_create", ![t].route = n,
                                     ![t].payload.route = n, ![t].payload.seal = q]
      BY <1>5 DEF PreflightDiscover
    <3> HIDE DEF n, q
    <3>3. threads'[t] = [threads[t] EXCEPT !.pc = "p_create", !.route = n,
                                           !.payload.route = n, !.payload.seal = q]
      BY <3>1, <3>2
    <3> QED
      BY <1>1, <3>3 DEF n, q
  <2>2. threads'[t].pc = "p_create"
        /\ threads'[t].payload = [r.payload EXCEPT !.route = NodeOf[r.client],
                                                   !.seal = SealOf[r.config]]
    BY <1>1, <1>2, <2>1, InferenceAssumption DEF ThreadState, InferenceAssumption, Sealed
  <2>3. NodeOf[r.client] \in Nodes /\ SealOf[r.config] \in Seals
    BY <1>1, InferenceAssumption DEF InferenceAssumption, ThreadState, Seals
  <2>4. threads'[t].payload \in Payloads
    BY <1>2, <2>2, <2>3, InferenceAssumption DEF InferenceAssumption, Sealed
  <2> QED
    BY <1>2, <2>2, <2>4 DEF Fits, Shaped, Grounded, Unstopped, Owns, Authorised, Naming,
       Loaded, Holding, Matched, Paid, Proposing, Approving, Owning
<1>6. CASE PreflightCreate(t) /\ ~Return(t)
  BY <1>6 DEF PreflightCreate
<1> QED
  BY <1>3, <1>4, <1>5, <1>6

LEMMA ApproveFits ==
  ASSUME NEW t, Ready(t), Turn(t),
         ApproveConfig(t) \/ ApproveIssue(t) \/ ApproveUpdate(t) \/ ApproveAudit(t)
  PROVE  Fits(threads[t])'
<1> USE DEF Ready
<1>0. threads'[t] \in ThreadState
  BY DEF InferenceTypeOK
<1>1. PICK r : r = threads[t] /\ r \in ThreadState /\ Fits(r) /\ Fits(r)'
  BY Carried DEF ApproveConfig, ApproveIssue, ApproveUpdate, ApproveAudit, At
<1>2. CASE Return(t)
  BY <1>2, LeavingFits
<1>3. ASSUME NEW pc \in {"a_issue", "a_update"}, r.pc \in Approving, threads'[t].pc = pc,
             threads'[t].id = r.id, threads'[t].chat = r.chat,
             threads'[t].payload \in Payloads,
             pc = "a_update" => threads'[t].payload.lease # NoLease,
             Open(r.id)' => ~Stopped(r.chat)'
      PROVE  Fits(threads[t])'
  <2>1. r.id \in Decisions /\ ScopeOf[r.id] = r.chat /\ decisions'[r.id].state # "absent"
    BY <1>1, <1>3 DEF Fits, Shaped, Grounded, Naming, Loaded
  <2> QED
    BY <1>0, <1>3, <2>1 DEF Fits, Shaped, Grounded, Unstopped, Owns, Authorised, Naming,
       Loaded, Holding, Matched, Paid, Proposing, Approving, Owning, Open, Stopped
<1>4. CASE ApproveConfig(t) /\ ~Return(t)
  <2>1. /\ threads'[t] = [r EXCEPT !.pc = "a_issue", !.config = config, !.route = r.payload.route]
        /\ ~Stopped(r.chat) /\ control' = control /\ r.pc = "a_config"
    BY <1>1, <1>4 DEF ApproveConfig, InferenceTypeOK, Chat, Payload, Read, At
  <2>2. /\ threads'[t].pc = "a_issue" /\ threads'[t].id = r.id /\ threads'[t].chat = r.chat
        /\ threads'[t].payload = r.payload
    BY <1>1, <2>1 DEF ThreadState
  <2>3. r.payload \in Payloads
    BY <1>1, <2>1 DEF Fits, Shaped, Loaded, Approving
  <2> QED
    BY <1>3, <2>1, <2>2, <2>3 DEF Approving, Stopped
<1>5. CASE ApproveIssue(t) /\ ~Return(t)
  <2>1. r.pc = "a_issue" /\ r.payload \in Payloads
    BY <1>1, <1>5 DEF ApproveIssue, At, Fits, Shaped, Loaded, Approving
  <2>2. PICK l \in Leases : threads'[t] = [r EXCEPT !.pc = "a_update", !.payload.lease = l]
    BY <1>1, <1>5 DEF ApproveIssue, InferenceTypeOK
  <2>3. /\ threads'[t].pc = "a_update" /\ threads'[t].id = r.id /\ threads'[t].chat = r.chat
        /\ threads'[t].payload = [r.payload EXCEPT !.lease = l]
    BY <1>1, <2>2 DEF ThreadState
  <2>4. threads'[t].payload \in Payloads /\ threads'[t].payload.lease # NoLease
    BY <2>1, <2>3, InferenceAssumption DEF InferenceAssumption, Sealed
  <2>5. Open(r.id)' => ~Stopped(r.chat)'
    BY <1>1, <2>1 DEF Fits, Unstopped
  <2> QED
    BY <1>3, <2>1, <2>3, <2>4, <2>5 DEF Approving
<1>6. CASE ApproveUpdate(t) /\ ~Return(t)
  BY <1>6, UnwindingFits DEF ApproveUpdate, At, Naming, Loaded, Approving
<1>7. CASE ApproveAudit(t) /\ ~Return(t)
  BY <1>7 DEF ApproveAudit
<1> QED
  BY <1>2, <1>4, <1>5, <1>6, <1>7

LEMMA CheckFits ==
  ASSUME NEW t, Ready(t), Turn(t),
         InvokeConfig(t) \/ InvokeDiscover(t) \/ InvokeRecheck(t) \/ InvokeKill(t)
  PROVE  Fits(threads[t])'
<1> USE DEF Ready
<1>0. threads'[t] \in ThreadState
  BY DEF InferenceTypeOK
<1>1. PICK r : r = threads[t] /\ r \in ThreadState /\ Fits(r) /\ Fits(r)'
  BY Carried DEF InvokeConfig, InvokeDiscover, InvokeRecheck, InvokeKill, At
<1>2. CASE Return(t)
  BY <1>2, LeavingFits
<1>3. ASSUME r.pc \in Holding
      PROVE  /\ r.id \in Decisions /\ ScopeOf[r.id] = r.chat
             /\ decisions'[r.id].state # "absent"
             /\ r.payload \in Payloads /\ r.payload.lease # NoLease
  BY <1>1, <1>3 DEF Fits, Shaped, Grounded, Naming, Loaded
<1>4. CASE InvokeConfig(t) /\ ~Return(t)
  <2>1. threads'[t] = [r EXCEPT !.pc = "discover", !.config = config] /\ r.pc = "config"
    BY <1>1, <1>4 DEF InvokeConfig, Config, InferenceTypeOK, At
  <2>2. /\ threads'[t].pc = "discover" /\ threads'[t].id = r.id /\ threads'[t].chat = r.chat
        /\ threads'[t].payload = r.payload
    BY <1>1, <2>1 DEF ThreadState
  <2> QED
    BY <1>0, <1>3, <2>1, <2>2 DEF Fits, Shaped, Grounded, Unstopped, Owns, Authorised,
       Naming, Loaded, Holding, Matched, Paid, Proposing, Approving, Owning
<1>5. CASE InvokeDiscover(t) /\ ~Return(t)
  <2>1. CASE Unwind(t, "kill")
    BY <1>5, <2>1, UnwindingFits DEF InvokeDiscover, At, Naming, Loaded, Holding
  <2>2. CASE ~Unwind(t, "kill")
    <3>1. threads'[t] = [r EXCEPT !.pc = "recheck", !.route = NodeOf[r.client]]
          /\ r.pc = "discover"
      BY <1>1, <1>5, <2>2 DEF InvokeDiscover, InferenceTypeOK, At
    <3>2. /\ threads'[t].pc = "recheck" /\ threads'[t].id = r.id /\ threads'[t].chat = r.chat
          /\ threads'[t].payload = r.payload /\ threads'[t].client = r.client
          /\ threads'[t].route = NodeOf[r.client]
      BY <1>1, <3>1 DEF ThreadState
    <3> QED
      BY <1>0, <1>3, <3>1, <3>2 DEF Fits, Shaped, Grounded, Unstopped, Owns, Authorised,
         Naming, Loaded, Holding, Matched, Paid, Proposing, Approving, Owning
  <2> QED
    BY <2>1, <2>2
<1>6. CASE InvokeRecheck(t) /\ ~Return(t)
  <2> DEFINE same == r.route = r.payload.route /\ SealOf[config] = r.payload.seal
             pc == IF same THEN "claim" ELSE "kill"
  <2>1. /\ threads'[t] = [r EXCEPT !.pc = pc, !.config = config] /\ r.pc = "recheck"
        /\ ~Stopped(r.chat) /\ control' = control /\ Permits(config, r.payload.class)
    BY <1>1, <1>6 DEF InvokeRecheck, Config, Read, InferenceTypeOK, At, Chat, Payload
  <2>2. r.route = NodeOf[r.client]
    BY <1>1, <2>1 DEF Fits, Shaped
  <2>3. /\ threads'[t].pc = pc /\ threads'[t].id = r.id /\ threads'[t].chat = r.chat
        /\ threads'[t].payload = r.payload /\ threads'[t].client = r.client
        /\ threads'[t].route = r.route /\ threads'[t].config = config
    BY <1>1, <2>1 DEF ThreadState
  <2>4. CASE same
    <3>1. Shaped(threads[t])'
      BY <1>0, <1>3, <2>1, <2>2, <2>3, <2>4 DEF Shaped, Naming, Loaded, Holding, Matched,
         Proposing, Approving, Permits
    <3>2. Unstopped(threads[t])'
      BY <2>1, <2>3, <2>4 DEF Unstopped, Stopped
    <3> QED
      BY <1>3, <2>1, <2>3, <2>4, <3>1, <3>2 DEF Fits, Grounded, Owns, Authorised,
         Naming, Loaded, Holding, Matched, Paid, Approving, Owning
  <2>5. CASE ~same
    BY <1>0, <1>3, <2>1, <2>3, <2>5 DEF Fits, Shaped, Grounded, Unstopped, Owns, Authorised,
       Naming, Loaded, Holding, Matched, Paid, Proposing, Approving, Owning
  <2> QED
    BY <2>4, <2>5
<1>7. CASE InvokeKill(t) /\ ~Return(t)
  BY <1>7 DEF InvokeKill
<1> QED
  BY <1>2, <1>4, <1>5, <1>6, <1>7
-----------------------------------------------------------------------------
(* A request that owns its call goes to the end of it with the call in hand. *)
LEMMA EndingFits ==
  ASSUME NEW t, Ready(t), threads[t].pc \in Owning, Unwind(t, "finish"), UNCHANGED storeVars
  PROVE  Fits(threads[t])'
<1>1. /\ Id(t) \in started' /\ ScopeOf[Id(t)] = Chat(t) /\ sessions'[Chat(t)].active = Id(t)
  BY DEF Ready, Fits, Owns, storeVars, Id, Chat
<1>2. threads[t].pc \in Naming
  BY DEF Owning, Naming, Loaded, Holding, Matched
<1> QED
  BY <1>1, <1>2, UnwindingFits

(* A request that moves on and changes nothing but its program counter.      *)
LEMMA Advanced ==
  ASSUME NEW t, Ready(t), NEW pc, Goto(t, pc)
  PROVE  /\ threads'[t].pc = pc /\ threads'[t].id = Id(t) /\ threads'[t].chat = Chat(t)
         /\ threads'[t].payload = Payload(t) /\ threads'[t].client = threads[t].client
         /\ threads'[t].config = threads[t].config /\ threads'[t].route = threads[t].route
         /\ threads'[t] \in ThreadState
<1>1. PICK r : r = threads[t] /\ r \in ThreadState
  BY DEF Ready, InferenceTypeOK
<1>2. threads'[t] = [r EXCEPT !.pc = pc]
  BY <1>1 DEF Ready, Goto, InferenceTypeOK
<1>3. threads'[t] \in ThreadState
  BY DEF Ready, InferenceTypeOK
<1> QED
  BY <1>1, <1>2, <1>3 DEF ThreadState, Id, Chat, Payload

(* A request between its match and its end keeps the match.                  *)
LEMMA MatchCarried ==
  ASSUME NEW t, Ready(t), threads[t].pc \in Matched, NEW pc \in Matched, Goto(t, pc)
  PROVE  Shaped(threads[t])'
BY Advanced DEF Ready, Fits, Shaped, Id, Chat, Payload, Naming, Loaded, Holding, Matched,
   Proposing, Approving, Permits

(* The claim: the row was open and was checked against the request's copy.   *)
LEMMA ClaimFits ==
  ASSUME NEW t, Ready(t), Turn(t), InvokeClaim(t)
  PROVE  Fits(threads[t])'
<1> USE DEF Ready
<1>1. threads[t].pc = "claim" /\ Fits(threads[t])
  BY DEF InvokeClaim, At
<1>2. CASE Return(t)
  BY <1>2, LeavingFits
<1>3. CASE ~Return(t)
  <2>1. Claim(ProcessOf[t], Chat(t), Id(t), Payload(t)) /\ Goto(t, "consume")
        /\ dispatches' = dispatches
    BY <1>3 DEF InvokeClaim, rest
  <2>2. Id(t) \in Decisions /\ Chat(t) \in Chats
    BY <1>1, Typed DEF Naming, Loaded, Holding, Matched
  <2>3. Shaped(threads[t])'
    BY <1>1, <2>1, MatchCarried DEF Matched
  <2>4. /\ Id(t) \in started' /\ ScopeOf[Id(t)] = Chat(t) /\ sessions'[Chat(t)].active = Id(t)
        /\ decisions'[Id(t)].payload = Payload(t) /\ decisions'[Id(t)].state # "absent"
    BY <2>1, <2>2 DEF Claim, Loadable, InferenceTypeOK, StoreTypeOK, DecisionRow
  <2>5. dispatches'[Id(t)] = 0
    BY <2>1, <2>2 DEF Claim, Loadable, ClaimedIsSpent, DispatchedOnce, InferenceTypeOK
  <2> QED
    BY <2>1, <2>3, <2>4, <2>5, Advanced DEF Fits, Grounded, Unstopped, Owns, Authorised,
       Owning, Paid
<1> QED
  BY <1>2, <1>3

(* The lease: its one use is charged to what this request is about to send.  *)
LEMMA ConsumeFits ==
  ASSUME NEW t, Ready(t), Turn(t), InvokeConsume(t)
  PROVE  Fits(threads[t])'
<1> USE DEF Ready
<1>1. PICK r : r = threads[t] /\ r \in ThreadState /\ Fits(r) /\ Fits(r)' /\ r.pc = "consume"
  BY Carried DEF InvokeConsume, At
<1>2. CASE Unwind(t, "finish")
  BY <1>1, <1>2, EndingFits DEF InvokeConsume, Owning
<1>3. CASE ~Unwind(t, "finish")
  <2>1. LS!Consume(r.payload.lease, Binding(t)) /\ Goto(t, "evidence")
        /\ dispatches' = dispatches
    BY <1>1, <1>3 DEF InvokeConsume, Payload, rest
  <2>2. /\ threads'[t].pc = "evidence" /\ threads'[t].id = r.id /\ threads'[t].chat = r.chat
        /\ threads'[t].payload = r.payload
    BY <1>1, <2>1, Advanced DEF Id, Chat, Payload
  <2>3. Shaped(threads[t])'
    BY <1>1, <2>1, MatchCarried DEF Matched
  <2>4. Consumed(r)'
    <3>1. Binding(t) = [chat |-> r.chat, route |-> r.payload.route, seal |-> r.payload.seal,
                        class |-> r.payload.class]
      BY <1>1 DEF Binding, Chat, Payload, Fits, Shaped, Matched
    <3>2. /\ r.payload.lease \in Leases /\ leases[r.payload.lease].binding = Binding(t)
          /\ leases[r.payload.lease] \in LS!LeaseRow /\ leases[r.payload.lease].uses < 1
          /\ leases'[r.payload.lease] =
               [leases[r.payload.lease] EXCEPT !.uses = leases[r.payload.lease].uses + 1]
      BY <2>1 DEF LS!Consume, LS!Consumable, InferenceTypeOK, LS!LeaseTypeOK
    <3>3. /\ leases'[r.payload.lease].uses = 1
          /\ leases'[r.payload.lease].binding = leases[r.payload.lease].binding
      BY <3>2 DEF LS!LeaseRow
    <3> QED
      BY <3>1, <3>2, <3>3 DEF Consumed
  <2>5. Grounded(threads[t])' /\ Owns(threads[t])'
    BY <1>1, <2>2 DEF Fits, Grounded, Owns, Owning, Loaded, Holding, Matched
  <2>6. dispatches'[r.id] = 0
    BY <1>1, <2>1 DEF Fits, Authorised
  <2>7. Authorised(threads[t])'
    BY <2>2, <2>4, <2>6 DEF Authorised, Paid, Consumed
  <2> QED
    BY <2>2, <2>3, <2>5, <2>7 DEF Fits, Unstopped
<1> QED
  BY <1>2, <1>3

(* The evidence is in the audit before the barrier is asked.                 *)
LEMMA EvidenceFits ==
  ASSUME NEW t, Ready(t), Turn(t), InvokeEvidence(t)
  PROVE  Fits(threads[t])'
<1> USE DEF Ready
<1>1. PICK r : r = threads[t] /\ r \in ThreadState /\ Fits(r) /\ Fits(r)' /\ r.pc = "evidence"
  BY Carried DEF InvokeEvidence, At
<1>2. Goto(t, "admit") /\ dispatches' = dispatches /\ <<"admitting", r.id>> \in audit'
  BY <1>1 DEF InvokeEvidence, Audited, Id
<1>3. /\ threads'[t].pc = "admit" /\ threads'[t].id = r.id /\ threads'[t].chat = r.chat
      /\ threads'[t].payload = r.payload
  BY <1>1, <1>2, Advanced DEF Id, Chat, Payload
<1>4. Shaped(threads[t])'
  BY <1>1, <1>2, MatchCarried DEF Matched
<1>5. Grounded(threads[t])' /\ Owns(threads[t])'
  BY <1>1, <1>3 DEF Fits, Grounded, Owns, Owning, Loaded, Holding, Matched
<1>6. Consumed(r)' /\ dispatches'[r.id] = 0
  BY <1>1, <1>2 DEF Fits, Authorised, Paid
<1>7. Authorised(threads[t])'
  BY <1>2, <1>3, <1>6 DEF Authorised, Paid, Consumed
<1> QED
  BY <1>3, <1>4, <1>5, <1>7 DEF Fits, Unstopped

(* The barrier moves the slot to nobody else, and the call goes out at once. *)
LEMMA AdmitFits ==
  ASSUME NEW t, Ready(t), Turn(t), InvokeAdmit(t)
  PROVE  Fits(threads[t])'
<1> USE DEF Ready
<1>1. PICK r : r = threads[t] /\ r \in ThreadState /\ Fits(r) /\ r.pc = "admit"
  BY DEF InvokeAdmit, At, InferenceTypeOK
<1>2. CASE Unwind(t, "finish") /\ UNCHANGED storeVars
  BY <1>1, <1>2, EndingFits DEF Owning
<1>3. CASE Admit(Chat(t), Id(t), Payload(t).deadline) /\ Goto(t, "post") /\ leases' = leases
  <2>1. /\ threads'[t].pc = "post" /\ threads'[t].id = r.id /\ threads'[t].chat = r.chat
        /\ threads'[t].payload = r.payload
    BY <1>1, <1>3, Advanced DEF Id, Chat, Payload
  <2>2. Shaped(threads[t])'
    BY <1>1, <1>3, MatchCarried DEF Matched
  <2>3. decisions' = decisions /\ started' = started /\ sessions' = Touched(r.chat)
    BY <1>1, <1>3 DEF Admit, history, Chat
  <2>4. r.chat \in Chats /\ sessions'[r.chat].active = sessions[r.chat].active
    BY <1>1, <2>3 DEF Touched, ThreadState, InferenceTypeOK, StoreTypeOK, SessionRow
  <2>5. Grounded(threads[t])' /\ Owns(threads[t])'
    BY <1>1, <2>1, <2>3, <2>4 DEF Fits, Grounded, Owns, Owning, Loaded, Holding, Matched
  <2>6. Authorised(threads[t])'
    BY <1>1, <1>3, <2>1 DEF Fits, Authorised, Paid, Consumed
  <2> QED
    BY <2>1, <2>2, <2>5, <2>6 DEF Fits, Unstopped
<1> QED
  BY <1>2, <1>3 DEF InvokeAdmit

LEMMA FaultFits ==
  ASSUME NEW t, Ready(t), Turn(t), StorageFault(t)
  PROVE  Fits(threads[t])'
<1>1. CASE Return(t)
  BY <1>1, LeavingFits
<1>2. CASE threads[t].pc \in {"consume", "evidence", "admit"}
  BY <1>2, EndingFits DEF StorageFault, OnFault, Owning
<1>3. CASE threads[t].pc \notin {"consume", "evidence", "admit"}
  BY <1>1, <1>3 DEF StorageFault, OnFault
<1> QED
  BY <1>2, <1>3

(* Every request fits after every step.                                      *)
LEMMA FitStep ==
  ASSUME InferenceTypeOK, InferenceTypeOK', AdmissionHoldsSlot, ClaimedIsSpent, RowsFit,
         RowsFit', DispatchedOnce, OneOwner, \A u \in Threads : Fits(threads[u]),
         [TimedNext]_vars, NEW u \in Threads
  PROVE  Fits(threads[u])'
<1>1. ASSUME threads'[u] = threads[u], NEW x, Undisturbed(x),
             threads[u].pc \in Owning => Id(u) # x
      PROVE  Fits(threads[u])'
  <2>1. PICK r : r = threads[u]
    OBVIOUS
  <2>2. Fits(r)'
    BY <1>1, <2>1, FitsIsStable DEF Id
  <2> QED
    BY <1>1, <2>1, <2>2
<1>2. threads[u].pc \in Owning => Id(u) \in Decisions
  BY Typed DEF Owning, Naming, Loaded, Holding, Matched
<1>3. ASSUME NEW t \in Threads, Turn(t) PROVE Fits(threads[u])'
  <2>1. CASE u = t
    <3>1. Ready(t)
      BY DEF Ready
    <3>2. ASSUME InvokePost(t) PROVE Fits(threads[t])'
      BY <3>1, <3>2, EndingFits DEF InvokePost, At, Owning
    <3>3. ASSUME InvokeFinish(t) PROVE Fits(threads[t])'
      BY <3>1, <3>3, LeavingFits DEF InvokeFinish
    <3>4. Fits(threads[t])'
      BY <1>3, <3>1, <3>2, <3>3, BeginningFits, PreflightFits, ApproveFits, CheckFits,
         ClaimFits, ConsumeFits, EvidenceFits, AdmitFits, FaultFits DEF Turn, Step
    <3> QED
      BY <2>1, <3>4
  <2>2. CASE u # t
    <3>1. threads'[u] = threads[u] /\ Undisturbed(Own(t))
      BY <1>3, <2>2, OthersWait, DisturbsOwnCall
    <3>2. threads[u].pc \in Owning => Id(u) # Own(t)
      <4>1. CASE threads[t].pc \in {"admit", "finish"}
        BY <2>2, <4>1 DEF Own, OneOwner, Owning
      <4>2. CASE threads[t].pc \notin {"admit", "finish"}
        BY <1>2, <4>2, StoreAssumption DEF Own, StoreAssumption, Calls
      <4> QED
        BY <4>1, <4>2
    <3> QED
      BY <1>1, <3>1, <3>2
  <2> QED
    BY <2>1, <2>2
<1>4. CASE World
  <2>1. PICK x \in Natives \cup {NoCall} : Undisturbed(x)
    BY <1>4, WorldDisturbsNatives
  <2>2. threads[u].pc \in Owning => Id(u) # x
    BY <1>2, StoreAssumption DEF StoreAssumption, Calls
  <2>3. CASE threads'[u] = threads[u]
    BY <1>1, <2>1, <2>2, <2>3
  <2>4. CASE threads'[u] # threads[u]
    <3>1. threads'[u] = Idle
      BY <1>4, <2>4 DEF World, Crash, Others, RevokeLeases, Drift, Clock
    <3>2. Idle.pc = "idle" /\ threads'[u] \in ThreadState
      BY DEF Idle, InferenceTypeOK
    <3> QED
      BY <3>1, <3>2 DEF Fits, Shaped, Grounded, Unstopped, Owns, Authorised, Naming,
         Loaded, Holding, Matched, Paid, Proposing, Approving, Owning
  <2> QED
    BY <2>3, <2>4
<1>5. CASE UNCHANGED vars
  <2>1. Undisturbed(NoCall)
    BY <1>5 DEF vars, storeVars, rest, Undisturbed, StoreKeeps, RowsKept, SlotsKept,
       LeasesKept, Open
  <2>2. threads[u].pc \in Owning => Id(u) # NoCall
    BY <1>2, StoreAssumption DEF StoreAssumption, Calls
  <2> QED
    BY <1>1, <1>5, <2>1, <2>2 DEF vars
<1> QED
  BY <1>3, <1>4, <1>5, TimedSteps
-----------------------------------------------------------------------------
(* The rows of the tables, whoever reads them next.                          *)
LEMMA RowsStep ==
  ASSUME InferenceTypeOK, InferenceTypeOK', RowsFit, \A t \in Threads : Fits(threads[t]),
         [TimedNext]_vars
  PROVE  RowsFit'
<1>0. [StoreNext]_storeVars
  BY InferenceIsStoreClient
<1>1. ASSUME NEW d \in Decisions, decisions'[d].state # "absent"
      PROVE  decisions'[d].payload \in Payloads
  <2> USE <1>1 DEF tables, history
  <2>1. CASE decisions' = decisions
    BY <2>1 DEF RowsFit
  <2>2. ASSUME NEW c \in Chats, NEW flag, InvalidateProfile(c, flag)
        PROVE  decisions'[d].payload \in Payloads
    <3>1. decisions[d] \in DecisionRow
      BY DEF InferenceTypeOK, StoreTypeOK
    <3>2. decisions'[d] \in {decisions[d], [decisions[d] EXCEPT !.state = "used"]}
      BY <2>2 DEF InvalidateProfile
    <3>3. decisions'[d] = decisions[d] \/ decisions[d].state = "open"
      BY <2>2 DEF InvalidateProfile
    <3>4. decisions[d].state # "absent"
      BY <1>1, <3>3
    <3>5. decisions'[d].payload = decisions[d].payload
      BY <3>1, <3>2 DEF DecisionRow
    <3> QED
      BY <3>4, <3>5 DEF RowsFit
  <2>3. ASSUME NEW p \in Processes, NEW c \in Chats, NEW e \in Decisions, NEW x \in Payloads,
               Create(p, c, e, x)
        PROVE  decisions'[d].payload \in Payloads
    BY <2>3 DEF Create, Lapsed, Stored, RowsFit, InferenceTypeOK, StoreTypeOK, DecisionRow
  <2>4. ASSUME NEW p \in Processes, NEW c \in Chats, NEW e \in Decisions, NEW x \in Payloads,
               Update(p, c, e, x) \/ Claim(p, c, e, x)
        PROVE  decisions'[d].payload \in Payloads
    BY <2>4, SMTT(30)
       DEF Update, Claim, Loadable, RowsFit, InferenceTypeOK, StoreTypeOK, DecisionRow
  <2>5. ASSUME NEW c \in Chats, NEW e \in Decisions, Invalidate(c, e)
        PROVE  decisions'[d].payload \in Payloads
    BY <2>5 DEF Invalidate, RowsFit, InferenceTypeOK, StoreTypeOK, DecisionRow
  <2> QED
    BY <1>0, <2>1, <2>2, <2>3, <2>4, <2>5, StoreStep
       DEF Read, RevokeScope, ResumeScope, Admit, Finish, BeginNative, Rotate, Tick, storeVars
<1>2. \A l \in Leases : leases'[l].state = "absent" => leases'[l].uses = 0
  <2>1. ASSUME NEW k \in Leases, NEW c, NEW b, LS!Issue(k, c, b, LeaseTTL), NEW l \in Leases,
               leases'[l].state = "absent"
        PROVE  leases'[l].uses = 0
    BY <2>1 DEF LS!Issue, LS!LeaseTypeOK, LS!LeaseRow, InferenceTypeOK, RowsFit
  <2>2. ASSUME NEW k, NEW b, LS!Consume(k, b), NEW l \in Leases, leases'[l].state = "absent"
        PROVE  leases'[l].uses = 0
    BY <2>2 DEF LS!Consume, LS!Consumable, LS!LeaseTypeOK, LS!LeaseRow, InferenceTypeOK,
       RowsFit
  <2>3. ASSUME NEW c \in Chats, LS!RevokeProfile(c), NEW l \in Leases,
               leases'[l].state = "absent"
        PROVE  leases'[l].uses = 0
    BY <2>3 DEF LS!RevokeProfile, LS!Revoked, LS!LeaseTypeOK, LS!LeaseRow, InferenceTypeOK,
       RowsFit
  <2>4. CASE leases' = leases
    BY <2>4, SMTT(30) DEF RowsFit
  <2>5. ASSUME NEW t \in Threads, Turn(t)
        PROVE  \A l \in Leases : leases'[l].state = "absent" => leases'[l].uses = 0
    BY <2>1, <2>2, <2>4, <2>5 DEF Turn, Begins, Step, StorageFault, PreflightBegin,
       PreflightConfig, PreflightDiscover, PreflightCreate, ApproveBegin, ApproveConfig,
       ApproveIssue, ApproveUpdate, ApproveAudit, InvokeBegin, InvokeConfig, InvokeDiscover,
       InvokeRecheck, InvokeKill, InvokeClaim, InvokeConsume, InvokeEvidence, InvokeAdmit,
       InvokePost, InvokeFinish
  <2>6. CASE World \/ UNCHANGED vars
    BY <2>3, <2>4, <2>6 DEF World, Crash, Others, RevokeLeases, Drift, Clock, vars
  <2> QED
    BY <2>5, <2>6, TimedSteps
<1>3. now' \in 0..MaxTime
  BY <1>0, StoreStep DEF RowsFit, Read, RevokeScope, ResumeScope, Create, Update, Claim,
     Admit, Finish, Invalidate, BeginNative, Rotate, Tick, storeVars
<1> QED
  BY <1>1, <1>2, <1>3 DEF RowsFit

(* Whoever becomes the owner of a call claims it.                            *)
LEMMA OwnersStart ==
  ASSUME InferenceTypeOK, RowsFit, ClaimedIsSpent, \A u \in Threads : Fits(threads[u]),
         NEW t \in Threads, Turn(t), threads'[t].pc \in Owning
  PROVE  \/ threads[t].pc \in Owning /\ threads'[t].id = Id(t)
         \/ threads'[t].id \notin started
<1>0. PICK r : r = threads[t] /\ r \in ThreadState
  BY DEF InferenceTypeOK
<1>1. CASE Return(t)
  BY <1>1 DEF Return, InferenceTypeOK, Idle, Owning
<1>2. ASSUME NEW pc, Unwind(t, pc) PROVE threads'[t].pc = pc /\ threads'[t].id = Id(t)
  BY <1>2 DEF Unwind, Idle, InferenceTypeOK, Id
<1>3. ASSUME NEW pc, Goto(t, pc) PROVE threads'[t].pc = pc /\ threads'[t].id = Id(t)
  <2>1. threads'[t] = [r EXCEPT !.pc = pc]
    BY <1>0, <1>3 DEF Goto, InferenceTypeOK
  <2> QED
    BY <1>0, <2>1 DEF ThreadState, Id
<1>4. CASE Begins(t)
  <2>1. ASSUME NEW c, NEW d, NEW pc, NEW k, NEW y, Serve(t, c, d, pc, k, y)
        PROVE  threads'[t].pc = pc
    BY <2>1 DEF Serve, Idle, InferenceTypeOK
  <2> QED
    BY <1>4, <2>1 DEF Begins, PreflightBegin, ApproveBegin, InvokeBegin, Owning
<1>5. CASE PreflightConfig(t) \/ InvokeConfig(t) \/ InvokeRecheck(t)
  <2>1. ASSUME NEW class, NEW pc, pc \notin Owning, Config(t, class, pc), ~Return(t) PROVE FALSE
    <3>1. threads'[t] = [r EXCEPT !.pc = pc, !.config = config]
      BY <1>0, <2>1 DEF Config, InferenceTypeOK
    <3> QED
      BY <1>0, <2>1, <3>1 DEF ThreadState
  <2>2. \A pc \in {"p_discover", "discover", "claim", "kill"} : pc \notin Owning
    BY DEF Owning
  <2> QED
    BY <1>1, <1>5, <2>1, <2>2 DEF PreflightConfig, InvokeConfig, InvokeRecheck
<1>6. CASE PreflightDiscover(t) \/ ApproveConfig(t) \/ ApproveIssue(t) \/ InvokeDiscover(t)
  <2>1. ASSUME NEW s, s \in ThreadState, NEW n, NEW q, NEW l
        PROVE  /\ [s EXCEPT !.pc = "p_create", !.route = n, !.payload.route = n,
                            !.payload.seal = q].pc = "p_create"
               /\ [s EXCEPT !.pc = "a_issue", !.config = q, !.route = n].pc = "a_issue"
               /\ [s EXCEPT !.pc = "a_update", !.payload.lease = l].pc = "a_update"
               /\ [s EXCEPT !.pc = "recheck", !.route = n].pc = "recheck"
    BY <2>1 DEF ThreadState
  <2>2. CASE PreflightDiscover(t) /\ ~Return(t)
    <3> DEFINE n == NodeOf[threads[t].client]
               q == SealOf[threads[t].config]
    <3>1. threads' = [threads EXCEPT ![t].pc = "p_create", ![t].route = n,
                                     ![t].payload.route = n, ![t].payload.seal = q]
      BY <2>2 DEF PreflightDiscover
    <3> HIDE DEF n, q
    <3>2. threads \in [Threads -> ThreadState]
      BY DEF InferenceTypeOK
    <3>3. threads'[t] = [r EXCEPT !.pc = "p_create", !.route = n, !.payload.route = n,
                                  !.payload.seal = q]
      BY <1>0, <3>1, <3>2
    <3> QED
      BY <1>0, <2>1, <3>3 DEF Owning
  <2>3. CASE ApproveConfig(t) /\ ~Return(t)
    <3>1. threads'[t] = [r EXCEPT !.pc = "a_issue", !.config = config, !.route = r.payload.route]
      BY <1>0, <2>3 DEF ApproveConfig, InferenceTypeOK, Payload
    <3> QED
      BY <1>0, <2>1, <3>1 DEF Owning
  <2>4. CASE ApproveIssue(t) /\ ~Return(t)
    <3>1. PICK l \in Leases :
              threads' = [threads EXCEPT ![t].pc = "a_update", ![t].payload.lease = l]
      BY <2>4 DEF ApproveIssue
    <3>2. threads \in [Threads -> ThreadState]
      BY DEF InferenceTypeOK
    <3>3. threads'[t] = [r EXCEPT !.pc = "a_update", !.payload.lease = l]
      BY <1>0, <3>1, <3>2
    <3> QED
      BY <1>0, <2>1, <3>3 DEF Owning
  <2>5. CASE InvokeDiscover(t) /\ ~Unwind(t, "kill")
    <3>1. threads'[t] = [r EXCEPT !.pc = "recheck", !.route = NodeOf[r.client]]
      BY <1>0, <2>5 DEF InvokeDiscover, InferenceTypeOK
    <3> QED
      BY <1>0, <2>1, <3>1 DEF Owning
  <2>6. CASE Unwind(t, "kill")
    BY <1>2, <2>6 DEF Owning
  <2> QED
    BY <1>1, <1>6, <2>2, <2>3, <2>4, <2>5, <2>6
<1>7. CASE PreflightCreate(t) \/ ApproveAudit(t) \/ InvokeKill(t) \/ InvokeFinish(t)
  BY <1>1, <1>7 DEF PreflightCreate, ApproveAudit, InvokeKill, InvokeFinish
<1>8. CASE ApproveUpdate(t)
  BY <1>1, <1>2, <1>8 DEF ApproveUpdate, Owning
<1>9. CASE InvokeClaim(t) /\ ~Return(t)
  <2>1. threads'[t].id = Id(t)
    BY <1>3, <1>9 DEF InvokeClaim
  <2>2. Id(t) \in Decisions
    BY <1>9, Typed DEF InvokeClaim, At, Naming, Loaded, Holding, Matched
  <2>3. Id(t) \notin started
    BY <1>9, <2>2 DEF InvokeClaim, Claim, Loadable, ClaimedIsSpent
  <2> QED
    BY <2>1, <2>3
<1>10. CASE InvokeConsume(t) \/ InvokeEvidence(t) \/ InvokeAdmit(t) \/ InvokePost(t)
  BY <1>2, <1>3, <1>10 DEF InvokeConsume, InvokeEvidence, InvokeAdmit, InvokePost, At, Owning
<1>11. CASE StorageFault(t)
  <2>1. CASE threads[t].pc \in {"consume", "evidence", "admit"}
    <3>1. Unwind(t, "finish")
      BY <1>11, <2>1 DEF StorageFault, OnFault
    <3> QED
      BY <1>2, <2>1, <3>1 DEF Owning
  <2>2. CASE threads[t].pc \notin {"consume", "evidence", "admit"}
    BY <1>1, <1>11, <2>2 DEF StorageFault, OnFault
  <2> QED
    BY <2>1, <2>2
<1> QED
  BY <1>1, <1>4, <1>5, <1>6, <1>7, <1>8, <1>9, <1>10, <1>11 DEF Turn, Step

LEMMA OwnerStep ==
  ASSUME InferenceTypeOK, RowsFit, ClaimedIsSpent, OneOwner, \A u \in Threads : Fits(threads[u]),
         [TimedNext]_vars
  PROVE  OneOwner'
<1>1. ASSUME NEW t \in Threads, Turn(t), NEW u \in Threads, u # t,
             threads'[t].pc \in Owning, threads'[u].pc \in Owning, threads'[t].id = threads'[u].id
      PROVE  FALSE
  <2>1. threads'[u] = threads[u]
    BY <1>1, OthersWait
  <2>2. Id(u) \in started
    BY <1>1, <2>1 DEF Fits, Owns, Id
  <2> QED
    BY <1>1, <2>1, <2>2, OwnersStart DEF OneOwner, Id
<1>2. ASSUME NEW t \in Threads, Turn(t), NEW u \in Threads, NEW v \in Threads, u # t, v # t,
             threads'[u].pc \in Owning, threads'[v].pc \in Owning, threads'[u].id = threads'[v].id
      PROVE  u = v
  BY <1>2, OthersWait DEF OneOwner, Id
<1>3. ASSUME NEW t \in Threads, Turn(t) PROVE OneOwner'
  BY <1>1, <1>2, <1>3 DEF OneOwner, Id
<1>4. CASE World
  <2>1. \A u \in Threads : threads'[u] = threads[u] \/ threads'[u] = Idle
    BY <1>4 DEF World, Crash, Others, RevokeLeases, Drift, Clock
  <2>2. Idle.pc \notin Owning
    BY DEF Idle, Owning
  <2> QED
    BY <2>1, <2>2 DEF OneOwner, Id
<1>5. CASE UNCHANGED vars
  BY <1>5 DEF vars, OneOwner, Id
<1> QED
  BY <1>3, <1>4, <1>5, TimedSteps

(* What a dispatch does: only a claimed call that has not left may leave.    *)
LEMMA DispatchStep ==
  ASSUME InferenceTypeOK, RowsFit, \A u \in Threads : Fits(threads[u]), [TimedNext]_vars,
         NEW d \in Decisions
  PROVE  \/ dispatches'[d] = dispatches[d]
         \/ \E t \in Threads :
              InvokeAdmit(t) /\ Id(t) = d /\ dispatches[d] = 0 /\ dispatches'[d] = 1
<1>1. ASSUME NEW t \in Threads, InvokeAdmit(t), dispatches'[d] # dispatches[d]
      PROVE  Id(t) = d /\ dispatches[d] = 0 /\ dispatches'[d] = 1
  <2>1. Id(t) = d /\ dispatches'[d] = dispatches[d] + 1
    BY <1>1 DEF InvokeAdmit, InferenceTypeOK
  <2>2. dispatches[d] = 0
    BY <1>1, <2>1 DEF InvokeAdmit, At, Fits, Authorised, Id
  <2> QED
    BY <2>1, <2>2
<1>2. ASSUME NEW t \in Threads, Turn(t), ~InvokeAdmit(t)
      PROVE  dispatches' = dispatches
  BY <1>2 DEF Turn, Begins, Step, StorageFault, PreflightBegin, PreflightConfig,
     PreflightDiscover, PreflightCreate, ApproveBegin, ApproveConfig, ApproveIssue,
     ApproveUpdate, ApproveAudit, InvokeBegin, InvokeConfig, InvokeDiscover,
     InvokeRecheck, InvokeKill, InvokeClaim, InvokeConsume, InvokeEvidence, InvokePost,
     InvokeFinish, rest
<1>3. CASE World \/ UNCHANGED vars
  <2> dispatches' = dispatches
    BY <1>3 DEF World, Crash, Others, RevokeLeases, Drift, Clock, vars, rest
  <2> QED
    OBVIOUS
<1> QED
  BY <1>1, <1>2, <1>3, TimedSteps

LEMMA EveryStep ==
  ASSUME InferenceTypeOK, RowsFit, AdmissionHoldsSlot, \A u \in Threads : Fits(threads[u]),
         [TimedNext]_vars
  PROVE  UNCHANGED vars \/ \E x : Undisturbed(x)
BY DisturbsOwnCall, WorldDisturbsNatives, TimedSteps

LEMMA OnceStep ==
  ASSUME InferenceTypeOK, DispatchedOnce, RowsFit, AdmissionHoldsSlot,
         \A u \in Threads : Fits(threads[u]), [TimedNext]_vars
  PROVE  DispatchedOnce'
<1> SUFFICES ASSUME NEW d \in Decisions
             PROVE  dispatches'[d] <= 1 /\ (dispatches'[d] > 0 => d \in started')
  BY DEF DispatchedOnce
<1>1. started \subseteq started'
  BY EveryStep DEF Undisturbed, StoreKeeps, vars, storeVars
<1>2. CASE dispatches'[d] = dispatches[d]
  BY <1>1, <1>2 DEF DispatchedOnce
<1>3. ASSUME NEW t \in Threads, InvokeAdmit(t), Id(t) = d, dispatches'[d] = 1
      PROVE  dispatches'[d] <= 1 /\ d \in started'
  BY <1>1, <1>3 DEF InvokeAdmit, At, Id, Fits, Owns, Owning
<1> QED
  BY <1>2, <1>3, DispatchStep

(* What authorised a call that left cannot change behind it.                 *)
Lawful(d, sealed) ==
  /\ d \in started /\ <<"admitting", d>> \in audit
  /\ sealed.lease \in Leases
  /\ leases[sealed.lease].uses = 1
  /\ leases[sealed.lease].binding =
       [chat |-> ScopeOf[d], route |-> sealed.route, seal |-> sealed.seal,
        class |-> sealed.class]

LEMMA SentStep ==
  ASSUME InferenceTypeOK, InferenceTypeOK', DispatchedOnce, DispatchedOnce', ClaimedIsSpent,
         RowsFit, AdmissionHoldsSlot, SentOnEvidence, \A u \in Threads : Fits(threads[u]),
         [TimedNext]_vars
  PROVE  SentOnEvidence'
<1>1. CASE UNCHANGED vars
  BY <1>1 DEF vars, storeVars, rest, SentOnEvidence
<1>2. ASSUME NEW x, Undisturbed(x), NEW d \in Decisions, dispatches'[d] > 0
      PROVE  Lawful(d, decisions[d].payload)'
  <2>1. Lawful(d, decisions[d].payload)
    <3>1. CASE dispatches'[d] = dispatches[d]
      BY <1>2, <3>1 DEF SentOnEvidence, DispatchedOnce, Lawful
    <3>2. ASSUME NEW t \in Threads, InvokeAdmit(t), Id(t) = d
          PROVE  Lawful(d, decisions[d].payload)
      <4>1. PICK r : r = threads[t] /\ r.pc = "admit" /\ r.id = d /\ Fits(r)
        BY <3>2 DEF InvokeAdmit, At, Id
      <4>2. d \in started /\ ScopeOf[d] = r.chat /\ decisions[d].payload = r.payload
        BY <4>1 DEF Fits, Owns, Owning
      <4>3. <<"admitting", d>> \in audit /\ Consumed(r)
        BY <4>1 DEF Fits, Authorised, Paid
      <4> QED
        BY <4>2, <4>3 DEF Lawful, Consumed
    <3> QED
      BY <3>1, <3>2, DispatchStep
  <2>2. decisions'[d].payload = decisions[d].payload
    BY <1>2, <2>1 DEF Lawful, ClaimedIsSpent, Undisturbed, StoreKeeps, RowsKept, Open
  <2> QED
    BY <1>2, <2>1, <2>2 DEF Lawful, Undisturbed, StoreKeeps, LeasesKept
<1>3. ASSUME NEW d \in Decisions, dispatches'[d] > 0 PROVE dispatches'[d] = 1
  BY <1>3 DEF DispatchedOnce, InferenceTypeOK
<1> QED
  BY <1>1, <1>2, <1>3, EveryStep DEF SentOnEvidence, Lawful
-----------------------------------------------------------------------------
LEMMA InferenceInit == Init => InferenceInduction
<1> SUFFICES ASSUME Init PROVE InferenceInduction
  OBVIOUS
<1>1. StoreTypeOK /\ AdmissionHoldsSlot /\ ClaimedIsSpent
  BY StoreAssumption DEF Init, StoreInit, StoreTypeOK, DecisionRow, SessionRow,
     ControlRow, RowStates, Keys, StoreAssumption, AdmissionHoldsSlot, ClaimedIsSpent
<1>2. InferenceTypeOK
  BY <1>1, IdleTyped, InferenceAssumption DEF Init, InferenceTypeOK, LS!LeaseInit,
     LS!LeaseTypeOK, LS!LeaseRow, InferenceAssumption
<1>3. \A t \in Threads : Fits(threads[t])
  BY IdleTyped DEF Init, Fits, Shaped, Grounded, Unstopped, Owns, Authorised, Naming, Loaded,
     Holding, Matched, Paid, Proposing, Approving, Owning
<1>4. RowsFit
  BY StoreAssumption DEF Init, StoreInit, LS!LeaseInit, RowsFit, StoreAssumption
<1>5. OneOwner /\ DispatchedOnce /\ SentOnEvidence
  BY IdleTyped DEF Init, OneOwner, Owning, DispatchedOnce, SentOnEvidence
<1> QED
  BY <1>1, <1>2, <1>3, <1>4, <1>5 DEF InferenceInduction

LEMMA InferenceStep == InferenceInduction /\ [TimedNext]_vars => InferenceInduction'
<1> SUFFICES ASSUME InferenceInduction, [TimedNext]_vars PROVE InferenceInduction'
  OBVIOUS
<1> USE DEF InferenceInduction
<1>1. InferenceTypeOK'
  BY InferenceTypeStep
<1>2. AdmissionHoldsSlot' /\ ClaimedIsSpent'
  BY InferenceIsStoreClient, SlotStep, SpentStep DEF InferenceTypeOK
<1>3. RowsFit'
  BY <1>1, RowsStep
<1>4. \A t \in Threads : Fits(threads[t])'
  BY <1>1, <1>3, FitStep
<1>5. OneOwner' /\ DispatchedOnce'
  BY OwnerStep, OnceStep
<1>6. SentOnEvidence'
  BY <1>1, <1>5, SentStep
<1> QED
  BY <1>1, <1>2, <1>3, <1>4, <1>5, <1>6

(* What holds with a moving clock holds with a clock that stands still.      *)
LEMMA StillIsTimed == Spec => TimedSpec
<1>1. [Next]_vars => [TimedNext]_vars
  BY DEF TimedNext
<1> QED
  BY <1>1, PTL DEF Spec, TimedSpec

(* The inductive invariant of the inference gate.                            *)
THEOREM InferenceInduces == TimedSpec => []InferenceInduction
BY InferenceInit, InferenceStep, PTL DEF TimedSpec

(* The tables, the leases and every request keep their types.                *)
THEOREM InferenceTypeCorrect == TimedSpec => []InferenceTypeOK
<1>1. InferenceInduction => InferenceTypeOK
  BY DEF InferenceInduction
<1> QED
  BY <1>1, InferenceInduces, PTL

(* Whatever left, left once, after its evidence, for the use of its lease.   *)
THEOREM SentIsEvidenced == TimedSpec => []SentOnEvidence
<1>1. InferenceInduction => SentOnEvidence
  BY DEF InferenceInduction
<1> QED
  BY <1>1, InferenceInduces, PTL

(* A payload on its way goes to the node it was approved for.                *)
THEOREM PostsGoWhereApproved == TimedSpec => []SentWhereApproved
<1>1. ASSUME InferenceInduction, NEW t \in Threads, At(t, "post")
      PROVE  LET sealed == decisions[Id(t)].payload
             IN  /\ NodeOf[threads[t].client] = sealed.route
                 /\ SealOf[threads[t].config] = sealed.seal
                 /\ Permits(threads[t].config, sealed.class)
  <2>1. PICK r : r = threads[t] /\ Fits(r) /\ r.pc = "post"
    BY <1>1 DEF InferenceInduction, At
  <2>2. decisions[r.id].payload = r.payload
    BY <2>1 DEF Fits, Owns, Owning
  <2> QED
    BY <2>1, <2>2 DEF Fits, Shaped, Matched, Id
<1>2. InferenceInduction => SentWhereApproved
  BY <1>1 DEF SentWhereApproved, Permits
<1> QED
  BY <1>2, InferenceInduces, PTL

(* The gate is a client of the store: what holds of StoreSpec holds here.    *)
THEOREM InferenceImplementsStore == TimedSpec => StoreSpec
<1>1. Init => StoreInit
  BY DEF Init
<1>2. InferenceInduction /\ [TimedNext]_vars => [StoreNext]_storeVars
  BY InferenceIsStoreClient DEF InferenceInduction
<1> QED
  BY <1>1, <1>2, InferenceInduces, PTL DEF TimedSpec, StoreSpec
-----------------------------------------------------------------------------
(* The gate's tables have the types the life cycle is read from.             *)
LEMMA PhasesTyped == InferenceTypeOK => PhaseTypeOK
BY DEF InferenceTypeOK, PhaseTypeOK

LEMMA TurnRefines ==
  ASSUME InferenceInduction, NEW t \in Threads, Turn(t)
  PROVE  [AD!ANext]_AD!avars
<1> USE PhasesTyped DEF InferenceInduction
<1>1. /\ Chat(t) \in Chats /\ ProcessOf[t] \in Processes
      /\ threads[t].pc \in Naming => Id(t) \in Decisions /\ Id(t) \in Calls
      /\ threads[t].pc \in Proposing \cup Loaded => Payload(t) \in Payloads
  BY Typed
<1>2. ASSUME ~InvokeAdmit(t) PROVE dispatches' = dispatches
  BY <1>2 DEF Turn, Begins, Step, StorageFault, PreflightBegin, PreflightConfig,
     PreflightDiscover, PreflightCreate, ApproveBegin, ApproveConfig, ApproveIssue,
     ApproveUpdate, ApproveAudit, InvokeBegin, InvokeConfig, InvokeDiscover,
     InvokeRecheck, InvokeKill, InvokeClaim, InvokeConsume, InvokeEvidence, InvokePost,
     InvokeFinish, rest
<1>3. ASSUME dispatches' = dispatches, (\E c \in Chats : Read(c)) \/ UNCHANGED storeVars
      PROVE  [AD!ANext]_AD!avars
  BY <1>3, Unseen
<1>4. ASSUME PreflightCreate(t) PROVE [AD!ANext]_AD!avars
  <2>1. dispatches' = dispatches
    BY <1>4 DEF PreflightCreate, rest
  <2>2. CASE UNCHANGED storeVars
    BY <1>3, <2>1, <2>2
  <2>3. ASSUME NEW d \in Decisions,
               Create(ProcessOf[t], Chat(t), d, [Payload(t) EXCEPT !.deadline = now + TTL])
        PROVE  AD!Propose(d)
    BY <1>1, <2>1, <2>3, CreateProposes
  <2> QED
    BY <1>4, <2>2, <2>3 DEF PreflightCreate, AD!ANext
<1>5. ASSUME ApproveUpdate(t) PROVE [AD!ANext]_AD!avars
  <2>1. Id(t) \in Decisions /\ Payload(t) \in Payloads /\ dispatches' = dispatches
    BY <1>1, <1>5 DEF ApproveUpdate, At, Naming, Loaded, Approving, rest
  <2>2. Payload(t).lease # NoLease /\ (Open(Id(t)) => ~Stopped(Chat(t)))
    BY <1>5 DEF ApproveUpdate, At, Fits, Shaped, Unstopped, Id, Chat, Payload
  <2>3. Payload(t) \in Granted
    BY <2>1, <2>2, InferenceAssumption DEF InferenceAssumption, Approved
  <2> QED
    BY <1>1, <1>3, <1>5, <2>1, <2>2, <2>3, UpdateClears DEF ApproveUpdate, AD!ANext
<1>6. ASSUME InvokeClaim(t) PROVE [AD!ANext]_AD!avars
  <2>1. Id(t) \in Decisions /\ Payload(t) \in Payloads /\ dispatches' = dispatches
    BY <1>1, <1>6 DEF InvokeClaim, At, Naming, Loaded, Holding, Matched, rest
  <2>2. Payload(t).lease # NoLease /\ (Open(Id(t)) => ~Stopped(Chat(t)))
    BY <1>6 DEF InvokeClaim, At, Fits, Shaped, Holding, Matched, Unstopped, Id, Chat, Payload
  <2>3. Payload(t) \in Granted
    BY <2>1, <2>2, InferenceAssumption DEF InferenceAssumption, Approved
  <2>4. ASSUME Claim(ProcessOf[t], Chat(t), Id(t), Payload(t)) PROVE AD!ANext
    <3>1. Open(Id(t))
      BY <2>4 DEF Claim, Loadable, Open
    <3> QED
      BY <1>1, <2>1, <2>2, <2>3, <2>4, <3>1, ClaimClaims
  <2> QED
    BY <1>3, <1>6, <2>1, <2>4 DEF InvokeClaim
<1>7. ASSUME InvokeAdmit(t) PROVE [AD!ANext]_AD!avars
  <2>1. Id(t) \in Decisions /\ Id(t) \in started /\ dispatches[Id(t)] = 0
    BY <1>1, <1>7 DEF Fits, Owns, Authorised, Naming, Loaded, Holding, Matched, Owning,
       InvokeAdmit, At, Id
  <2>2. CASE UNCHANGED <<storeVars, dispatches>>
    BY <1>3, <2>2
  <2>3. CASE Admit(Chat(t), Id(t), Payload(t).deadline)
             /\ dispatches' = [dispatches EXCEPT ![Id(t)] = dispatches[Id(t)] + 1]
    BY <1>1, <2>1, <2>3, AdmitSends DEF AD!ANext
  <2> QED
    BY <1>7, <2>2, <2>3 DEF InvokeAdmit
<1>8. ASSUME InvokeFinish(t) PROVE [AD!ANext]_AD!avars
  <2>1. /\ Id(t) \in Calls /\ sessions[Chat(t)].active = Id(t) /\ dispatches' = dispatches
        /\ Finish(Chat(t), Id(t))
    BY <1>1, <1>8 DEF Fits, Owns, Naming, Owning, InvokeFinish, At, Id, Chat, rest
  <2> QED
    BY <1>1, <2>1, FinishReleases DEF AD!ANext
<1>9. ASSUME InvokeKill(t) PROVE [AD!ANext]_AD!avars
  <2>1. Id(t) \in Decisions /\ dispatches' = dispatches
    BY <1>1, <1>9 DEF InvokeKill, At, Naming, rest
  <2> QED
    BY <1>1, <1>9, <2>1, InvalidateKills DEF InvokeKill, AD!ANext
<1>10. ASSUME Begins(t) PROVE [AD!ANext]_AD!avars
  BY <1>3, <1>10 DEF Begins, PreflightBegin, ApproveBegin, InvokeBegin, Load, rest
<1>11. ASSUME \/ PreflightConfig(t) \/ ApproveConfig(t) \/ InvokeConfig(t) \/ InvokeRecheck(t)
              \/ PreflightDiscover(t) \/ ApproveIssue(t) \/ ApproveAudit(t)
              \/ InvokeDiscover(t) \/ InvokeConsume(t) \/ InvokeEvidence(t) \/ InvokePost(t)
              \/ StorageFault(t)
       PROVE  [AD!ANext]_AD!avars
  BY <1>1, <1>3, <1>11 DEF PreflightConfig, ApproveConfig, InvokeConfig, InvokeRecheck, Config,
     PreflightDiscover, ApproveIssue, ApproveAudit, InvokeDiscover, InvokeConsume,
     InvokeEvidence, InvokePost, StorageFault, rest
<1> QED
  BY <1>4, <1>5, <1>6, <1>7, <1>8, <1>9, <1>10, <1>11 DEF Turn, Step

LEMMA WorldRefines ==
  ASSUME InferenceInduction, World \/ UNCHANGED vars
  PROVE  [AD!ANext]_AD!avars
<1> USE PhasesTyped DEF InferenceInduction
<1>1. dispatches' = dispatches
  BY DEF World, Crash, Others, RevokeLeases, Drift, Clock, vars, rest
<1>2. ASSUME NEW c \in Chats, RevokeScope(c) \/ ResumeScope(c) PROVE [AD!ANext]_AD!avars
  <2>1. ProfileOf[c] \in Profiles
    BY StoreAssumption DEF StoreAssumption
  <2> QED
    BY <1>1, <1>2, <2>1, ControlSwitches DEF RevokeScope, ResumeScope, AD!ANext
<1>3. ASSUME NEW c \in Chats, NEW d \in Decisions, Invalidate(c, d)
      PROVE  [AD!ANext]_AD!avars
  BY <1>1, <1>3, InvalidateKills DEF AD!ANext
<1>4. ASSUME NEW c \in Chats, NEW n \in Natives,
             BeginNative(c, n) \/ (sessions[c].active = n /\ Finish(c, n))
      PROVE  [AD!ANext]_AD!avars
  BY <1>1, <1>4, NativeCharges, FinishReleases DEF Calls, AD!ANext
<1>5. CASE Others
  BY <1>2, <1>3, <1>4, <1>5 DEF Others
<1>6. CASE ~Others
  BY <1>1, <1>6, Unseen DEF World, Crash, RevokeLeases, Drift, Clock, vars
<1> QED
  BY <1>5, <1>6

(* Every behaviour of the inference gate, its clock moving, is one of the    *)
(* life cycle the tool gate implements too: a model call is cleared, claimed *)
(* and sent at most once and in that order, within the slot and the budget   *)
(* of its chat, and dies with a stop.                                       *)
THEOREM InferenceImplementsLifeCycle == TimedSpec => ImplementsApprovedDispatch
<1>1. Init => AD!AInit
  BY StoreAssumption DEF Init, StoreInit, AD!AInit, PhaseOf
<1>2. InferenceInduction /\ [TimedNext]_vars => [AD!ANext]_AD!avars
  BY TimedSteps, TurnRefines, WorldRefines
<1> QED
  BY <1>1, <1>2, InferenceInduces, PTL DEF TimedSpec, ImplementsApprovedDispatch, AD!ASpec
=============================================================================
