---------------------------- MODULE DelegationGate ----------------------------
(***************************************************************************)
(* Governed outbound calls: src/helpers/gate.py, the native-model admission *)
(* of src/helpers/inference.py and the operator controls of                 *)
(* src/helpers/control.py, over the stores of decisions.py and leases.py.   *)
(*                                                                         *)
(* A thread is one activation of preflight, approve, invoke, a native call, *)
(* stop or resume.  Between two of its steps other threads, of the same or  *)
(* another process, may run: a step is one store transaction, one await, or *)
(* one read of the configuration, with the local tests that follow it.      *)
(* The boundary checks of transport type and observation contract are fixed *)
(* for an adapter and left out; peer, service, schema, labels and risk      *)
(* metadata are one "tool" version, passport, route, credential and         *)
(* features one "config" version, compared by equality as their hashes are. *)
(***************************************************************************)
EXTENDS DecisionPhases

CONSTANTS
  Leases, NoLease, NoBinding,
  LeaseTTL,      \* min(300, passport.limits.approval_lease_minutes * 60)
  Threads, ProcessOf,
  Tools,         \* descriptor versions SAM may report
  Conforming,    \* the versions whose schema accepts the arguments
  Configs,       \* versions of the resolved configuration
  PolicyOf,      \* passport.evaluate: [Tools \X Configs -> Outcomes]
  StartTool, StartConfig,
  FaultBudget    \* bound: storage failures and crashes in one behaviour

Outcomes == {"allow", "needs_approval", "deny"}

\* What _preflight seals: the bound observations, the outcome, the lease of a
\* later approval and the deadline create() adds (_expires_us).
Sealed ==
  [tool: Tools, config: Configs, outcome: Outcomes,
   lease: Leases \cup {NoLease}, deadline: 0..(MaxTime + TTL)]

\* Cleared by an approval recorded in it, or by a policy that asks for none.
Consented == {x \in Sealed : x.lease # NoLease \/ x.outcome = "allow"}

\* LeaseRequest: everything one approval is bound to.
Bindings == [chat: Chats, tool: Tools, config: Configs]

ASSUME GateAssumption ==
  /\ Payloads = Sealed          \* what this client of the store seals in it
  /\ Granted = Consented
  /\ Blank \notin Payloads
  /\ NoLease \notin Leases
  /\ Chats # {}
  /\ LeaseTTL \in Nat /\ FaultBudget \in Nat
  /\ ProcessOf \in [Threads -> Processes]
  /\ Conforming \subseteq Tools
  /\ PolicyOf \in [Tools \X Configs -> Outcomes]
  /\ StartTool \in Tools /\ StartConfig \in Configs

VARIABLES
  leases,
  threads,     \* the activation each thread runs
  tool,        \* the descriptor SAM reports now
  config,      \* the configuration resolve() returns now
  audit,       \* durable audit events the gate depends on: <<outcome, call>>
  faults       \* storage failures and crashes left

LS == INSTANCE LeaseStore WITH Bindings <- Bindings, MaxUses <- 1

world == <<tool, config>>
rest == <<audit, faults, dispatches>>
vars == <<storeVars, leases, threads, world, rest>>

InvokePC == {"load", "describe", "resolve", "policy", "recheck", "claim",
             "consume", "evidence", "admit", "call", "finish", "kill"}
PreflightPC == {"p_describe", "p_policy", "p_outcome", "p_create", "p_evidence", "p_kill"}
ApprovePC == {"a_boundary", "a_issue", "a_evidence", "a_update"}
ControlPC == {"s_leases", "r_evidence", "r_open"}
PCs == {"idle"} \cup InvokePC \cup PreflightPC \cup ApprovePC \cup ControlPC

ThreadState ==
  [pc: PCs, chat: Chats, id: Calls \cup {NoCall}, payload: Payloads \cup {Blank},
   tool: Tools, config: Configs]

Idle ==
  [pc |-> "idle", chat |-> CHOOSE c \in Chats : TRUE, id |-> NoCall,
   payload |-> Blank, tool |-> StartTool, config |-> StartConfig]

GateTypeOK ==
  /\ StoreTypeOK
  /\ LS!LeaseTypeOK
  /\ threads \in [Threads -> ThreadState]
  /\ tool \in Tools /\ config \in Configs
  /\ audit \subseteq {"preflight", "approval", "dispatch", "admitted"} \X Calls
  /\ faults \in Nat
  /\ dispatches \in [Decisions -> Nat]

Init ==
  /\ StoreInit
  /\ LS!LeaseInit
  /\ threads = [t \in Threads |-> Idle]
  /\ tool = StartTool /\ config = StartConfig
  /\ audit = {}
  /\ faults = FaultBudget
  /\ dispatches = [d \in Decisions |-> 0]

-----------------------------------------------------------------------------
At(t, pc) == threads[t].pc = pc
Goto(t, pc) == threads' = [threads EXCEPT ![t].pc = pc]
Return(t) == threads' = [threads EXCEPT ![t] = Idle]
Begin(t, pc, c, x) ==
  threads' = [threads EXCEPT ![t] =
    [Idle EXCEPT !.pc = pc, !.chat = c, !.id = x, !.config = config]]

Chat(t) == threads[t].chat
Id(t) == threads[t].id
Payload(t) == threads[t].payload
Proc(t) == ProcessOf[t]
Binding(t) == [chat |-> Chat(t), tool |-> threads[t].tool, config |-> threads[t].config]
Policy(t) == PolicyOf[<<threads[t].tool, threads[t].config>>]

-----------------------------------------------------------------------------
(* preflight(): the first disabled() check. *)
PreflightBegin(t, c) ==
  /\ At(t, "idle")
  /\ Read(c)
  /\ IF Stopped(c) THEN Return(t) ELSE Begin(t, "p_describe", c, NoCall)
  /\ UNCHANGED <<leases, world, rest>>

(* await describe(): an answer, or an error that ends the preflight. *)
PreflightDescribe(t) ==
  /\ At(t, "p_describe")
  /\ \/ threads' = [threads EXCEPT ![t].tool = tool, ![t].pc = "p_policy"]
     \/ Return(t)
  /\ UNCHANGED <<storeVars, leases, world, rest>>

(* _policy(): the arguments are validated only when the barrier is open. *)
PreflightPolicy(t) ==
  /\ At(t, "p_policy")
  /\ Read(Chat(t))
  /\ IF Stopped(Chat(t)) \/ threads[t].tool \in Conforming
     THEN Goto(t, "p_outcome") ELSE Return(t)
  /\ UNCHANGED <<leases, world, rest>>

(* The second boundary check decides the outcome that is sealed. *)
PreflightOutcome(t) ==
  /\ At(t, "p_outcome")
  /\ Read(Chat(t))
  /\ threads' = [threads EXCEPT
       ![t].pc = "p_create",
       ![t].payload = [tool |-> threads[t].tool, config |-> threads[t].config,
                       outcome |-> IF Stopped(Chat(t)) THEN "deny" ELSE Policy(t),
                       lease |-> NoLease, deadline |-> 0]]
  /\ UNCHANGED <<leases, world, rest>>

(* decisions.create(); decision_quota_exceeded (or, in the model, no        *)
(* identifier left) ends the preflight.                                     *)
PreflightCreate(t) ==
  /\ At(t, "p_create")
  /\ \/ \E d \in Decisions :
          LET sealed == [Payload(t) EXCEPT !.deadline = now + TTL]
          IN  /\ Create(Proc(t), Chat(t), d, sealed)
              /\ threads' = [threads EXCEPT ![t].pc = "p_evidence", ![t].id = d,
                                            ![t].payload = sealed]
     \/ /\ \/ Cardinality(Stored(Chat(t)) \ Lapsed(Chat(t))) >= DecisionQuota
           \/ \A d \in Decisions : ScopeOf[d] = Chat(t) => decisions[d].state # "absent"
        /\ Return(t)
        /\ UNCHANGED storeVars
  /\ UNCHANGED <<leases, world, rest>>

PreflightEvidence(t) ==
  /\ At(t, "p_evidence")
  /\ audit' = audit \cup {<<"preflight", Id(t)>>}
  /\ Return(t)
  /\ UNCHANGED <<storeVars, leases, world, faults, dispatches>>

(* The audit failed: the decision nobody was told of is invalidated. *)
PreflightKill(t) ==
  /\ At(t, "p_kill")
  /\ Invalidate(Chat(t), Id(t))
  /\ Return(t)
  /\ UNCHANGED <<leases, world, rest>>

-----------------------------------------------------------------------------
(* approve(): resolve() and decisions.load(). *)
ApproveBegin(t, c, d) ==
  /\ At(t, "idle")
  /\ Load(Proc(t), c, d)
  /\ threads' = [threads EXCEPT ![t] =
       [pc |-> "a_boundary", chat |-> c, id |-> d, payload |-> decisions[d].payload,
        tool |-> decisions[d].payload.tool, config |-> config]]
  /\ UNCHANGED <<leases, world, rest>>

(* The boundary check, then the refusals that need no store. *)
ApproveBoundary(t) ==
  /\ At(t, "a_boundary")
  /\ Read(Chat(t))
  /\ IF /\ ~Stopped(Chat(t))
        /\ Payload(t).outcome = "needs_approval"
        /\ Payload(t).lease = NoLease
        /\ Payload(t).config = threads[t].config
     THEN Goto(t, "a_issue") ELSE Return(t)
  /\ UNCHANGED <<leases, world, rest>>

ApproveIssue(t) ==
  /\ At(t, "a_issue")
  /\ \/ \E l \in Leases :
          /\ LS!Issue(l, Chat(t), Binding(t), LeaseTTL)
          /\ threads' = [threads EXCEPT ![t].pc = "a_evidence", ![t].payload.lease = l]
     \/ /\ \A l \in Leases : leases[l].state # "absent"   \* bound: none left
        /\ Return(t) /\ UNCHANGED leases
  /\ UNCHANGED <<storeVars, world, rest>>

ApproveEvidence(t) ==
  /\ At(t, "a_evidence")
  /\ audit' = audit \cup {<<"approval", Id(t)>>}
  /\ Goto(t, "a_update")
  /\ UNCHANGED <<storeVars, leases, world, faults, dispatches>>

ApproveUpdate(t) ==
  /\ At(t, "a_update")
  /\ \/ Update(Proc(t), Chat(t), Id(t), Payload(t))
     \/ ~Loadable(Proc(t), Chat(t), Id(t)) /\ UNCHANGED storeVars
  /\ Return(t)
  /\ UNCHANGED <<leases, world, rest>>

-----------------------------------------------------------------------------
(* invoke(): the boundary check before anything else. *)
InvokeBegin(t, c, d) ==
  /\ At(t, "idle")
  /\ Read(c)
  /\ IF Stopped(c) THEN Return(t) ELSE Begin(t, "load", c, d)
  /\ UNCHANGED <<leases, world, rest>>

InvokeLoad(t) ==
  /\ At(t, "load")
  /\ \/ /\ Load(Proc(t), Chat(t), Id(t))
        /\ threads' = [threads EXCEPT ![t].pc = "describe",
                                      ![t].payload = decisions[Id(t)].payload]
     \/ ~Loadable(Proc(t), Chat(t), Id(t)) /\ Return(t) /\ UNCHANGED storeVars
  /\ UNCHANGED <<leases, world, rest>>

(* await describe(): an answer, an unusable answer, or no answer. *)
InvokeDescribe(t) ==
  /\ At(t, "describe")
  /\ \/ threads' = [threads EXCEPT ![t].tool = tool, ![t].pc = "resolve"]
     \/ Goto(t, "kill")
     \/ Return(t)
  /\ UNCHANGED <<storeVars, leases, world, rest>>

(* The observation, then the fresh configuration, against the sealed ones. *)
InvokeResolve(t) ==
  /\ At(t, "resolve")
  /\ threads' = [threads EXCEPT ![t].config = config,
       ![t].pc = IF threads[t].tool = Payload(t).tool /\ config = Payload(t).config
                 THEN "policy" ELSE "kill"]
  /\ UNCHANGED <<storeVars, leases, world, rest>>

\* Mutant: the arguments are validated at preflight only.
InvokePolicyOnce(t) ==
  /\ At(t, "policy")
  /\ Read(Chat(t))
  /\ Goto(t, "recheck")
  /\ UNCHANGED <<leases, world, rest>>

(* _policy() under whatever the barrier says now.  An unsupported schema     *)
(* kills the decision, arguments that do not fit it only end the call.       *)
InvokePolicy(t) ==
  /\ At(t, "policy")
  /\ Read(Chat(t))
  /\ IF Stopped(Chat(t)) \/ threads[t].tool \in Conforming
     THEN Goto(t, "recheck") ELSE Goto(t, "kill") \/ Return(t)
  /\ UNCHANGED <<leases, world, rest>>

\* Mutant: a missing approval is noticed at preflight only.
RecheckForgetsApproval(t) ==
  /\ At(t, "recheck")
  /\ Read(Chat(t))
  /\ IF ~Stopped(Chat(t)) /\ Policy(t) # "deny" /\ Payload(t).outcome # "deny"
     THEN Goto(t, "claim") ELSE Return(t)
  /\ UNCHANGED <<leases, world, rest>>

InvokeRecheck(t) ==
  /\ At(t, "recheck")
  /\ Read(Chat(t))
  /\ IF /\ ~Stopped(Chat(t))
        /\ Policy(t) # "deny" /\ Payload(t).outcome # "deny"
        /\ Policy(t) = "needs_approval" => Payload(t).lease # NoLease
     THEN Goto(t, "claim") ELSE Return(t)
  /\ UNCHANGED <<leases, world, rest>>

ClaimRefused(t) ==
  \/ ~Loadable(Proc(t), Chat(t), Id(t))
  \/ decisions[Id(t)].payload # Payload(t)
  \/ sessions[Chat(t)].disabled
  \/ sessions[Chat(t)].active # NoCall
  \/ sessions[Chat(t)].calls >= CallLimit

InvokeClaim(t) ==
  /\ At(t, "claim")
  /\ \/ /\ Claim(Proc(t), Chat(t), Id(t), Payload(t))
        /\ Goto(t, IF Policy(t) = "needs_approval" THEN "consume" ELSE "evidence")
     \/ ClaimRefused(t) /\ Return(t) /\ UNCHANGED storeVars
  /\ UNCHANGED <<leases, world, rest>>

\* Mutant: a refused lease returns past the finally block.
ConsumeLeaksSlot(t) ==
  /\ At(t, "consume")
  /\ \/ LS!Consume(Payload(t).lease, Binding(t)) /\ Goto(t, "evidence")
     \/ /\ ~LS!Consumable(Payload(t).lease, Binding(t))
        /\ Return(t) /\ UNCHANGED leases
  /\ UNCHANGED <<storeVars, world, rest>>

InvokeConsume(t) ==
  /\ At(t, "consume")
  /\ \/ LS!Consume(Payload(t).lease, Binding(t)) /\ Goto(t, "evidence")
     \/ /\ ~LS!Consumable(Payload(t).lease, Binding(t))
        /\ Goto(t, "finish") /\ UNCHANGED leases
  /\ UNCHANGED <<storeVars, world, rest>>

(* No evidence, no dispatch: a failed append is a StorageFault. *)
InvokeEvidence(t) ==
  /\ At(t, "evidence") /\ Id(t) \in Decisions
  /\ audit' = audit \cup {<<"dispatch", Id(t)>>}
  /\ Goto(t, "admit")
  /\ UNCHANGED <<storeVars, leases, world, faults, dispatches>>

AdmitRefused(t) ==
  \/ now >= Payload(t).deadline
  \/ Stopped(Chat(t))
  \/ sessions[Chat(t)].active # Id(t)
  \/ \E a \in admissions : a.id = Id(t)

InvokeAdmit(t) ==
  /\ At(t, "admit")
  /\ \/ /\ Admit(Chat(t), Id(t), Payload(t).deadline)
        /\ Goto(t, "call")
        /\ dispatches' = [dispatches EXCEPT ![Id(t)] = dispatches[Id(t)] + 1]
     \/ AdmitRefused(t) /\ Goto(t, "finish") /\ UNCHANGED <<storeVars, dispatches>>
  /\ UNCHANGED <<leases, world, audit, faults>>

\* Mutant: an ambiguous failure is retried.
CallRetried(t) ==
  /\ At(t, "call")
  /\ Goto(t, "finish")
  /\ dispatches' = IF Id(t) \in Decisions
                   THEN [dispatches EXCEPT ![Id(t)] = dispatches[Id(t)] + 1] ELSE dispatches
  /\ UNCHANGED <<storeVars, leases, world, audit, faults>>

(* await adapter.call() or the native model: answered, failed, timed out or *)
(* cancelled, the finally block is next.                                    *)
Call(t) ==
  /\ At(t, "call")
  /\ Goto(t, "finish")
  /\ UNCHANGED <<storeVars, leases, world, rest>>

Release(t) ==
  /\ At(t, "finish")
  /\ Finish(Chat(t), Id(t))
  /\ Return(t)
  /\ UNCHANGED <<leases, world, rest>>

InvokeKill(t) ==
  /\ At(t, "kill")
  /\ Invalidate(Chat(t), Id(t))
  /\ Return(t)
  /\ UNCHANGED <<leases, world, rest>>

-----------------------------------------------------------------------------
(* GovernedNativeModel._call(): disabled() and begin_native(), merged as     *)
(* begin_native() repeats the check; then the audit event, then the call.    *)
NativeBegin(t, c, n) ==
  /\ At(t, "idle")
  /\ BeginNative(c, n)
  /\ Begin(t, "evidence", c, n)
  /\ UNCHANGED <<leases, world, rest>>

NativeEvidence(t) ==
  /\ At(t, "evidence") /\ Id(t) \in Natives
  /\ audit' = audit \cup {<<"admitted", Id(t)>>}
  /\ Goto(t, "call")
  /\ UNCHANGED <<storeVars, leases, world, faults, dispatches>>

-----------------------------------------------------------------------------
(* control.stop_scope(): the barrier, then the leases; the audit event that  *)
(* follows can only degrade the answer.                                     *)
StopBegin(t, c) ==
  /\ At(t, "idle")
  /\ RevokeScope(c)
  /\ Begin(t, "s_leases", c, NoCall)
  /\ UNCHANGED <<leases, world, rest>>

StopLeases(t) ==
  /\ At(t, "s_leases")
  /\ LS!RevokeProfile(Chat(t))
  /\ Return(t)
  /\ UNCHANGED <<storeVars, world, rest>>

(* control.resume_scope(): leases, audit, and only then the barrier. *)
ResumeBegin(t, c) ==
  /\ At(t, "idle")
  /\ control[ProfileOf[c]].generation < MaxGeneration
  /\ LS!RevokeProfile(c)
  /\ Begin(t, "r_evidence", c, NoCall)
  /\ UNCHANGED <<storeVars, world, rest>>

ResumeEvidence(t) ==
  /\ At(t, "r_evidence")
  /\ Goto(t, "r_open")
  /\ UNCHANGED <<storeVars, leases, world, rest>>

ResumeOpen(t) ==
  /\ At(t, "r_open")
  /\ ResumeScope(Chat(t))
  /\ Return(t)
  /\ UNCHANGED <<leases, world, rest>>

(* The "revoke" action of control_api.py: one transaction of the operator.   *)
Revoke(c, d) ==
  /\ decisions[d].state = "open"
  /\ Invalidate(c, d)
  /\ UNCHANGED <<leases, threads, world, rest>>

-----------------------------------------------------------------------------
\* Mutant: a failed audit of the approval, or of the dispatch, is passed over.
OnFaultUnaudited ==
  [pc \in PCs |->
     CASE pc \in {"consume", "admit"} -> "finish"
       [] pc = "p_evidence" -> "p_kill"
       [] pc = "a_evidence" -> "a_update"
       [] pc = "evidence" -> "admit"
       [] OTHER -> "idle"]

(* A store operation raises: where each step continues. *)
OnFault ==
  [pc \in PCs |->
     CASE pc \in {"consume", "evidence", "admit"} -> "finish"
       [] pc = "p_evidence" -> "p_kill"
       [] OTHER -> "idle"]
Faulty == PCs \ {"idle", "describe", "resolve", "call", "p_describe"}

StorageFault(t) ==
  /\ faults > 0
  /\ threads[t].pc \in Faulty
  /\ faults' = faults - 1
  /\ LET next == OnFault[threads[t].pc]
     IN  IF next = "idle" THEN Return(t) ELSE Goto(t, next)
  /\ UNCHANGED <<storeVars, leases, world, audit, dispatches>>

(* The process dies: its activations and its key are gone, its rows are not. *)
Crash(p) ==
  /\ faults > 0
  /\ faults' = faults - 1
  /\ Rotate(p)
  /\ threads' = [t \in Threads |-> IF ProcessOf[t] = p THEN Idle ELSE threads[t]]
  /\ UNCHANGED <<leases, world, audit, dispatches>>

(* hooks.stop_runtime(): the key is replaced under running activations. *)
LoseKey(p) ==
  /\ Rotate(p)
  /\ UNCHANGED <<leases, threads, world, rest>>

Clock ==
  /\ Tick
  /\ UNCHANGED <<leases, threads, world, rest>>

ToolDrift ==
  /\ tool' \in Tools \ {tool}
  /\ UNCHANGED <<storeVars, leases, threads, config, rest>>

ConfigDrift ==
  /\ config' \in Configs \ {config}
  /\ UNCHANGED <<storeVars, leases, threads, tool, rest>>

-----------------------------------------------------------------------------
PreflightStep(t) ==
  \/ PreflightDescribe(t) \/ PreflightPolicy(t) \/ PreflightOutcome(t)
  \/ PreflightCreate(t) \/ PreflightEvidence(t) \/ PreflightKill(t)

ApproveStep(t) ==
  \/ ApproveBoundary(t) \/ ApproveIssue(t) \/ ApproveEvidence(t) \/ ApproveUpdate(t)

InvokeStep(t) ==
  \/ InvokeLoad(t) \/ InvokeDescribe(t) \/ InvokeResolve(t) \/ InvokePolicy(t)
  \/ InvokeRecheck(t) \/ InvokeClaim(t) \/ InvokeConsume(t) \/ InvokeEvidence(t)
  \/ NativeEvidence(t) \/ InvokeAdmit(t) \/ Call(t) \/ Release(t) \/ InvokeKill(t)

ControlStep(t) == StopLeases(t) \/ ResumeEvidence(t) \/ ResumeOpen(t)

Step(t) == PreflightStep(t) \/ ApproveStep(t) \/ InvokeStep(t) \/ ControlStep(t)

Request(t) ==
  \/ \E c \in Chats : PreflightBegin(t, c) \/ StopBegin(t, c) \/ ResumeBegin(t, c)
  \/ \E c \in Chats, d \in Decisions : ApproveBegin(t, c, d) \/ InvokeBegin(t, c, d)
  \/ \E c \in Chats, n \in Natives : NativeBegin(t, c, n)

Environment ==
  \/ \E c \in Chats, d \in Decisions : Revoke(c, d)
  \/ \E p \in Processes : LoseKey(p) \/ Crash(p)
  \/ Clock \/ ToolDrift \/ ConfigDrift

Next ==
  \/ \E t \in Threads : Request(t) \/ Step(t) \/ StorageFault(t)
  \/ Environment

Spec == Init /\ [][Next]_vars

(***************************************************************************)
(* An activation that has begun goes on: SQLite waits are bounded by the    *)
(* busy timeout, every await by asyncio.timeout or the client's timeout.    *)
(* Nothing obliges anybody to begin an operation, nor anything to fail.     *)
(***************************************************************************)
FairSpec == Spec /\ \A t \in Threads : WF_vars(Step(t))

-----------------------------------------------------------------------------
InFlight(t) == At(t, "call")

(***************************************************************************)
(* One decision is dispatched at most once, whatever threads, processes,    *)
(* crashes, key losses, storage failures, stops and resumes do (gate.py     *)
(* invoke: "one-shot invocation"; the plugin never retries a mutation).     *)
(***************************************************************************)
AtMostOneDispatch == \A d \in Decisions : dispatches[d] <= 1

(***************************************************************************)
(* Every call in flight is a row of gate_admissions that holds its chat's   *)
(* slot.  So a stop never understates "already_admitted", and a tool call   *)
(* and a native call of one chat never overlap (decisions.py revoke_scope,  *)
(* admit, begin_native, finish).                                           *)
(***************************************************************************)
InFlightIsAdmitted ==
  \A t \in Threads : InFlight(t) =>
    /\ \E a \in admissions : a.id = Id(t) /\ a.profile = ProfileOf[Chat(t)]
    /\ sessions[Chat(t)].active = Id(t)

(***************************************************************************)
(* No call leaves without durable evidence, and one that needs approval     *)
(* leaves only with an audited approval of this very decision and the one   *)
(* use of a lease bound to what was sealed (gate.py invoke, _approve).      *)
(***************************************************************************)
DispatchIsAuthorised ==
  \A d \in Decisions : dispatches[d] > 0 =>
    LET sealed == decisions[d].payload
    IN  /\ <<"dispatch", d>> \in audit
        /\ PolicyOf[<<sealed.tool, sealed.config>>] # "deny"
        /\ PolicyOf[<<sealed.tool, sealed.config>>] = "needs_approval" =>
             /\ <<"approval", d>> \in audit
             /\ sealed.lease \in Leases
             /\ leases[sealed.lease].uses = 1
             /\ leases[sealed.lease].binding =
                  [chat |-> ScopeOf[d], tool |-> sealed.tool, config |-> sealed.config]

(***************************************************************************)
(* A call in flight was described, configured and validated as the decision *)
(* sealed it, although SAM and the configuration may change at every await  *)
(* and _policy skips the validation while the barrier is closed (gate.py    *)
(* invoke, _policy).                                                       *)
(***************************************************************************)
DispatchIsValidated ==
  \A t \in Threads : InFlight(t) /\ Id(t) \in Decisions =>
    /\ threads[t].tool \in Conforming
    /\ threads[t].tool = decisions[Id(t)].payload.tool
    /\ threads[t].config = decisions[Id(t)].payload.config

(***************************************************************************)
(* While a profile is stopped, none of its decisions is both usable and     *)
(* approved: an approval racing the stop either fails or dies with it       *)
(* (gate.py _approve against decisions.py revoke_scope).                   *)
(***************************************************************************)
StopKillsApprovals ==
  \A d \in Decisions :
    decisions[d].state = "open" /\ control[ProfileOfCall(d)].stopped =>
      decisions[d].payload.lease = NoLease

(***************************************************************************)
(* While a profile is stopped no decision of it is claimed and no call of   *)
(* it is admitted, even one whose checks all passed before the stop         *)
(* (decisions.py claim, admit, begin_native).                              *)
(***************************************************************************)
NothingBeginsWhileStopped ==
  [][\A x \in Calls :
       \/ x \notin started /\ x \in started'
       \/ x \notin {a.id : a \in admissions} /\ x \in {a.id : a \in admissions'}
       => ~control[ProfileOfCall(x)].stopped]_vars

(***************************************************************************)
(* What holds between any two steps of any activation.                      *)
(***************************************************************************)
GateInvariant == GateTypeOK /\ InFlightIsAdmitted /\ StopKillsApprovals

(***************************************************************************)
(* Without crashes or storage failures a chat's slot is never lost: whoever *)
(* holds it lets go (the finally blocks of gate.py invoke and inference.py  *)
(* _call).                                                                 *)
(***************************************************************************)
SlotIsReleased ==
  \A c \in Chats : (sessions[c].active # NoCall) ~> (sessions[c].active = NoCall)

(***************************************************************************)
(* "Resume invalidates every old decision for that profile"                 *)
(* (docs/security.md), "without restoring decisions" (decisions.py): a call *)
(* is admitted in the control generation its decision was created in.       *)
(***************************************************************************)
AdmittedIsCurrent ==
  \A a \in admissions : a.id \in Decisions => a.generation = born[a.id]
=============================================================================
