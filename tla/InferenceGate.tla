----------------------------- MODULE InferenceGate -----------------------------
(***************************************************************************)
(* Approved model calls with a named recipient: src/helpers/inference_gate  *)
(* .py, over the stores of decisions.py and leases.py that the tool gate    *)
(* uses too (DelegationGate).  An activation serves one API request: it     *)
(* opens a client with the configuration of that moment and resolves the    *)
(* configuration anew at every check.  A step is one store transaction, one *)
(* await or one read of the configuration with the tests that follow it.    *)
(* The payload is the data class and what the approval is bound to; a proxy *)
(* other than the node's own for that peer and service is no route at all.  *)
(***************************************************************************)
EXTENDS DecisionPhases

CONSTANTS
  Leases, NoLease, NoBinding, LeaseTTL,
  Threads, ProcessOf,
  Classes,       \* data classes in the order of DataClass; 0 is "public"
  Configs,       \* versions of the resolved configuration
  Enabled,       \* those with features.mesh_inference and inference.enabled
  Sensitive,     \* those whose sensitive_data is not "deny"
  CeilingOf,     \* outbound.max_data_class
  SealOf,        \* route_hash() and passport.version_hash()
  NodeOf,        \* transport.base_url: the node a client talks to
  Nodes, StartConfig,
  FaultBudget    \* bound: storage failures and crashes

Seals == {SealOf[k] : k \in Configs}
Sealed ==
  [route: Nodes, seal: Seals, class: Classes, lease: Leases \cup {NoLease},
   deadline: 0..(MaxTime + TTL)]
Approved == {x \in Sealed : x.lease # NoLease}
Bindings == [chat: Chats, route: Nodes, seal: Seals, class: Classes]

ASSUME InferenceAssumption ==
  /\ Payloads = Sealed          \* what this client of the store seals in it
  /\ Granted = Approved         \* every model call waits for an approval
  /\ Blank \notin Payloads
  /\ NoLease \notin Leases
  /\ Chats # {}
  /\ LeaseTTL \in Nat /\ FaultBudget \in Nat
  /\ ProcessOf \in [Threads -> Processes]
  /\ Classes \subseteq Nat
  /\ Enabled \subseteq Configs /\ Sensitive \subseteq Configs /\ StartConfig \in Configs
  /\ CeilingOf \in [Configs -> Classes] /\ NodeOf \in [Configs -> Nodes]

VARIABLES
  leases,
  threads,   \* the request each thread serves
  config,    \* the configuration resolve() returns now
  audit,     \* stored approvals and admissions: <<outcome, decision>>
  faults

LS == INSTANCE LeaseStore WITH MaxUses <- 1

rest == <<audit, faults, dispatches>>
vars == <<storeVars, leases, threads, config, rest>>

ReadPC == {"p_config", "a_config", "config", "recheck"}
WritePC == {"p_create", "a_update", "claim", "consume", "admit", "finish", "kill"}
AuditPC == {"a_audit", "evidence"}
PCs == {"idle", "p_discover", "discover", "a_issue", "post"} \cup ReadPC \cup WritePC \cup AuditPC

Idle ==
  [pc |-> "idle", chat |-> CHOOSE c \in Chats : TRUE, id |-> NoCall, payload |-> Blank,
   client |-> StartConfig, config |-> StartConfig, route |-> NodeOf[StartConfig]]
ThreadState ==
  [pc: PCs, chat: Chats, id: Decisions \cup {NoCall}, payload: Payloads \cup {Blank},
   client: Configs, config: Configs, route: Nodes]

Init ==
  /\ StoreInit /\ LS!LeaseInit
  /\ threads = [t \in Threads |-> Idle]
  /\ config = StartConfig
  /\ audit = {} /\ faults = FaultBudget
  /\ dispatches = [d \in Decisions |-> 0]

-----------------------------------------------------------------------------
At(t, pc) == threads[t].pc = pc
Goto(t, pc) == threads' = [threads EXCEPT ![t].pc = pc]
Return(t) == threads' = [threads EXCEPT ![t] = Idle]
Unwind(t, pc) ==   \* only the scope and the identifier are used from here on
  threads' = [threads EXCEPT ![t] =
    [Idle EXCEPT !.pc = pc, !.chat = threads[t].chat, !.id = threads[t].id]]
Chat(t) == threads[t].chat
Id(t) == threads[t].id
Payload(t) == threads[t].payload
Audited(t, outcome) == audit' = audit \cup {<<outcome, Id(t)>>}

(* _config(): what the configuration allows to leave. *)
Permits(k, class) ==
  k \in Enabled /\ (class # 0 => k \in Sensitive) /\ class <= CeilingOf[k]

(* _config() as a whole; an error ends the request. *)
Config(t, class, next) ==
  /\ Read(Chat(t))
  /\ IF Stopped(Chat(t)) \/ ~Permits(config, class)
     THEN Return(t)
     ELSE threads' = [threads EXCEPT ![t].pc = next, ![t].config = config]

(* _binding(): everything a lease for this request is bound to. *)
Binding(t) ==
  [chat |-> Chat(t), route |-> threads[t].route, seal |-> SealOf[threads[t].config],
   class |-> Payload(t).class]

(* dispatch_control(): the client of the request, then the operation. *)
Serve(t, c, d, pc, client, payload) ==
  /\ At(t, "idle")
  /\ threads' = [threads EXCEPT ![t] =
       [Idle EXCEPT !.pc = pc, !.chat = c, !.id = d, !.client = client, !.payload = payload]]

-----------------------------------------------------------------------------
PreflightBegin(t, c, class) ==
  /\ Serve(t, c, NoCall, "p_config", config,
          [route |-> Idle.route, seal |-> SealOf[StartConfig], class |-> class,
           lease |-> NoLease, deadline |-> 0])
  /\ UNCHANGED <<storeVars, leases, config, rest>>

PreflightConfig(t) ==
  /\ At(t, "p_config")
  /\ Config(t, Payload(t).class, "p_discover")
  /\ UNCHANGED <<leases, config, rest>>

(* await discover_route(): the service listed once, under the proxy root of  *)
(* the client's own node; anything else is an error.                        *)
PreflightDiscover(t) ==
  /\ At(t, "p_discover")
  /\ \/ threads' = [threads EXCEPT ![t].pc = "p_create",
             ![t].route = NodeOf[threads[t].client],
             ![t].payload.route = NodeOf[threads[t].client],
             ![t].payload.seal = SealOf[threads[t].config]]
     \/ Return(t)
  /\ UNCHANGED <<storeVars, leases, config, rest>>

(* create(); whether the audit event that follows is stored changes only     *)
(* what the caller is told.                                                 *)
PreflightCreate(t) ==
  /\ At(t, "p_create")
  /\ \/ \E d \in Decisions :
          LET sealed == [Payload(t) EXCEPT !.deadline = now + TTL]
          IN  /\ Create(ProcessOf[t], Chat(t), d, sealed)
              /\ Return(t)
     \/ /\ \/ Cardinality(Stored(Chat(t)) \ Lapsed(Chat(t))) >= DecisionQuota
           \/ \A d \in Decisions : ScopeOf[d] = Chat(t) => decisions[d].state # "absent"
        /\ Return(t) /\ UNCHANGED storeVars
  /\ UNCHANGED <<leases, config, rest>>

-----------------------------------------------------------------------------
(* approve(): load(), which refuses a decision already approved.  It sends  *)
(* nothing through the client of its request.                               *)
ApproveBegin(t, c, d) ==
  /\ Load(ProcessOf[t], c, d)
  /\ decisions[d].payload.lease = NoLease
  /\ Serve(t, c, d, "a_config", StartConfig, decisions[d].payload)
  /\ UNCHANGED <<leases, config, rest>>

(* The sealed route under the configuration of now. *)
ApproveConfig(t) ==
  /\ At(t, "a_config")
  /\ Read(Chat(t))
  /\ IF /\ ~Stopped(Chat(t)) /\ Permits(config, Payload(t).class)
        /\ SealOf[config] = Payload(t).seal
     THEN threads' = [threads EXCEPT ![t].pc = "a_issue", ![t].config = config,
                                     ![t].route = Payload(t).route]
     ELSE Return(t)
  /\ UNCHANGED <<leases, config, rest>>

ApproveIssue(t) ==
  /\ At(t, "a_issue")
  /\ \/ \E l \in Leases :
          /\ LS!Issue(l, Chat(t), Binding(t), LeaseTTL)
          /\ threads' = [threads EXCEPT ![t].pc = "a_update", ![t].payload.lease = l]
     \/ /\ \A l \in Leases : leases[l].state # "absent"   \* bound: none left
        /\ Return(t) /\ UNCHANGED leases
  /\ UNCHANGED <<storeVars, config, rest>>

(* Recorded first and audited after it, unlike the approval of a tool.       *)
ApproveUpdate(t) ==
  /\ At(t, "a_update")
  /\ \/ Update(ProcessOf[t], Chat(t), Id(t), Payload(t)) /\ Unwind(t, "a_audit")
     \/ ~Loadable(ProcessOf[t], Chat(t), Id(t)) /\ Return(t) /\ UNCHANGED storeVars
  /\ UNCHANGED <<leases, config, rest>>

ApproveAudit(t) ==
  /\ At(t, "a_audit")
  /\ Audited(t, "approved")
  /\ Return(t)
  /\ UNCHANGED <<storeVars, leases, config, faults, dispatches>>

-----------------------------------------------------------------------------
InvokeBegin(t, c, d) ==
  /\ Load(ProcessOf[t], c, d)
  /\ decisions[d].payload.lease # NoLease
  /\ Serve(t, c, d, "config", config, decisions[d].payload)
  /\ UNCHANGED <<leases, config, rest>>

InvokeConfig(t) ==
  /\ At(t, "config")
  /\ Config(t, Payload(t).class, "discover")
  /\ UNCHANGED <<leases, config, rest>>

\* Mutant: the sealed route is used, whatever the fresh one is.
DiscoverUnused(t) ==
  /\ At(t, "discover")
  /\ \/ threads' = [threads EXCEPT ![t].pc = "recheck", ![t].route = Payload(t).route]
     \/ Unwind(t, "kill")
  /\ UNCHANGED <<storeVars, leases, config, rest>>

(* A discovery that fails, times out or is cancelled kills the decision.     *)
InvokeDiscover(t) ==
  /\ At(t, "discover")
  /\ \/ threads' = [threads EXCEPT ![t].pc = "recheck", ![t].route = NodeOf[threads[t].client]]
     \/ Unwind(t, "kill")
  /\ UNCHANGED <<storeVars, leases, config, rest>>

(* The configuration after the await, and the fresh route with it.           *)
InvokeRecheck(t) ==
  /\ At(t, "recheck")
  /\ Config(t, Payload(t).class,
       IF threads[t].route = Payload(t).route /\ SealOf[config] = Payload(t).seal
       THEN "claim" ELSE "kill")
  /\ UNCHANGED <<leases, config, rest>>

InvokeKill(t) ==
  /\ At(t, "kill")
  /\ Invalidate(Chat(t), Id(t))
  /\ Return(t)
  /\ UNCHANGED <<leases, config, rest>>

ClaimRefused(t) ==
  \/ ~Loadable(ProcessOf[t], Chat(t), Id(t))
  \/ decisions[Id(t)].payload # Payload(t)
  \/ sessions[Chat(t)].disabled \/ sessions[Chat(t)].active # NoCall
  \/ sessions[Chat(t)].calls >= CallLimit

InvokeClaim(t) ==
  /\ At(t, "claim")
  /\ \/ Claim(ProcessOf[t], Chat(t), Id(t), Payload(t)) /\ Goto(t, "consume")
     \/ ClaimRefused(t) /\ Return(t) /\ UNCHANGED storeVars
  /\ UNCHANGED <<leases, config, rest>>

InvokeConsume(t) ==
  /\ At(t, "consume")
  /\ \/ LS!Consume(Payload(t).lease, Binding(t)) /\ Goto(t, "evidence")
     \/ /\ ~LS!Consumable(Payload(t).lease, Binding(t))
        /\ Unwind(t, "finish") /\ UNCHANGED leases
  /\ UNCHANGED <<storeVars, config, rest>>

InvokeEvidence(t) ==
  /\ At(t, "evidence")
  /\ Audited(t, "admitting")
  /\ Goto(t, "admit")
  /\ UNCHANGED <<storeVars, leases, config, faults, dispatches>>

AdmitRefused(t) ==
  \/ now >= Payload(t).deadline \/ Stopped(Chat(t))
  \/ sessions[Chat(t)].active # Id(t) \/ \E a \in admissions : a.id = Id(t)

\* Mutant: the barrier is not asked before the post.
AdmitSkipped(t) ==
  /\ At(t, "admit")
  /\ Read(Chat(t)) /\ Goto(t, "post")
  /\ dispatches' = [dispatches EXCEPT ![Id(t)] = dispatches[Id(t)] + 1]
  /\ UNCHANGED <<leases, config, audit, faults>>

(* admit(), and the POST to the client's node that follows at once.          *)
InvokeAdmit(t) ==
  /\ At(t, "admit")
  /\ \/ /\ Admit(Chat(t), Id(t), Payload(t).deadline)
        /\ Goto(t, "post")
        /\ dispatches' = [dispatches EXCEPT ![Id(t)] = dispatches[Id(t)] + 1]
     \/ AdmitRefused(t) /\ Unwind(t, "finish") /\ UNCHANGED <<storeVars, dispatches>>
  /\ UNCHANGED <<leases, config, audit, faults>>

(* Answered, refused, malformed, timed out or cancelled: no retry.           *)
InvokePost(t) ==
  /\ At(t, "post")
  /\ Unwind(t, "finish")
  /\ UNCHANGED <<storeVars, leases, config, rest>>

(* The finally block: the outcome is audited, which may fail, and the slot   *)
(* is freed.                                                                *)
InvokeFinish(t) ==
  /\ At(t, "finish")
  /\ Finish(Chat(t), Id(t))
  /\ Return(t)
  /\ UNCHANGED <<leases, config, rest>>

-----------------------------------------------------------------------------
\* Mutant: a failed audit before the post is passed over.
OnFaultUnaudited(pc) ==
  CASE pc \in {"consume", "admit"} -> "finish"
    [] pc = "evidence" -> "admit"
    [] OTHER -> "idle"

(* A store operation raises: where the request continues. *)
OnFault(pc) ==
  CASE pc \in {"consume", "evidence", "admit"} -> "finish"
    [] OTHER -> "idle"

StorageFault(t) ==
  /\ faults > 0 /\ faults' = faults - 1
  /\ threads[t].pc \in ReadPC \cup WritePC \cup AuditPC \cup {"a_issue"}
  /\ LET next == OnFault(threads[t].pc)
     IN  IF next = "idle" THEN Return(t)
         ELSE IF next = "admit" THEN Goto(t, next) ELSE Unwind(t, next)
  /\ UNCHANGED <<storeVars, leases, config, audit, dispatches>>

Crash(p) ==
  /\ faults > 0 /\ faults' = faults - 1
  /\ Rotate(p)
  /\ threads' = [t \in Threads |-> IF ProcessOf[t] = p THEN Idle ELSE threads[t]]
  /\ UNCHANGED <<leases, config, audit, dispatches>>

(* The operator's stop, revocation of leases and resume, and the other calls *)
(* of the chat (DelegationGate has their steps).  The clock stands still:    *)
(* expiry is shown with the store and the tool gate.                        *)
Others ==
  /\ \/ \E c \in Chats : RevokeScope(c) \/ ResumeScope(c)
     \/ \E c \in Chats, d \in Decisions : decisions[d].state = "open" /\ Invalidate(c, d)
     \/ \E c \in Chats, n \in Natives : BeginNative(c, n)
     \/ \E c \in Chats, n \in Natives : sessions[c].active = n /\ Finish(c, n)
  /\ UNCHANGED <<leases, threads, config, rest>>
RevokeLeases ==
  /\ \E c \in Chats : LS!RevokeProfile(c)
  /\ UNCHANGED <<storeVars, threads, config, rest>>

Drift ==
  /\ config' \in Configs \ {config}
  /\ UNCHANGED <<storeVars, leases, threads, rest>>

Step(t) ==
  \/ PreflightConfig(t) \/ PreflightDiscover(t) \/ PreflightCreate(t)
  \/ ApproveConfig(t) \/ ApproveIssue(t) \/ ApproveUpdate(t) \/ ApproveAudit(t)
  \/ InvokeConfig(t) \/ InvokeDiscover(t) \/ InvokeRecheck(t) \/ InvokeKill(t)
  \/ InvokeClaim(t) \/ InvokeConsume(t) \/ InvokeEvidence(t) \/ InvokeAdmit(t)
  \/ InvokePost(t) \/ InvokeFinish(t)

Next ==
  \/ \E t \in Threads :
       \/ \E c \in Chats, class \in Classes : PreflightBegin(t, c, class)
       \/ \E c \in Chats, d \in Decisions : ApproveBegin(t, c, d) \/ InvokeBegin(t, c, d)
       \/ Step(t) \/ StorageFault(t)
  \/ \E p \in Processes : Crash(p)
  \/ Others \/ RevokeLeases \/ Drift

Spec == Init /\ [][Next]_vars

-----------------------------------------------------------------------------
InferenceTypeOK ==
  /\ StoreTypeOK /\ LS!LeaseTypeOK
  /\ threads \in [Threads -> ThreadState]
  /\ config \in Configs
  /\ audit \subseteq {"approved", "admitting"} \X Decisions
  /\ faults \in Nat
  /\ dispatches \in [Decisions -> Nat]

(***************************************************************************)
(* "Durable evidence is required before a sensitive payload can leave"      *)
(* (inference_gate.py invoke): whatever crashes, fails or is approved twice *)
(* or without its audit event, a payload leaves once, audited, and for the  *)
(* one use of a lease bound to what the operator saw.                      *)
(***************************************************************************)
SentOnEvidence ==
  \A d \in Decisions : dispatches[d] > 0 =>
    LET sealed == decisions[d].payload
    IN  /\ dispatches[d] = 1
        /\ <<"admitting", d>> \in audit
        /\ sealed.lease \in Leases
        /\ leases[sealed.lease].uses = 1
        /\ leases[sealed.lease].binding =
             [chat |-> ScopeOf[d], route |-> sealed.route, seal |-> sealed.seal,
              class |-> sealed.class]

(***************************************************************************)
(* The payload goes to the node whose route was approved, under the         *)
(* passport and credential it was approved for and a configuration that     *)
(* permits its class, although client, route and configuration are read at  *)
(* four different moments (inference_gate.py invoke; control_api.py         *)
(* dispatch_control opens the client).                                     *)
(***************************************************************************)
SentWhereApproved ==
  \A t \in Threads : At(t, "post") =>
    LET sealed == decisions[Id(t)].payload
    IN  /\ NodeOf[threads[t].client] = sealed.route
        /\ SealOf[threads[t].config] = sealed.seal
        /\ threads[t].config \in Enabled
        /\ sealed.class # 0 => threads[t].config \in Sensitive
        /\ sealed.class <= CeilingOf[threads[t].config]

=============================================================================
