# SAM Mesh: models, checks and proofs

This directory models the part of the SAM Mesh plugin whose correctness depends on order, failure,
concurrency or on many conditions meeting. It is written from the code under `src/`; a comment names
the file and the function a definition stands for. `PROJECT.json` lists, for each definition, the lines
it translates, and the components, runs, mutants, hazards and theorems.

## 1. Inventory

The plugin lives in one or more Python processes of Agent Zero. Those of one installation share a
directory with SQLite databases and the managed node's files. Inside a process the work is done by
`asyncio` tasks (several event loops, one per chat worker) and a few threads.

| component | state it keeps | operations | interacts with |
|---|---|---|---|
| decision store (`decisions.py`) | tables of decisions, sessions, control rows, admissions; the key of the process | `create load update claim begin_native admit finish invalidate revoke_scope resume_scope disabled`, key loss | every gate; shared by processes through SQLite |
| approval leases (`leases.py`) | table of leases | `issue consume revoke_profile` | the gates issue and consume; stop revokes |
| delegation gate (`gate.py`, `control.py`, `inference.py`, `control_api.py`) | none beyond the stores: each call is a sequence of transactions and awaits | `preflight approve invoke`, native model calls, stop, resume, revoke | decisions, leases, audit, SAM, configuration |
| inference gate (`inference_gate.py`) | as above, and the client each request opens | preflight, approve, invoke of a named model | decisions, leases, audit, configuration |
| audit chain (`audit.py`) | per scope a head and numbered rows in a hash chain; per store object a cache of validated rows | `append list_redacted verify_chain`, retention | every gate appends |
| risk and passport policy (`risk.py`, `passport.py`, `domain.py`) | none | classification of a tool, `evaluate` | both gates, the settings |
| configuration (`config.py`, `hooks.py`) | none: stored settings and the host in, a configuration out | `validate_storage_config resolve_config`, when to ensure the node | every operation resolves it anew |
| sovereign certification (`sovereign.py`, `certify-runtime.py`) | a receipt file | issue, `certified_probe guest_probe` | the configuration resolves Sovereign under it |
| SAM client, transports (`sam_client.py`, `mcp_transport.py`, `tcp_transport.py`, `uds_transport.py`) | an MCP session, its protocol version, its validated transport | handshake, requests, streams | SAM over TCP or a Unix socket |
| capability probe, remote tools, native tools (`capabilities.py`, `native_mcp.py`, `remote_tools.py`, `tool_runtime.py`) | the answers collected so far | probe, schema check, describe, read, call, the code reported | use a client |
| embassy registry (`embassy_runtime.py`, `embassy_broker.py`) | services by name, a lock, a lifecycle task per service, maintenance | `start close close_scope close_all maintenance shutdown` | guards of the control API, session managers |
| embassy sessions (`embassy_sessions.py`) | sessions, request times per origin, running tasks, native contexts | `ask finish drain` | the broker calls it, the registry drains it |
| embassy origin (`embassy_gateway.py`, `embassy_origin.py`) | the challenge of a broker's life, the nonces seen | sign and forward; verify | between `sam-node` and the broker, by HTTP |
| managed node (`managed_node.py`, `hooks.py`) | flag, report and lock files; a supervisor thread; two child processes | `ensure stop close status` | every process of the installation |
| publication plans, storage, embassy configuration, web API, tool entry points, web interface, deployment | data or I/O | | see section 6 |

What is hard, and what makes each component right:

- **Gates and stores.** A call is a chain of separate transactions and awaits; a stop, a resume, a
  change of descriptor or of configuration, an expiry, another process, a storage failure or a crash
  may fall between any two. Right means: a decision is dispatched at most once; only on durable
  evidence, with an audited approval and an unshared lease used once, and exactly what was approved, to
  where it was approved; nothing begins while its profile is stopped; the quota counts each call once;
  the slot of a chat is neither lost nor freed for somebody else.
- **Audit.** Appends of threads and processes meet in one chain, clocks run backwards, retention cuts
  the front off, a cache remembers what was validated and is published after the commit. Right means: the
  cache never decides; an alteration is seen; what committed stays; retention is exact; and all of it together is
  one log per scope, which no other step touches.
- **Policy and settings.** Dozens of conditions, found in an order. Right means: more evidence or a
  tighter passport never lets more through, what may be saved and what resolves agree, and Sovereign
  resolves under a valid receipt only.
- **Client.** Every connection may be redirected, every answer may be lost, late, cut off or not for this
  request, sessions end, handshakes fail half way. Right means: the credential goes to a validated peer, an
  answer is that of its request, and nobody is told that a call did not run when it did.
- **Sessions.** Admission checks follow a sweep; rate windows, limits, expiry and a drain with
  deadlines run over the same tables. Right means: limits hold, a context serves one request of its
  own origin, nothing is cleaned under a request, and a drain leaves nothing behind.
- **Origin.** Proofs may be lost, repeated or late, clocks differ, brokers restart. Right means: what
  a peer asked is handled at most once, and as it asked it.
- **Registry.** Starting and draining take long and give up the lock at different points, callers are
  cancelled, guards change their answer. Right means: no lifecycle task is orphaned, a name has one
  incarnation, revoked services are drained, and after a shutdown nothing lives.
- **Managed node.** Processes agree only through a file lock, a flag file and a report. Right means:
  one supervisor, and a stop that reaches it from any process and sticks.

## 2. Plan

Order of work: what decides whether a call leaves the host first, then what decides what comes in.

| step | modules | state |
|---|---|---|
| 1 | `DecisionStore`, its proofs | done |
| 2 | `LeaseStore`, `DelegationGate`, the abstract `ApprovedDispatch` and the refinement | done |
| 3 | `EmbassySessions`, `EmbassyOrigin`, `EmbassyRegistry`, `ManagedNode` | done |
| 4 | proofs of `EmbassyOrigin` and `ManagedNode` | done |
| 5 | `InferenceGate`, a second implementation of `ApprovedDispatch` | done |
| 6 | `AuditChain`: append, retention, verification, the cache; its proofs | done |
| 7 | `PassportPolicy`, `Settings`, `Certification`, and theorems instead of runs | done |
| 8 | `SamClient` with `PinnedTransport` and `CapabilityProbe` | done |
| 9 | proofs of the gate: its invariants, and that it implements `ApprovedDispatch` | done |
| 10 | proofs of `EmbassySessions` and `EmbassyRegistry` | done |
| 11 | proofs of `InferenceGate`: its invariants, and that it implements `ApprovedDispatch` | done |
| 12 | proofs of `SamClient` and of the cache of `AuditChain` | done |
| 13 | the abstract `ServiceLifeCycle`, and that `EmbassyRegistry` implements it, checked and proved | done |
| 14 | the abstract `EventLog`, and that `AuditChain` implements it, checked and proved | done |

Modules to be proved about use no RECURSIVE operator, name their assumptions on the constants, have
one action per operation, and state invariants as conjunctions.

## 3. What is modelled

**`DecisionStore`** (`decisions.py`). Variables `decisions`, `sessions`, `control`, `admissions` are the
four tables; `keys` is the process-wide sealing key, which a restart or an uninstall replaces
(`Rotate`), `now` the wall clock, which may be set back. One action per method; a refused method is a
`Read`, since every refusal rolls its transaction back (`Touched` keeps the row a transaction creates
for its chat). `payload` is opaque: the store compares it and seals it under a key. `born` and
`started` are history.

**`LeaseStore`** (`leases.py`). The table of leases; a binding stands for the hash of all that an
approval is bound to.

**`DelegationGate`** (`gate.py`, `control.py`, `inference.py`) extends `DecisionStore`, so that its steps
are the store's operations, and takes `LeaseStore` by `INSTANCE`. A thread is one activation of an
operation with a program counter; a step is one transaction, one await or one reading of the
configuration. A descriptor is a version of the tool, a configuration a version of it, compared by
equality as the code compares their hashes; `PolicyOf` is what the policy says of each pair. `MCDelegationGate`
writes its instances down as settings, descriptors and a receipt, and its `ASSUME MCPolicyIsComputed` has
TLC compute that table from them by `Settings` and `PassportPolicy`. `StorageFault` makes any
transaction raise, and `OnFault` is what the surrounding code then does; `Crash` kills a process;
`ToolDrift` and `ConfigDrift` change the world during an await.

**`InferenceGate`** (`inference_gate.py`) is its sibling for model calls and extends the store likewise. A request
opens a client with the configuration of that moment (`NodeOf`) and resolves the configuration anew at
each check (`SealOf` is what the hashes compared can tell apart; the feature switch is not among them).

**`ApprovedDispatch`** is what both gates promise, in a page: a decision is proposed, cleared, claimed
with a slot and a unit of quota, sent while its profile runs, or dead, and a stop or resume kills what
is not sent. **`DecisionPhases`** holds the one mapping from the tables to that life cycle, which both gates
extend, and its `ImplementsApprovedDispatch` is checked and proved of each. "Cleared" (the constant `Granted`)
is each gate's own: a payload with a lease, or for the tool gate one the policy allows as it is. The tool gate
audits an approval before it records it, the inference gate after.

**`PassportPolicy`** (`risk.py`, `passport.py`, the policy step of `gate.py`), **`Certification`**
(`sovereign.py`, the receipt of `certify-runtime.py`) and **`Settings`** (`config.py`, `hooks.py`) are
functions without state. A name is the set of risks its words stand for, a pattern list the set of tools it
matches, a hash the version of what was hashed. What is kept is every condition and the order they are
tested in. They are used by the gate's instances and are the subject of theorems.

**`AuditChain`** (`audit.py`). What `BEGIN IMMEDIATE .. COMMIT` does is one step; reading the event's time
before it and publishing the validated rows after it are others. SHA-256 is injective: the hash of an event
is the sequence of payloads it covers. `Restore` puts an older copy of the database back under running
stores, `Damage` alters one column or loses one row.

**`EventLog`** is what the audit log promises: per scope a sequence of all its events, of which the first `gone`
were let go. `Extend` adds one and lets go of exactly what retention says, `TakeBack` is the older copy, `Lose` the
alteration, after which the log is refused for good. Transactions, rows, hashes, caches, stores and crashes are
gone from it. `LogOf` of `AuditChain` is the mapping: the events kept are read from the rows, and those that were
let go from what the base's hash covers, so that the mapping is a claim about the hashes, too.

**`SamClient`** (`mcp_transport.py`, `sam_client.py`, the calls of `remote_tools.py`, `tool_runtime.py` and
`capabilities.py`), with **`PinnedTransport`** (which address or inode a connection may reach) and
**`CapabilityProbe`** (what a listing of tools is taken for). A step is one request handed to the
connection, one answer or failure with all the code that follows it up to the next await, or a move of the
node. Tasks share a client; today each client of the code serves one task, and `_initialize_lock` is there
for more, which the run shows to be enough. A probe has a client of its own, as in the code, and an
`initialize` on a session that has one does not occur. An answer that cannot be used is one of two: `Garbage`,
which the code finds and raises as a `SamSchemaError` (ambiguous for a tool call), and `Undecodable`, an
`httpx.DecodingError`, or a `ValueError` or `RecursionError` of `json.loads`, which neither `_send()` nor
`_decode_json_bytes()` catches. It ends a probe without a report; a native tool reports it, in the last clause of
`execute_native()`, as `sam_unavailable`. Gated calls have a table of their own (`GateCode`), that of
`DelegationGate.invoke()` after the admission, where whatever is not understood is uncertain.

**`EmbassySessions`** (`embassy_sessions.py`, the drain in `embassy_runtime.py`). One event loop: a step
is the code between two awaits. The clean-up of production has no await in it, so that `ask()` gets from
its start to its runner in one step; the class accepts clean-ups that suspend, and `suspends` chooses
one kind for a behaviour.

**`EmbassyOrigin`** (`embassy_gateway.py`, `embassy_origin.py`). The gateway fetches the challenge of
this life of the broker, signs, forwards; proofs are a set from which any may be delivered at any time,
any number of times, with another path or body. Signatures and digests are perfect. Seconds are cut off
(`int()`), and the gateway's clock may be ahead.

**`EmbassyRegistry`** (`embassy_runtime.py`). Operations queue for the lock in order and run between
awaits. A lock that nobody holds or awaits is taken without suspending: from the guard of `start()` on to its
next await is then one stretch, which `running` keeps others out of. A lock that is handed over is the next
worker's when the loop comes to it, and anything may happen before. An incarnation is one lifecycle task. A
caller can be cancelled at each await, a guard can change its answer at any time. Requests are not modelled here: routing one changes no state of the registry, and
admission after the routing is in `EmbassySessions`. Incarnations are made in a fixed order (`CHOOSE` of
those unused): they are names for the records of the code, and which is next makes no difference.

**`ServiceLifeCycle`** is what the registry promises, in a page: a service begins, is published, leaves and
is gone, each once and in that order; a name has one living service and the process no more than `Limit`; none
is published for a chat that may not, nor once a shutdown was asked for; and the process is closed only when
nothing lives. Lock, queue, tasks, snapshots, cancellation and the marks on a record are gone from it. `PhaseOf`
and `Stage` of `EmbassyRegistry` are the mapping: an incarnation is published while it is listed and not told
to stop, leaving from then until its task has ended, whether or not its name is still listed.

**`ManagedNode`** (`managed_node.py`). Processes with a manager each, callers in them, a supervisor
thread, two children; the flag, the report and the flock are shared. `_running()` takes the flock for a
moment, so a probe is two steps.

## 4. Runs

| run | question | bounds |
|---|---|---|
| `store` | do the guarantees of the tables survive any order of operations by any client? | 2 profiles with a chat each, 2 decisions and a native call, call quota 2, room for 1 decision, 3 clock values, 3 generations, a key loss |
| `gate_faults` | do single dispatch and authorisation survive failures? | 2 processes with a thread each, 1 decision, 2 configurations, one fault or crash, a key loss, an expiry |
| `gate_refines` | does the gate implement its life cycle, are calls validated, does each slot come back? | 2 threads, 1 decision, a native call, 3 descriptors, 3 generations, no symmetry, fairness |
| `gate_resume` | finding, see below | 2 threads, 1 decision |
| `inference` | does the inference gate implement the same life cycle and send only where approved? | 2 threads, 1 decision, a foreign call in the slot, 3 configurations with 2 nodes, a stop and a resume, one failure, crash or key loss |
| `audit` | do cache, verification, history and retention agree; does the store implement `EventLog`? | 2 writers, 2 chats, 4 events, 2 rows kept, 2 clock values in any order, a cache of 2 rows, one failure, crash, restore or alteration |
| `client` | do sessions, redirects, lost answers and half handshakes stay harmless? | 2 tasks or a probe, 2 session identifiers, 3 operations, 4 listings, 2 kinds of endpoint, 4 classes of address |
| `sessions` | limits, exclusiveness, clean-up and drain | 2 requests of 2 origins, 3 identifiers, 3 clock values, both kinds of clean-up |
| `origin` | at most once and as sent | 3 calls, 2 services, 2 lives of the broker, half-second ticks, a table of 2 nonces |
| `registry` | no orphan, one incarnation, room, complete shutdown; does it implement `ServiceLifeCycle`; are revoked services drained? | 3 operations, 3 names, 2 owners, 3 incarnations, one per start, room for 2; fairness |
| `registry_maintenance` | finding, see below | 4 operations, 2 names, 2 chats of one owner, 4 incarnations; who is given the lock runs at once |
| `node` | one supervisor; stops that reach it and stick | 2 processes, 3 callers, 1 death or failed write, fairness |

Some runs check one invariant made of named parts:

- `GateInvariant`: types; `InFlightIsAdmitted` (a call on the wire is an admission that holds its slot);
  `StopKillsApprovals` (no decision of a stopped profile is open and approved).
- `SessionInvariant`: types; `ContextInUse` (for clean-ups that do not suspend: a context in use is alive).
- `RegistryInvariant`: types; `NoOrphan`; `OnePerName`; `ListedServes`; `WithinCapacity`; `ShutdownIsComplete`.
- `AuditLimits`: types and the limits of the cache (`AuditTypeOK`); `RetentionIsExact`.
- `ClientInvariant`: types; `SessionIsOpen` (a session is begun once, used only after the node was told so, and
  a failed handshake leaves no trace of it).

Why these bounds are enough: each hazard needs two actors and one disturbance. Two threads on one decision
are the smallest race for it; a foreign call or a native call is the smallest contention for a slot; two
stops and resumes the smallest sequence that leaves a generation twice; three incarnations the smallest in
which a name has an older and a newer one while another starts; four events with two kept the smallest chain
whose base moves twice; and what holds of every bound is section 5. `StoreTypeOK`, `OriginTypeOK` and
`NodeTypeOK` are proved and not run. Every property has a mutant, a plausible bug in the code it is about,
that its run detects; the mutants stand in the modules just before what they replace. Deadlock is not checked
for specifications that end by design (all budgets used, all operations done) and is for the gates, whose
threads can always begin again.

Symmetry is used for threads, scopes, decisions, leases, calls and identifiers where nothing in
the instance tells them apart (in `gate_faults` a thread moves together with its process), and never with
liveness or the gate's refinement.

**Fairness.** `FairSpec` of the gate: a thread that has begun goes on, as SQLite waits are bounded by the
busy timeout and every await by a timeout; nobody has to begin anything, and with faults no liveness is
claimed. `FairRegistrySpec`: the event loop runs what is ready, the lock is fair, a drain ends (its
deadlines; `DrainIsNeverStuck` of the sessions says it never waits for nothing), maintenance comes back.
`FairNodeSpec`: the thread of the supervisor runs and a child being reaped goes, killed if need be; nothing
is assumed of the callers.

**Assumptions about the node.** `ExecutedIsTold` takes an answer of 401, 403 or "denied", and for native reads
503, to say that the node ran nothing. Of whatever else happens after a request was handed over, a task must have
its result or failure, or be told that the call may have run.

### Findings

- `gate_resume`: a decision that was claimed before a stop passes `admit()` after the resume, since
  `admit()` looks at the stop flag and the slot only and the slot survives both. It is dispatched in a
  control generation newer than its own, whereas `docs/security.md:32` says that resume invalidates every
  old decision. `ImplementsApprovedDispatch` states what does hold: the claim was made with the profile
  running, and so is the dispatch.
- `registry_maintenance`: maintenance asks the guard of one incarnation and then closes whatever has its
  name and owner when it gets the lock. A service that was started meanwhile from another chat of the
  profile is stopped although nobody revoked it. It takes two names: the lock is held over an await only by a
  start that brings a service up, so the run has a start of `n2` hold it while the old incarnation of `n1`
  drains, with a start of `n1` and then maintenance queued behind it. `PromptSpec` leaves out schedules in which
  others run between the handing over of the lock and its taking; what it allows is a part of what the module
  does, and the counterexample a behaviour of both.

Facts seen while modelling that no run asserts:

- A native read or description that the node ran is told `sam_unavailable`, status `unreachable`, where its answer
  cannot be decoded (`mcp_transport.py:214-218`, `348-363`; `tool_runtime.py:87-89`), whereas lost and
  malformed answers are ambiguous (`mcp_transport.py:61-64`, `tests/test_sam_transport.py:504`) and
  the design (`docs/superpowers/specs/2026-08-31-a0-sam-mesh-embassy-design.md:409`) wants no failure collapsed into
  a generic one. `ExecutedIsTold` names this exception; no gated call, which may have acted, is part of it.
- `start()` returns without an error for a service that is draining, and the API then reports
  `healthy_not_published`; a waiting `close_scope` may still queue for the lock when `shutdown()` returns.
- A failed write in `ensure()` or at the end of the supervisor leaves the flock taken for the life of the
  process. Hub and node of a killed process keep their ports, so that the next `ensure()` fails while
  `stop()` answers "stopped". Of two `status()` calls after a crash, one may see the other's probe of the
  flock and answer "ready".
- `remote_mutations: "allow"` does not spare a mutation its approval, and with `"deny"` a tool of unknown
  risk still needs only one.
- The certifier may leave a volume or a network behind when the command that creates it times out.
- The guest boundary (`deploy/scripts/boundary.py`) tests only its stop event when it accepts: a connection
  whose task has not begun when a failed check closes the server is relayed until the box ends.

## 5. Proofs

The TLA+ proof system checks the theorems below for every value of the constants that satisfies the named
assumption of the module. Each argument is an invariant that is inductive: it holds initially, every action
keeps it (one lemma per action, or per kind of action), and it implies the property.

**`DecisionStoreProofs`** under `StoreAssumption` (finite sets of decisions and native calls, natural limits,
a chat for every call and a profile for every chat; nothing about their number):

1. `StoreTypeCorrect`: the tables keep their types.
2. `AdmittedHoldsSlot`: inductive with the types; `Finish` and the invalidation of a profile are the cases
   with content, as each touches either table of the pair.
3. `SpentForEver`: an action property, from `RowStep`: what each operation may do to a row.
4. `OpenDecisionsAreCurrent`: stop and resume are the only steps that change a generation and they close
   the rows of their profile, and `create` stamps the present one.
5. `ClaimedDecisionsAreSpent`: the ledger of started calls agrees with rows and slots. It is what
   makes the next one inductive: without it a `claim` might count a call twice.
6. `QuotaCountsEveryCall`: the counter of a chat is the cardinality of the set of its started calls; the
   step adds one new element to a finite set (`FiniteSetTheorems`).

**`DelegationGateProofs`**, for any number of processes, threads, decisions and leases, and any policy table:

1. `GateImplementsStore`: each step of the gate is one operation of the store or leaves its tables alone;
   the theorems of the store hold of the gate.
2. `DispatchedAtMostOnce`, `GateIsSound`, `DispatchesAreAuthorised`, `DispatchesAreValidated` and
   `NothingStartsWhileStopped` follow from one induction. Its invariant says of every activation what its
   program counter entitles it to (`Fits`: the shape of its locals, that what it loaded is what the row
   sealed, that it does not act for a stopped profile, that it owns what it claimed, that its evidence is
   recorded), of the tables that rows and leases fit each other (`RowsFit`), and between activations that
   no two own one decision (`OneOwner`) or send it (`DispatchedOnce`).

   The proof has two halves, so that it is not quadratic in the actions: what an activation relies on is
   undisturbed by any store operation of another one (the operations only move rows forward, so each part
   of `Fits` needs one argument per kind of operation); and the step an activation takes establishes `Fits`
   at its next program counter.

Its second part proves `GateImplementsLifeCycle`: every behaviour of the gate is one of
`ApprovedDispatch` under the mapping of the tables. Store operations are mapped first, then the steps of the
gate; `ApprovalHasLease` is the fact that makes "cleared" stable between the claim and the dispatch.

**`InferenceGateProofs`** under `InferenceAssumption`, for any threads, configurations, nodes and leases. The run
leaves the clock still to stay within reach; the theorems are about `TimedSpec`, in which it moves, in either
direction, between any two steps (`StillIsTimed`: every behaviour of `Spec` is one of these). The invariant
`InferenceInduction` adds to the types and to `AdmissionHoldsSlot` and `ClaimedIsSpent` of the store

- `Fits`, of an activation: `Shaped` (once it may claim, the node of its client, the route it found and the route
  that was sealed are one, and its configuration is the sealed one and permits the class), `Grounded`, `Unstopped`
  (an open decision it is about to approve or claim is of a profile that runs), `Owns` (from the claim to the end
  of the `finally` block the call is its own and the row is what it loaded) and `Authorised` (past `consume` its
  lease has had its one use, with its binding; at `admit` its evidence is stored and nothing was sent yet);
- `RowsFit`, of the tables, between activations `OneOwner` and `DispatchedOnce`, as for the tool gate, and
  `SentOnEvidence` itself.

`InferenceTypeCorrect`, `SentIsEvidenced` and `PostsGoWhereApproved` follow. `InferenceImplementsStore` and
`InferenceImplementsLifeCycle` are the refinements, the latter under the mapping of the tool gate.

**`SamClientProofs`** under `ClientAssumption`, for any tasks, session identifiers, operations and listings.
`ClientInduction` is made of

- `TablesFit`: the types, and a session of the client is one the node holds;
- `Fits`, of a task and its request: it awaits the next request of its operation, or the part of a handshake
  before it (`Shaped`), with the present session (`SessionFits`), from an address the endpoint permits and with an
  identifier that was given out (`WireFits`); how far a probe is says what it has seen (`ProbeSees`);
- `HandshakeIsHeld` and `ProbeIsAlone`: who is in a handshake has the lock, but for a probe, which has the client
  to itself from the first operation to the last;
- `IdsDiffer`: no two requests on the wire have one identifier, so that an answer has one addressee;
- `LedgerFits`: calls at the node, calls it ran and calls said not to have run were sent, and the last are none
  of the former, but for native reads whose answer could not be decoded;
- `ReportsFit`: every report made so far is of what its probe saw.

`ClientInvariantHolds`, `PeersAreAllowed`, `ExecutedCallsAreTold`, `AnswersAreOwn` and `ReportsAreSeen` follow.
Cases with content are the end of a handshake, which may find no request that already used a session; the failure
of a call, where `CodesAre` says for each kind of error and either table what is told of it; and the end of a
probe, where "verified" must mean the only tool of its name.

**`AuditChainProofs`** under `AuditAssumption`, for any scopes, stores, writers, limits and clock values.
The invariant (`AuditInduction`) says that an undamaged chain verifies, holds what committed (`Recorded`) and
that no row of it was too old for any later one (`Retained`); that a damaged chain does not verify; and that
whatever a store remembers, or is about to publish, was checked (`CacheIsValidated`). From the last alone,
`MemoryAgrees`: accepting a remembered row and checking it come to the same, since a remembered row is equal
to the stored one in every column. `RememberingIsSafe` and `RetentionHolds` follow. The
content of `AlterationIsSeen` is a case for each column: a changed number breaks the shape of the chain, a
changed hash its links, and a changed payload its hash, since a hash is injective and longer than the one
before it.

A second induction is about the memory of the stores. `CacheIsBounded` (`AuditTypeOK`) needs `MemoryFits`: the
entries of a cache are of different scopes and of finitely many rows each, and within both limits. The step with
content is the publication: taking an entry out, or the oldest ones, never adds to the rows counted, and the
new entry adds its own. `LimitsOfAudit` joins it with `RetentionHolds`.

A third is about the hashes (`HashesCoverHistory`): the hash of each row and of the base, and each hash that
`append` ever returned, covers the events up to it in order, those included that were let go. `CommitExtends` has
the content: when the base moves to a row, its hash takes over what the rows before it said, so that no event's
place in the history changes. With it `CommittedStays` says of a returned hash that the head vouches for it for
good, and `AuditImplementsEventLog` that every step is one of `EventLog` or changes no log: a commit is an `Extend`
(`CommitIsExtend`, with `DoomedIsTooOld`: numbers of rows and positions of events are one, and the rows that `_prune`
counts are the events after the base), `Restore` a `TakeBack`, an alteration a `Lose`, and whatever happens to
writers, caches and processes changes nothing that is told.

**`HostProofs`**, first part, is about the functions of `PassportPolicy`, `Settings` and `Certification`.
`EvidenceNeverLoosens`,
`HintsNeverLoosen`, `MissingAnnotationsNeverLoosen` and `TighteningNeverLoosens` say that the policy is
monotone in what makes it stricter, though it is computed by a list of tests in an order; `AllowIsEarned`
lists what must hold for a call to leave without an approval. `ResolvedIsStorable` compares the two
validations of a transport; `AbsentSocketIsSilent`, `SovereignIsCertified` and `FailedRunCertifiesNothing`
follow a setting, or a receipt, to the calls it permits.

**`EmbassyProofs`**, first part, under `OriginAssumption` (natural limits, at least one clock offset; `MaxTime` and
`MaxBoots` only bound it). `OriginTypeCorrect` comes first, with the lemmas that an expiry is a natural number.
`HandledOnce` and `HandledAsSent` are not inductive; `OriginInv` adds

- `OneProof`: a call has at most one proof, of the request it carries, and has been forwarded;
- `ChallengesAreIssued`: no proof or call has a challenge of a later start of the broker, so that a
  restart puts every older proof out of use;
- `HandledHasProof`: what was handled had been signed, so that a new proof finds its call unhandled;
- `SpentIsRemembered`: a proof of this start that was handled is in `seen` with its own expiry, or
  out of time.

The case with content is `VerifyKeeps`: if the call had been handled, its entry would have survived the
pruning (the proof is in time, its expiry is that of the entry) and the proof been refused as a replay.
`NeverHandledTwice`, `DeliveredAsSent` and `MemoryIsEnough` follow. The last step of `Tick` uses that the
clock only goes forward, which the code does not enforce (see the hazards).

**`EmbassySessionsProofs`** under `SessionAssumption`, for any requests, origins, identifiers and limits, any
course of the clock and either kind of clean-up. The invariant (`Induction`) adds to the types

- `SlotsSound`: the counter of slots is the number of running requests, the table of tasks is that set, and
  each has an identifier of its own;
- `TableSound`: an open session has a live context, and no more are open than the limit;
- `Used`: the session of a running request is marked active and of its origin, and unless clean-ups suspend
  nothing removes it;
- `RatesSound`: the times kept for an origin are the last of its admissions, and what was dropped is out of
  the window, so that the bound on the kept times is one on all admissions (`Spaced`);
- `DrainSound` and `NoSweep`: once a drain has begun no request starts, and what it waits for covers what runs.

`LimitsAreKept`, `RatesAreKept`, `ContextsAreExclusive`, `ContextsStay` and `DrainsLeaveNothing` follow. Cases
with content are the admission, where a finite set gains one element and the pruned times shift, and the sweep,
which may not meet a session in use. `DrainsNeverStick` is `DrainSound` read from the other side: what a drain has yet
to wait for are the running requests, so that it waits for nothing that does not end.

**`EmbassyProofs`**, second part, under `RegistryAssumption`, for any operations, names, chats, owners and
incarnations. `RegistryInduction` adds to the types

- `LockSound`: a worker is in the queue of the lock once and exactly while its program counter says so, and
  who brings a service up is at its head;
- `StartsSound`: the name of a start under way is free and its incarnation is not listed;
- `ListedSound`: what is listed has come up, under its own name, and serves unless it was marked;
- `LivingSound`: what lives is listed, or belongs to such a start;
- `KindsSound` and `ShutdownSound`: once a shutdown has marked the services no start is under way, and what
  is listed is among what it has yet to close.

Most steps move one worker, free the names of services that are done, and mark listed records: `QuietSound`
treats them together, and `ReturnMoves`, `JoinMoves` and `ContinueMoves` say where the worker goes. A start, a
lifecycle task, a guard and the beginning of a shutdown have lemmas of their own.

`RegistryImplementsLifeCycle`: every step is one of `ServiceLifeCycle` or changes none of its variables.
`PhaseCases` says what a phase is made of. Most steps are `QuietUnseen`, as a name is only ever freed for a
service that is done; `MarkedLeave` is for those that tell services to stop, one or all that are listed;
`TaskIsStep` is for lifecycle tasks: one that is starting is not listed (`ListedSound`), so it ends as
one that began or leaves, never as a published one. `BeginIsStep` has the content: who holds the lock is the only
start, so all that lives is listed under a name of its own (`AllListed`) and the limit, which the code puts on
the listed services, is one on the living ones (`LivingFit`, an injection of what lives into the listed names).
`ShutdownEndsIsStep` needs `ShutdownSound`: what the shutdown has marked is all there was.

`WithinCapacity` is then proved of the abstract steps (`CapacityKept`) and carried back by the mapping.
`RegistryIsSound` collects the invariants, and `ShutdownsAreComplete` states the last by itself;
`RevokedIsDrained` is liveness and stays with TLC.

**`HostProofs`**, second part, under `NodeAssumption` (callers belong to processes; `Troubles` any number).
`OneSupervisor` is inductive only with `NodeTypeOK` (a flock that is a caller's is one it probes),
`GuardedCallers` (who is inside `ensure` has the guard of a manager without a thread, and from `enable` on the
flock, so what it spawns supervises under the flock) and `Reaped` (whoever is about to release has no child).
`NodeTypeCorrect` and `SingleSupervisor` follow, and `StopsStick`, because only `EnsureLock` and `EnsureWrite`
can make a node wanted: their caller found the flock free or has it, so no other manager supervises, and its
own has no thread.

Every invariant and every refinement that a run checks is proved. Model-checked only are the liveness properties
`SlotIsReleased`, `RevokedIsDrained` and `DisabledStops`: liveness under fairness is out of the prover's reach.

## 6. Not modelled

- The contents of messages, schemas and hashes, HTTP framing, JSON limits, word lists and patterns: data
  whose effect on control is modelled by its outcome.
- `storage.py` beyond its transactions, clock and failures: the hardening of paths, inodes and descriptors is
  file-system I/O. The validation and redaction of an event's fields in `audit.py`.
- Publication plans (`publication.py`): `publication_plan` is a pure function of a service, and the class
  `Publication` is used by its tests only; the guard of a publication is part of the registry.
  `embassy_config.py`, parsing.
- Of the registry, the socket and server start-up of the broker and the deadlines after which its shutdown
  leaves the loop to itself. Of the node, the download and checksums of its binaries, and children that
  outlive a killed process.
- The certification run itself, which drives Docker, and the observations of a host.
- `checked_schema` of `remote_tools.py`, a bounded walk over a JSON schema.
- Backward steps of the clock in `EmbassyOrigin`, under which a pruned nonce can be replayed.
- Web API handlers, tool entry points, the web interface, deployment files and release scripts: they
  authenticate, look an operation up and call it, or present and configure. `boundary.py` is a program of the
  guest image and not of the plugin.

`PROJECT.json` gives the reason for each part.
