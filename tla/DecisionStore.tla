---------------------------- MODULE DecisionStore ----------------------------
(***************************************************************************)
(* The durable authority of one SAM Mesh installation:                     *)
(* src/helpers/decisions.py.  One SQLite file holds four tables: sealed    *)
(* decisions, one session row per chat (quota, stop flag, busy slot), one  *)
(* control row per project/profile (generation, stop flag), and the        *)
(* admissions of calls that may be in flight.                              *)
(*                                                                         *)
(* Every method of DecisionStore is one BEGIN IMMEDIATE transaction, so    *)
(* each is one action here; a method that raises rolls its transaction     *)
(* back and leaves the state alone, so an action is the success path only. *)
(* The error codes are not modelled, the conditions that raise them are.   *)
(***************************************************************************)
EXTENDS Integers, FiniteSets

CONSTANTS
  Profiles,       \* (project, agent profile) pairs: the unit of stop and resume
  Chats,          \* (project, profile, chat) scopes: the unit of quota and slot
  ProfileOf,      \* [Chats -> Profiles]
  Decisions,      \* identifiers create() may mint
  Natives,        \* identifiers begin_native() may mint
  ScopeOf,        \* [Decisions \cup Natives -> Chats]: random identifiers are
                  \* never shared, so they are split among the chats up front
  NoCall,         \* SQL NULL in gate_sessions.active
  Payloads,       \* what a decision may seal
  Blank,          \* payload of an identifier not minted yet
  Processes,      \* operating-system processes, each with its own Fernet key
  CallLimit,      \* passport.limits.calls_per_session
  DecisionQuota,  \* 128 in the code
  TTL,            \* 300 seconds in the code
  MaxTime,        \* bound: last tick of the clock
  MaxGeneration,  \* bound: stops and resumes of one profile
  MaxKey          \* bound: key rotations and restarts of one process

Calls == Decisions \cup Natives

ASSUME StoreAssumption ==
  /\ ProfileOf \in [Chats -> Profiles]
  /\ ScopeOf \in [Calls -> Chats]
  /\ Decisions \cap Natives = {}
  /\ NoCall \notin Calls
  /\ Processes # {}
  /\ IsFiniteSet(Decisions) /\ IsFiniteSet(Natives)
  /\ CallLimit \in Nat /\ DecisionQuota \in Nat
  /\ TTL \in Nat /\ MaxTime \in Nat
  /\ MaxGeneration \in Nat /\ MaxKey \in Nat

VARIABLES
  decisions,   \* gate_decisions
  sessions,    \* gate_sessions; row = FALSE while the row has not been inserted
  control,     \* gate_control
  admissions,  \* gate_admissions
  cipher,      \* the number of the key each process holds in _CIPHER
  now,         \* SQLiteStorage.now(), the wall clock
  born,        \* history: generation in which a decision was created
  started      \* history: calls that were ever claimed or begun

tables == <<decisions, sessions, control, admissions>>
history == <<born, started>>
storeVars == <<decisions, sessions, control, admissions, cipher, now, born, started>>

Keys == Processes \X Nat
KeyOf(p) == <<p, cipher[p]>>

\* State of a row: absent (never minted), open (used = 0), used (used = 1), or
\* pruned (deleted by a later create, never to be minted again).
RowStates == {"absent", "open", "used", "pruned"}

DecisionRow ==
  [state: RowStates, expires: Nat, key: Keys, payload: Payloads \cup {Blank}]
SessionRow ==
  [row: BOOLEAN, calls: Nat, disabled: BOOLEAN, active: Calls \cup {NoCall}]
ControlRow == [generation: Nat, stopped: BOOLEAN]
AdmissionRow == [id: Calls, profile: Profiles, generation: Nat]

ProfileOfCall(x) == ProfileOf[ScopeOf[x]]
Stopped(c) == control[ProfileOf[c]].stopped

(***************************************************************************)
(* The type of the tables.                                                 *)
(***************************************************************************)
StoreTypeOK ==
  /\ decisions \in [Decisions -> DecisionRow]
  /\ sessions \in [Chats -> SessionRow]
  /\ control \in [Profiles -> ControlRow]
  /\ admissions \subseteq AdmissionRow
  /\ cipher \in [Processes -> Nat]
  /\ now \in Nat
  /\ born \in [Decisions -> Nat]
  /\ started \subseteq Calls

StoreInit ==
  /\ decisions = [d \in Decisions |->
       [state |-> "absent", expires |-> 0,
        key |-> <<CHOOSE p \in Processes : TRUE, 0>>, payload |-> Blank]]
  /\ sessions = [c \in Chats |->
       [row |-> FALSE, calls |-> 0, disabled |-> FALSE, active |-> NoCall]]
  /\ control = [p \in Profiles |-> [generation |-> 0, stopped |-> FALSE]]
  /\ admissions = {}
  /\ cipher = [p \in Processes |-> 0]
  /\ now = 0
  /\ born = [d \in Decisions |-> 0]
  /\ started = {}

-----------------------------------------------------------------------------
(* transaction(): a committed transaction leaves the caller's rows inserted. *)
Touched(c) == [sessions EXCEPT ![c].row = TRUE]

\* Mutant: _load forgets "used = 0".
LoadableUsed(p, c, d) ==
  /\ ScopeOf[d] = c
  /\ decisions[d].state \in {"open", "used"}
  /\ now < decisions[d].expires
  /\ decisions[d].key = KeyOf(p)

(* _load: the row of this scope, unexpired, unused, sealed by this process.  *)
Loadable(p, c, d) ==
  /\ ScopeOf[d] = c
  /\ decisions[d].state = "open"
  /\ now < decisions[d].expires
  /\ decisions[d].key = KeyOf(p)

(* A read-only transaction that succeeds: disabled(), load().               *)
Read(c) ==
  /\ sessions' = Touched(c)
  /\ UNCHANGED <<decisions, control, admissions, cipher, now, history>>

Stored(c) ==
  {d \in Decisions : ScopeOf[d] = c /\ decisions[d].state \in {"open", "used"}}
Lapsed(c) == {d \in Stored(c) : decisions[d].expires <= now}

(* create(): prune what expired in this chat, then insert within the quota.  *)
Create(p, c, d, content) ==
  /\ ScopeOf[d] = c
  /\ decisions[d].state = "absent"
  /\ Cardinality(Stored(c) \ Lapsed(c)) < DecisionQuota
  /\ decisions' = [e \in Decisions |->
       IF e = d THEN [state |-> "open", expires |-> now + TTL,
                      key |-> KeyOf(p), payload |-> content]
       ELSE IF e \in Lapsed(c) THEN [decisions[e] EXCEPT !.state = "pruned"]
       ELSE decisions[e]]
  /\ sessions' = Touched(c)
  /\ born' = [born EXCEPT ![d] = control[ProfileOf[c]].generation]
  /\ UNCHANGED <<control, admissions, cipher, now, started>>

(* load() *)
Load(p, c, d) == Loadable(p, c, d) /\ Read(c)

(* update(): the payload of a decision that can still be loaded is replaced. *)
Update(p, c, d, content) ==
  /\ Loadable(p, c, d)
  /\ decisions' = [decisions EXCEPT ![d] =
       [state |-> "open", expires |-> decisions[d].expires,
        key |-> KeyOf(p), payload |-> content]]
  /\ sessions' = Touched(c)
  /\ UNCHANGED <<control, admissions, cipher, now, history>>

(* claim(): one use of the decision, one call of the quota, the chat's slot. *)
Claim(p, c, d, expected) ==
  /\ Loadable(p, c, d)
  /\ decisions[d].payload = expected
  /\ ~sessions[c].disabled
  /\ sessions[c].active = NoCall
  /\ sessions[c].calls < CallLimit
  /\ decisions' = [decisions EXCEPT ![d].state = "used"]
  /\ sessions' = [sessions EXCEPT ![c] =
       [row |-> TRUE, calls |-> sessions[c].calls + 1,
        disabled |-> sessions[c].disabled, active |-> d]]
  /\ started' = started \cup {d}
  /\ UNCHANGED <<control, admissions, cipher, now, born>>

AdmissionOf(x) ==
  [id |-> x, profile |-> ProfileOfCall(x),
   generation |-> control[ProfileOfCall(x)].generation]

\* Mutant: a native call takes the slot from the call that holds it.
BeginNativeOverBusy(c, n) ==
  /\ ScopeOf[n] = c
  /\ n \notin started
  /\ ~Stopped(c)
  /\ sessions[c].calls < CallLimit
  /\ sessions' = [sessions EXCEPT ![c] =
       [row |-> TRUE, calls |-> sessions[c].calls + 1,
        disabled |-> sessions[c].disabled, active |-> n]]
  /\ admissions' = admissions \cup {AdmissionOf(n)}
  /\ started' = started \cup {n}
  /\ UNCHANGED <<decisions, control, cipher, now, born>>

(* begin_native(): the slot, the quota and the admission in one transaction. *)
BeginNative(c, n) ==
  /\ ScopeOf[n] = c
  /\ n \notin started
  /\ ~Stopped(c)
  /\ sessions[c].active = NoCall
  /\ sessions[c].calls < CallLimit
  /\ sessions' = [sessions EXCEPT ![c] =
       [row |-> TRUE, calls |-> sessions[c].calls + 1,
        disabled |-> sessions[c].disabled, active |-> n]]
  /\ admissions' = admissions \cup {AdmissionOf(n)}
  /\ started' = started \cup {n}
  /\ UNCHANGED <<decisions, control, cipher, now, born>>

\* Mutant: the barrier is not read again at dispatch.
AdmitBlind(c, d, deadline) ==
  /\ ScopeOf[d] = c
  /\ now < deadline
  /\ sessions[c].active = d
  /\ \A a \in admissions : a.id # d
  /\ admissions' = admissions \cup {AdmissionOf(d)}
  /\ sessions' = Touched(c)
  /\ UNCHANGED <<decisions, control, cipher, now, history>>

(* admit(): the dispatch barrier.  The deadline is that of the caller's copy *)
(* of the payload; the primary key of gate_admissions refuses a second row.  *)
Admit(c, d, deadline) ==
  /\ ScopeOf[d] = c
  /\ now < deadline
  /\ ~Stopped(c)
  /\ sessions[c].active = d
  /\ \A a \in admissions : a.id # d
  /\ admissions' = admissions \cup {AdmissionOf(d)}
  /\ sessions' = Touched(c)
  /\ UNCHANGED <<decisions, control, cipher, now, history>>

\* Mutant: the slot is freed and the admission stays.
FinishForgetsAdmission(c, x) ==
  /\ ScopeOf[x] = c
  /\ sessions' = [sessions EXCEPT ![c].row = TRUE,
       ![c].active = IF sessions[c].active = x THEN NoCall ELSE sessions[c].active]
  /\ UNCHANGED <<decisions, control, admissions, cipher, now, history>>

(* finish(): free the slot if it is still held by this call.                 *)
Finish(c, x) ==
  /\ ScopeOf[x] = c
  /\ sessions' = [sessions EXCEPT ![c] =
       [row |-> TRUE, calls |-> sessions[c].calls, disabled |-> sessions[c].disabled,
        active |-> IF sessions[c].active = x THEN NoCall ELSE sessions[c].active]]
  /\ admissions' = {a \in admissions : a.id # x}
  /\ UNCHANGED <<decisions, control, cipher, now, history>>

(* invalidate() *)
Invalidate(c, d) ==
  /\ decisions' = IF ScopeOf[d] = c /\ decisions[d].state = "open"
                  THEN [decisions EXCEPT ![d].state = "used"] ELSE decisions
  /\ sessions' = Touched(c)
  /\ UNCHANGED <<control, admissions, cipher, now, history>>

\* Mutants: decisions survive; the quota is reset.
InvalidateSessionsOnly(c, flag) ==
  /\ sessions' = [b \in Chats |->
       IF ProfileOf[b] = ProfileOf[c] /\ Touched(c)[b].row
       THEN [sessions[b] EXCEPT !.row = TRUE, !.disabled = flag] ELSE sessions[b]]
  /\ UNCHANGED decisions
InvalidateAndRefill(c, flag) ==
  /\ sessions' = [b \in Chats |->
       IF ProfileOf[b] = ProfileOf[c] /\ Touched(c)[b].row
       THEN [sessions[b] EXCEPT !.row = TRUE, !.calls = 0, !.disabled = flag] ELSE sessions[b]]
  /\ decisions' = [d \in Decisions |->
       IF ProfileOfCall(d) = ProfileOf[c] /\ decisions[d].state = "open"
       THEN [decisions[d] EXCEPT !.state = "used"] ELSE decisions[d]]

(* _invalidate_profile(): every chat row and every decision of the profile.  *)
InvalidateProfile(c, flag) ==
  /\ sessions' = [b \in Chats |->
       IF ProfileOf[b] = ProfileOf[c] /\ Touched(c)[b].row
       THEN [sessions[b] EXCEPT !.row = TRUE, !.disabled = flag] ELSE sessions[b]]
  /\ decisions' = [d \in Decisions |->
       IF ProfileOfCall(d) = ProfileOf[c] /\ decisions[d].state = "open"
       THEN [decisions[d] EXCEPT !.state = "used"] ELSE decisions[d]]

SetControl(c, stop) ==
  /\ control[ProfileOf[c]].generation < MaxGeneration
  /\ control' = [control EXCEPT ![ProfileOf[c]] =
       [generation |-> control[ProfileOf[c]].generation + 1, stopped |-> stop]]

(* revoke_scope(): emergency disconnect of the whole profile.                *)
RevokeScope(c) ==
  /\ SetControl(c, TRUE)
  /\ InvalidateProfile(c, TRUE)
  /\ UNCHANGED <<admissions, cipher, now, history>>

(* The "already_admitted" count that revoke_scope returns.                   *)
AlreadyAdmitted(p) == Cardinality({a \in admissions : a.profile = p})

(* resume_scope(): quota, slot and admissions are kept.                      *)
ResumeScope(c) ==
  /\ SetControl(c, FALSE)
  /\ InvalidateProfile(c, FALSE)
  /\ UNCHANGED <<admissions, cipher, now, history>>

(* invalidate_pending_decisions(), or a restart of the process.              *)
Rotate(p) ==
  /\ cipher[p] < MaxKey
  /\ cipher' = [cipher EXCEPT ![p] = cipher[p] + 1]
  /\ UNCHANGED <<tables, now, history>>

(* The wall clock moves, and an operator or NTP may set it back.             *)
Tick ==
  /\ now' \in (0..MaxTime) \ {now}
  /\ UNCHANGED <<tables, cipher, history>>

(***************************************************************************)
(* The store under clients that call any operation at any time: what is    *)
(* shown of StoreSpec owes nothing to the discipline of the gates.         *)
(***************************************************************************)
DecisionStep(p, c, d) ==
  \/ Load(p, c, d)
  \/ \E x \in Payloads : Create(p, c, d, x) \/ Update(p, c, d, x) \/ Claim(p, c, d, x)
  \/ \E t \in 0..(MaxTime + TTL) : Admit(c, d, t)
  \/ Finish(c, d)
  \/ Invalidate(c, d)

StoreNext ==
  \/ \E c \in Chats : Read(c) \/ RevokeScope(c) \/ ResumeScope(c)
  \/ \E p \in Processes, c \in Chats, d \in Decisions : DecisionStep(p, c, d)
  \/ \E c \in Chats, n \in Natives : BeginNative(c, n) \/ Finish(c, n)
  \/ \E p \in Processes : Rotate(p)
  \/ Tick

StoreSpec == StoreInit /\ [][StoreNext]_storeVars

-----------------------------------------------------------------------------
(***************************************************************************)
(* Each admission row is the call that holds its chat's slot, filed under   *)
(* the profile of that chat: finish and stop see the same call, and a chat  *)
(* never has two admitted calls (decisions.py claim/admit/begin_native).    *)
(***************************************************************************)
AdmissionHoldsSlot ==
  \A a \in admissions :
    /\ sessions[ScopeOf[a.id]].active = a.id
    /\ a.profile = ProfileOfCall(a.id)

(***************************************************************************)
(* A decision that can still be claimed was created in the current control *)
(* generation of its profile: neither stop nor resume leaves an older one  *)
(* usable (decisions.py revoke_scope, resume_scope).                       *)
(***************************************************************************)
OpenIsCurrent ==
  \A d \in Decisions : decisions[d].state = "open" =>
    born[d] = control[ProfileOfCall(d)].generation

(***************************************************************************)
(* The quota counts every call exactly once: no replay of a decision, no   *)
(* stop, resume, finish or key loss gives a call back or counts one twice  *)
(* (decisions.py claim, begin_native, resume_scope).                       *)
(***************************************************************************)
QuotaIsExact ==
  \A c \in Chats :
    sessions[c].calls = Cardinality({x \in started : ScopeOf[x] = c})

(***************************************************************************)
(* A call that was claimed is not open, and whoever holds a slot was        *)
(* counted against the quota.                                              *)
(***************************************************************************)
ClaimedIsSpent ==
  /\ \A d \in Decisions \cap started : decisions[d].state \in {"used", "pruned"}
  /\ \A c \in Chats : sessions[c].active # NoCall =>
       sessions[c].active \in started /\ ScopeOf[sessions[c].active] = c

(***************************************************************************)
(* A decision that was used, invalidated or pruned stays so whatever        *)
(* happens (the docstring of decisions.py invalidate).                     *)
(***************************************************************************)
Spent(d) == decisions[d].state \in {"used", "pruned"}
NeverReopened ==
  [][\A d \in Decisions : Spent(d) => Spent(d)']_storeVars
=============================================================================
