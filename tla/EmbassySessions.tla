---------------------------- MODULE EmbassySessions ----------------------------
(***************************************************************************)
(* The SessionManager of one published specialist:                         *)
(* src/helpers/embassy_sessions.py, with the drain and the final clean-up   *)
(* that the lifecycle task of src/helpers/embassy_runtime.py runs on it.    *)
(*                                                                         *)
(* Everything runs on one event loop, so a step is the code between two     *)
(* awaits.  cleanup_agent() contains no await: with it ask() reaches the      *)
(* runner in one step.  SessionManager also takes clean-ups that suspend.    *)
(***************************************************************************)
EXTENDS Integers, FiniteSets, Sequences

CONSTANTS
  Requests,        \* tasks that may run ask()
  Origins,         \* verified origins: peer and boundary
  Ids,             \* session identifiers that may be minted
  NoId,            \* no session_id in the request
  MaxConcurrency,  \* service.max_concurrency
  PerMinute,       \* service.requests_per_minute
  Window,          \* 60 seconds in the code
  IdleExpiry,      \* service.idle_expiry_seconds
  SessionLimit,    \* 128 in the code
  OriginLimit,     \* 1024 in the code
  Stateless,       \* service.persistence = "stateless"
  CleanUps,        \* whether the clean-up given to the manager may suspend: a set of BOOLEANs
  MaxTime          \* bound: last tick of the monotonic clock

ASSUME SessionAssumption ==
  /\ NoId \notin Ids /\ Origins # {}
  /\ IsFiniteSet(Ids) /\ IsFiniteSet(Requests) /\ IsFiniteSet(Origins)
  /\ MaxConcurrency \in Nat /\ PerMinute \in Nat /\ Window \in Nat
  /\ IdleExpiry \in Nat /\ SessionLimit \in Nat /\ OriginLimit \in Nat
  /\ Stateless \in BOOLEAN /\ CleanUps \subseteq BOOLEAN /\ CleanUps # {}
  /\ MaxTime \in Nat

VARIABLES
  sessions,   \* self.sessions; a popped record is "gone"
  contexts,   \* the native context of each session
  rates,      \* self.rates: times of recent requests, per origin
  active,     \* self.active[service.name]
  tasks,      \* self.tasks
  accepting,  \* self.accepting
  now,        \* self.clock()
  requests,   \* where each ask() stands
  drain,      \* where the lifecycle task stands
  suspends,   \* whether self.cleanup suspends; it is given once
  admitted    \* history: when each origin was really let in

svars ==
  <<sessions, contexts, rates, active, tasks, accepting, now, requests, drain, suspends, admitted>>

SessionRow ==
  [state: {"free", "open", "gone"}, origin: Origins, expires: Nat, active: BOOLEAN]
RequestState ==
  [pc: {"idle", "sweep", "run"}, origin: Origins, id: Ids \cup {NoId}, at: Nat,
   doomed: SUBSET Ids]
DrainState ==
  [pc: {"open", "waiting", "cancelling", "clearing", "final", "stopped"},
   awaited: SUBSET Requests, left: SUBSET Ids]

SomeOrigin == CHOOSE o \in Origins : TRUE
Blank(state) == [state |-> state, origin |-> SomeOrigin, expires |-> 0, active |-> FALSE]
IdleRequest == [pc |-> "idle", origin |-> SomeOrigin, id |-> NoId, at |-> 0, doomed |-> {}]

SessionTypeOK ==
  /\ sessions \in [Ids -> SessionRow]
  /\ contexts \in [Ids -> {"none", "live", "cleaned"}]
  /\ rates \in [Origins -> Seq(Nat)] /\ admitted \in [Origins -> Seq(Nat)]
  /\ active \in Nat
  /\ tasks \subseteq Requests
  /\ accepting \in BOOLEAN
  /\ now \in Nat
  /\ requests \in [Requests -> RequestState]
  /\ drain \in DrainState
  /\ suspends \in CleanUps

SessionInit ==
  /\ sessions = [i \in Ids |-> Blank("free")]
  /\ contexts = [i \in Ids |-> "none"]
  /\ rates = [o \in Origins |-> <<>>] /\ admitted = [o \in Origins |-> <<>>]
  /\ active = 0
  /\ tasks = {}
  /\ accepting = TRUE
  /\ now = 0
  /\ requests = [r \in Requests |-> IdleRequest]
  /\ drain = [pc |-> "open", awaited |-> {}, left |-> {}]
  /\ suspends \in CleanUps

-----------------------------------------------------------------------------
Open(table) == {i \in Ids : table[i].state = "open"}

\* Mutant: the sweep does not look whether a session is busy.
ExpiredBusy == {i \in Open(sessions) : sessions[i].expires <= now}

Expired == {i \in Open(sessions) : ~sessions[i].active /\ sessions[i].expires <= now}

(* _remove() of each member of S: popped and cleaned before anything else    *)
(* runs; a session that was popped already is left alone.                   *)
Popped(S) ==
  [i \in Ids |-> IF i \in S \cap Open(sessions) THEN Blank("gone") ELSE sessions[i]]
Cleaned(S) ==
  [i \in Ids |-> IF i \in S \cap Open(sessions) /\ contexts[i] = "live"
                 THEN "cleaned" ELSE contexts[i]]
Remove(S) == sessions' = Popped(S) /\ contexts' = Cleaned(S)

\* Mutant: a time is dropped a tick before it leaves the window.
FreshEarly(o, t) ==
  LET old == {k \in 0..Len(rates[o]) : \A j \in 1..k : rates[o][j] <= t + 1 - Window}
      last == CHOOSE k \in old : \A j \in old : j <= k
  IN  SubSeq(rates[o], last + 1, Len(rates[o]))

(* Times older than the window are dropped from the front.                   *)
Fresh(o, t) ==
  LET old == {k \in 0..Len(rates[o]) : \A j \in 1..k : rates[o][j] <= t - Window}
      last == CHOOSE k \in old : \A j \in old : j <= k
  IN  SubSeq(rates[o], last + 1, Len(rates[o]))

\* Mutant: a busy session is handed to a second request.
ResumableBusy(table, o, sid, t) ==
  table[sid].state = "open" /\ table[sid].origin = o /\ t < table[sid].expires

(* A named session must exist, be this origin's, unexpired and not busy.      *)
Resumable(table, o, sid, t) ==
  /\ table[sid].state = "open"
  /\ table[sid].origin = o
  /\ t < table[sid].expires
  /\ ~table[sid].active

\* Mutant: accepting is not read again after the sweep.
EligibleWhileDraining(o, sid, t, table) ==
  /\ sid # NoId => Resumable(table, o, sid, t)
  /\ active < MaxConcurrency

(* The checks of ask() after the sweep, on the sessions the sweep left and    *)
(* with the time read before it: those before the rates are pruned, then all. *)
Eligible(o, sid, t, table) ==
  /\ accepting
  /\ sid # NoId => Resumable(table, o, sid, t)
  /\ active < MaxConcurrency

Allowed(o, sid, t, table) ==
  /\ Eligible(o, sid, t, table)
  /\ Fresh(o, t) # <<>> \/ Cardinality({p \in Origins : Fresh(p, t) # <<>>}) < OriginLimit
  /\ Len(Fresh(o, t)) < PerMinute
  /\ sid = NoId => Cardinality(Open(table)) < SessionLimit

Refuse(r, o, sid, t, table, ctx) ==
  /\ ~Allowed(o, sid, t, table)
  /\ rates' = IF Eligible(o, sid, t, table)
              THEN [p \in Origins |-> Fresh(p, t)] ELSE rates
  /\ sessions' = table /\ contexts' = ctx
  /\ requests' = [requests EXCEPT ![r] = IdleRequest]
  /\ UNCHANGED <<active, tasks, admitted>>

Charge(o, t) ==
  /\ rates' = [p \in Origins |-> IF p = o THEN Append(Fresh(p, t), t) ELSE Fresh(p, t)]
  /\ admitted' = [admitted EXCEPT ![o] = Append(admitted[o], now)]

Take(r, o, i) ==
  /\ active' = active + 1
  /\ tasks' = tasks \cup {r}
  /\ requests' = [requests EXCEPT ![r] = [IdleRequest EXCEPT !.pc = "run", !.origin = o, !.id = i]]

(* A slot, a session and its context are taken without an await between them. *)
Enter(r, o, sid, t, table, ctx) ==
  /\ Allowed(o, sid, t, table)
  /\ Charge(o, t)
  /\ \/ /\ sid # NoId
        /\ Take(r, o, sid)
        /\ sessions' = [table EXCEPT ![sid].active = TRUE]
        /\ contexts' = ctx
     \/ /\ sid = NoId
        /\ \E i \in Ids :
             /\ table[i].state = "free"
             /\ Take(r, o, i)
             /\ sessions' = [table EXCEPT ![i] =
                  [state |-> "open", origin |-> o, expires |-> t + IdleExpiry, active |-> TRUE]]
             /\ contexts' = [ctx EXCEPT ![i] = "live"]
     \/ /\ sid = NoId          \* create_context() raised: the request is charged for it
        /\ sessions' = table /\ contexts' = ctx
        /\ requests' = [requests EXCEPT ![r] = IdleRequest]
        /\ UNCHANGED <<active, tasks>>

Decide(r, o, sid, t, table, ctx) ==
  Refuse(r, o, sid, t, table, ctx) \/ Enter(r, o, sid, t, table, ctx)

(* ask(): the first accepting check, the clock, and the sweep of idle sessions *)
(* up to the first clean-up that suspends.                                    *)
Ask(r, o, sid) ==
  /\ requests[r].pc = "idle"
  /\ accepting
  /\ IF suspends /\ Expired # {}
     THEN \E i \in Expired :
            /\ Remove({i})
            /\ requests' = [requests EXCEPT ![r] =
                 [pc |-> "sweep", origin |-> o, id |-> sid, at |-> now, doomed |-> Expired \ {i}]]
            /\ UNCHANGED <<rates, active, tasks, admitted>>
     ELSE Decide(r, o, sid, now, Popped(Expired), Cleaned(Expired))
  /\ UNCHANGED <<accepting, now, drain>>

(* The sweep goes on with the list it made, then the checks are made.         *)
Sweep(r) ==
  /\ requests[r].pc = "sweep"
  /\ \/ \E i \in requests[r].doomed :
          /\ Remove({i})
          /\ requests' = [requests EXCEPT ![r].doomed = @ \ {i}]
          /\ UNCHANGED <<rates, active, tasks, admitted>>
     \/ /\ requests[r].doomed = {}
        /\ Decide(r, requests[r].origin, requests[r].id, requests[r].at, sessions, contexts)
  /\ UNCHANGED <<accepting, now, drain>>

(* The caller went away while its request was sweeping.                      *)
Abandon(r) ==
  /\ requests[r].pc = "sweep"
  /\ requests' = [requests EXCEPT ![r] = IdleRequest]
  /\ UNCHANGED <<sessions, contexts, rates, active, tasks, accepting, now, drain, admitted>>

Cancelled(r) == drain.pc \in {"cancelling", "final"} /\ r \in drain.awaited

\* Mutant: an ended task is not discarded.
ReleaseKeepsTask(r) ==
  /\ active' = active - 1
  /\ requests' = [requests EXCEPT ![r] = IdleRequest]
  /\ UNCHANGED <<tasks, rates, accepting, now, drain, admitted>>

\* Mutant: the slot is freed twice.
ReleaseTwice(r) ==
  /\ active' = active - 2
  /\ tasks' = tasks \ {r}
  /\ requests' = [requests EXCEPT ![r] = IdleRequest]
  /\ UNCHANGED <<rates, accepting, now, drain, admitted>>

Release(r) ==
  /\ active' = active - 1
  /\ tasks' = tasks \ {r}
  /\ requests' = [requests EXCEPT ![r] = IdleRequest]
  /\ UNCHANGED <<rates, accepting, now, drain, admitted>>

(* The runner answered: the session is kept, idle, unless it is stateless.    *)
Answer(r) ==
  /\ requests[r].pc = "run" /\ ~Cancelled(r)
  /\ IF Stateless
     THEN Remove({requests[r].id})
     ELSE /\ sessions' = [sessions EXCEPT ![requests[r].id] =
               [@ EXCEPT !.expires = now + IdleExpiry, !.active = FALSE]]
          /\ UNCHANGED contexts
  /\ Release(r)

(* Error, oversized output, timeout or cancellation: the session goes.        *)
Fail(r) ==
  /\ requests[r].pc = "run"
  /\ Remove({requests[r].id})
  /\ Release(r)

(* finish(): the caller ends its own idle session, expired or not.            *)
Finish(o, i) ==
  /\ i \in Open(sessions)
  /\ sessions[i].origin = o /\ ~sessions[i].active
  /\ Remove({i})
  /\ UNCHANGED <<rates, active, tasks, accepting, now, requests, drain, admitted>>

(* maintenance(): test and removal of one session are one step.              *)
Expire(i) ==
  /\ i \in Expired
  /\ Remove({i})
  /\ UNCHANGED <<rates, active, tasks, accepting, now, requests, drain, admitted>>

-----------------------------------------------------------------------------
(* drain(): admission ends, then the running requests are awaited, ...        *)
DrainBegin ==
  /\ drain.pc = "open"
  /\ accepting' = FALSE
  /\ drain' = [pc |-> "waiting", awaited |-> tasks, left |-> {}]
  /\ UNCHANGED <<sessions, contexts, rates, active, tasks, now, requests, admitted>>

(* ... cancelled when the time is up, ...                                     *)
DrainTimeout ==
  /\ drain.pc = "waiting"
  /\ drain.awaited \cap tasks # {}
  /\ drain' = [drain EXCEPT !.pc = "cancelling"]
  /\ UNCHANGED <<sessions, contexts, rates, active, tasks, accepting, now, requests, admitted>>

(* ... and the sessions that are left then are removed one by one.            *)
DrainClear ==
  /\ \/ /\ drain.pc \in {"waiting", "cancelling"}
        /\ drain.awaited \cap tasks = {}
        /\ drain' = [drain EXCEPT !.pc = "clearing", !.left = Open(sessions)]
        /\ UNCHANGED <<sessions, contexts>>
     \/ /\ drain.pc = "clearing"
        /\ \E i \in drain.left : Remove({i}) /\ drain' = [drain EXCEPT !.left = @ \ {i}]
     \/ /\ drain.pc = "clearing" /\ drain.left = {}
        /\ drain' = [pc |-> "final", awaited |-> tasks, left |-> {}]
        /\ UNCHANGED <<sessions, contexts>>
  /\ UNCHANGED <<rates, active, tasks, accepting, now, requests, admitted>>

(* The time limit the lifecycle task puts on drain() may cut it short anywhere. *)
DrainOverrun ==
  /\ drain.pc \in {"waiting", "cancelling", "clearing"}
  /\ drain' = [pc |-> "final", awaited |-> tasks, left |-> {}]
  /\ UNCHANGED <<sessions, contexts, rates, active, tasks, accepting, now, requests, admitted>>

(* The lifecycle task cancels what still runs, waits for it and removes all    *)
(* sessions; a cancelled runner is taken to end within CLEANUP_TIMEOUT.        *)
DrainFinal ==
  /\ drain.pc = "final"
  /\ drain.awaited \cap tasks = {}
  /\ Remove(Ids)
  /\ drain' = [drain EXCEPT !.pc = "stopped"]
  /\ UNCHANGED <<rates, active, tasks, accepting, now, requests, admitted>>

DrainStep == DrainBegin \/ DrainTimeout \/ DrainClear \/ DrainOverrun \/ DrainFinal

Tick ==
  /\ now < MaxTime
  /\ now' = now + 1
  /\ UNCHANGED <<sessions, contexts, rates, active, tasks, accepting, requests, drain, admitted>>

SessionStep ==
  \/ \E r \in Requests, o \in Origins, sid \in Ids \cup {NoId} : Ask(r, o, sid)
  \/ \E r \in Requests : Sweep(r) \/ Abandon(r) \/ Answer(r) \/ Fail(r)
  \/ \E o \in Origins, i \in Ids : Finish(o, i)
  \/ \E i \in Ids : Expire(i)
  \/ DrainStep
  \/ Tick

SessionNext == SessionStep /\ UNCHANGED suspends

SessionSpec == SessionInit /\ [][SessionNext]_svars

-----------------------------------------------------------------------------
Running == {r \in Requests : requests[r].pc = "run"}

(* The counters and the table are what the running requests and the sessions   *)
(* say they are: a slot is neither leaked nor freed twice on any path out of   *)
(* ask(), and no interleaving of a sweep gets past a limit (ask, 95-115).      *)
LimitsHold ==
  /\ active = Cardinality(Running) /\ tasks = Running
  /\ active <= MaxConcurrency
  /\ Cardinality(Open(sessions)) <= SessionLimit

(* An origin is let in at most PerMinute times in any window of Window ticks,   *)
(* whatever it did in between (ask, 97-112); with a clean-up that suspends the   *)
(* time a request is entered with is older than its admission.                 *)
RateIsBounded ==
  ~suspends => \A o \in Origins : \A k \in 1..Len(admitted[o]) :
    k + PerMinute <= Len(admitted[o]) => admitted[o][k + PerMinute] - admitted[o][k] >= Window

(* A native context serves one request at a time, and only requests of the      *)
(* origin it was made for (ask, 86-94 and 119-124).                            *)
SessionIsExclusive ==
  \A r \in Running :
    /\ \A q \in Running \ {r} : requests[q].id # requests[r].id
    /\ sessions[requests[r].id].state = "open" =>
         sessions[requests[r].id].origin = requests[r].origin

(* No sweep, finish(), maintenance or drain cleans the context a request is      *)
(* running in (ask, 78-82; finish, 152; maintenance, 202), unless the clean-up    *)
(* suspends and lets two sweeps overlap.                                      *)
ContextInUse ==
  ~suspends => \A r \in Running :
    /\ sessions[requests[r].id].state = "open" /\ sessions[requests[r].id].active
    /\ contexts[requests[r].id] = "live"

(* When the lifecycle task is through, no request runs and every context that   *)
(* was ever made is cleaned, even if a request was sweeping when the drain      *)
(* began (ask, 83; drain; embassy_runtime lifecycle, 88-104).                  *)
DrainedIsEmpty ==
  drain.pc = "stopped" =>
    /\ Running = {} /\ active = 0
    /\ \A i \in Ids : sessions[i].state # "open" /\ contexts[i] # "live"

(* What a drain still waits for are the requests that run, all of them and        *)
(* nothing else, whether it was cut short or not: each of them ends by itself or   *)
(* by the drain's cancellation, so that every drain does (drain, 160-164;         *)
(* embassy_runtime lifecycle, 88-104).                                         *)
DrainIsNeverStuck ==
  drain.pc \notin {"open", "stopped"} => drain.awaited \cap tasks = Running

(* Whatever sweeps, answers and deadlines do to each other, every variable keeps   *)
(* its type and no context goes away under its request.                         *)
SessionInvariant == SessionTypeOK /\ ContextInUse

=============================================================================
