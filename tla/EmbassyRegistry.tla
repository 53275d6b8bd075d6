---------------------------- MODULE EmbassyRegistry ----------------------------
(***************************************************************************)
(* EmbassyRegistry of src/helpers/embassy_runtime.py: starting, closing,      *)
(* shutting down and maintaining the published services of one process.       *)
(*                                                                         *)
(* All of it runs on one event loop, so a step is the code between two awaits, *)
(* or two steps of the one worker in `running' where it finds the lock free.   *)
(* Each start makes an incarnation with a lifecycle task of its own, which     *)
(* serves until its stop event is set and then drains (EmbassySessions).       *)
(* The guard of an incarnation asks for the chat it was started from: it says   *)
(* no once that chat is gone or its profile may no longer publish.            *)
(***************************************************************************)
EXTENDS Integers, FiniteSets, Sequences

CONSTANTS
  Ops,          \* operations submitted to the registry, each of them once
  Maintain,     \* the maintenance task
  Names,        \* service names
  Chats,        \* chats that publish
  Owners,       \* projects, each with a profile
  OwnerOf,      \* those of a chat
  Versions,     \* what a chat may publish under one name
  Incarnations, \* bound: services ever started, one for every start at least
  None,
  ServiceCapacity \* 8 in the code

Workers == Ops \cup {Maintain}

ASSUME RegistryAssumption ==
  /\ IsFiniteSet(Names) /\ IsFiniteSet(Incarnations) /\ IsFiniteSet(Ops)
  /\ Cardinality(Ops) <= Cardinality(Incarnations)
  /\ Maintain \notin Ops
  /\ None \notin Workers \cup Names \cup Incarnations \cup Owners
  /\ Names # {} /\ Chats # {} /\ Versions # {}
  /\ OwnerOf \in [Chats -> Owners]
  /\ ServiceCapacity \in Nat

VARIABLES
  services,   \* self.services: name to incarnation
  records,    \* each incarnation: what it serves, for whom, and its flags
  lock,       \* self.lock: the worker that holds it, then those that wait, in order
  closing,    \* self.closing
  running,    \* the worker that took a free lock and runs on: that does not suspend
  workers,    \* where each operation stands
  allowed     \* what the guard of each chat answers

rvars == <<services, records, lock, running, closing, workers, allowed>>

Record ==
  [task: {"none", "starting", "serving", "done"}, name: Names, chat: Chats, version: Versions,
   accepting: BOOLEAN, draining: BOOLEAN, stop: BOOLEAN,
   revoked: BOOLEAN]  \* revoked is history: its guard has said no
Worker ==
  [pc: {"idle", "lock", "ready", "undo", "next", "close", "await", "mark", "ended"},
   kind: {"none", "start", "close", "shutdown", "maintain"},
   name: Names, chat: Chats, version: Versions, owner: Owners,
   inc: Incarnations \cup {None}, left: SUBSET (Names \X Incarnations)]

RegistryTypeOK ==
  /\ services \in [Names -> Incarnations \cup {None}]
  /\ records \in [Incarnations -> Record]
  /\ lock \in Seq(Workers) /\ running \in Workers \cup {None}
  /\ closing \in BOOLEAN
  /\ workers \in [Workers -> Worker]
  /\ allowed \in [Chats -> BOOLEAN]

SomeChat == CHOOSE c \in Chats : TRUE
SomeName == CHOOSE n \in Names : TRUE
SomeVersion == CHOOSE v \in Versions : TRUE

Resting(kind, pc) ==
  [pc |-> pc, kind |-> kind, name |-> SomeName, chat |-> SomeChat, version |-> SomeVersion,
   owner |-> OwnerOf[SomeChat], inc |-> None, left |-> {}]

RegistryInit ==
  /\ services = [n \in Names |-> None]
  /\ records = [i \in Incarnations |->
       [task |-> "none", name |-> SomeName, chat |-> SomeChat, version |-> SomeVersion,
        accepting |-> FALSE, draining |-> FALSE, stop |-> FALSE, revoked |-> FALSE]]
  /\ lock = <<>> /\ running = None
  /\ closing = FALSE
  /\ workers = [w \in Workers |->
       Resting(IF w = Maintain THEN "maintain" ELSE "none", "idle")]
  /\ allowed = [c \in Chats |-> TRUE]

-----------------------------------------------------------------------------
Owner(i) == OwnerOf[records[i].chat]
Guard(i) == allowed[records[i].chat]
Registered == {n \in Names : services[n] # None}
Held(w) == lock # <<>> /\ Head(lock) = w

(* The queue once a worker, which is in it at most once, has left it.         *)
Without(w) ==
  IF \A k \in 1..Len(lock) : lock[k] # w THEN lock
  ELSE LET k == CHOOSE k \in 1..Len(lock) : lock[k] = w
       IN  [j \in 1..(Len(lock) - 1) |-> lock[IF j < k THEN j ELSE j + 1]]

(* `async with self.lock': a lock that nobody holds or awaits is taken without  *)
(* suspending, and the worker goes on to its next await; another is queued for.  *)
Acquire(w, queue) ==
  /\ lock' = Append(queue, w)
  /\ running' = IF queue = <<>> THEN w ELSE None

(* The worker suspends, or is through, with this queue left.                    *)
Suspend(queue) == lock' = queue /\ running' = None

Goto(w, pc) == workers' = [workers EXCEPT ![w].pc = pc]

(* The operation returns or raises.                                          *)
Return(w) ==
  workers' = [workers EXCEPT ![w] =
    Resting(IF workers[w].kind = "shutdown" THEN "shutdown" ELSE "none", "ended")]

\* Mutant: the event is never set.
MarkedOnly(table, i) == [table EXCEPT ![i].draining = TRUE, ![i].accepting = FALSE]

(* What close() and close_all() set on a record, under the lock.              *)
Marked(table, i) ==
  [table EXCEPT ![i].draining = TRUE, ![i].accepting = FALSE, ![i].stop = TRUE]

(* start(): the guard, then the lock.                                        *)
StartBegin(w, c, n, v) ==
  /\ workers[w].pc = "idle" /\ w # Maintain /\ running = None
  /\ ~closing /\ allowed[c]
  /\ workers' = [workers EXCEPT ![w] =
       [Resting("start", "lock") EXCEPT !.name = n, !.chat = c, !.version = v]]
  /\ Acquire(w, lock)
  /\ UNCHANGED <<services, records, closing, allowed>>

(* Those not made yet; which of them is next makes no difference.             *)
Unused == {i \in Incarnations : records[i].task = "none"}

(* Under the lock: nothing to do, no room, or a new incarnation.              *)
StartLocked(w) ==
  LET n == workers[w].name
      i == services[n]
      same == Owner(i) = OwnerOf[workers[w].chat] /\ records[i].version = workers[w].version
  IN
  /\ workers[w].pc = "lock"
  /\ Held(w)
  /\ \/ /\ closing \/ (i # None /\ ~same)
           \/ (i = None /\ Cardinality(Registered) >= ServiceCapacity)
        /\ Return(w)
        /\ Suspend(Without(w))
        /\ UNCHANGED records
     \/ /\ ~closing /\ i # None /\ same
        /\ Return(w)
        /\ Suspend(Without(w))
        /\ UNCHANGED records
     \/ /\ ~closing /\ i = None /\ Cardinality(Registered) < ServiceCapacity
        /\ \E j \in Unused :
             /\ j = CHOOSE k \in Unused : TRUE
             /\ records' = [records EXCEPT ![j] =
                  [task |-> "starting", name |-> n, chat |-> workers[w].chat,
                   version |-> workers[w].version,
                   accepting |-> TRUE, draining |-> FALSE, stop |-> FALSE,
                   revoked |-> ~allowed[workers[w].chat]]]
             /\ workers' = [workers EXCEPT ![w].pc = "ready", ![w].inc = j]
        /\ Suspend(lock)
  /\ UNCHANGED <<services, closing, allowed>>

(* The lifespan of the new service comes up, or fails to.                     *)
LifecycleReady(i) ==
  /\ records[i].task = "starting"
  /\ \E outcome \in {"serving", "done"} : records' = [records EXCEPT ![i].task = outcome]
  /\ UNCHANGED <<services, lock, running, closing, workers, allowed>>

(* Told to stop: it closes admission, drains and ends.                       *)
LifecycleStop(i) ==
  /\ records[i].task = "serving"
  /\ records[i].stop
  /\ \/ /\ records[i].accepting
        /\ records' = [records EXCEPT ![i].accepting = FALSE]
     \/ /\ ~records[i].accepting
        /\ records' = [records EXCEPT ![i].task = "done"]
  /\ UNCHANGED <<services, lock, running, closing, workers, allowed>>

\* Mutant: the incarnation is abandoned when the start fails.
StartReadyForgets(w) ==
  LET i == workers[w].inc IN
  /\ workers[w].pc = "ready"
  /\ records[i].task # "starting"
  /\ IF records[i].task = "serving" /\ ~closing /\ Guard(i)
     THEN /\ services' = [services EXCEPT ![workers[w].name] = i]
          /\ Return(w)
     ELSE Return(w) /\ UNCHANGED services
  /\ Suspend(Without(w))
  /\ UNCHANGED <<records, closing, allowed>>

(* start() goes on: it registers the service, or undoes it.                   *)
StartReady(w) ==
  LET i == workers[w].inc IN
  /\ workers[w].pc = "ready"
  /\ records[i].task # "starting"
  /\ IF records[i].task = "serving" /\ ~closing /\ Guard(i)
     THEN /\ services' = [services EXCEPT ![workers[w].name] = i]
          /\ Return(w)
          /\ Suspend(Without(w))
          /\ UNCHANGED records
     ELSE /\ records' = [records EXCEPT ![i].stop = TRUE]
          /\ Goto(w, "undo")
          /\ Suspend(lock)
          /\ UNCHANGED services
  /\ UNCHANGED <<closing, allowed>>

(* The caller gives up while the lock or the service is awaited.              *)
Cancelled(w) ==
  /\ running = None
  /\ \/ /\ workers[w].pc \in {"lock", "close"} /\ w # Maintain
        /\ Return(w)
        /\ Suspend(Without(w))
        /\ UNCHANGED records
     \/ /\ workers[w].pc = "ready"
        /\ records' = [records EXCEPT ![workers[w].inc].stop = TRUE]
        /\ Goto(w, "undo")
        /\ Suspend(lock)
  /\ UNCHANGED <<services, closing, allowed>>

StartUndo(w) ==
  /\ workers[w].pc = "undo"
  /\ records[workers[w].inc].task = "done"
  /\ Suspend(Without(w))
  /\ Return(w)
  /\ UNCHANGED <<services, records, closing, allowed>>

-----------------------------------------------------------------------------
(* The loops over services: the next of the snapshot to close, or the end.     *)
(* close_scope() closes all of it; maintenance() those whose guard says no now, *)
(* and sleeps when there is none.  The lock is left to those in queue.        *)
Continue(w, left, queue) ==
  LET doomed == {e \in left : workers[w].kind = "maintain" => ~Guard(e[2])} IN
  \/ \E e \in doomed :
       /\ workers' = [workers EXCEPT ![w].pc = "close", ![w].name = e[1], ![w].owner = Owner(e[2]),
                                     ![w].inc = None, ![w].left = left \ {e}]
       /\ Acquire(w, queue)
  \/ /\ doomed = {}
     /\ Suspend(queue)
     /\ IF workers[w].kind = "maintain"
        THEN workers' = [workers EXCEPT ![w] =
               Resting("maintain", IF closing THEN "ended" ELSE "idle")]
        ELSE Return(w)

Snapshot == {e \in Names \X Incarnations : services[e[1]] = e[2]}

CloseBegin(w, n, o) ==
  /\ workers[w].pc = "idle" /\ w # Maintain /\ running = None
  /\ ~closing
  /\ workers' = [workers EXCEPT ![w] =
       [Resting("close", "close") EXCEPT !.name = n, !.owner = o]]
  /\ Acquire(w, lock)
  /\ UNCHANGED <<services, records, closing, allowed>>

CloseScopeBegin(w, o) ==
  LET mine == {e \in Snapshot : Owner(e[2]) = o} IN
  /\ workers[w].pc = "idle" /\ w # Maintain /\ running = None
  /\ ~closing
  /\ \E e \in mine :
       workers' = [workers EXCEPT ![w] = [Resting("close", "close")
         EXCEPT !.name = e[1], !.owner = o, !.left = mine \ {e}]]
  /\ Acquire(w, lock)
  /\ UNCHANGED <<services, records, closing, allowed>>

MaintainBegin ==
  /\ workers[Maintain].pc = "idle" /\ running = None
  /\ \E e \in Snapshot : ~Guard(e[2])
  /\ Continue(Maintain, Snapshot, lock)
  /\ UNCHANGED <<services, records, closing, allowed>>

(* close() under the lock: whoever has that name now is told to stop, if it is   *)
(* the owner's.  A denial ends close_scope(); maintenance() goes on.           *)
CloseLocked(w) ==
  LET i == services[workers[w].name] IN
  /\ workers[w].pc = "close"
  /\ Held(w)
  /\ \/ /\ i # None /\ Owner(i) = workers[w].owner
        /\ records' = Marked(records, i)
        /\ workers' = [workers EXCEPT ![w].pc = "await", ![w].inc = i]
        /\ Suspend(Without(w))
     \/ /\ i # None /\ Owner(i) # workers[w].owner /\ w \in Ops
        /\ Return(w)
        /\ Suspend(Without(w))
        /\ UNCHANGED records
     \/ /\ i # None => Owner(i) # workers[w].owner /\ w = Maintain
        /\ Continue(w, workers[w].left, Without(w))
        /\ UNCHANGED records
  /\ UNCHANGED <<services, closing, allowed>>

Unlisted(n, i) == services' = IF services[n] = i THEN [services EXCEPT ![n] = None] ELSE services

(* The drain is over, also for a caller that was cancelled meanwhile: the name  *)
(* is free unless a newer incarnation has it.                                *)
CloseDone(w) ==
  /\ workers[w].pc = "await"
  /\ records[workers[w].inc].task = "done"
  /\ Unlisted(workers[w].name, workers[w].inc)
  /\ Continue(w, IF w = Maintain /\ closing THEN {} ELSE workers[w].left, lock)
  /\ UNCHANGED <<records, closing, allowed>>

-----------------------------------------------------------------------------
(* shutdown(): maintenance is cancelled, admission closed, ...                 *)
ShutdownBegin(w) ==
  /\ workers[w].pc = "idle" /\ w # Maintain /\ running = None
  /\ ~closing
  /\ closing' = TRUE
  /\ workers' = [v \in Workers |->
       CASE v = w -> Resting("shutdown", "mark")
         [] v = Maintain /\ workers[v].pc # "await" -> Resting("maintain", "ended")
         [] OTHER -> workers[v]]
  /\ Acquire(w, Without(Maintain))
  /\ UNCHANGED <<services, records, allowed>>

\* Mutant: the lock is not taken, starts in flight are not joined.
ShutdownMarkUnlocked(w) ==
  /\ workers[w].pc = "mark"
  /\ records' = [i \in Incarnations |->
       IF \E n \in Names : services[n] = i THEN Marked(records, i)[i] ELSE records[i]]
  /\ workers' = [workers EXCEPT ![w].pc = "next", ![w].left = Snapshot]
  /\ Suspend(Without(w))
  /\ UNCHANGED <<services, closing, allowed>>

(* ... every start in flight is joined by taking the lock, ...                  *)
ShutdownMark(w) ==
  /\ workers[w].pc = "mark"
  /\ Held(w)
  /\ records' = [i \in Incarnations |->
       IF \E n \in Names : services[n] = i THEN Marked(records, i)[i] ELSE records[i]]
  /\ workers' = [workers EXCEPT ![w].pc = "next", ![w].left = Snapshot]
  /\ Suspend(Without(w))
  /\ UNCHANGED <<services, closing, allowed>>

(* ... and each service is closed as its drain ends.                           *)
ShutdownClosed(w) ==
  /\ workers[w].pc = "next" /\ workers[w].kind = "shutdown"
  /\ \/ \E e \in workers[w].left :
          /\ records[e[2]].task = "done"
          /\ Unlisted(e[1], e[2])
          /\ workers' = [workers EXCEPT ![w].left = @ \ {e}]
     \/ /\ workers[w].left = {}
        /\ workers[Maintain].pc = "ended"
        /\ Return(w)
        /\ UNCHANGED services
  /\ Suspend(lock)
  /\ UNCHANGED <<records, closing, allowed>>

-----------------------------------------------------------------------------
(* A chat goes away or comes to publish, its settings change: other threads,    *)
(* which wait for no await of the event loop.                                  *)
GuardChanges(c) ==
  /\ allowed' = [allowed EXCEPT ![c] = ~@]
  /\ records' = [i \in Incarnations |->
       IF records[i].chat = c /\ records[i].task # "none"
       THEN [records[i] EXCEPT !.revoked = TRUE] ELSE records[i]]
  /\ UNCHANGED <<services, lock, running, closing, workers>>

OpStep(w) ==
  /\ running \in {None, w}
  /\ \/ StartLocked(w) \/ StartReady(w) \/ StartUndo(w)
     \/ CloseLocked(w) \/ CloseDone(w)
     \/ ShutdownMark(w) \/ ShutdownClosed(w)

Lifecycle(i) == running = None /\ (LifecycleReady(i) \/ LifecycleStop(i))

RegistryNext ==
  \/ \E w \in Ops : \/ \E c \in Chats, n \in Names, v \in Versions : StartBegin(w, c, n, v)
                    \/ \E n \in Names, o \in Owners : CloseBegin(w, n, o)
                    \/ \E o \in Owners : CloseScopeBegin(w, o)
                    \/ ShutdownBegin(w)
                    \/ Cancelled(w)
  \/ MaintainBegin
  \/ \E w \in Workers : OpStep(w)
  \/ \E i \in Incarnations : Lifecycle(i)
  \/ \E c \in Chats : GuardChanges(c)

RegistrySpec == RegistryInit /\ [][RegistryNext]_rvars

(* The event loop runs what is ready; the lock is handed over in order; a drain  *)
(* ends (DrainIsNeverStuck of EmbassySessions); maintenance wakes up again and again.    *)
FairRegistrySpec ==
  /\ RegistrySpec
  /\ \A w \in Workers : WF_rvars(OpStep(w))
  /\ \A i \in Incarnations : WF_rvars(Lifecycle(i))
  /\ WF_rvars(MaintainBegin)

-----------------------------------------------------------------------------
Alive == {i \in Incarnations : records[i].task \in {"starting", "serving"}}

(* No lifecycle task is orphaned: whatever was cancelled, refused or revoked, a   *)
(* task that lives is listed under its name, or belongs to the start that holds   *)
(* the lock and will register or undo it (start, 114-134; close, 159-167).       *)
NoOrphan ==
  \A i \in Alive :
    \/ services[records[i].name] = i
    \/ lock # <<>> /\ workers[Head(lock)].inc = i /\ workers[Head(lock)].pc \in {"ready", "undo"}

(* Two incarnations of one name never live at once, though a close gives the     *)
(* lock away while the old one drains (start, 51-60; close, 150-167).           *)
OnePerName == \A i, j \in Alive : records[i].name = records[j].name => i = j

(* A service that is listed and not draining does serve (start, 125-134).       *)
ListedServes ==
  \A n \in Names : services[n] # None /\ ~records[services[n]].draining =>
    /\ records[services[n]].task = "serving"
    /\ records[services[n]].accepting /\ ~records[services[n]].stop

(* No more lifecycle tasks live than there is room for, those that come up or     *)
(* drain included, though the limit is on what is listed (start, 56-60).        *)
WithinCapacity == Cardinality(Alive) <= ServiceCapacity

(* When a shutdown returns nothing lives and nothing is listed, also when a      *)
(* start, a close or the maintenance was under way (close_all, 169-185).        *)
ShutdownIsComplete ==
  \A w \in Ops : workers[w].kind = "shutdown" /\ workers[w].pc = "ended" =>
    /\ Alive = {} /\ Registered = {}
    /\ \A v \in Ops : workers[v].pc \notin {"ready", "undo"}

(* What holds between any two steps of the registry.                          *)
RegistryInvariant ==
  RegistryTypeOK /\ NoOrphan /\ OnePerName /\ ListedServes /\ WithinCapacity /\ ShutdownIsComplete

(* Where an incarnation stands in its life cycle.                              *)
PhaseOf(i) ==
  LET r == records[i] IN
  CASE r.task = "none" -> "none"
    [] r.task = "done" -> "gone"
    [] r.task \notin {"none", "done"} /\ r.stop -> "leaving"
    [] r.task \notin {"none", "done"} /\ ~r.stop /\ services[r.name] = i -> "published"
    [] OTHER -> "starting"

Stage ==
  IF \E w \in Ops : workers[w].kind = "shutdown" /\ workers[w].pc = "ended" THEN "closed"
  ELSE IF closing THEN "closing" ELSE "open"

Phases == [i \in Incarnations |-> PhaseOf(i)]

SLC == INSTANCE ServiceLifeCycle WITH
  phase <- Phases,
  name <- [i \in Incarnations |-> records[i].name],
  chat <- [i \in Incarnations |-> records[i].chat],
  stage <- Stage,
  Limit <- ServiceCapacity

(* The lock, the queue for it, the tasks and the loops over the services implement *)
(* the life cycle that ServiceLifeCycle promises (start to close_all, 45-185).    *)
ImplementsServiceLifeCycle == SLC!LSpec

(* A service whose guard says no for good is drained (maintenance, 187-200).     *)
RevokedIsDrained ==
  \A i \in Incarnations :
    (records[i].task = "serving" /\ []~Guard(i)) ~> records[i].task = "done"

(* Maintenance stops only services whose guard has said no at some time: "the     *)
(* maintenance loop drains revoked services" (docs/embassy-operations.md).      *)
MaintenanceStopsRevoked ==
  [][workers[Maintain].pc = "close" /\ workers'[Maintain].pc = "await" =>
       records[workers'[Maintain].inc].revoked]_rvars

=============================================================================
