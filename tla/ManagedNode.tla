------------------------------ MODULE ManagedNode ------------------------------
(***************************************************************************)
(* ManagedNode of src/helpers/managed_node.py: the supervisor of the private  *)
(* SAM node.  Every process that loads the plugin has a manager; they share a  *)
(* directory with the flag file "enabled", "status.json" and "runtime.lock",   *)
(* and whoever has that flock runs the thread that starts a hub and a node,    *)
(* watches them, and reaps them when one dies or they are no longer wanted.    *)
(*                                                                         *)
(* A step is one file operation, one flock or one wait.  _running() tells that  *)
(* a supervisor lives by trying the flock, and has it for a moment if not.      *)
(* Children that outlive a killed process are not followed.                   *)
(***************************************************************************)
EXTENDS Naturals, FiniteSets

CONSTANTS
  Processes,
  Callers,     \* threads that call a manager
  HomeOf,      \* the process of a caller
  None,
  Troubles     \* bound: deaths of processes and failed writes in one behaviour

Children == {"hub", "node"}

ASSUME NodeAssumption ==
  /\ HomeOf \in [Callers -> Processes]
  /\ None \notin Processes \cup Callers /\ Processes \cap Callers = {}
  /\ Troubles \in Nat

VARIABLES
  enabled,     \* whether the flag file exists
  report,      \* the status in status.json
  flock,       \* who has runtime.lock: a manager, or a caller that probes it
  stop_event,  \* of each manager
  guard,       \* of each manager: the caller in ensure()
  thread,      \* of each manager: where its supervisor stands
  children,    \* of each manager: the children that run
  callers,     \* where each caller stands
  troubles     \* troubles left

nvars == <<enabled, report, flock, stop_event, guard, thread, children, callers, troubles>>

ThreadPC == {"none", "install", "wait_hub", "wait_node", "ready", "serve",
             "failed", "reap", "settle", "release", "ending"}
CallerPC == {"idle", "check", "recheck", "checked", "lock", "enable", "report", "spawn",
             "status", "probed", "close", "final"}

(* Types; the flock is a caller's only while it probes, the guard one of its own. *)
NodeTypeOK ==
  /\ enabled \in BOOLEAN
  /\ report \in {"none", "installing", "starting", "ready", "failed", "stopped"}
  /\ flock \in Processes \cup Callers \cup {None}
  /\ stop_event \in [Processes -> BOOLEAN]
  /\ guard \in [Processes -> Callers \cup {None}]
  /\ thread \in [Processes -> ThreadPC]
  /\ children \in [Processes -> SUBSET Children]
  /\ callers \in [Callers -> CallerPC]
  /\ troubles \in 0..Troubles
  /\ flock \in Callers => callers[flock] \in {"checked", "probed"}
  /\ \A p \in Processes : guard[p] # None => HomeOf[guard[p]] = p

NodeInit ==
  /\ enabled = FALSE /\ report = "none" /\ flock = None
  /\ stop_event = [p \in Processes |-> FALSE]
  /\ guard = [p \in Processes |-> None]
  /\ thread = [p \in Processes |-> "none"]
  /\ children = [p \in Processes |-> {}]
  /\ callers = [c \in Callers |-> "idle"]
  /\ troubles = Troubles

-----------------------------------------------------------------------------
At(c, pc) == callers[c] = pc
Goto(c, pc) == callers' = [callers EXCEPT ![c] = pc]
Trouble == troubles > 0 /\ troubles' = troubles - 1

(* The call returns or raises; ensure() leaves its guard.                     *)
Return(c) ==
  /\ Goto(c, "idle")
  /\ guard' = [p \in Processes |-> IF guard[p] = c THEN None ELSE guard[p]]

(* _running(), first half: the flock is taken, or somebody has it.             *)
Probe(c, free, taken) ==
  \/ flock = None /\ flock' = c /\ Goto(c, free)
  \/ flock # None /\ Goto(c, taken) /\ UNCHANGED flock

(* _running(), second half: the descriptor is closed.                          *)
Unprobe(c) == flock' = None

-----------------------------------------------------------------------------
(* ensure(): one caller of a manager at a time.  A thread that is still alive,  *)
(* whatever it does, ends it with a status().                                *)
EnsureBegin(c) ==
  /\ At(c, "idle")
  /\ guard[HomeOf[c]] = None
  /\ guard' = [guard EXCEPT ![HomeOf[c]] = c]
  /\ IF thread[HomeOf[c]] # "none"
     THEN Goto(c, "status")
     ELSE \E pc \in {"check", "recheck"} : Goto(c, pc)
  /\ UNCHANGED <<enabled, report, flock, stop_event, thread, children, troubles>>

(* Its first status(): a failure is left alone unless this is a retry.         *)
EnsureCheck(c) ==
  /\ \/ /\ At(c, "check") \/ At(c, "recheck")
        /\ report = "ready"
        /\ Probe(c, "checked", "lock")
        /\ UNCHANGED guard
     \/ /\ At(c, "check") /\ report = "failed"
        /\ Return(c)
        /\ UNCHANGED flock
     \/ /\ At(c, "check") \/ At(c, "recheck")
        /\ report # "ready" /\ (At(c, "check") => report # "failed")
        /\ Goto(c, "lock")
        /\ UNCHANGED <<flock, guard>>
     \/ /\ At(c, "checked")
        /\ Unprobe(c)
        /\ Goto(c, "lock")
        /\ UNCHANGED guard
  /\ UNCHANGED <<enabled, report, stop_event, thread, children, troubles>>

\* Mutant: the flag is written before the lock is tried.
EnsureLockEnables(c) ==
  /\ At(c, "lock")
  /\ enabled' = TRUE
  /\ \/ /\ flock = None /\ flock' = HomeOf[c]
        /\ stop_event' = [stop_event EXCEPT ![HomeOf[c]] = FALSE]
        /\ Goto(c, "enable")
     \/ flock # None /\ Goto(c, "status") /\ UNCHANGED <<flock, stop_event>>
  /\ UNCHANGED <<report, guard, thread, children, troubles>>

(* The lock is taken, or it is not; nobody reads the event before the thread.    *)
EnsureLock(c) ==
  /\ At(c, "lock")
  /\ \/ /\ flock = None /\ flock' = HomeOf[c]
        /\ stop_event' = [stop_event EXCEPT ![HomeOf[c]] = FALSE]
        /\ Goto(c, "enable")
     \/ flock # None /\ Goto(c, "status") /\ UNCHANGED <<flock, stop_event>>
  /\ UNCHANGED <<enabled, report, guard, thread, children, troubles>>

(* The two files; if one cannot be written, the manager keeps the lock.        *)
EnsureWrite(c) ==
  /\ \/ /\ At(c, "enable")
        /\ enabled' = TRUE
        /\ Goto(c, "report")
        /\ UNCHANGED <<report, guard, troubles>>
     \/ /\ At(c, "report")
        /\ report' = "installing"
        /\ Goto(c, "spawn")
        /\ UNCHANGED <<enabled, guard, troubles>>
     \/ /\ At(c, "enable") \/ At(c, "report")
        /\ Trouble
        /\ Return(c)
        /\ UNCHANGED <<enabled, report>>
  /\ UNCHANGED <<flock, stop_event, thread, children>>

EnsureSpawn(c) ==
  /\ At(c, "spawn")
  /\ thread' = [thread EXCEPT ![HomeOf[c]] = "install"]
  /\ Goto(c, "status")
  /\ UNCHANGED <<enabled, report, flock, stop_event, guard, children, troubles>>

(* status(), by itself or as the answer of ensure(): "ready" is believed only   *)
(* while somebody has the flock.                                             *)
Status(c) ==
  /\ \/ /\ At(c, "status") /\ report = "ready" /\ flock = None
        /\ flock' = c
        /\ Goto(c, "probed")
        /\ UNCHANGED guard
     \/ /\ At(c, "status") /\ (report = "ready" => flock # None)
        /\ Return(c)
        /\ UNCHANGED flock
     \/ /\ At(c, "probed")
        /\ Unprobe(c)
        /\ Return(c)
  /\ UNCHANGED <<enabled, report, stop_event, thread, children, troubles>>

-----------------------------------------------------------------------------
(* stop() removes the flag and has close() set the event, which the interpreter  *)
(* calls alone as it exits; ...                                              *)
StopFlag(c) ==
  /\ At(c, "idle")
  /\ enabled' = FALSE
  /\ Goto(c, "close")
  /\ UNCHANGED <<report, flock, stop_event, guard, thread, children, troubles>>

CloseEvent(c) ==
  /\ \/ At(c, "close") /\ Goto(c, "final")
     \/ At(c, "idle") /\ UNCHANGED callers
  /\ stop_event' = [stop_event EXCEPT ![HomeOf[c]] = TRUE]
  /\ UNCHANGED <<enabled, report, flock, guard, thread, children, troubles>>

(* ... it waits for the thread and for any supervisor to go, for some time, and  *)
(* answers whether there is one left.                                        *)
StopAnswer(c) ==
  /\ At(c, "final")
  /\ \/ flock = None /\ flock' = c /\ Goto(c, "probed") /\ UNCHANGED guard
     \/ flock # None /\ Return(c) /\ UNCHANGED flock
  /\ UNCHANGED <<enabled, report, stop_event, thread, children, troubles>>

(* A call of status().                                                       *)
StatusBegin(c) ==
  /\ At(c, "idle")
  /\ Goto(c, "status")
  /\ UNCHANGED <<enabled, report, flock, stop_event, guard, thread, children, troubles>>

-----------------------------------------------------------------------------
\* Mutant: only this manager can stop its node.
WantedLocally(p) == ~stop_event[p]

(* _wanted(): nobody stopped this manager, nor any other.                     *)
Wanted(p) == ~stop_event[p] /\ enabled

Moves(p, from, to) == thread[p] = from /\ thread' = [thread EXCEPT ![p] = to]

(* _run(): the binaries, the hub, the node, each waited for; _wait() goes on only *)
(* while all that was started runs and is wanted.                             *)
Progress(p) ==
  /\ \/ /\ Moves(p, "install", "wait_hub")
        /\ report' = "starting"
        /\ children' = [children EXCEPT ![p] = {"hub"}]
     \/ /\ Moves(p, "wait_hub", "wait_node")
        /\ children[p] = {"hub"} /\ Wanted(p)
        /\ children' = [children EXCEPT ![p] = Children]
        /\ UNCHANGED report
     \/ /\ Moves(p, "wait_node", "ready")
        /\ children[p] = Children /\ Wanted(p)
        /\ UNCHANGED <<report, children>>
     \/ /\ Moves(p, "ready", "serve")
        /\ report' = "ready"
        /\ UNCHANGED children
  /\ UNCHANGED <<enabled, flock, stop_event, guard, callers, troubles>>

(* Anything on the way may raise: a download, a file, a timeout, a child that    *)
(* died, a cancellation.                                                     *)
Raise(p) ==
  /\ \E pc \in {"install", "wait_hub", "wait_node", "ready"} : Moves(p, pc, "failed")
  /\ UNCHANGED <<enabled, report, flock, stop_event, guard, children, callers, troubles>>

(* The loop that watches the children of a node that is up.                   *)
Watch(p) ==
  /\ \/ ~Wanted(p) /\ Moves(p, "serve", "reap")
     \/ Wanted(p) /\ children[p] # Children /\ Moves(p, "serve", "failed")
  /\ UNCHANGED <<enabled, report, flock, stop_event, guard, children, callers, troubles>>

(* A child dies: by itself, or terminated or killed as the thread reaps it.     *)
ChildExits(p) ==
  /\ \E k \in children[p] : children' = [children EXCEPT ![p] = @ \ {k}]
  /\ UNCHANGED <<enabled, report, flock, stop_event, guard, thread, callers, troubles>>

(* The failure is reported, if it can be.                                    *)
ReportFailed(p) ==
  /\ Moves(p, "failed", "reap")
  /\ \/ report' = "failed" /\ UNCHANGED troubles
     \/ Trouble /\ UNCHANGED report
  /\ UNCHANGED <<enabled, flock, stop_event, guard, children, callers>>

\* Mutant: the lock is given up before the children are reaped.
ReapUnlocked(p) ==
  /\ Moves(p, "reap", "settle")
  /\ flock' = None
  /\ UNCHANGED <<enabled, report, stop_event, guard, children, callers, troubles>>

(* All children have been waited for; one that survives even the kill ends the   *)
(* thread with the lock kept.                                                *)
Reap(p) ==
  /\ \/ Moves(p, "reap", "settle") /\ children[p] = {} /\ UNCHANGED troubles
     \/ Moves(p, "reap", "none") /\ children[p] # {} /\ Trouble
  /\ UNCHANGED <<enabled, report, flock, stop_event, guard, children, callers>>

(* A stop is reported; if it cannot be, the thread ends with the lock kept.     *)
Settle(p) ==
  /\ \/ Wanted(p) /\ Moves(p, "settle", "release") /\ UNCHANGED <<report, troubles>>
     \/ ~Wanted(p) /\ Moves(p, "settle", "release") /\ report' = "stopped" /\ UNCHANGED troubles
     \/ ~Wanted(p) /\ Moves(p, "settle", "none") /\ Trouble /\ UNCHANGED report
  /\ UNCHANGED <<enabled, flock, stop_event, guard, children, callers>>

(* The lock is given up, and then the thread ends.                            *)
Release(p) ==
  /\ \/ Moves(p, "release", "ending") /\ flock' = None
     \/ Moves(p, "ending", "none") /\ UNCHANGED flock
  /\ UNCHANGED <<enabled, report, stop_event, guard, children, callers, troubles>>

-----------------------------------------------------------------------------
(* The process exits or is killed, and another takes its place: the flock is     *)
(* free, the files are as they were.                                         *)
Die(p) ==
  /\ Trouble
  /\ flock' = IF flock = p \/ flock \in {c \in Callers : HomeOf[c] = p} THEN None ELSE flock
  /\ stop_event' = [stop_event EXCEPT ![p] = FALSE]
  /\ guard' = [guard EXCEPT ![p] = None]
  /\ thread' = [thread EXCEPT ![p] = "none"]
  /\ children' = [children EXCEPT ![p] = {}]
  /\ callers' = [c \in Callers |-> IF HomeOf[c] = p THEN "idle" ELSE callers[c]]
  /\ UNCHANGED <<enabled, report>>

CallerStep(c) ==
  \/ EnsureBegin(c) \/ EnsureCheck(c) \/ EnsureLock(c) \/ EnsureWrite(c) \/ EnsureSpawn(c)
  \/ StatusBegin(c) \/ Status(c)
  \/ StopFlag(c) \/ CloseEvent(c) \/ StopAnswer(c)

ThreadStep(p) ==
  Progress(p) \/ Raise(p) \/ Watch(p) \/ ReportFailed(p) \/ Reap(p) \/ Settle(p) \/ Release(p)

NodeNext ==
  \/ \E c \in Callers : CallerStep(c)
  \/ \E p \in Processes : ThreadStep(p) \/ ChildExits(p) \/ Die(p)

NodeSpec == NodeInit /\ [][NodeNext]_nvars

(* A thread of Python runs on, every wait in it has a timeout, and a child that   *)
(* is being reaped is killed if it does not go.                               *)
FairNodeSpec ==
  /\ NodeSpec
  /\ \A p \in Processes : WF_nvars(ThreadStep(p)) /\ WF_nvars(thread[p] = "reap" /\ ChildExits(p))

-----------------------------------------------------------------------------
Supervising(p) == thread[p] \notin {"none", "ending"}

(* "One runtime lock prevents duplicate supervisors": a manager whose thread      *)
(* works, or one of whose children still runs, has the lock, whoever probes it    *)
(* and however the last supervisor ended (ensure, 150-177; _run, 373-390).      *)
OneSupervisor == \A p \in Processes : Supervising(p) \/ children[p] # {} => flock = p

(* A supervisor that was told to stop, by its own manager or another, is never    *)
(* told otherwise by an ensure() that comes meanwhile (ensure, 139-173; stop).   *)
StopSticks ==
  [][\A p \in Processes : Supervising(p) /\ ~Wanted(p) /\ Supervising(p)' => ~Wanted(p)']_nvars

(* Removing the flag ends every supervisor, also that of another process, wherever *)
(* it stands (stop; _wanted; _run, 351-390).                                  *)
DisabledStops == \A p \in Processes : (Supervising(p) /\ []~enabled) ~> ~Supervising(p)

=============================================================================
