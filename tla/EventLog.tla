------------------------------- MODULE EventLog -------------------------------
(***************************************************************************)
(* What the audit log promises for each scope, whatever its transactions,   *)
(* hashes, caches and processes do: a log that grows by whole events at its  *)
(* end, of which the last ones are kept.  An append lets go of what is too   *)
(* old or too many, and of everything before it; an older copy takes the     *)
(* last events back; and a log that was altered by other means is refused,   *)
(* never read or written again.                                             *)
(***************************************************************************)
EXTENDS Integers, Sequences

CONSTANTS Scopes, Times, Contents, MaxEvents, MaxAge

VARIABLE log  \* of each scope: every event of its chain, and how many were let go

Event == [at: Times, content: Contents]

Empty == [ok |-> TRUE, gone |-> 0, events |-> <<>>]
Lost == [ok |-> FALSE]

(* The i-th event is too old when e occurs, or MaxEvents came after it.       *)
TooOld(events, e, i) ==
  events[i].at <= e.at - MaxAge \/ i + MaxEvents <= Len(events)

(* Up to the g-th, the events are let go: no more of them than retention asks. *)
LetGo(events, e, gone, g) ==
  /\ \A i \in (gone + 1)..Len(events) : TooOld(events, e, i) => i <= g
  /\ g = gone \/ TooOld(events, e, g)

Extend(s, e) ==
  LET old == log[s]
      longer == Append(old.events, e)
  IN  /\ old.ok
      /\ \E g \in old.gone..Len(old.events) :
           /\ LetGo(longer, e, old.gone, g)
           /\ log' = [log EXCEPT ![s] = [ok |-> TRUE, gone |-> g, events |-> longer]]

TakeBack(s) ==
  LET old == log[s]
  IN  /\ old.ok
      /\ \E n \in (old.gone + 1)..(Len(old.events) - 1) :
           log' = [log EXCEPT ![s] =
             [ok |-> TRUE, gone |-> old.gone, events |-> SubSeq(old.events, 1, n)]]

Lose(s) ==
  /\ log[s].ok /\ log[s].events # <<>>
  /\ log' = [log EXCEPT ![s] = Lost]

LogInit == log = [s \in Scopes |-> Empty]

LogNext == \E s \in Scopes : TakeBack(s) \/ Lose(s) \/ \E e \in Event : Extend(s, e)

LogSpec == LogInit /\ [][LogNext]_log

=============================================================================
