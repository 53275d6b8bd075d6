--------------------------- MODULE ServiceLifeCycle ---------------------------
(***************************************************************************)
(* What the registry of services promises, whatever its lock, queues and     *)
(* lifecycle tasks do: a service comes up, is published, leaves and is gone,  *)
(* each of these once; a name has one living service and the process no more  *)
(* than Limit; none is published for a chat that may not, nor after the       *)
(* shutdown was asked for; and the shutdown is over when nothing lives.       *)
(***************************************************************************)
EXTENDS Integers, FiniteSets

CONSTANTS Incarnations, Names, Chats, Limit

VARIABLES
  phase,    \* where each incarnation stands
  name,     \* the name it is published under, once it has begun
  chat,     \* the chat it is published for
  allowed,  \* whether a chat may publish
  stage     \* of the process: "open", "closing" or "closed"

lvars == <<phase, name, chat, allowed, stage>>

Living == {i \in Incarnations : phase[i] \in {"starting", "published", "leaving"}}

Stoppable == {i \in Incarnations : phase[i] \in {"starting", "published"}}

LInit ==
  /\ phase = [i \in Incarnations |-> "none"]
  /\ name \in [Incarnations -> Names]
  /\ chat \in [Incarnations -> Chats]
  /\ allowed = [c \in Chats |-> TRUE]
  /\ stage = "open"

Begin(i, n, c) ==
  /\ stage = "open" /\ phase[i] = "none"
  /\ \A j \in Living : name[j] # n
  /\ Cardinality(Living) < Limit
  /\ phase' = [phase EXCEPT ![i] = "starting"]
  /\ name' = [name EXCEPT ![i] = n]
  /\ chat' = [chat EXCEPT ![i] = c]
  /\ UNCHANGED <<allowed, stage>>

Publish(i) ==
  /\ stage = "open" /\ phase[i] = "starting" /\ allowed[chat[i]]
  /\ phase' = [phase EXCEPT ![i] = "published"]
  /\ UNCHANGED <<name, chat, allowed, stage>>

(* One service is told to stop, or several of them are.                       *)
Leave(some) ==
  /\ phase' = [i \in Incarnations |-> IF i \in some THEN "leaving" ELSE phase[i]]
  /\ UNCHANGED <<name, chat, allowed, stage>>

(* It has drained, or never came up.                                         *)
End(i) ==
  /\ phase[i] \in {"starting", "leaving"}
  /\ phase' = [phase EXCEPT ![i] = "gone"]
  /\ UNCHANGED <<name, chat, allowed, stage>>

Permit(c) ==
  /\ allowed' = [allowed EXCEPT ![c] = ~@]
  /\ UNCHANGED <<phase, name, chat, stage>>

Close ==
  /\ stage = "open" /\ stage' = "closing"
  /\ UNCHANGED <<phase, name, chat, allowed>>

Closed ==
  /\ stage = "closing" /\ Living = {}
  /\ stage' = "closed"
  /\ UNCHANGED <<phase, name, chat, allowed>>

LNext ==
  \/ \E some \in SUBSET Stoppable : Leave(some)
  \/ \E i \in Incarnations :
       \/ \E n \in Names, c \in Chats : Begin(i, n, c)
       \/ Publish(i) \/ End(i)
  \/ \E c \in Chats : Permit(c)
  \/ Close \/ Closed

LSpec == LInit /\ [][LNext]_lvars

=============================================================================
