---------------------------- MODULE DecisionPhases ----------------------------
(***************************************************************************)
(* Where a decision of the store stands in the life cycle ApprovedDispatch  *)
(* promises.  The tool gate and the inference gate seal different payloads   *)
(* and take different steps; both are shown to implement that life cycle     *)
(* through this one mapping.                                               *)
(***************************************************************************)
EXTENDS DecisionStore

CONSTANT Granted   \* the payloads that ask the operator for nothing more

ASSUME GrantedAssumption == Granted \subseteq Payloads

VARIABLE dispatches   \* history: how often each decision has left

PhaseOf(d) ==
  CASE decisions[d].state = "absent" -> "none"
    [] decisions[d].state = "open" ->
         IF decisions[d].payload \in Granted THEN "cleared" ELSE "pending"
    [] decisions[d].state \notin {"absent", "open"} /\ dispatches[d] > 0 -> "sent"
    [] /\ decisions[d].state \notin {"absent", "open"} /\ dispatches[d] = 0
       /\ d \in started /\ sessions[ScopeOf[d]].active = d -> "claimed"
    [] OTHER -> "dead"

AD == INSTANCE ApprovedDispatch WITH
  phase <- [d \in Decisions |-> PhaseOf(d)],
  stopped <- [p \in Profiles |-> control[p].stopped],
  busy <- [c \in Chats |-> sessions[c].active],
  used <- [c \in Chats |-> sessions[c].calls],
  Budget <- CallLimit

(***************************************************************************)
(* A gate, with its tables, threads, leases, keys and clock, implements the *)
(* life cycle ApprovedDispatch promises: propose, clear, claim and send in   *)
(* that order, never while stopped, one call of a chat at a time within its *)
(* budget (gate.py and inference_gate.py over decisions.py).               *)
(***************************************************************************)
ImplementsApprovedDispatch == AD!ASpec
=============================================================================
