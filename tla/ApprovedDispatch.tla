--------------------------- MODULE ApprovedDispatch ---------------------------
(***************************************************************************)
(* What the outbound gate promises its operator, without tables, threads,   *)
(* leases, keys or clocks: a decision is proposed, cleared (by policy or by *)
(* an approval), claimed and sent, each at most once and in that order; a   *)
(* chat has one busy call at a time and a budget of calls; a stopped        *)
(* profile clears, claims and sends nothing, and stop and resume kill every *)
(* decision not yet claimed.  README.md, "Governed remote calls" and        *)
(* "Controls", states it in prose.                                         *)
(***************************************************************************)
EXTENDS Integers

CONSTANTS Profiles, Chats, ProfileOf, Decisions, Natives, ScopeOf, NoCall, Budget

VARIABLES
  phase,     \* [Decisions -> Phases]
  stopped,   \* [Profiles -> BOOLEAN]
  busy,      \* [Chats -> call holding the slot, or NoCall]
  used       \* [Chats -> calls charged to the budget]

avars == <<phase, stopped, busy, used>>

Phases == {"none", "pending", "cleared", "claimed", "sent", "dead"}
Unclaimed == {"pending", "cleared"}
Running(c) == ~stopped[ProfileOf[c]]

AInit ==
  /\ phase = [d \in Decisions |-> "none"]
  /\ stopped = [p \in Profiles |-> FALSE]
  /\ busy = [c \in Chats |-> NoCall]
  /\ used = [c \in Chats |-> 0]

\* Decisions of S not yet claimed die.
Killed(f, S) == [d \in Decisions |-> IF d \in S /\ f[d] \in Unclaimed THEN "dead" ELSE f[d]]

(* A new decision; expired ones of its chat may be cleaned up with it. *)
Propose(d) ==
  /\ phase[d] = "none"
  /\ \E S \in SUBSET {e \in Decisions : ScopeOf[e] = ScopeOf[d]}, first \in Unclaimed :
       phase' = [Killed(phase, S) EXCEPT ![d] = first]
  /\ UNCHANGED <<stopped, busy, used>>

Clear(d) ==
  /\ phase[d] = "pending" /\ Running(ScopeOf[d])
  /\ phase' = [phase EXCEPT ![d] = "cleared"]
  /\ UNCHANGED <<stopped, busy, used>>

Kill(d) ==
  /\ phase[d] \in Unclaimed
  /\ phase' = [phase EXCEPT ![d] = "dead"]
  /\ UNCHANGED <<stopped, busy, used>>

Charge(c, x) ==
  /\ Running(c) /\ busy[c] = NoCall /\ used[c] < Budget
  /\ busy' = [busy EXCEPT ![c] = x]
  /\ used' = [used EXCEPT ![c] = used[c] + 1]
  /\ UNCHANGED stopped

Claim(d) ==
  /\ phase[d] = "cleared"
  /\ phase' = [phase EXCEPT ![d] = "claimed"]
  /\ Charge(ScopeOf[d], d)

Native(n) == Charge(ScopeOf[n], n) /\ UNCHANGED phase

Send(d) ==
  /\ phase[d] = "claimed" /\ busy[ScopeOf[d]] = d /\ Running(ScopeOf[d])
  /\ phase' = [phase EXCEPT ![d] = "sent"]
  /\ UNCHANGED <<stopped, busy, used>>

Release(c) ==
  /\ busy[c] # NoCall
  /\ phase' = [d \in Decisions |->
       IF d = busy[c] /\ phase[d] = "claimed" THEN "dead" ELSE phase[d]]
  /\ busy' = [busy EXCEPT ![c] = NoCall]
  /\ UNCHANGED <<stopped, used>>

Switch(p, stop) ==
  /\ stopped' = [stopped EXCEPT ![p] = stop]
  /\ phase' = Killed(phase, {d \in Decisions : ProfileOf[ScopeOf[d]] = p})
  /\ UNCHANGED <<busy, used>>

ANext ==
  \/ \E d \in Decisions : Propose(d) \/ Clear(d) \/ Kill(d) \/ Claim(d) \/ Send(d)
  \/ \E n \in Natives : Native(n)
  \/ \E c \in Chats : Release(c)
  \/ \E p \in Profiles, stop \in BOOLEAN : Switch(p, stop)

ASpec == AInit /\ [][ANext]_avars
=============================================================================
