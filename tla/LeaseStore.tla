------------------------------ MODULE LeaseStore ------------------------------
(***************************************************************************)
(* Single-use approval leases: src/helpers/leases.py.  The table lives in   *)
(* the same SQLite file as the decisions, but every LeaseStore method opens *)
(* its own transaction: nothing here is atomic with a decision.  The digest *)
(* that binds a lease to one request is abstracted to the request itself.   *)
(***************************************************************************)
EXTENDS Integers

CONSTANTS
  Leases,      \* opaque identifiers issue() may mint
  Bindings,    \* LeaseRequest.binding_hash()
  NoBinding,   \* binding of an identifier not minted yet
  Profiles, Chats, ProfileOf,
  MaxUses      \* the max_uses the gate passes: 1 in the code

VARIABLES
  leases,      \* the leases table
  now          \* SQLiteStorage.now(), the clock the decisions read too

LeaseRow ==
  [state: {"absent", "live", "revoked"}, chat: Chats, binding: Bindings \cup {NoBinding},
   expires: Nat, uses: Nat]

LeaseTypeOK == leases \in [Leases -> LeaseRow]

LeaseInit ==
  leases = [l \in Leases |->
    [state |-> "absent", chat |-> CHOOSE c \in Chats : TRUE, binding |-> NoBinding,
     expires |-> 0, uses |-> 0]]

\* Mutant: the expiry is computed backwards.
IssueBackwards(l, c, binding, ttl) ==
  /\ leases[l].state = "absent"
  /\ leases' = [leases EXCEPT ![l] =
       [state |-> "live", chat |-> c, binding |-> binding, expires |-> now - ttl, uses |-> 0]]

(* issue(): always a new row. *)
Issue(l, c, binding, ttl) ==
  /\ leases[l].state = "absent"
  /\ leases' = [leases EXCEPT ![l] =
       [state |-> "live", chat |-> c, binding |-> binding, expires |-> now + ttl, uses |-> 0]]

(* consume(): not revoked, same binding, unexpired, not exhausted. *)
Consumable(l, binding) ==
  /\ l \in Leases
  /\ leases[l].state = "live"
  /\ leases[l].binding = binding
  /\ now < leases[l].expires
  /\ leases[l].uses < MaxUses

Consume(l, binding) ==
  /\ Consumable(l, binding)
  /\ leases' = [leases EXCEPT ![l].uses = leases[l].uses + 1]

Revoked(S) ==
  [l \in Leases |-> IF l \in S /\ leases[l].state = "live"
                    THEN [leases[l] EXCEPT !.state = "revoked"] ELSE leases[l]]

(* revoke_profile(): every chat of the profile. *)
RevokeProfile(c) ==
  leases' = Revoked({l \in Leases : ProfileOf[leases[l].chat] = ProfileOf[c]})
=============================================================================
