------------------------- MODULE DecisionStoreProofs -------------------------
(***************************************************************************)
(* Theorems about the decision store under arbitrary clients, for every     *)
(* value of the constants that satisfies StoreAssumption; then what the two  *)
(* gates need of it: what an operation leaves alone, and which step of the   *)
(* life cycle of ApprovedDispatch it is.                                    *)
(***************************************************************************)
EXTENDS DecisionPhases, FiniteSetTheorems, TLAPS

(* A step of the store, split into its operations. *)
LEMMA StoreStep ==
  ASSUME StoreNext
  PROVE  \/ \E c \in Chats : Read(c)
         \/ \E c \in Chats : RevokeScope(c)
         \/ \E c \in Chats : ResumeScope(c)
         \/ \E p \in Processes, c \in Chats, d \in Decisions, x \in Payloads :
              Create(p, c, d, x)
         \/ \E p \in Processes, c \in Chats, d \in Decisions, x \in Payloads :
              Update(p, c, d, x)
         \/ \E p \in Processes, c \in Chats, d \in Decisions, x \in Payloads :
              Claim(p, c, d, x)
         \/ \E c \in Chats, d \in Decisions, t \in Int : Admit(c, d, t)
         \/ \E c \in Chats, x \in Calls : Finish(c, x)
         \/ \E c \in Chats, d \in Decisions : Invalidate(c, d)
         \/ \E c \in Chats, n \in Natives : BeginNative(c, n)
         \/ \E p \in Processes : Rotate(p)
         \/ Tick
BY DEF StoreNext, DecisionStep, Load, Calls

LEMMA AdmissionTyped ==
  ASSUME StoreTypeOK, NEW x \in Calls
  PROVE  AdmissionOf(x) \in AdmissionRow
<1>1. ScopeOf[x] \in Chats /\ ProfileOfCall(x) \in Profiles
  BY StoreAssumption DEF StoreAssumption, ProfileOfCall
<1>2. control[ProfileOfCall(x)] \in ControlRow
  BY <1>1 DEF StoreTypeOK
<1> QED
  BY <1>1, <1>2 DEF AdmissionOf, AdmissionRow, ControlRow

LEMMA TouchedTyped ==
  ASSUME StoreTypeOK, NEW c \in Chats
  PROVE  Touched(c) \in [Chats -> SessionRow]
BY DEF StoreTypeOK, Touched, SessionRow

(* The tables keep their types (the schema of decisions.py transaction). *)
LEMMA TypeStep == StoreTypeOK /\ [StoreNext]_storeVars => StoreTypeOK'
<1> SUFFICES ASSUME StoreTypeOK, [StoreNext]_storeVars PROVE StoreTypeOK'
  OBVIOUS
<1> USE DEF tables, history
<1>1. ASSUME NEW c \in Chats, Read(c) PROVE StoreTypeOK'
  BY <1>1, TouchedTyped DEF Read, StoreTypeOK
<1>2. ASSUME NEW c \in Chats, NEW flag \in BOOLEAN,
             SetControl(c, flag), InvalidateProfile(c, flag)
      PROVE  /\ decisions' \in [Decisions -> DecisionRow]
             /\ sessions' \in [Chats -> SessionRow]
             /\ control' \in [Profiles -> ControlRow]
  <2>1. decisions' \in [Decisions -> DecisionRow]
    <3>1. \A d \in Decisions : [decisions[d] EXCEPT !.state = "used"] \in DecisionRow
      BY DEF StoreTypeOK, DecisionRow, RowStates
    <3> QED BY <1>2, <3>1 DEF InvalidateProfile, StoreTypeOK
  <2>2. sessions' \in [Chats -> SessionRow]
    <3>1. \A b \in Chats : [sessions[b] EXCEPT !.row = TRUE, !.disabled = flag] \in SessionRow
      BY DEF StoreTypeOK, SessionRow
    <3> QED BY <1>2, <3>1 DEF InvalidateProfile, StoreTypeOK
  <2>3. control' \in [Profiles -> ControlRow]
    BY <1>2, StoreAssumption DEF SetControl, StoreTypeOK, ControlRow, StoreAssumption
  <2> QED BY <2>1, <2>2, <2>3
<1>3. ASSUME NEW c \in Chats, RevokeScope(c) \/ ResumeScope(c) PROVE StoreTypeOK'
  BY <1>2, <1>3 DEF RevokeScope, ResumeScope, StoreTypeOK
<1>4. ASSUME NEW p \in Processes, NEW c \in Chats, NEW d \in Decisions, NEW x \in Payloads,
             Create(p, c, d, x)
      PROVE  StoreTypeOK'
  <2>1. [state |-> "open", expires |-> now + TTL, key |-> KeyOf(p), payload |-> x]
          \in DecisionRow
    BY StoreAssumption DEF StoreTypeOK, DecisionRow, RowStates, Keys, KeyOf, StoreAssumption
  <2>2. \A e \in Decisions : [decisions[e] EXCEPT !.state = "pruned"] \in DecisionRow
    BY DEF StoreTypeOK, DecisionRow, RowStates
  <2>3. decisions' \in [Decisions -> DecisionRow]
    BY <1>4, <2>1, <2>2 DEF Create, StoreTypeOK
  <2>4. control[ProfileOf[c]].generation \in Nat
    BY StoreAssumption DEF StoreTypeOK, ControlRow, StoreAssumption
  <2> QED
    BY <1>4, <2>3, <2>4, TouchedTyped DEF Create, StoreTypeOK
<1>5. ASSUME NEW p \in Processes, NEW c \in Chats, NEW d \in Decisions, NEW x \in Payloads,
             Update(p, c, d, x)
      PROVE  StoreTypeOK'
  <2>1. decisions' \in [Decisions -> DecisionRow]
    BY <1>5 DEF Update, StoreTypeOK, DecisionRow, RowStates, Keys, KeyOf
  <2> QED
    BY <1>5, <2>1, TouchedTyped DEF Update, StoreTypeOK
<1>6. ASSUME NEW p \in Processes, NEW c \in Chats, NEW d \in Decisions, NEW x \in Payloads,
             Claim(p, c, d, x)
      PROVE  StoreTypeOK'
  <2>1. decisions' \in [Decisions -> DecisionRow]
    BY <1>6 DEF Claim, StoreTypeOK, DecisionRow, RowStates
  <2>2. sessions' \in [Chats -> SessionRow]
    BY <1>6 DEF Claim, StoreTypeOK, SessionRow, Calls
  <2> QED
    BY <1>6, <2>1, <2>2 DEF Claim, StoreTypeOK, Calls
<1>7. ASSUME NEW c \in Chats, NEW d \in Decisions, NEW t \in Int, Admit(c, d, t)
      PROVE  StoreTypeOK'
  <2>1. AdmissionOf(d) \in AdmissionRow
    BY AdmissionTyped DEF Calls
  <2> QED
    BY <1>7, <2>1, TouchedTyped DEF Admit, StoreTypeOK
<1>8. ASSUME NEW c \in Chats, NEW x \in Calls, Finish(c, x) PROVE StoreTypeOK'
  <2>1. sessions' \in [Chats -> SessionRow]
    BY <1>8 DEF Finish, StoreTypeOK, SessionRow
  <2> QED
    BY <1>8, <2>1 DEF Finish, StoreTypeOK
<1>9. ASSUME NEW c \in Chats, NEW d \in Decisions, Invalidate(c, d) PROVE StoreTypeOK'
  <2>1. decisions' \in [Decisions -> DecisionRow]
    BY <1>9 DEF Invalidate, StoreTypeOK, DecisionRow, RowStates
  <2> QED
    BY <1>9, <2>1, TouchedTyped DEF Invalidate, StoreTypeOK
<1>10. ASSUME NEW c \in Chats, NEW n \in Natives, BeginNative(c, n) PROVE StoreTypeOK'
  <2>1. sessions' \in [Chats -> SessionRow]
    BY <1>10 DEF BeginNative, StoreTypeOK, SessionRow, Calls
  <2>2. AdmissionOf(n) \in AdmissionRow
    BY AdmissionTyped DEF Calls
  <2> QED
    BY <1>10, <2>1, <2>2 DEF BeginNative, StoreTypeOK, Calls
<1>11. ASSUME NEW p \in Processes, Rotate(p) PROVE StoreTypeOK'
  BY <1>11 DEF Rotate, StoreTypeOK
<1>12. CASE Tick
  BY <1>12 DEF Tick, StoreTypeOK
<1>13. CASE UNCHANGED storeVars
  BY <1>13 DEF storeVars, StoreTypeOK
<1> QED
  BY <1>1, <1>3, <1>4, <1>5, <1>6, <1>7, <1>8, <1>9, <1>10, <1>11, <1>12, <1>13,
     StoreStep

(* The type invariant of the store. *)
THEOREM StoreTypeCorrect == StoreSpec => []StoreTypeOK
<1>1. StoreInit => StoreTypeOK
  BY StoreAssumption DEF StoreInit, StoreTypeOK, DecisionRow, SessionRow, ControlRow,
     RowStates, Keys, StoreAssumption
<1> QED
  BY <1>1, TypeStep, PTL DEF StoreSpec
-----------------------------------------------------------------------------
(* AdmissionHoldsSlot is inductive with the types: only a free slot is taken *)
(* and finish() releases slot and admission together.                       *)
LEMMA SlotStep ==
  StoreTypeOK /\ AdmissionHoldsSlot /\ [StoreNext]_storeVars => AdmissionHoldsSlot'
<1> SUFFICES ASSUME StoreTypeOK, AdmissionHoldsSlot, [StoreNext]_storeVars,
                    NEW a \in admissions'
             PROVE  /\ sessions'[ScopeOf[a.id]].active = a.id
                    /\ a.profile = ProfileOfCall(a.id)
  BY DEF AdmissionHoldsSlot, ProfileOfCall
<1> USE DEF tables, history
<1>0. /\ \A b \in admissions : b.id \in Calls /\ ScopeOf[b.id] \in Chats
      /\ NoCall \notin Calls
  BY StoreAssumption DEF StoreTypeOK, AdmissionRow, StoreAssumption
<1>1. ASSUME a \in admissions,
             \A c \in Chats : sessions'[c].active = sessions[c].active
      PROVE  /\ sessions'[ScopeOf[a.id]].active = a.id
             /\ a.profile = ProfileOfCall(a.id)
  BY <1>0, <1>1 DEF AdmissionHoldsSlot
<1>2. ASSUME NEW c \in Chats, sessions' = Touched(c)
      PROVE  \A b \in Chats : sessions'[b].active = sessions[b].active
  BY <1>2 DEF StoreTypeOK, SessionRow, Touched
<1>3. ASSUME NEW c \in Chats, NEW flag, InvalidateProfile(c, flag)
      PROVE  \A b \in Chats : sessions'[b].active = sessions[b].active
  BY <1>3 DEF StoreTypeOK, SessionRow, InvalidateProfile
<1>4. ASSUME NEW c \in Chats, NEW x \in Calls, ScopeOf[x] = c, sessions[c].active = NoCall,
             sessions' = [sessions EXCEPT ![c] =
               [row |-> TRUE, calls |-> sessions[c].calls + 1,
                disabled |-> sessions[c].disabled, active |-> x]],
             a \in admissions \cup {AdmissionOf(x)}
      PROVE  /\ sessions'[ScopeOf[a.id]].active = a.id
             /\ a.profile = ProfileOfCall(a.id)
  <2>1. CASE a = AdmissionOf(x)
    BY <1>4, <2>1 DEF AdmissionOf, StoreTypeOK
  <2>2. CASE a \in admissions
    <3>1. ScopeOf[a.id] # c
      BY <1>0, <1>4, <2>2 DEF AdmissionHoldsSlot
    <3> QED
      BY <1>0, <1>4, <2>2, <3>1 DEF AdmissionHoldsSlot, StoreTypeOK
  <2> QED
    BY <1>4, <2>1, <2>2
<1>5. CASE \E c \in Chats : Read(c)
  BY <1>1, <1>2, <1>5 DEF Read
<1>6. CASE \E c \in Chats : RevokeScope(c) \/ ResumeScope(c)
  BY <1>1, <1>3, <1>6 DEF RevokeScope, ResumeScope
<1>7. ASSUME NEW p \in Processes, NEW c \in Chats, NEW d \in Decisions, NEW x \in Payloads,
             Create(p, c, d, x) \/ Update(p, c, d, x)
      PROVE  /\ sessions'[ScopeOf[a.id]].active = a.id
             /\ a.profile = ProfileOfCall(a.id)
  BY <1>1, <1>2, <1>7 DEF Create, Update
<1>8. ASSUME NEW p \in Processes, NEW c \in Chats, NEW d \in Decisions, NEW x \in Payloads,
             Claim(p, c, d, x)
      PROVE  /\ sessions'[ScopeOf[a.id]].active = a.id
             /\ a.profile = ProfileOfCall(a.id)
  BY <1>4, <1>8 DEF Claim, Loadable, Calls
<1>9. ASSUME NEW c \in Chats, NEW d \in Decisions, NEW t \in Int, Admit(c, d, t)
      PROVE  /\ sessions'[ScopeOf[a.id]].active = a.id
             /\ a.profile = ProfileOfCall(a.id)
  <2>1. CASE a \in admissions
    BY <1>1, <1>2, <1>9, <2>1 DEF Admit
  <2>2. CASE a = AdmissionOf(d)
    BY <1>2, <1>9, <2>2 DEF Admit, AdmissionOf
  <2> QED
    BY <1>9, <2>1, <2>2 DEF Admit
<1>10. ASSUME NEW c \in Chats, NEW x \in Calls, Finish(c, x)
       PROVE  /\ sessions'[ScopeOf[a.id]].active = a.id
              /\ a.profile = ProfileOfCall(a.id)
  <2>1. a \in admissions /\ a.id # x
    BY <1>10 DEF Finish
  <2> QED
    BY <1>0, <1>10, <2>1 DEF Finish, AdmissionHoldsSlot, StoreTypeOK
<1>11. ASSUME NEW c \in Chats, NEW d \in Decisions, Invalidate(c, d)
       PROVE  /\ sessions'[ScopeOf[a.id]].active = a.id
              /\ a.profile = ProfileOfCall(a.id)
  BY <1>1, <1>2, <1>11 DEF Invalidate
<1>12. ASSUME NEW c \in Chats, NEW n \in Natives, BeginNative(c, n)
       PROVE  /\ sessions'[ScopeOf[a.id]].active = a.id
              /\ a.profile = ProfileOfCall(a.id)
  BY <1>4, <1>12 DEF BeginNative, Calls
<1>13. CASE (\E p \in Processes : Rotate(p)) \/ Tick \/ UNCHANGED storeVars
  BY <1>1, <1>13 DEF Rotate, Tick, storeVars
<1> QED
  BY <1>5, <1>6, <1>7, <1>8, <1>9, <1>10, <1>11, <1>12, <1>13, StoreStep

(* Every admitted call holds its chat's slot, for any clients. *)
THEOREM AdmittedHoldsSlot == StoreSpec => []AdmissionHoldsSlot
<1>1. StoreInit => AdmissionHoldsSlot
  BY DEF StoreInit, AdmissionHoldsSlot
<1> QED
  BY <1>1, SlotStep, StoreTypeCorrect, PTL DEF StoreSpec
-----------------------------------------------------------------------------
(* The life of a row: where the state of a decision may go in one step.      *)
LEMMA RowStep ==
  ASSUME StoreTypeOK, [StoreNext]_storeVars, NEW d \in Decisions
  PROVE  \/ decisions'[d].state = decisions[d].state
         \/ decisions[d].state = "absent" /\ decisions'[d].state = "open"
         \/ decisions[d].state = "open" /\ decisions'[d].state = "used"
         \/ decisions[d].state \in {"open", "used"} /\ decisions'[d].state = "pruned"
<1> USE DEF tables, history
<1>1. ASSUME NEW c \in Chats, NEW flag, InvalidateProfile(c, flag)
      PROVE  \/ decisions'[d].state = decisions[d].state
             \/ decisions[d].state = "open" /\ decisions'[d].state = "used"
  BY <1>1 DEF InvalidateProfile, StoreTypeOK, DecisionRow
<1>2. ASSUME NEW p \in Processes, NEW c \in Chats, NEW e \in Decisions, NEW x \in Payloads,
             Create(p, c, e, x)
      PROVE  \/ decisions'[d].state = decisions[d].state
             \/ decisions[d].state = "absent" /\ decisions'[d].state = "open"
             \/ decisions[d].state \in {"open", "used"} /\ decisions'[d].state = "pruned"
  BY <1>2 DEF Create, Lapsed, Stored, StoreTypeOK, DecisionRow
<1>3. ASSUME NEW p \in Processes, NEW c \in Chats, NEW e \in Decisions, NEW x \in Payloads,
             Update(p, c, e, x) \/ Claim(p, c, e, x)
      PROVE  \/ decisions'[d].state = decisions[d].state
             \/ decisions[d].state = "open" /\ decisions'[d].state = "used"
  BY <1>3 DEF Update, Claim, Loadable, StoreTypeOK, DecisionRow
<1>4. ASSUME NEW c \in Chats, NEW e \in Decisions, Invalidate(c, e)
      PROVE  \/ decisions'[d].state = decisions[d].state
             \/ decisions[d].state = "open" /\ decisions'[d].state = "used"
  BY <1>4 DEF Invalidate, StoreTypeOK, DecisionRow
<1>5. CASE decisions' = decisions
  BY <1>5
<1> QED
  BY <1>1, <1>2, <1>3, <1>4, <1>5, StoreStep
     DEF Read, RevokeScope, ResumeScope, Admit, Finish, BeginNative, Rotate, Tick, storeVars

(* A decision once used or pruned is never usable again. *)
THEOREM SpentForEver == StoreSpec => NeverReopened
<1>1. ASSUME StoreTypeOK, [StoreNext]_storeVars
      PROVE  [\A d \in Decisions : Spent(d) => Spent(d)']_storeVars
  BY <1>1, RowStep DEF Spent
<1> QED
  BY <1>1, StoreTypeCorrect, PTL DEF StoreSpec, NeverReopened

-----------------------------------------------------------------------------
(* OpenIsCurrent is inductive with the types: the only operations that move  *)
(* a generation on, stop and resume, spend every open decision under it.     *)
LEMMA CurrentStep ==
  StoreTypeOK /\ OpenIsCurrent /\ [StoreNext]_storeVars => OpenIsCurrent'
<1> SUFFICES ASSUME StoreTypeOK, OpenIsCurrent, [StoreNext]_storeVars,
                    NEW d \in Decisions, decisions'[d].state = "open"
             PROVE  born'[d] = control'[ProfileOfCall(d)].generation
  BY DEF OpenIsCurrent, ProfileOfCall
<1> USE DEF tables, history
<1>0. ProfileOfCall(d) \in Profiles
  BY StoreAssumption DEF StoreAssumption, ProfileOfCall, Calls
<1>1. ASSUME NEW c \in Chats, NEW flag, SetControl(c, flag), InvalidateProfile(c, flag),
             born' = born
      PROVE  born'[d] = control'[ProfileOfCall(d)].generation
  <2>1. ProfileOfCall(d) # ProfileOf[c] /\ decisions[d].state = "open"
    BY <1>1 DEF InvalidateProfile, StoreTypeOK, DecisionRow
  <2> QED
    BY <1>0, <1>1, <2>1 DEF SetControl, StoreTypeOK, OpenIsCurrent
<1>2. ASSUME NEW p \in Processes, NEW c \in Chats, NEW e \in Decisions, NEW x \in Payloads,
             Create(p, c, e, x)
      PROVE  born'[d] = control'[ProfileOfCall(d)].generation
  <2>1. CASE d = e
    BY <1>2, <2>1 DEF Create, StoreTypeOK, ProfileOfCall
  <2>2. CASE d # e
    <3>1. decisions[d].state = "open"
      BY <1>2, <2>2 DEF Create, StoreTypeOK, DecisionRow
    <3> QED
      BY <1>2, <2>2, <3>1 DEF Create, StoreTypeOK, OpenIsCurrent
  <2> QED
    BY <2>1, <2>2
<1>3. ASSUME decisions[d].state = "open", born' = born, control' = control
      PROVE  born'[d] = control'[ProfileOfCall(d)].generation
  BY <1>3 DEF OpenIsCurrent
<1>4. ASSUME NEW p \in Processes, NEW c \in Chats, NEW e \in Decisions, NEW x \in Payloads,
             Update(p, c, e, x) \/ Claim(p, c, e, x)
      PROVE  born'[d] = control'[ProfileOfCall(d)].generation
  <2>1. decisions[d].state = "open"
    BY <1>4 DEF Update, Claim, Loadable, StoreTypeOK, DecisionRow
  <2> QED
    BY <1>3, <1>4, <2>1 DEF Update, Claim
<1>5. ASSUME NEW c \in Chats, NEW e \in Decisions, Invalidate(c, e)
      PROVE  born'[d] = control'[ProfileOfCall(d)].generation
  <2>1. decisions[d].state = "open"
    BY <1>5 DEF Invalidate, StoreTypeOK, DecisionRow
  <2> QED
    BY <1>3, <1>5, <2>1 DEF Invalidate
<1>6. CASE decisions' = decisions /\ born' = born /\ control' = control
  BY <1>3, <1>6
<1> QED
  BY <1>1, <1>2, <1>4, <1>5, <1>6, StoreStep
     DEF Read, RevokeScope, ResumeScope, Admit, Finish, BeginNative, Rotate, Tick, storeVars

(* Whatever can still be claimed was created after the last stop or resume.  *)
THEOREM OpenDecisionsAreCurrent == StoreSpec => []OpenIsCurrent
<1>1. StoreInit => OpenIsCurrent
  BY DEF StoreInit, OpenIsCurrent
<1> QED
  BY <1>1, CurrentStep, StoreTypeCorrect, PTL DEF StoreSpec

-----------------------------------------------------------------------------
(* What a step may do to the ledger of started calls: nothing, or charge one *)
(* new call that takes a free slot of its chat.                             *)
Charges(c, x) ==
  /\ x \in Calls /\ ScopeOf[x] = c /\ x \notin started
  /\ started' = started \cup {x}
  /\ sessions[c].active = NoCall
  /\ x \in Decisions => decisions'[x].state = "used"
  /\ sessions' = [sessions EXCEPT ![c] =
       [row |-> TRUE, calls |-> sessions[c].calls + 1,
        disabled |-> sessions[c].disabled, active |-> x]]
Keeps ==
  /\ started' = started
  /\ \A c \in Chats :
       /\ sessions'[c].calls = sessions[c].calls
       /\ sessions'[c].active \in {sessions[c].active, NoCall}

LEMMA LedgerStep ==
  ASSUME StoreTypeOK, ClaimedIsSpent, [StoreNext]_storeVars
  PROVE  Keeps \/ \E c \in Chats, x \in Calls : Charges(c, x)
<1> USE DEF tables, history
<1>1. ASSUME NEW c \in Chats, NEW flag, InvalidateProfile(c, flag), started' = started
      PROVE  Keeps
  BY <1>1 DEF InvalidateProfile, StoreTypeOK, SessionRow, Keeps
<1>2. ASSUME NEW c \in Chats, sessions' = Touched(c), started' = started
      PROVE  Keeps
  BY <1>2 DEF Touched, StoreTypeOK, SessionRow, Keeps
<1>3. ASSUME NEW p \in Processes, NEW c \in Chats, NEW d \in Decisions, NEW x \in Payloads,
             Claim(p, c, d, x)
      PROVE  Charges(c, d)
  <2>1. d \notin started
    BY <1>3 DEF Claim, Loadable, ClaimedIsSpent
  <2>2. decisions'[d].state = "used"
    BY <1>3 DEF Claim, StoreTypeOK, DecisionRow
  <2> QED
    BY <1>3, <2>1, <2>2 DEF Claim, Loadable, Charges, Calls
<1>4. ASSUME NEW c \in Chats, NEW n \in Natives, BeginNative(c, n)
      PROVE  Charges(c, n)
  BY <1>4, StoreAssumption DEF BeginNative, Charges, Calls, StoreAssumption
<1>5. ASSUME NEW c \in Chats, NEW x \in Calls, Finish(c, x) PROVE Keeps
  BY <1>5 DEF Finish, StoreTypeOK, SessionRow, Keeps
<1>6. CASE sessions' = sessions /\ started' = started
  BY <1>6 DEF Keeps
<1> QED
  BY <1>1, <1>2, <1>3, <1>4, <1>5, <1>6, StoreStep
     DEF Read, RevokeScope, ResumeScope, Create, Update, Admit, Invalidate, Rotate, Tick,
         storeVars, Calls

LEMMA SpentStep ==
  StoreTypeOK /\ ClaimedIsSpent /\ [StoreNext]_storeVars => ClaimedIsSpent'
<1> SUFFICES ASSUME StoreTypeOK, ClaimedIsSpent, [StoreNext]_storeVars
             PROVE  ClaimedIsSpent'
  OBVIOUS
<1>1. \A d \in Decisions : Spent(d) => Spent(d)'
  BY RowStep DEF Spent
<1>2. CASE Keeps
  BY <1>1, <1>2 DEF Keeps, ClaimedIsSpent, Spent, StoreTypeOK
<1>3. ASSUME NEW c \in Chats, NEW x \in Calls, Charges(c, x) PROVE ClaimedIsSpent'
  <2>1. \A d \in Decisions \cap started' : decisions'[d].state \in {"used", "pruned"}
    BY <1>1, <1>3 DEF Charges, ClaimedIsSpent, Spent
  <2>2. ASSUME NEW b \in Chats, sessions'[b].active # NoCall
        PROVE  sessions'[b].active \in started' /\ ScopeOf[sessions'[b].active] = b
    BY <1>3, <2>2 DEF Charges, ClaimedIsSpent, StoreTypeOK
  <2> QED
    BY <2>1, <2>2 DEF ClaimedIsSpent
<1> QED
  BY <1>2, <1>3, LedgerStep

(* Claimed decisions are spent and slots are held by charged calls only.     *)
THEOREM ClaimedDecisionsAreSpent == StoreSpec => []ClaimedIsSpent
<1>1. StoreInit => ClaimedIsSpent
  BY DEF StoreInit, ClaimedIsSpent
<1> QED
  BY <1>1, SpentStep, StoreTypeCorrect, PTL DEF StoreSpec

LEMMA QuotaStep ==
  StoreTypeOK /\ ClaimedIsSpent /\ QuotaIsExact /\ [StoreNext]_storeVars => QuotaIsExact'
<1> SUFFICES ASSUME StoreTypeOK, ClaimedIsSpent, QuotaIsExact, [StoreNext]_storeVars,
                    NEW b \in Chats
             PROVE  sessions'[b].calls = Cardinality({x \in started' : ScopeOf[x] = b})
  BY DEF QuotaIsExact
<1> DEFINE Charged == {x \in started : ScopeOf[x] = b}
<1>1. CASE Keeps
  BY <1>1 DEF Keeps, QuotaIsExact
<1>2. ASSUME NEW c \in Chats, NEW y \in Calls, Charges(c, y)
      PROVE  sessions'[b].calls = Cardinality({x \in started' : ScopeOf[x] = b})
  <2>1. CASE b = c
    <3>1. {x \in started' : ScopeOf[x] = b} = Charged \cup {y} /\ y \notin Charged
      BY <1>2, <2>1 DEF Charges
    <3>2. IsFiniteSet(Calls)
      BY StoreAssumption, FS_Union DEF StoreAssumption, Calls
    <3>3. IsFiniteSet(Charged)
      BY <3>2, FS_Subset DEF StoreTypeOK
    <3>4. Cardinality(Charged \cup {y}) = Cardinality(Charged) + 1
      BY <3>1, <3>3, FS_AddElement
    <3>5. sessions'[b].calls = sessions[b].calls + 1
      BY <1>2, <2>1 DEF Charges, StoreTypeOK
    <3> QED
      BY <3>1, <3>4, <3>5 DEF QuotaIsExact
  <2>2. CASE b # c
    <3>1. {x \in started' : ScopeOf[x] = b} = Charged
      BY <1>2, <2>2 DEF Charges
    <3>2. sessions'[b] = sessions[b]
      BY <1>2, <2>2 DEF Charges, StoreTypeOK
    <3> QED
      BY <3>1, <3>2 DEF QuotaIsExact
  <2> QED
    BY <2>1, <2>2
<1> QED
  BY <1>1, <1>2, LedgerStep

(* The durable quota equals the number of calls ever charged to the chat.    *)
THEOREM QuotaCountsEveryCall == StoreSpec => []QuotaIsExact
<1>1. StoreInit => QuotaIsExact
  <2>1. ASSUME StoreInit, NEW c \in Chats
        PROVE  sessions[c].calls = Cardinality({x \in started : ScopeOf[x] = c})
    <3>1. {x \in started : ScopeOf[x] = c} = {}
      BY <2>1 DEF StoreInit
    <3> QED
      BY <2>1, <3>1, FS_EmptySet DEF StoreInit
  <2> QED
    BY <2>1 DEF QuotaIsExact
<1> QED
  BY <1>1, QuotaStep, StoreTypeCorrect, ClaimedDecisionsAreSpent, PTL DEF StoreSpec
-----------------------------------------------------------------------------
(* What an operation leaves alone, whoever calls it: the rows that were      *)
(* minted, and every slot and admission but those of the call it is about.   *)
Open(d) == decisions[d].state = "open"

RowsKept ==
  \A d \in Decisions : decisions[d].state # "absent" =>
    /\ decisions'[d].state # "absent"
    /\ ~Open(d) => decisions'[d].state # "open" /\ decisions'[d].payload = decisions[d].payload
    /\ decisions'[d].state = "open" =>
         control'[ProfileOfCall(d)].stopped = control[ProfileOfCall(d)].stopped

SlotsKept(x) ==
  /\ \A c \in Chats : sessions[c].active \notin {x, NoCall} =>
       sessions'[c].active = sessions[c].active
  /\ \A a \in admissions : a.id # x => a \in admissions'

StoreKeeps(x) == started \subseteq started' /\ RowsKept /\ SlotsKept(x)

LEMMA ProfilesKept ==
  ASSUME StoreTypeOK, NEW c \in Chats, NEW flag \in BOOLEAN,
         SetControl(c, flag), InvalidateProfile(c, flag)
  PROVE  RowsKept
<1> SUFFICES ASSUME NEW d \in Decisions, decisions[d].state # "absent"
             PROVE  /\ decisions'[d].state # "absent"
                    /\ ~Open(d) => /\ decisions'[d].state # "open"
                                   /\ decisions'[d].payload = decisions[d].payload
                    /\ decisions'[d].state = "open" =>
                         control'[ProfileOfCall(d)].stopped = control[ProfileOfCall(d)].stopped
  BY DEF RowsKept
<1>1. ProfileOfCall(d) \in Profiles
  BY StoreAssumption DEF StoreAssumption, ProfileOfCall, Calls
<1>2. CASE ProfileOfCall(d) = ProfileOf[c] /\ Open(d)
  BY <1>2 DEF InvalidateProfile, Open, StoreTypeOK, DecisionRow
<1>3. CASE ~(ProfileOfCall(d) = ProfileOf[c] /\ Open(d))
  <2>1. decisions'[d] = decisions[d]
    BY <1>3 DEF InvalidateProfile, Open
  <2>2. decisions[d].state = "open" =>
          control'[ProfileOfCall(d)] = control[ProfileOfCall(d)]
    BY <1>1, <1>3 DEF SetControl, StoreTypeOK, Open
  <2> QED
    BY <2>1, <2>2 DEF Open
<1> QED
  BY <1>2, <1>3

LEMMA StoreOperations ==
  ASSUME StoreTypeOK, AdmissionHoldsSlot
  PROVE  /\ \A x : \A c \in Chats : Read(c) => StoreKeeps(x)
         /\ \A x : \A c \in Chats : RevokeScope(c) \/ ResumeScope(c) => StoreKeeps(x)
         /\ \A y, x : \A p \in Processes, c \in Chats, d \in Decisions :
              Create(p, c, d, y) \/ Update(p, c, d, y) \/ Claim(p, c, d, y) => StoreKeeps(x)
         /\ \A e, x : \A c \in Chats, d \in Decisions : Admit(c, d, e) => StoreKeeps(x)
         /\ \A c \in Chats, d \in Calls : Finish(c, d) => StoreKeeps(d)
         /\ \A x : \A c \in Chats, d \in Decisions : Invalidate(c, d) => StoreKeeps(x)
         /\ \A x : \A c \in Chats, n \in Natives : BeginNative(c, n) => StoreKeeps(x)
         /\ \A x : \A p \in Processes : Rotate(p) \/ Tick => StoreKeeps(x)
         /\ \A x : UNCHANGED storeVars => StoreKeeps(x)
<1> USE DEF tables, history
<1>1. ASSUME NEW c \in Chats, NEW x, sessions' = Touched(c), admissions \subseteq admissions'
      PROVE  SlotsKept(x)
  BY <1>1 DEF SlotsKept, Touched, StoreTypeOK, SessionRow
<1>2. ASSUME decisions' = decisions, control' = control PROVE RowsKept
  BY <1>2 DEF RowsKept, Open
<1>3. ASSUME NEW c \in Chats, NEW flag, InvalidateProfile(c, flag), admissions' = admissions,
             NEW x
      PROVE  SlotsKept(x)
  BY <1>3 DEF InvalidateProfile, SlotsKept, StoreTypeOK, SessionRow
<1>4. ASSUME NEW p \in Processes, NEW c \in Chats, NEW d \in Decisions, NEW y,
             Create(p, c, d, y)
      PROVE  RowsKept
  BY <1>4 DEF Create, RowsKept, Open, Lapsed, Stored, StoreTypeOK, DecisionRow
<1>5. ASSUME NEW p \in Processes, NEW c \in Chats, NEW d \in Decisions, NEW y,
             Update(p, c, d, y) \/ Claim(p, c, d, y)
      PROVE  RowsKept
  BY <1>5 DEF Update, Claim, Loadable, RowsKept, Open, StoreTypeOK, DecisionRow
<1>6. ASSUME NEW c \in Chats, NEW d \in Calls, NEW x, sessions[c].active = NoCall,
             sessions' = [sessions EXCEPT ![c] =
               [row |-> TRUE, calls |-> sessions[c].calls + 1,
                disabled |-> sessions[c].disabled, active |-> d]],
             admissions \subseteq admissions'
      PROVE  SlotsKept(x)
  BY <1>6 DEF SlotsKept, StoreTypeOK
<1>7. ASSUME NEW c \in Chats, NEW d \in Calls, Finish(c, d) PROVE SlotsKept(d)
  BY <1>7 DEF Finish, SlotsKept, StoreTypeOK
<1>8. ASSUME NEW c \in Chats, NEW d \in Decisions, Invalidate(c, d) PROVE RowsKept
  BY <1>8 DEF Invalidate, RowsKept, Open, StoreTypeOK, DecisionRow
<1>9. \A x : \A c \in Chats : Read(c) => StoreKeeps(x)
  BY <1>1, <1>2 DEF Read, StoreKeeps
<1>10. \A x : \A c \in Chats : RevokeScope(c) \/ ResumeScope(c) => StoreKeeps(x)
  BY <1>3, ProfilesKept DEF RevokeScope, ResumeScope, StoreKeeps
<1>11. \A y, x : \A p \in Processes, c \in Chats, d \in Decisions :
         Create(p, c, d, y) \/ Update(p, c, d, y) \/ Claim(p, c, d, y) => StoreKeeps(x)
  <2>1. ASSUME NEW p \in Processes, NEW c \in Chats, NEW d \in Decisions, NEW y, NEW x,
               Create(p, c, d, y) \/ Update(p, c, d, y)
        PROVE  StoreKeeps(x)
    <3>1. RowsKept
      BY <1>4, <1>5, <2>1
    <3>2. sessions' = Touched(c) /\ admissions' = admissions /\ started' = started
      BY <2>1 DEF Create, Update
    <3> QED
      BY <1>1, <3>1, <3>2 DEF StoreKeeps
  <2>2. ASSUME NEW p \in Processes, NEW c \in Chats, NEW d \in Decisions, NEW y, NEW x,
               Claim(p, c, d, y)
        PROVE  StoreKeeps(x)
    BY <1>5, <1>6, <2>2 DEF Claim, StoreKeeps, Calls
  <2> QED
    BY <2>1, <2>2
<1>12. \A e, x : \A c \in Chats, d \in Decisions : Admit(c, d, e) => StoreKeeps(x)
  BY <1>1, <1>2 DEF Admit, StoreKeeps
<1>13. \A c \in Chats, d \in Calls : Finish(c, d) => StoreKeeps(d)
  BY <1>2, <1>7 DEF Finish, StoreKeeps
<1>14. \A x : \A c \in Chats, d \in Decisions : Invalidate(c, d) => StoreKeeps(x)
  BY <1>1, <1>8 DEF Invalidate, StoreKeeps
<1>15. \A x : \A c \in Chats, n \in Natives : BeginNative(c, n) => StoreKeeps(x)
  BY <1>2, <1>6 DEF BeginNative, StoreKeeps, Calls
<1>16. \A x : \A p \in Processes : Rotate(p) \/ Tick => StoreKeeps(x)
  BY <1>2 DEF Rotate, Tick, StoreKeeps, SlotsKept
<1>17. \A x : UNCHANGED storeVars => StoreKeeps(x)
  BY <1>2 DEF storeVars, StoreKeeps, SlotsKept
<1> QED
  BY <1>9, <1>10, <1>11, <1>12, <1>13, <1>14, <1>15, <1>16, <1>17
-----------------------------------------------------------------------------
(***************************************************************************)
(* The life cycle: what each operation does to the phase of each decision.   *)
(***************************************************************************)
PhaseTypeOK == StoreTypeOK /\ dispatches \in [Decisions -> Nat]

DispatchedOnce ==
  \A d \in Decisions : dispatches[d] <= 1 /\ (dispatches[d] > 0 => d \in started)

Holds(d) == d \in started /\ sessions[ScopeOf[d]].active = d

SamePhase(d) == PhaseOf(d)' = PhaseOf(d)

\* A decision that could be claimed cannot be any more.
Dies(d) == PhaseOf(d) \in {"pending", "cleared"} /\ PhaseOf(d)' = "dead"
-----------------------------------------------------------------------------
(* What the phase of a decision depends on.                                  *)
LEMMA PhaseKept ==
  ASSUME NEW d \in Decisions, dispatches'[d] = dispatches[d], Holds(d)' = Holds(d),
         decisions'[d].state = "absent" <=> decisions[d].state = "absent",
         Open(d)' <=> Open(d), Open(d) => decisions'[d].payload = decisions[d].payload
  PROVE  SamePhase(d)
BY DEF SamePhase, PhaseOf, Open, Holds

(* An open decision was never claimed, so it dies when it is spent unclaimed. *)
LEMMA SpentDies ==
  ASSUME ClaimedIsSpent, DispatchedOnce, PhaseTypeOK, NEW d \in Decisions, Open(d),
         decisions'[d].state \in {"used", "pruned"}, dispatches' = dispatches,
         started' = started
  PROVE  Dies(d)
<1>1. d \notin started /\ dispatches[d] = 0
  BY DEF ClaimedIsSpent, Open, DispatchedOnce, PhaseTypeOK
<1> QED
  BY <1>1 DEF Dies, PhaseOf, Open

(* Reads, keys and clocks do not show.                                       *)
LEMMA Unseen ==
  ASSUME PhaseTypeOK, dispatches' = dispatches,
         \/ \E c \in Chats : Read(c)
         \/ \E p \in Processes : Rotate(p)
         \/ Tick \/ UNCHANGED storeVars
  PROVE  UNCHANGED AD!avars
<1>1. /\ decisions' = decisions /\ control' = control /\ started' = started
      /\ \A c \in Chats : sessions'[c].active = sessions[c].active
                          /\ sessions'[c].calls = sessions[c].calls
  BY DEF Read, Touched, Rotate, Tick, storeVars, tables, history, PhaseTypeOK, StoreTypeOK,
     SessionRow
<1>2. \A d \in Decisions : SamePhase(d)
  BY <1>1, PhaseKept, StoreAssumption DEF Holds, Open, StoreAssumption, Calls
<1> QED
  BY <1>1, <1>2 DEF AD!avars, SamePhase
(* What two transactions that leave the sessions and the barrier alone share. *)
LEMMA QuietTables ==
  ASSUME PhaseTypeOK, NEW c \in Chats, sessions' = Touched(c), control' = control
  PROVE  /\ UNCHANGED <<[p \in Profiles |-> control[p].stopped],
                        [b \in Chats |-> sessions[b].active],
                        [b \in Chats |-> sessions[b].calls]>>
         /\ \A b \in Chats : sessions'[b].active = sessions[b].active
BY DEF Touched, PhaseTypeOK, StoreTypeOK, SessionRow

LEMMA InvalidateKills ==
  ASSUME PhaseTypeOK, ClaimedIsSpent, DispatchedOnce, dispatches' = dispatches,
         NEW c \in Chats, NEW d \in Decisions, Invalidate(c, d)
  PROVE  [AD!Kill(d)]_AD!avars
<1> USE DEF history
<1>1. /\ sessions' = Touched(c) /\ control' = control /\ started' = started
      /\ \A e \in Decisions : e # d => decisions'[e] = decisions[e]
  BY DEF Invalidate, PhaseTypeOK, StoreTypeOK
<1>2. \A e \in Decisions : Holds(e)' = Holds(e)
  BY <1>1, QuietTables, StoreAssumption DEF Holds, StoreAssumption, Calls
<1>3. \A e \in Decisions : e # d => SamePhase(e)
  BY <1>1, <1>2, PhaseKept DEF Open
<1>4. CASE Open(d) /\ ScopeOf[d] = c
  <2>1. decisions'[d].state = "used"
    BY <1>4 DEF Invalidate, Open, PhaseTypeOK, StoreTypeOK, DecisionRow
  <2>2. Dies(d)
    BY <1>1, <1>4, <2>1, SpentDies
  <2> QED
    BY <1>1, <1>3, <2>2, QuietTables DEF AD!Kill, AD!Unclaimed, SamePhase, Dies
<1>5. CASE ~(Open(d) /\ ScopeOf[d] = c)
  <2>1. SamePhase(d)
    BY <1>2, <1>5, PhaseKept DEF Invalidate, Open
  <2> QED
    BY <1>1, <1>3, <2>1, QuietTables DEF AD!avars, SamePhase
<1> QED
  BY <1>4, <1>5

LEMMA CreateProposes ==
  ASSUME PhaseTypeOK, ClaimedIsSpent, DispatchedOnce, dispatches' = dispatches,
         NEW p \in Processes, NEW c \in Chats, NEW d \in Decisions, NEW y,
         Create(p, c, d, y)
  PROVE  AD!Propose(d)
<1> USE DEF history
<1>1. /\ sessions' = Touched(c) /\ control' = control /\ started' = started
      /\ decisions[d].state = "absent" /\ decisions'[d].state = "open" /\ ScopeOf[d] = c
  BY DEF Create
<1>2. \A e \in Decisions : Holds(e)' = Holds(e)
  BY <1>1, QuietTables, StoreAssumption DEF Holds, StoreAssumption, Calls
<1>3. ASSUME NEW e \in Decisions, e # d, ~(e \in Lapsed(c) /\ Open(e)) PROVE SamePhase(e)
  <2>1. /\ decisions'[e].state = "absent" <=> decisions[e].state = "absent"
        /\ Open(e)' <=> Open(e)
        /\ Open(e) => decisions'[e].payload = decisions[e].payload
    BY <1>3 DEF Create, Lapsed, Stored, Open, PhaseTypeOK, StoreTypeOK, DecisionRow
  <2> QED
    BY <1>2, <2>1, PhaseKept
<1>4. ASSUME NEW e \in Decisions, e # d, e \in Lapsed(c), Open(e) PROVE Dies(e)
  <2>1. decisions'[e].state = "pruned"
    BY <1>4 DEF Create, PhaseTypeOK, StoreTypeOK, DecisionRow
  <2> QED
    BY <1>1, <1>4, <2>1, SpentDies
<1>5. PhaseOf(d) = "none" /\ PhaseOf(d)' \in AD!Unclaimed
  <2>1. PhaseOf(d) = "none"
    BY <1>1 DEF PhaseOf
  <2>2. PhaseOf(d)' = "cleared" \/ PhaseOf(d)' = "pending"
    BY <1>1 DEF PhaseOf
  <2> QED
    BY <2>1, <2>2 DEF AD!Unclaimed
<1> DEFINE S == {e \in Lapsed(c) : Open(e)}
<1>6. S \in SUBSET {e \in Decisions : ScopeOf[e] = ScopeOf[d]} /\ d \notin S
  BY <1>1 DEF Lapsed, Stored, Open
<1>7. \A e \in Decisions : e # d =>
        PhaseOf(e)' = IF e \in S /\ PhaseOf(e) \in AD!Unclaimed THEN "dead" ELSE PhaseOf(e)
  BY <1>3, <1>4 DEF SamePhase, Dies, AD!Unclaimed
<1> HIDE DEF S
<1>8. [e \in Decisions |-> PhaseOf(e)]' =
        [AD!Killed([e \in Decisions |-> PhaseOf(e)], S) EXCEPT ![d] = PhaseOf(d)']
  BY <1>7 DEF AD!Killed
<1> QED
  BY <1>1, <1>5, <1>6, <1>8, QuietTables DEF AD!Propose
(* An approval recorded clears a pending decision, and no other changes.     *)
LEMMA UpdateClears ==
  ASSUME PhaseTypeOK, dispatches' = dispatches,
         NEW p \in Processes, NEW c \in Chats, NEW d \in Decisions, NEW y,
         y \in Granted, Open(d) => ~Stopped(c), Update(p, c, d, y)
  PROVE  [AD!Clear(d)]_AD!avars
<1> USE DEF history
<1>1. /\ sessions' = Touched(c) /\ control' = control /\ started' = started
      /\ Open(d) /\ ScopeOf[d] = c /\ decisions'[d].state = "open"
      /\ decisions'[d].payload = y
      /\ \A e \in Decisions : e # d => decisions'[e] = decisions[e]
  BY DEF Update, Loadable, Open, PhaseTypeOK, StoreTypeOK
<1>2. \A e \in Decisions : Holds(e)' = Holds(e)
  BY <1>1, QuietTables, StoreAssumption DEF Holds, StoreAssumption, Calls
<1>3. \A e \in Decisions : e # d => SamePhase(e)
  BY <1>1, <1>2, PhaseKept DEF Open
<1>4. PhaseOf(d)' = "cleared"
  BY <1>1 DEF PhaseOf, Open
<1>5. PhaseOf(d) = "cleared" \/ PhaseOf(d) = "pending"
  BY <1>1 DEF PhaseOf, Open
<1>6. ~control[ProfileOf[c]].stopped /\ ProfileOf[c] \in Profiles
  BY <1>1, StoreAssumption DEF Stopped, StoreAssumption
<1>7. CASE PhaseOf(d) = "cleared"
  BY <1>1, <1>3, <1>4, <1>7, QuietTables DEF AD!avars, SamePhase
<1>8. CASE PhaseOf(d) = "pending"
  BY <1>1, <1>3, <1>4, <1>6, <1>8, QuietTables DEF AD!Clear, AD!Running, SamePhase
<1> QED
  BY <1>5, <1>7, <1>8

\* A call takes the free slot of its chat and a unit of its budget.
Takes(c, x) ==
  /\ sessions[c].active = NoCall /\ sessions[c].calls < CallLimit /\ ~Stopped(c)
  /\ sessions'[c].active = x /\ sessions'[c].calls = sessions[c].calls + 1
  /\ \A b \in Chats : b # c => sessions'[b] = sessions[b]
  /\ control' = control

LEMMA TakingCharges ==
  ASSUME PhaseTypeOK, NEW c \in Chats, NEW x \in Calls, Takes(c, x)
  PROVE  AD!Charge(c, x)
<1>1. ProfileOf[c] \in Profiles
  BY StoreAssumption DEF StoreAssumption
<1>2. [b \in Chats |-> sessions[b].active]' =
        [[b \in Chats |-> sessions[b].active] EXCEPT ![c] = x]
  BY DEF Takes
<1>3. [b \in Chats |-> sessions[b].calls]' =
        [[b \in Chats |-> sessions[b].calls] EXCEPT ![c] = sessions[c].calls + 1]
  BY DEF Takes
<1> QED
  BY <1>1, <1>2, <1>3 DEF AD!Charge, AD!Running, Takes, Stopped

LEMMA ClaimClaims ==
  ASSUME PhaseTypeOK, ClaimedIsSpent, DispatchedOnce, dispatches' = dispatches,
         NEW p \in Processes, NEW c \in Chats, NEW d \in Decisions, NEW y,
         Claim(p, c, d, y), ~Stopped(c), y \in Granted
  PROVE  AD!ANext
<1>1. /\ decisions'[d].state = "used" /\ started' = started \cup {d}
      /\ ScopeOf[d] = c /\ Open(d) /\ decisions[d].payload = y
      /\ \A e \in Decisions : e # d => decisions'[e] = decisions[e]
  BY DEF Claim, Loadable, Open, PhaseTypeOK, StoreTypeOK, DecisionRow
<1>2. Takes(c, d)
  BY DEF Claim, Takes, PhaseTypeOK, StoreTypeOK
<1>3. dispatches[d] = 0
  BY <1>1 DEF ClaimedIsSpent, Open, DispatchedOnce, PhaseTypeOK
<1>4. PhaseOf(d) = "cleared"
  BY <1>1 DEF PhaseOf, Open
<1>5. PhaseOf(d)' = "claimed"
  BY <1>1, <1>2, <1>3 DEF PhaseOf, Takes
<1>6. ASSUME NEW e \in Decisions, e # d PROVE SamePhase(e)
  <2>1. ScopeOf[e] \in Chats /\ e # NoCall
    BY StoreAssumption DEF StoreAssumption, Calls
  <2>2. Holds(e)' = Holds(e)
    BY <1>1, <1>2, <1>6, <2>1 DEF Holds, Takes
  <2> QED
    BY <1>1, <1>6, <2>2, PhaseKept DEF Open
<1>7. AD!Charge(c, d)
  BY <1>2, TakingCharges DEF Calls
<1> QED
  BY <1>1, <1>4, <1>5, <1>6, <1>7 DEF AD!ANext, AD!Claim, SamePhase

LEMMA NativeCharges ==
  ASSUME PhaseTypeOK, dispatches' = dispatches, NEW c \in Chats, NEW n \in Natives,
         BeginNative(c, n)
  PROVE  AD!Native(n)
<1>1. Takes(c, n) /\ decisions' = decisions /\ started' = started \cup {n} /\ ScopeOf[n] = c
  BY DEF BeginNative, Takes, PhaseTypeOK, StoreTypeOK
<1>2. ASSUME NEW e \in Decisions PROVE SamePhase(e)
  <2>1. ScopeOf[e] \in Chats /\ e # NoCall /\ e # n
    BY StoreAssumption DEF StoreAssumption, Calls
  <2>2. Holds(e)' = Holds(e)
    BY <1>1, <2>1 DEF Holds, Takes
  <2> QED
    BY <1>1, <2>2, PhaseKept DEF Open
<1>3. AD!Charge(c, n)
  BY <1>1, TakingCharges DEF Calls
<1> QED
  BY <1>1, <1>2, <1>3 DEF AD!Native, SamePhase
(* The dispatch barrier sends a claimed decision.                            *)
LEMMA AdmitSends ==
  ASSUME PhaseTypeOK, ClaimedIsSpent, NEW c \in Chats, NEW d \in Decisions, NEW deadline,
         Admit(c, d, deadline), d \in started, dispatches[d] = 0,
         dispatches' = [dispatches EXCEPT ![d] = dispatches[d] + 1]
  PROVE  AD!Send(d)
<1> USE DEF history
<1>1. /\ sessions' = Touched(c) /\ control' = control /\ started' = started
      /\ decisions' = decisions /\ ScopeOf[d] = c /\ sessions[c].active = d
      /\ ~Stopped(c)
  BY DEF Admit
<1>2. decisions[d].state \notin {"absent", "open"}
  BY DEF ClaimedIsSpent
<1>3. dispatches'[d] = 1 /\ \A e \in Decisions : e # d => dispatches'[e] = dispatches[e]
  BY DEF PhaseTypeOK
<1>4. PhaseOf(d) = "claimed"
  BY <1>1, <1>2 DEF PhaseOf
<1>5. PhaseOf(d)' = "sent"
  BY <1>1, <1>2, <1>3 DEF PhaseOf
<1>6. \A e \in Decisions : Holds(e)' = Holds(e)
  BY <1>1, QuietTables, StoreAssumption DEF Holds, StoreAssumption, Calls
<1>7. \A e \in Decisions : e # d => SamePhase(e)
  BY <1>1, <1>3, <1>6, PhaseKept DEF Open
<1>8. ~control[ProfileOf[c]].stopped /\ ProfileOf[c] \in Profiles
  BY <1>1, StoreAssumption DEF Stopped, StoreAssumption
<1> QED
  BY <1>1, <1>4, <1>5, <1>7, <1>8, QuietTables DEF AD!Send, AD!Running, SamePhase

(* The finally block frees the slot; a decision claimed and not sent is lost. *)
LEMMA FinishReleases ==
  ASSUME PhaseTypeOK, ClaimedIsSpent, dispatches' = dispatches, NEW c \in Chats,
         NEW x \in Calls, Finish(c, x), sessions[c].active = x
  PROVE  AD!Release(c)
<1> USE DEF history
<1>1. /\ control' = control /\ started' = started /\ decisions' = decisions
      /\ sessions'[c].active = NoCall /\ sessions'[c].calls = sessions[c].calls
      /\ \A b \in Chats : b # c => sessions'[b] = sessions[b]
  BY DEF Finish, PhaseTypeOK, StoreTypeOK
<1>2. x # NoCall /\ x \in started /\ ScopeOf[x] = c
  BY StoreAssumption DEF StoreAssumption, Finish, ClaimedIsSpent
<1>3. ASSUME NEW e \in Decisions, e # x PROVE SamePhase(e)
  <2>1. ScopeOf[e] \in Chats /\ e # NoCall
    BY StoreAssumption DEF StoreAssumption, Calls
  <2>2. Holds(e)' = Holds(e)
    BY <1>1, <1>3, <2>1 DEF Holds
  <2> QED
    BY <1>1, <2>2, PhaseKept DEF Open
<1>4. ASSUME x \in Decisions
      PROVE  PhaseOf(x)' = IF PhaseOf(x) = "claimed" THEN "dead" ELSE PhaseOf(x)
  <2>1. decisions[x].state \notin {"absent", "open"} /\ dispatches[x] \in Nat
    BY <1>2, <1>4 DEF ClaimedIsSpent, PhaseTypeOK
  <2>2. CASE dispatches[x] > 0
    <3>1. PhaseOf(x) = "sent" /\ PhaseOf(x)' = "sent"
      BY <1>1, <2>1, <2>2 DEF PhaseOf
    <3> QED
      BY <3>1
  <2>3. CASE dispatches[x] = 0
    <3>1. PhaseOf(x) = "claimed"
      BY <1>1, <1>2, <2>1, <2>3 DEF PhaseOf
    <3>2. PhaseOf(x)' = "dead"
      BY <1>1, <1>2, <2>1, <2>3 DEF PhaseOf
    <3> QED
      BY <3>1, <3>2
  <2> QED
    BY <2>1, <2>2, <2>3
<1>5. [b \in Chats |-> sessions[b].active]' =
        [[b \in Chats |-> sessions[b].active] EXCEPT ![c] = NoCall]
  BY <1>1
<1>6. UNCHANGED <<[p \in Profiles |-> control[p].stopped], [b \in Chats |-> sessions[b].calls]>>
  BY <1>1
<1> QED
  BY <1>2, <1>3, <1>4, <1>5, <1>6 DEF AD!Release, SamePhase

(* Stop and resume kill what is not yet claimed, in the whole profile.       *)
LEMMA ControlSwitches ==
  ASSUME PhaseTypeOK, ClaimedIsSpent, DispatchedOnce, dispatches' = dispatches,
         NEW c \in Chats, NEW stop \in BOOLEAN, SetControl(c, stop),
         InvalidateProfile(c, stop), UNCHANGED <<admissions, cipher, now, history>>
  PROVE  AD!Switch(ProfileOf[c], stop)
<1> USE DEF history
<1> DEFINE S == {d \in Decisions : ProfileOf[ScopeOf[d]] = ProfileOf[c]}
<1>1. ProfileOf[c] \in Profiles /\ \A d \in Decisions : ScopeOf[d] \in Chats
  BY StoreAssumption DEF StoreAssumption, Calls
<1>2. \A b \in Chats : /\ sessions'[b].active = sessions[b].active
                       /\ sessions'[b].calls = sessions[b].calls
  BY DEF InvalidateProfile, PhaseTypeOK, StoreTypeOK, SessionRow
<1>3. \A e \in Decisions : Holds(e)' = Holds(e)
  BY <1>1, <1>2 DEF Holds
<1>4. ASSUME NEW e \in Decisions, ~(e \in S /\ Open(e)) PROVE SamePhase(e)
  <2>1. decisions'[e] = decisions[e]
    BY <1>4 DEF InvalidateProfile, Open, ProfileOfCall
  <2> QED
    BY <1>3, <2>1, PhaseKept DEF Open
<1>5. ASSUME NEW e \in S, Open(e) PROVE Dies(e)
  <2>1. decisions'[e].state = "used"
    BY <1>5 DEF InvalidateProfile, Open, ProfileOfCall, PhaseTypeOK, StoreTypeOK, DecisionRow
  <2> QED
    BY <1>5, <2>1, SpentDies
<1>6. ASSUME NEW e \in Decisions, ~Open(e) PROVE PhaseOf(e) \notin AD!Unclaimed
  BY <1>6 DEF PhaseOf, Open, AD!Unclaimed
<1>7. \A e \in Decisions :
        PhaseOf(e)' = IF e \in S /\ PhaseOf(e) \in AD!Unclaimed THEN "dead" ELSE PhaseOf(e)
  BY <1>4, <1>5, <1>6 DEF SamePhase, Dies, AD!Unclaimed
<1>8. [p \in Profiles |-> control[p].stopped]' =
        [[p \in Profiles |-> control[p].stopped] EXCEPT ![ProfileOf[c]] = stop]
  BY <1>1 DEF SetControl, PhaseTypeOK, StoreTypeOK
<1>9. UNCHANGED <<[b \in Chats |-> sessions[b].active], [b \in Chats |-> sessions[b].calls]>>
  BY <1>2
<1> QED
  BY <1>7, <1>8, <1>9 DEF AD!Switch, AD!Killed
=============================================================================
