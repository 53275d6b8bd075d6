---------------------------- MODULE PassportPolicy ----------------------------
(***************************************************************************)
(* What a call needs before it may leave: risk.py, passport.py, the policy    *)
(* step of gate.py and the mode constraints of config.py, as functions of     *)
(* what they read.  A name or a key is the set of risks its words stand for;   *)
(* a pattern list of the passport is the set of tools it matches.            *)
(***************************************************************************)
EXTENDS Naturals

OperatingModes == {"explorer", "guarded_mesh", "raw_mcp", "embassy", "sovereign"}
GuardedInvocationModes == {"guarded_mesh", "embassy", "sovereign"}
DataClassOrder == [public |-> 0, internal |-> 1, confidential |-> 2, regulated |-> 3]
DataClasses == DOMAIN DataClassOrder

\* The first of these for which there is evidence is the level; else "unknown".
Precedence == [destructive |-> 1, financial |-> 2, credential |-> 3, mutation |-> 4,
               network |-> 5, read_only |-> 6, unknown |-> 7]
RiskLevels == DOMAIN Precedence
EvidentRisks == RiskLevels \ {"unknown"}
MutationRisks == {"mutation", "destructive", "financial", "credential"}
SingleUseLevels == MutationRisks \cup {"unknown"}

Hints == {"destructiveHint", "not readOnlyHint", "openWorldHint"}

(* A discovered tool: the risks in its name and in the keys of its schema, its   *)
(* annotations, and whether SAM could supply them.                            *)
Descriptors ==
  [uri: STRING, identity: SUBSET EvidentRisks, keys: SUBSET EvidentRisks,
   hints: SUBSET Hints, verified: BOOLEAN]

(* A passport, with the tools its patterns match, and the feature switches.      *)
Passports ==
  [mode: OperatingModes, max_data_class: DataClasses, allow: SUBSET STRING,
   deny: SUBSET STRING, remote_mutations: {"allow", "approval", "deny"},
   inference: BOOLEAN, inbound: BOOLEAN]
Features ==
  [remote_calls: BOOLEAN, mesh_inference: BOOLEAN, inbound_publication: BOOLEAN,
   raw_mcp: BOOLEAN]

-----------------------------------------------------------------------------
(* _annotation_matches(): no hint is evidence that a tool is harmless.         *)
HintRisks(hints) ==
  {r \in {"destructive", "mutation", "network"} :
     \/ r = "destructive" /\ "destructiveHint" \in hints
     \/ r = "mutation" /\ "not readOnlyHint" \in hints
     \/ r = "network" /\ "openWorldHint" \in hints}

(* classify(): the name may say that a tool only reads, a key may not.          *)
Evidence(tool, argument_keys) ==
  tool.identity \cup ((tool.keys \cup argument_keys) \ {"read_only"}) \cup HintRisks(tool.hints)

Level(evidence) ==
  CHOOSE r \in evidence \cup {"unknown"} :
    \A s \in evidence \cup {"unknown"} : Precedence[r] <= Precedence[s]

(* _policy(): without annotations there is no less than a single use.          *)
Assessed(tool, argument_keys) ==
  LET level == Level(Evidence(tool, argument_keys))
  IN  IF ~tool.verified /\ level \notin SingleUseLevels THEN "unknown" ELSE level

-----------------------------------------------------------------------------
(* evaluate(): the reasons that deny, whichever comes first ...                *)
Denied(passport, uri, data_class, level, remote_calls) ==
  \/ uri \in passport.deny
  \/ DataClassOrder[data_class] > DataClassOrder[passport.max_data_class]
  \/ passport.mode \notin GuardedInvocationModes
  \/ ~remote_calls
  \/ uri \notin passport.allow
  \/ level \in MutationRisks /\ passport.remote_mutations = "deny"

(* ... and the outcome.  "allow" for mutations does not spare them the approval. *)
Evaluate(passport, uri, data_class, level, remote_calls) ==
  IF Denied(passport, uri, data_class, level, remote_calls) THEN "deny"
  ELSE IF level \in SingleUseLevels \cup {"network"} THEN "needs_approval"
  ELSE "allow"

-----------------------------------------------------------------------------
(* _apply_mode_constraints(): what a mode takes away from both.               *)
ConstrainedPassport(passport) ==
  [passport EXCEPT !.inference = @ /\ passport.mode # "explorer",
                   !.inbound = @ /\ passport.mode \in {"embassy", "sovereign"}]

ConstrainedFeatures(passport, features) ==
  [remote_calls |-> features.remote_calls /\ passport.mode # "explorer",
   mesh_inference |-> features.mesh_inference /\ ConstrainedPassport(passport).inference,
   inbound_publication |-> features.inbound_publication /\ ConstrainedPassport(passport).inbound,
   raw_mcp |-> features.raw_mcp /\ passport.mode = "raw_mcp"]

(* A configuration under which nothing may leave need not have its socket yet.   *)
AuthorityDisabled(passport, features) ==
  LET effective == ConstrainedFeatures(passport, features)
  IN  /\ passport.mode = "explorer"
      /\ ~ConstrainedPassport(passport).inference /\ ~ConstrainedPassport(passport).inbound
      /\ \A f \in DOMAIN effective : ~effective[f]

(* What the gate decides for a tool under resolved settings.                   *)
GatePolicy(passport, features, tool, argument_keys, data_class) ==
  Evaluate(ConstrainedPassport(passport), tool.uri, data_class, Assessed(tool, argument_keys),
           ConstrainedFeatures(passport, features).remote_calls)

(* The order of outcomes: what a later one lets through, an earlier one does.    *)
Strictness == [allow |-> 0, needs_approval |-> 1, deny |-> 2]
NoLooser(a, b) == Strictness[a] >= Strictness[b]

=============================================================================
