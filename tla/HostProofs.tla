------------------------------ MODULE HostProofs -------------------------------
(***************************************************************************)
(* Theorems about what is decided on the host: what the policy guarantees    *)
(* for every passport, tool and set of features, what resolve_config() and   *)
(* the receipts guarantee for all settings and hosts (Settings), and the     *)
(* life of the node the plugin runs, for any number of processes and         *)
(* callers, deaths and failed writes (ManagedNode).                         *)
(***************************************************************************)
EXTENDS Settings, ManagedNode, TLAPS

(* Policy and configuration. *)
(* A set of evidence has one level, the first of it in the precedence.          *)
LEMMA LevelIsFirst ==
  ASSUME NEW e \in SUBSET EvidentRisks
  PROVE  /\ Level(e) \in RiskLevels
         /\ Level(e) \in e \cup {"unknown"}
         /\ \A s \in e \cup {"unknown"} : Precedence[Level(e)] <= Precedence[s]
PROOF
  <1> DEFINE E == e \cup {"unknown"}
             First(r) == \A s \in E : Precedence[r] <= Precedence[s]
  <1>1. E \subseteq RiskLevels
    BY DEF EvidentRisks, RiskLevels, Precedence
  <1>2. \E r \in E : First(r)
    <2>1. CASE "destructive" \in E
      BY <1>1, <2>1 DEF Precedence, RiskLevels
    <2>2. CASE "destructive" \notin E /\ "financial" \in E
      BY <1>1, <2>2 DEF Precedence, RiskLevels
    <2>3. CASE {"destructive", "financial"} \cap E = {} /\ "credential" \in E
      BY <1>1, <2>3 DEF Precedence, RiskLevels
    <2>4. CASE {"destructive", "financial", "credential"} \cap E = {} /\ "mutation" \in E
      BY <1>1, <2>4 DEF Precedence, RiskLevels
    <2>5. CASE {"destructive", "financial", "credential", "mutation"} \cap E = {}
               /\ "network" \in E
      BY <1>1, <2>5 DEF Precedence, RiskLevels
    <2>6. CASE {"destructive", "financial", "credential", "mutation", "network"} \cap E = {}
               /\ "read_only" \in E
      BY <1>1, <2>6 DEF Precedence, RiskLevels
    <2>7. CASE EvidentRisks \cap E = {}
      BY <1>1, <2>7 DEF Precedence, RiskLevels, EvidentRisks
    <2> QED
      BY <2>1, <2>2, <2>3, <2>4, <2>5, <2>6, <2>7 DEF EvidentRisks, RiskLevels, Precedence
  <1>3. Level(e) = CHOOSE r \in E : First(r)
    BY DEF Level
  <1> QED
    BY <1>1, <1>2, <1>3

(* The outcome depends on the level only by its class: reading, network, single  *)
(* use without or with a mutation.                                           *)
LEMMA OutcomeOfLevel ==
  ASSUME NEW p \in Passports, NEW uri \in STRING, NEW c \in DataClasses, NEW calls \in BOOLEAN,
         NEW a \in RiskLevels, NEW b \in RiskLevels,
         \/ a = b
         \/ b = "read_only"
         \/ b = "network" /\ a \in SingleUseLevels
         \/ b = "unknown" /\ a # "read_only"
         \/ b \in MutationRisks /\ a \in MutationRisks
  PROVE  NoLooser(Evaluate(p, uri, c, a, calls), Evaluate(p, uri, c, b, calls))
PROOF
  <1>1. Denied(p, uri, c, b, calls) => Denied(p, uri, c, a, calls)
    BY DEF Denied, RiskLevels, Precedence, MutationRisks, SingleUseLevels
  <1>2. CASE Denied(p, uri, c, a, calls)
    BY <1>2 DEF NoLooser, Evaluate, Strictness
  <1>3. CASE ~Denied(p, uri, c, a, calls)
    BY <1>1, <1>3 DEF NoLooser, Evaluate, Strictness, RiskLevels, Precedence, MutationRisks,
                     SingleUseLevels
  <1> QED
    BY <1>2, <1>3

(* More evidence never makes the policy milder, once there is some             *)
(* (risk.py classify, 234-267, under passport.py evaluate, 84-203).           *)
THEOREM EvidenceNeverLoosens ==
  ASSUME NEW p \in Passports, NEW uri \in STRING, NEW c \in DataClasses, NEW calls \in BOOLEAN,
         NEW e \in SUBSET EvidentRisks, NEW f \in SUBSET EvidentRisks,
         e \subseteq f, e # {}
  PROVE  NoLooser(Evaluate(p, uri, c, Level(f), calls), Evaluate(p, uri, c, Level(e), calls))
PROOF
  <1>1. /\ Level(e) \in e /\ Level(f) \in RiskLevels /\ Level(e) \in RiskLevels
        /\ Precedence[Level(f)] <= Precedence[Level(e)]
    BY LevelIsFirst DEF EvidentRisks, RiskLevels, Precedence
  <1>2. \/ Level(f) = Level(e)
        \/ Level(e) = "read_only"
        \/ Level(e) = "network" /\ Level(f) \in SingleUseLevels
        \/ Level(e) \in MutationRisks /\ Level(f) \in MutationRisks
    BY <1>1 DEF EvidentRisks, RiskLevels, Precedence, MutationRisks, SingleUseLevels
  <1> QED
    BY <1>1, <1>2, OutcomeOfLevel

(* An annotation never makes the policy milder, not even for a tool of which    *)
(* nothing else is known (risk.py _annotation_matches, 222-231: "Use only     *)
(* annotation states that can preserve or increase risk").                    *)
THEOREM HintsNeverLoosen ==
  ASSUME NEW p \in Passports, NEW uri \in STRING, NEW c \in DataClasses, NEW calls \in BOOLEAN,
         NEW e \in SUBSET EvidentRisks, NEW hints \in SUBSET Hints
  PROVE  NoLooser(Evaluate(p, uri, c, Level(e \cup HintRisks(hints)), calls),
                  Evaluate(p, uri, c, Level(e), calls))
PROOF
  <1>1. HintRisks(hints) \subseteq {"destructive", "mutation", "network"}
    BY DEF HintRisks
  <1>2. e \cup HintRisks(hints) \in SUBSET EvidentRisks
    BY <1>1 DEF EvidentRisks, RiskLevels, Precedence
  <1>3. CASE e # {}
    BY <1>2, <1>3, EvidenceNeverLoosens
  <1>4. CASE e = {}
    <2>1. Level(e) = "unknown"
      BY <1>4, LevelIsFirst
    <2>2. /\ Level(e \cup HintRisks(hints)) \in RiskLevels
          /\ Level(e \cup HintRisks(hints)) # "read_only"
      BY <1>1, <1>2, <1>4, LevelIsFirst
    <2> QED
      BY <2>1, <2>2, OutcomeOfLevel DEF RiskLevels, Precedence
  <1> QED
    BY <1>3, <1>4

(* The evidence about a tool is evidence, whatever its arguments.              *)
LEMMA EvidenceIsEvident ==
  ASSUME NEW t \in Descriptors, NEW k \in SUBSET EvidentRisks
  PROVE  Evidence(t, k) \in SUBSET EvidentRisks
PROOF
  BY DEF Evidence, Descriptors, HintRisks, EvidentRisks, RiskLevels, Precedence

(* A tool whose annotations SAM cannot supply is treated no milder than the     *)
(* same tool with annotations that say nothing (gate.py _policy, 82-97).      *)
THEOREM MissingAnnotationsNeverLoosen ==
  ASSUME NEW p \in Passports, NEW f \in Features, NEW t \in Descriptors,
         NEW k \in SUBSET EvidentRisks, NEW c \in DataClasses
  PROVE  NoLooser(GatePolicy(p, f, [t EXCEPT !.verified = FALSE], k, c),
                  GatePolicy(p, f, [t EXCEPT !.verified = TRUE], k, c))
PROOF
  <1> DEFINE blind == [t EXCEPT !.verified = FALSE]
             seen == [t EXCEPT !.verified = TRUE]
             P == ConstrainedPassport(p)
             F == ConstrainedFeatures(p, f).remote_calls
             level == Level(Evidence(t, k))
  <1>1. blind.uri = t.uri /\ seen.uri = t.uri /\ t.uri \in STRING
    BY DEF Descriptors
  <1>2. Evidence(blind, k) = Evidence(t, k) /\ Evidence(seen, k) = Evidence(t, k)
    BY DEF Descriptors, Evidence
  <1>3. Assessed(seen, k) = level
    BY <1>2 DEF Assessed, Descriptors
  <1>4. Assessed(blind, k) = IF level \notin SingleUseLevels THEN "unknown" ELSE level
    BY <1>2 DEF Assessed, Descriptors
  <1>5. level \in RiskLevels
    BY EvidenceIsEvident, LevelIsFirst
  <1>6. P \in Passports
    BY DEF ConstrainedPassport, Passports
  <1>7. F \in BOOLEAN
    BY DEF ConstrainedFeatures, Features
  <1>8. "unknown" \in RiskLevels /\ Assessed(blind, k) \in RiskLevels
    BY <1>4, <1>5 DEF RiskLevels, Precedence
  <1>9. \/ Assessed(blind, k) = level
        \/ level = "read_only"
        \/ level = "network" /\ Assessed(blind, k) \in SingleUseLevels
    BY <1>4, <1>5 DEF RiskLevels, Precedence, SingleUseLevels, MutationRisks
  <1> HIDE DEF P, F, level, blind, seen
  <1>10. NoLooser(Evaluate(P, t.uri, c, Assessed(blind, k), F), Evaluate(P, t.uri, c, level, F))
    BY <1>1, <1>5, <1>6, <1>7, <1>8, <1>9, OutcomeOfLevel
  <1> QED
    BY <1>1, <1>3, <1>10 DEF GatePolicy, P, F, blind, seen

(* p is nowhere more permissive than q.                                       *)
Tighter(p, q) ==
  /\ p.mode = q.mode
  /\ q.deny \subseteq p.deny /\ p.allow \subseteq q.allow
  /\ DataClassOrder[p.max_data_class] <= DataClassOrder[q.max_data_class]
  /\ q.remote_mutations = "deny" => p.remote_mutations = "deny"

(* To take from a passport or from the features never lets more through, in     *)
(* whatever order evaluate() finds its reasons (passport.py, 84-203).         *)
THEOREM TighteningNeverLoosens ==
  ASSUME NEW p \in Passports, NEW q \in Passports, NEW f \in Features, NEW g \in Features,
         NEW t \in Descriptors, NEW k \in SUBSET EvidentRisks, NEW c \in DataClasses,
         Tighter(p, q), f.remote_calls => g.remote_calls
  PROVE  NoLooser(GatePolicy(p, f, t, k, c), GatePolicy(q, g, t, k, c))
PROOF
  <1> DEFINE P == ConstrainedPassport(p)
             Q == ConstrainedPassport(q)
             F == ConstrainedFeatures(p, f).remote_calls
             G == ConstrainedFeatures(q, g).remote_calls
             level == Assessed(t, k)
  <1>1. /\ P.mode = p.mode /\ P.deny = p.deny /\ P.allow = p.allow
        /\ P.max_data_class = p.max_data_class /\ P.remote_mutations = p.remote_mutations
    BY DEF ConstrainedPassport, Passports
  <1>2. /\ Q.mode = q.mode /\ Q.deny = q.deny /\ Q.allow = q.allow
        /\ Q.max_data_class = q.max_data_class /\ Q.remote_mutations = q.remote_mutations
    BY DEF ConstrainedPassport, Passports
  <1>3. F => G
    BY DEF ConstrainedFeatures, Tighter
  <1>4. /\ DataClassOrder[c] \in Nat /\ DataClassOrder[p.max_data_class] \in Nat
        /\ DataClassOrder[q.max_data_class] \in Nat
    BY DEF DataClassOrder, DataClasses, Passports
  <1> HIDE DEF P, Q, F, G, level
  <1>5. Denied(Q, t.uri, c, level, G) => Denied(P, t.uri, c, level, F)
    BY <1>1, <1>2, <1>3, <1>4 DEF Denied, Tighter
  <1>6. NoLooser(Evaluate(P, t.uri, c, level, F), Evaluate(Q, t.uri, c, level, G))
    BY <1>5 DEF NoLooser, Evaluate, Strictness
  <1> QED
    BY <1>6 DEF GatePolicy, P, Q, F, G, level

(* A call that leaves without an approval reads only, by evidence and with      *)
(* annotations, and every other switch lets it; under settings that excuse a   *)
(* missing socket none leaves at all (gate.py _policy; config.py, 612-706).   *)
THEOREM AllowIsEarned ==
  ASSUME NEW p \in Passports, NEW f \in Features, NEW t \in Descriptors,
         NEW k \in SUBSET EvidentRisks, NEW c \in DataClasses,
         GatePolicy(p, f, t, k, c) = "allow"
  PROVE  /\ "read_only" \in t.identity /\ t.verified /\ t.hints = {}
         /\ t.uri \in p.allow /\ t.uri \notin p.deny
         /\ f.remote_calls /\ p.mode \in GuardedInvocationModes
         /\ ~AuthorityDisabled(p, f)
PROOF
  <1> DEFINE level == Level(Evidence(t, k))
             P == ConstrainedPassport(p)
  <1>1. P.mode = p.mode /\ P.deny = p.deny /\ P.allow = p.allow
    BY DEF ConstrainedPassport, Passports
  <1>2. /\ Assessed(t, k) \notin SingleUseLevels \cup {"network"}
        /\ t.uri \in p.allow /\ t.uri \notin p.deny
        /\ ConstrainedFeatures(p, f).remote_calls /\ p.mode \in GuardedInvocationModes
    BY <1>1 DEF GatePolicy, Evaluate, Denied
  <1>3. f.remote_calls /\ ~AuthorityDisabled(p, f)
    BY <1>2 DEF ConstrainedFeatures, AuthorityDisabled, GuardedInvocationModes
  <1>4. /\ level \in Evidence(t, k) \cup {"unknown"} /\ level \in RiskLevels
        /\ \A s \in Evidence(t, k) : Precedence[level] <= Precedence[s]
    BY EvidenceIsEvident, LevelIsFirst
  <1>5. level = "read_only" /\ t.verified
    BY <1>2, <1>4 DEF Assessed, SingleUseLevels, MutationRisks, RiskLevels, Precedence
  <1>6. "read_only" \in t.identity
    BY <1>4, <1>5 DEF Evidence, HintRisks
  <1>7. HintRisks(t.hints) = {}
    <2>1. \A s \in HintRisks(t.hints) : s \in {"destructive", "mutation", "network"}
      BY DEF HintRisks
    <2>2. \A s \in HintRisks(t.hints) : Precedence["read_only"] <= Precedence[s]
      BY <1>4, <1>5 DEF Evidence
    <2> QED
      BY <2>1, <2>2 DEF Precedence
  <1>8. t.hints = {}
    BY <1>7 DEF HintRisks, Descriptors, Hints
  <1> QED
    BY <1>2, <1>3, <1>5, <1>6, <1>8

-----------------------------------------------------------------------------
(* Settings and receipts.                                                     *)
SettingsOf ==
  [connection: {"managed", "external"}, transport: Transports, passport: Passports,
   features: Features]

(* Whatever a call is prepared from could also have been saved: the two          *)
(* validations of one transport never disagree that way (config.py, 441-466     *)
(* and 661-729).                                                            *)
THEOREM ResolvedIsStorable ==
  ASSUME NEW s \in SettingsOf, NEW host \in Hosts, ~Managed(s),
         NEW c \in Resolved(s, host)
  PROVE  Storable(s, host)
PROOF
  BY DEF Resolved, Storable, TransportOK, SocketOK

(* Settings that excuse a missing socket deny every call: no remote authority is  *)
(* ever exercised over a socket that was not inspected (config.py, 265-294 and  *)
(* 692-716; passport.py, 127-134).                                          *)
THEOREM AbsentSocketIsSilent ==
  ASSUME NEW s \in SettingsOf, NEW host \in Hosts, NEW c \in Resolved(s, host),
         c.transport.type = "uds", host.sockets[c.transport.socket] # "safe",
         NEW t \in Descriptors, NEW k \in SUBSET EvidentRisks, NEW d \in DataClasses
  PROVE  /\ GatePolicy(s.passport, s.features, t, k, d) = "deny"
         /\ \A f \in {"remote_calls", "mesh_inference", "inbound_publication", "raw_mcp"} :
              ~c.features[f]
PROOF
  <1>1. AuthorityDisabled(s.passport, s.features)
    BY DEF Resolved, TransportOK, SocketOK
  <1>2. c.features = ConstrainedFeatures(s.passport, s.features)
    BY DEF Resolved
  <1>3. \A f \in {"remote_calls", "mesh_inference", "inbound_publication", "raw_mcp"} :
          ~c.features[f]
    BY <1>1, <1>2 DEF AuthorityDisabled, ConstrainedFeatures
  <1>4. ~ConstrainedFeatures(s.passport, s.features).remote_calls
    BY <1>2, <1>3
  <1> QED
    BY <1>3, <1>4 DEF GatePolicy, Evaluate, Denied

(* In Sovereign mode nothing resolves but the facade without a credential, and    *)
(* that only with a receipt of at most a day that passed every check on this     *)
(* kernel, boot and pack (config.py, 677-691; sovereign.py, 109-131, 267-371).  *)
THEOREM SovereignIsCertified ==
  ASSUME NEW s \in SettingsOf, NEW host \in Hosts, NEW c \in Resolved(s, host),
         s.passport.mode = "sovereign",
         NEW V, NEW r \in Receipts(V), NEW o, NEW seen \in [Named -> V], NEW now \in Int,
         host.certified = CertifiedForGuest(r, o, seen, now, FALSE)
  PROVE  /\ c.transport.origin = Facade
         /\ c.transport.secret = NoFile /\ c.transport.token_file = NoFile
         /\ now - r.generated_at <= MaxAge /\ RequiredChecks \subseteq r.checks
         /\ \A n \in {"kernel", "boot", "pack", "a0_source", "nano-init"} : r.of[n] = seen[n]
PROOF
  <1>1. host.certified /\ c.transport = s.transport /\ FacadeOnly(s.transport)
    <2>1. ~Managed(s)
      BY DEF Managed
    <2>2. PICK u \in {s.transport} :
            /\ c = [transport |-> u, passport |-> ConstrainedPassport(s.passport),
                    features |-> ConstrainedFeatures(s.passport, s.features)]
            /\ s.passport.mode = "sovereign" => host.certified /\ FacadeOnly(s.transport)
      BY <2>1, Zenon DEF Resolved
    <2> QED
      BY <2>2
  <1>2. CertifiedForGuest(r, o, seen, now, FALSE)
    BY <1>1
  <1> DEFINE shown == [seen EXCEPT !["sam-node"] = r.of["sam-node"], !["sam-box"] = r.of["sam-box"]]
  <1>3. Valid(r, shown, now, TRUE) /\ r.of["boot"] = seen["boot"] /\ r.of["a0_source"] = seen["a0_source"]
    BY <1>2 DEF CertifiedForGuest
  <1>4. \A n \in {"kernel", "pack", "nano-init"} : shown[n] = seen[n]
    BY DEF Named, Binaries
  <1>5. \A n \in {"kernel", "pack", "nano-init"} : r.of[n] = shown[n]
    BY <1>3 DEF Valid, Binaries
  <1>6. now - r.generated_at <= MaxAge /\ RequiredChecks \subseteq r.checks
    BY <1>3 DEF Valid, Stale
  <1> QED
    BY <1>1, <1>3, <1>4, <1>5, <1>6 DEF FacadeOnly

(* "A failed probe never emits support": what a run of the certifier writes opens  *)
(* no deployment, on any host and at any time, unless the run went through, with   *)
(* every check and unchanged files (certify-runtime.py, 696-743).              *)
THEOREM FailedRunCertifiesNothing ==
  ASSUME NEW now \in Int, NEW V, NEW started \in [Named -> V], NEW finished \in [Named -> V],
         NEW adapter_only \in BOOLEAN, NEW failed \in BOOLEAN, NEW checks \in SUBSET RequiredChecks,
         adapter_only \/ failed \/ checks # RequiredChecks
           \/ \E n \in Binaries \cup {"pack"} : started[n] # finished[n],
         NEW later \in Int, NEW host \in [Named -> V], NEW o
  PROVE  LET r == Issued(now, started, finished, adapter_only, failed, checks)
         IN  /\ ~CertifiedForHost(r, TRUE, host, later)
             /\ ~CertifiedForGuest(r, o, host, later, FALSE)
             /\ ~CertifiedForGuest(r, o, host, later, TRUE)
PROOF
  <1> DEFINE r == Issued(now, started, finished, adapter_only, failed, checks)
  <1>1. ~r.supported
    BY DEF Issued
  <1>2. \A seen, b : ~Valid(r, seen, later, b)
    BY <1>1 DEF Valid
  <1> QED
    BY <1>2 DEF CertifiedForHost, CertifiedForGuest
-----------------------------------------------------------------------------
(* The managed node. *)
(* A step of the system is a step of one caller or of one manager. *)
LEMMA StepOf ==
  ASSUME NodeNext
  PROVE  \/ \E c \in Callers : CallerStep(c)
         \/ \E p \in Processes : ThreadStep(p)
         \/ \E p \in Processes : ChildExits(p)
         \/ \E p \in Processes : Die(p)
BY DEF NodeNext

(* Callers step through the flock and the guard as their places say. *)
Inside == {"check", "recheck", "checked", "lock", "enable", "report", "spawn"}

GuardedCallers ==
  \A c \in Callers :
    /\ callers[c] \in Inside => guard[HomeOf[c]] = c /\ thread[HomeOf[c]] = "none"
    /\ callers[c] \in {"enable", "report", "spawn"} => flock = HomeOf[c]
    /\ callers[c] \in {"checked", "probed"} => flock = c

(* Nothing runs once it is reaped. *)
Reaped == \A p \in Processes : thread[p] \in {"settle", "release"} => children[p] = {}

NodeInv == NodeTypeOK /\ GuardedCallers /\ Reaped /\ OneSupervisor

(* The files, the flock and the places keep their types; a probe of the flock
   belongs to a caller that stands in it. *)
LEMMA TypeStep == NodeTypeOK /\ [NodeNext]_nvars => NodeTypeOK'
<1> SUFFICES ASSUME NodeTypeOK, [NodeNext]_nvars PROVE NodeTypeOK'
  OBVIOUS
<1> USE NodeAssumption DEF NodeAssumption
<1>1. ASSUME NEW c \in Callers, CallerStep(c) PROVE NodeTypeOK'
  <2> USE DEF NodeTypeOK, At, Goto, Return, CallerPC, ThreadPC
  <2>1. CASE EnsureBegin(c) BY <2>1 DEF EnsureBegin
  <2>2. CASE EnsureCheck(c) BY <2>2 DEF EnsureCheck, Probe, Unprobe
  <2>3. CASE EnsureLock(c)
    <3>1. stop_event' \in [Processes -> BOOLEAN]
      BY <2>3, Zenon DEF EnsureLock
    <3> QED
      BY <2>3, <3>1 DEF EnsureLock
  <2>4. CASE EnsureWrite(c)
    <3>1. CASE At(c, "enable") /\ enabled' = TRUE /\ Goto(c, "report") /\ UNCHANGED <<report, guard, troubles>>
      BY <2>4, <3>1 DEF EnsureWrite
    <3>2. CASE At(c, "report") /\ report' = "installing" /\ Goto(c, "spawn") /\ UNCHANGED <<enabled, guard, troubles>>
      BY <2>4, <3>2 DEF EnsureWrite
    <3>3. CASE (At(c, "enable") \/ At(c, "report")) /\ Trouble /\ Return(c) /\ UNCHANGED <<enabled, report>>
      BY <2>4, <3>3 DEF EnsureWrite, Trouble
    <3> QED
      BY <2>4, <3>1, <3>2, <3>3 DEF EnsureWrite
  <2>5. CASE EnsureSpawn(c) BY <2>5 DEF EnsureSpawn
  <2>6. CASE StatusBegin(c) BY <2>6 DEF StatusBegin
  <2>7. CASE Status(c) BY <2>7 DEF Status, Unprobe
  <2>8. CASE StopFlag(c) BY <2>8 DEF StopFlag
  <2>9. CASE CloseEvent(c) BY <2>9 DEF CloseEvent
  <2>10. CASE StopAnswer(c) BY <2>10 DEF StopAnswer
  <2> QED BY <1>1, <2>1, <2>2, <2>3, <2>4, <2>5, <2>6, <2>7, <2>8, <2>9, <2>10 DEF CallerStep
<1>2. ASSUME NEW p \in Processes, ThreadStep(p) PROVE NodeTypeOK'
  <2> USE DEF NodeTypeOK, Moves, ThreadPC
  <2>1. CASE Progress(p) BY <2>1 DEF Progress, Children
  <2>2. CASE Raise(p) BY <2>2 DEF Raise
  <2>3. CASE Watch(p) BY <2>3 DEF Watch
  <2>4. CASE ReportFailed(p) BY <2>4 DEF ReportFailed, Trouble
  <2>5. CASE Reap(p) BY <2>5 DEF Reap, Trouble
  <2>6. CASE Settle(p) BY <2>6 DEF Settle, Trouble
  <2>7. CASE Release(p) BY <2>7 DEF Release
  <2> QED BY <1>2, <2>1, <2>2, <2>3, <2>4, <2>5, <2>6, <2>7 DEF ThreadStep
<1>3. ASSUME NEW p \in Processes, ChildExits(p) PROVE NodeTypeOK'
  BY <1>3 DEF ChildExits, NodeTypeOK
<1>4. ASSUME NEW p \in Processes, Die(p) PROVE NodeTypeOK'
  BY <1>4 DEF Die, Trouble, NodeTypeOK, CallerPC, ThreadPC
<1>5. CASE UNCHANGED nvars
  BY <1>5 DEF nvars, NodeTypeOK
<1> QED
  BY <1>1, <1>2, <1>3, <1>4, <1>5, StepOf

LEMMA TypeInit == NodeInit => NodeTypeOK
<1> SUFFICES ASSUME NodeInit PROVE NodeTypeOK
  OBVIOUS
<1> USE NodeAssumption DEF NodeAssumption, NodeInit
<1>1. stop_event \in [Processes -> BOOLEAN]
  BY Zenon
<1>2. thread \in [Processes -> ThreadPC] /\ callers \in [Callers -> CallerPC]
  BY DEF ThreadPC, CallerPC
<1>3. guard \in [Processes -> Callers \cup {None}] /\ children \in [Processes -> SUBSET Children]
  OBVIOUS
<1>4. enabled \in BOOLEAN
  BY Zenon
<1>5. troubles \in 0..Troubles
  OBVIOUS
<1>6. flock \in Callers => callers[flock] \in {"checked", "probed"}
  OBVIOUS
<1>7. \A p \in Processes : guard[p] # None => HomeOf[guard[p]] = p
  OBVIOUS
<1> QED
  BY <1>1, <1>2, <1>3, <1>4, <1>5, <1>6, <1>7 DEF NodeInit, NodeTypeOK

(* The type invariant of the run "node": types, and a flock that is a caller's
   only while the caller probes it. *)
THEOREM NodeTypeCorrect == NodeSpec => []NodeTypeOK
<1> QED
  BY TypeInit, TypeStep, PTL DEF NodeSpec

-----------------------------------------------------------------------------
(* What a caller does leaves the flock with whoever supervises. *)
LEMMA CallerKeeps ==
  ASSUME NodeInv, NEW c \in Callers, CallerStep(c)
  PROVE  GuardedCallers' /\ Reaped' /\ OneSupervisor'
<1> USE NodeAssumption DEF NodeAssumption, NodeInv, NodeTypeOK, GuardedCallers, Reaped,
      OneSupervisor, Supervising, Inside, At, Goto, Return
<1>1. CASE EnsureBegin(c) BY <1>1 DEF EnsureBegin
<1>2. CASE EnsureCheck(c) BY <1>2 DEF EnsureCheck, Probe, Unprobe
<1>3. CASE EnsureLock(c) BY <1>3 DEF EnsureLock
<1>4. CASE EnsureWrite(c) BY <1>4 DEF EnsureWrite
<1>5. CASE EnsureSpawn(c) BY <1>5 DEF EnsureSpawn
<1>6. CASE StatusBegin(c) BY <1>6 DEF StatusBegin
<1>7. CASE Status(c) BY <1>7 DEF Status, Unprobe
<1>8. CASE StopFlag(c) BY <1>8 DEF StopFlag
<1>9. CASE CloseEvent(c) BY <1>9 DEF CloseEvent
<1>10. CASE StopAnswer(c) BY <1>10 DEF StopAnswer
<1> QED
  BY <1>1, <1>2, <1>3, <1>4, <1>5, <1>6, <1>7, <1>8, <1>9, <1>10 DEF CallerStep

(* So does what a supervisor does, until it has reaped its children. *)
LEMMA ThreadKeeps ==
  ASSUME NodeInv, NEW p \in Processes, ThreadStep(p) \/ ChildExits(p) \/ Die(p)
  PROVE  GuardedCallers' /\ Reaped' /\ OneSupervisor'
<1> USE NodeAssumption DEF NodeAssumption, NodeInv, NodeTypeOK, GuardedCallers, Reaped,
      OneSupervisor, Supervising, Inside, Moves
<1>1. CASE Progress(p) BY <1>1 DEF Progress
<1>2. CASE Raise(p) BY <1>2 DEF Raise
<1>3. CASE Watch(p) BY <1>3 DEF Watch
<1>4. CASE ReportFailed(p) BY <1>4 DEF ReportFailed
<1>5. CASE Reap(p) BY <1>5 DEF Reap
<1>6. CASE Settle(p) BY <1>6 DEF Settle
<1>7. CASE Release(p) BY <1>7 DEF Release
<1>8. CASE ChildExits(p) BY <1>8 DEF ChildExits
<1>9. CASE Die(p) BY <1>9 DEF Die
<1> QED
  BY <1>1, <1>2, <1>3, <1>4, <1>5, <1>6, <1>7, <1>8, <1>9 DEF ThreadStep

LEMMA InvStep == NodeInv /\ [NodeNext]_nvars => NodeInv'
<1> SUFFICES ASSUME NodeInv, [NodeNext]_nvars PROVE NodeInv'
  OBVIOUS
<1>1. NodeTypeOK'
  BY TypeStep DEF NodeInv
<1>2. CASE UNCHANGED nvars
  BY <1>2 DEF nvars, NodeInv, NodeTypeOK, GuardedCallers, Reaped, OneSupervisor, Supervising
<1>3. CASE NodeNext
  BY <1>1, <1>3, StepOf, CallerKeeps, ThreadKeeps DEF NodeInv
<1> QED
  BY <1>2, <1>3

LEMMA InvInit == NodeInit => NodeInv
<1> SUFFICES ASSUME NodeInit PROVE NodeInv
  OBVIOUS
<1>1. NodeTypeOK
  BY TypeInit
<1>2. GuardedCallers
  BY DEF NodeInit, GuardedCallers, Inside
<1>3. Reaped /\ OneSupervisor
  BY DEF NodeInit, Reaped, OneSupervisor, Supervising
<1> QED
  BY <1>1, <1>2, <1>3 DEF NodeInv

(* One runtime lock, one supervisor: whoever supervises, or has a child left, has
   the flock (managed_node.py ensure, _run). *)
THEOREM SingleSupervisor == NodeSpec => []OneSupervisor
<1>1. NodeInv => OneSupervisor
  BY DEF NodeInv
<1> QED
  BY <1>1, InvInit, InvStep, PTL DEF NodeSpec

(* Only ensure() makes a node wanted, and it has the flock and no thread then. *)
LEMMA Unwanted ==
  ASSUME NodeInv, [NodeNext]_nvars, NEW p \in Processes,
         Supervising(p), ~Wanted(p), Supervising(p)'
  PROVE  ~Wanted(p)'
<1> USE NodeAssumption DEF NodeAssumption, NodeInv, NodeTypeOK, GuardedCallers, OneSupervisor,
      Supervising, Inside, Wanted
<1>1. ASSUME NEW c \in Callers, CallerStep(c) PROVE ~Wanted(p)'
  <2> USE DEF At, Goto, Return
  <2>1. CASE EnsureLock(c) BY <2>1 DEF EnsureLock
  <2>2. CASE EnsureWrite(c) BY <2>2 DEF EnsureWrite
  <2>3. CASE StopFlag(c) BY <2>3 DEF StopFlag
  <2>4. CASE CloseEvent(c) BY <2>4 DEF CloseEvent
  <2>5. CASE UNCHANGED <<enabled, stop_event>> BY <2>5
  <2> QED
    BY <1>1, <2>1, <2>2, <2>3, <2>4, <2>5
    DEF CallerStep, EnsureBegin, EnsureCheck, EnsureSpawn, StatusBegin, Status, StopAnswer
<1>2. ASSUME NEW q \in Processes, Die(q) PROVE ~Wanted(p)'
  BY <1>2 DEF Die
<1>3. CASE UNCHANGED <<enabled, stop_event>>
  BY <1>3
<1>4. ASSUME NEW q \in Processes, ThreadStep(q) \/ ChildExits(q) PROVE UNCHANGED <<enabled, stop_event>>
  BY <1>4 DEF ThreadStep, ChildExits, Progress, Raise, Watch, ReportFailed, Reap, Settle, Release
<1> QED
  BY <1>1, <1>2, <1>3, <1>4, StepOf DEF nvars

(* A stop sticks: no ensure() of any process undoes it while the supervisor it
   was meant for still stands (managed_node.py ensure, stop, _wanted). *)
THEOREM StopsStick == NodeSpec => StopSticks
<1>1. NodeInv /\ [NodeNext]_nvars =>
        [\A p \in Processes : Supervising(p) /\ ~Wanted(p) /\ Supervising(p)' => ~Wanted(p)']_nvars
  BY Unwanted
<1> QED
  BY <1>1, InvInit, InvStep, PTL DEF NodeSpec, StopSticks
=============================================================================
