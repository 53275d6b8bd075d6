---------------------------- MODULE SamClientProofs ----------------------------
(***************************************************************************)
(* Theorems about a SAM client and the node it talks to, for any number of   *)
(* tasks, sessions and operations and whatever the node lists.               *)
(***************************************************************************)
EXTENDS SamClient, FiniteSetTheorems, TLAPS

(* What an operation may still have to send: an end of its programme.        *)
Left ==
  [status |-> {<<"healthz", "models">>, <<"models">>},
   read |-> {<<"list", "call">>, <<"call">>},
   describe |-> {<<"list", "list", "call">>, <<"list", "call">>, <<"call">>},
   call |-> {<<"call">>},
   embassy |-> {<<"embassy">>},
   probe |-> {<<"healthz", "readyz", "init", "list", "models">>,
              <<"readyz", "init", "list", "models">>, <<"init", "list", "models">>,
              <<"list", "models">>, <<"models">>}]

CallerState ==
  [op: Ops \cup {"idle"}, todo: {<<>>} \cup UNION {Left[op] : op \in Ops},
   staged: Sessions \cup {NoSession}, tools: SUBSET McpTools]
Wires ==
  [kind: Kinds, id: Nat, serial: Nat, session: Sessions \cup {NoSession},
   peer: Addresses \cup Inodes]

Handshaking(r, w) == r.staged # NoSession \/ w.kind \in {"init", "note"}

(* A task and its request agree: what it awaits is the next request of its   *)
(* operation, or a part of the handshake before it, with the session that    *)
(* was kept aside.  Only a probe keeps a listing.                            *)
Shaped(r, w) ==
  /\ r \in CallerState /\ w \in Wires \cup {NoWire}
  /\ r.op = "idle" => r = Idle /\ w = NoWire
  /\ r.op # "idle" => r.todo \in Left[r.op]
  /\ w.kind \notin {"none", "init", "note"} => w.kind = Head(r.todo)
  /\ w.kind = "note" => w.session = r.staged
  /\ w.kind = "note" <=> w # NoWire /\ r.staged # NoSession
  /\ r.op = "probe" /\ Handshaking(r, w) => Head(r.todo) = "init"
  /\ r.tools # {} => r.op = "probe" /\ Head(r.todo) = "models"

(* How far a probe is says whether there is a session, and what it listed.   *)
ProbeSees(r) ==
  /\ r.op = "probe" =>
       /\ Head(r.todo) \in {"healthz", "readyz", "init"} => session = NoSession
       /\ Head(r.todo) = "list" => session # NoSession
  /\ r.tools # {} => features["list"] = "verified_now"

(* A session is begun while there is none, and used once there is one.       *)
SessionFits(r, w) ==
  /\ Handshaking(r, w) => session = NoSession
  /\ w.kind \in {"list", "call"} => w.session = session /\ session # NoSession
  /\ r.staged \in given \cup {NoSession}

Requesting == ToolCalls \cup {"init", "list"}

WireFits(w) ==
  w # NoWire =>
    /\ w.serial \in 1..sent /\ Permitted(endpoint, w.peer)
    /\ w.kind \in Requesting => w.id < nextId

Fits(r, w) == Shaped(r, w) /\ ProbeSees(r) /\ SessionFits(r, w) /\ WireFits(w)

(* The handshake is under a lock, but for a probe, which has the client to   *)
(* itself: nobody used it before, nor will anybody after.                    *)
HandshakeIsHeld ==
  \A c \in Callers :
    Handshaking(callers[c], wire[c]) /\ callers[c].op # "probe" => holder = c
ProbeIsAlone ==
  /\ \A c, d \in Callers : callers[c].op = "probe" /\ c # d => callers[d].op = "idle"
  /\ \A c \in Callers : callers[c].op = "probe" => begun = MaxOps
  /\ begun = 0 => session = NoSession /\ \A c \in Callers : callers[c].op = "idle"

IdsDiffer ==
  \A c, d \in Callers :
    /\ wire[c].kind \in Requesting /\ wire[d].kind \in Requesting
    /\ wire[c].id = wire[d].id
    => c = d

TablesFit ==
  /\ callers \in [Callers -> CallerState] /\ wire \in [Callers -> Wires \cup {NoWire}]
  /\ session \in Sessions \cup {NoSession} /\ holder \in Callers \cup {NoCaller}
  /\ endpoint \in UsedEndpoints
  /\ nextId \in Nat \ {0} /\ sent \in Nat /\ nextId <= sent + 1 /\ begun \in 0..MaxOps
  /\ features \in [Steps -> Statuses]
  /\ given \subseteq Sessions /\ open \subseteq given
  /\ session # NoSession => session \in open

(* Calls the node holds or ran, and those said not to have run, were sent.   *)
LedgerFits ==
  /\ pending \cap executed = {} /\ pending \cup executed \subseteq 1..sent
  /\ \A t \in notrun : t.serial \in 1..sent
  /\ ExecutedIsTold /\ AnswerIsOwn

ReportsFit == ReportIsSeen /\ \A r \in reports : r.report.status \in Statuses

ClientInduction ==
  /\ TablesFit
  /\ \A c \in Callers : Fits(callers[c], wire[c])
  /\ HandshakeIsHeld /\ ProbeIsAlone /\ IdsDiffer
  /\ LedgerFits /\ ReportsFit
-----------------------------------------------------------------------------
LEMMA OpsAre == Ops = {"status", "read", "describe", "call", "embassy", "probe"}
BY DEF Ops, Programmes

LEMMA KindsAre == Kinds = {"healthz", "readyz", "models", "call", "embassy", "init", "note", "list"}
BY DEF Kinds, Gets, ToolCalls

LEMMA Tails ==
  /\ \A a : Tail(<<a>>) = <<>>
  /\ \A a, b : Tail(<<a, b>>) = <<b>>
  /\ \A a, b, c : Tail(<<a, b, c>>) = <<b, c>>
  /\ \A a, b, c, d : Tail(<<a, b, c, d>>) = <<b, c, d>>
  /\ \A a, b, c, d, e : Tail(<<a, b, c, d, e>>) = <<b, c, d, e>>
OBVIOUS

LEMMA ProgrammeIsLeft == \A op \in Ops : Programmes[op] \in Left[op]
BY OpsAre DEF Programmes, Left

(* What is next, and what is left after it.                                  *)
LEMMA LeftHasNext ==
  ASSUME NEW op \in Ops, NEW todo \in Left[op]
  PROVE  /\ todo # <<>> /\ Head(todo) \in Kinds \ {"note"}
         /\ op # "probe" => Head(todo) # "init"
         /\ op = "probe" => Head(todo) \in Steps
         /\ Head(todo) \in {"healthz", "readyz", "init"} => op \in {"status", "probe"}
BY OpsAre, KindsAre DEF Left, Steps

LEMMA LeftAfter ==
  ASSUME NEW op \in Ops \ {"probe"}, NEW todo \in Left[op], Len(todo) > 1
  PROVE  Tail(todo) \in Left[op]
<1>1. ASSUME NEW x, todo = <<x>> PROVE FALSE
  <2>1. Len(todo) = 1
    BY <1>1
  <2> QED
    BY <2>1
<1>2. CASE op = "status"
  <2>1. todo \in {<<"healthz", "models">>, <<"models">>}
    BY <1>2 DEF Left
  <2>2. todo = <<"healthz", "models">>
    BY <1>1, <2>1
  <2> QED
    BY <1>2, <2>2, Tails DEF Left
<1>3. CASE op = "read"
  <2>1. todo \in {<<"list", "call">>, <<"call">>}
    BY <1>3 DEF Left
  <2>2. todo = <<"list", "call">>
    BY <1>1, <2>1
  <2> QED
    BY <1>3, <2>2, Tails DEF Left
<1>4. CASE op = "describe"
  <2>1. todo \in {<<"list", "list", "call">>, <<"list", "call">>, <<"call">>}
    BY <1>4 DEF Left
  <2>2. todo # <<"call">>
    BY <1>1
  <2>3. todo = <<"list", "list", "call">> \/ todo = <<"list", "call">>
    BY <2>1, <2>2
  <2>4. /\ Tail(<<"list", "list", "call">>) = <<"list", "call">>
        /\ Tail(<<"list", "call">>) = <<"call">>
    BY Tails
  <2>5. Tail(todo) = <<"list", "call">> \/ Tail(todo) = <<"call">>
    BY <2>3, <2>4
  <2> QED
    BY <1>4, <2>5 DEF Left
<1>5. CASE op \in {"call", "embassy"}
  <2>1. todo \in {<<"call">>, <<"embassy">>}
    BY <1>5 DEF Left
  <2> QED
    BY <1>1, <2>1
<1> QED
  BY <1>2, <1>3, <1>4, <1>5, OpsAre

LEMMA ProbeAfter ==
  ASSUME NEW todo \in Left["probe"]
  PROVE  /\ Head(todo) = "healthz" => Tail(todo) = <<"readyz", "init", "list", "models">>
         /\ Head(todo) = "readyz" => Tail(todo) = <<"init", "list", "models">>
         /\ Head(todo) = "init" => /\ Tail(todo) = <<"list", "models">>
                                   /\ Tail(Tail(todo)) = <<"models">>
         /\ Head(todo) = "list" => Tail(todo) = <<"models">>
         /\ Head(todo) = "models" => Tail(todo) = <<>>
<1> DEFINE h == <<"healthz", "readyz", "init", "list", "models">>
           y == <<"readyz", "init", "list", "models">>
           i == <<"init", "list", "models">>
           l == <<"list", "models">>
           m == <<"models">>
<1>1. todo \in {h, y, i, l, m}
  BY DEF Left
<1>2. /\ Head(h) = "healthz" /\ Head(y) = "readyz" /\ Head(i) = "init" /\ Head(l) = "list"
      /\ Head(m) = "models"
  OBVIOUS
<1>3. Tail(h) = y /\ Tail(y) = i /\ Tail(i) = l /\ Tail(l) = m /\ Tail(m) = <<>>
  BY Tails
<1> HIDE DEF h, y, i, l, m
<1>4. /\ todo = h => Head(todo) = "healthz" /\ Tail(todo) = y
      /\ todo = y => Head(todo) = "readyz" /\ Tail(todo) = i
      /\ todo = i => Head(todo) = "init" /\ Tail(todo) = l /\ Tail(Tail(todo)) = m
      /\ todo = l => Head(todo) = "list" /\ Tail(todo) = m
      /\ todo = m => Head(todo) = "models" /\ Tail(todo) = <<>>
  BY <1>2, <1>3
<1>5. /\ Head(todo) = "healthz" => Tail(todo) = y
      /\ Head(todo) = "readyz" => Tail(todo) = i
      /\ Head(todo) = "init" => Tail(todo) = l /\ Tail(Tail(todo)) = m
      /\ Head(todo) = "list" => Tail(todo) = m
      /\ Head(todo) = "models" => Tail(todo) = <<>>
  BY <1>1, <1>4
<1> QED
  BY <1>5 DEF h, y, i, l, m

LEMMA ProbeLeft ==
  /\ <<"readyz", "init", "list", "models">> \in Left["probe"]
  /\ <<"init", "list", "models">> \in Left["probe"]
  /\ <<"list", "models">> \in Left["probe"] /\ <<"models">> \in Left["probe"]
  /\ <<"readyz", "init", "list", "models">> # <<>> /\ <<"init", "list", "models">> # <<>>
  /\ <<"list", "models">> # <<>> /\ <<"models">> # <<>>
  /\ Head(<<"readyz", "init", "list", "models">>) = "readyz"
  /\ Head(<<"init", "list", "models">>) = "init"
  /\ Head(<<"list", "models">>) = "list" /\ Head(<<"models">>) = "models"
BY DEF Left

LEMMA TodoTyped == \A op \in Ops : Left[op] \subseteq {<<>>} \cup UNION {Left[o] : o \in Ops}
OBVIOUS

LEMMA IdleTyped == Idle \in CallerState /\ Idle.op = "idle" /\ Idle.staged = NoSession
BY DEF Idle, CallerState

LEMMA WireIs ==
  ASSUME NEW w \in Wires \cup {NoWire}
  PROVE  /\ w = NoWire <=> w.kind = "none"
         /\ w # NoWire => w \in Wires /\ w.kind \in Kinds
BY KindsAre DEF Wires, NoWire
-----------------------------------------------------------------------------
(* What a report says of one tool, and of all of them.                       *)
LEMMA NamedIsFinite ==
  ASSUME NEW tools \in SUBSET McpTools, NEW name
  PROVE  IsFiniteSet(Named(tools, name))
<1> DEFINE R(x, b) == [name |-> name, wire |-> x, fits |-> b]
           F == {R("plain", TRUE), R("plain", FALSE), R("canonical", TRUE), R("canonical", FALSE)}
<1>1. Named(tools, name) \subseteq F
  BY DEF Named, McpTools
<1>2. \A a, b, c, d : IsFiniteSet({a, b, c, d})
  <2>1. ASSUME NEW a, NEW b, NEW c, NEW d PROVE IsFiniteSet({a, b, c, d})
    <3>1. IsFiniteSet({} \cup {a})
      BY FS_EmptySet, FS_AddElement
    <3>2. IsFiniteSet(({} \cup {a}) \cup {b})
      BY <3>1, FS_AddElement
    <3>3. IsFiniteSet((({} \cup {a}) \cup {b}) \cup {c})
      BY <3>2, FS_AddElement
    <3>4. IsFiniteSet(((({} \cup {a}) \cup {b}) \cup {c}) \cup {d})
      BY <3>3, FS_AddElement
    <3>5. ((({} \cup {a}) \cup {b}) \cup {c}) \cup {d} = {a, b, c, d}
      OBVIOUS
    <3> QED
      BY <3>4, <3>5
  <2> QED
    BY <2>1
<1>3. IsFiniteSet(F)
  BY <1>2
<1> QED
  BY <1>1, <1>3, FS_Subset

LEMMA FeatureIsSeen ==
  ASSUME NEW tools \in SUBSET McpTools, NEW name, NEW missing \in Statuses \ {"verified_now"}
  PROVE  /\ ToolFeature(tools, name, missing) \in Statuses
         /\ ToolFeature(tools, name, missing) = "verified_now" =>
              /\ Cardinality(Named(tools, name)) = 1
              /\ \E t \in tools : t.fits /\ Named(tools, name) = {t}
<1> DEFINE N == Named(tools, name)
<1>1. IsFiniteSet(N) /\ N \subseteq tools
  BY NamedIsFinite DEF Named
<1>2. ToolFeature(tools, name, missing) \in Statuses
  BY DEF ToolFeature, Statuses
<1>3. ASSUME ToolFeature(tools, name, missing) = "verified_now"
      PROVE  /\ Cardinality(N) = 1
             /\ \E t \in tools : t.fits /\ N = {t}
  <2>1. PICK t \in Indexed(tools, name) : t.fits
    BY <1>3 DEF ToolFeature
  <2>2. Cardinality(N) = 1 /\ t \in N
    BY <2>1 DEF Indexed
  <2>3. \E x : N = {x}
    BY <1>1, <2>2, FS_Singleton
  <2> QED
    BY <1>1, <2>1, <2>2, <2>3
<1> QED
  BY <1>2, <1>3

Told(q) ==
  /\ q.report.status = "verified_now" =>
       /\ \A s \in Steps : q.seen[s] = "verified_now"
       /\ \A name \in ReadTools \cup {CallTool} :
            \E t \in q.tools : t.fits /\ Named(q.tools, name) = {t}
  /\ q.report.status = "unreachable" => q.tools = {}
  /\ \A name \in Proposed(q.report).enabled : Cardinality(Named(q.tools, name)) = 1

LEMMA ReportTells ==
  ASSUME NEW seen \in [Steps -> Statuses], NEW tools \in SUBSET McpTools,
         tools # {} => seen["list"] = "verified_now"
  PROVE  /\ Report(seen, tools).status \in Statuses
         /\ Told([seen |-> seen, tools |-> tools, report |-> Report(seen, tools)])
<1> DEFINE feature(name) == ToolFeature(tools, name, Missing(seen))
           All == {seen[s] : s \in Steps} \cup {feature(name) : name \in ReadTools \cup {CallTool}}
           q == [seen |-> seen, tools |-> tools, report |-> Report(seen, tools)]
<1>1. Missing(seen) \in Statuses \ {"verified_now"}
  BY DEF Missing, Statuses, Steps
<1>2. /\ Report(seen, tools).status = Aggregate(All)
      /\ Report(seen, tools).enabled = {name \in ReadTools : feature(name) = "verified_now"}
  BY DEF Report
<1>3. \A name : feature(name) = "verified_now" =>
        /\ Cardinality(Named(tools, name)) = 1
        /\ \E t \in tools : t.fits /\ Named(tools, name) = {t}
  BY <1>1, FeatureIsSeen
<1> HIDE DEF feature
<1>4. Aggregate(All) \in Statuses
  BY DEF Aggregate, Statuses
<1>5. ASSUME Aggregate(All) = "verified_now"
      PROVE  /\ \A s \in Steps : seen[s] = "verified_now"
             /\ \A name \in ReadTools \cup {CallTool} : feature(name) = "verified_now"
  <2>1. All = {"verified_now"}
    BY <1>5 DEF Aggregate
  <2> QED
    BY <2>1
<1>6. ASSUME Aggregate(All) = "unreachable" PROVE tools = {}
  <2>1. All = {"unreachable"}
    BY <1>6 DEF Aggregate
  <2>2. seen["list"] = "unreachable"
    BY <2>1 DEF Steps
  <2> QED
    BY <2>2
<1>7. q.report.status = "verified_now" =>
       /\ \A s \in Steps : q.seen[s] = "verified_now"
       /\ \A name \in ReadTools \cup {CallTool} :
            \E t \in q.tools : t.fits /\ Named(q.tools, name) = {t}
  BY <1>2, <1>3, <1>5
<1>8. q.report.status = "unreachable" => q.tools = {}
  BY <1>2, <1>6
<1>9. \A name \in Proposed(q.report).enabled : Cardinality(Named(q.tools, name)) = 1
  BY <1>2, <1>3 DEF Proposed
<1> QED
  BY <1>2, <1>4, <1>7, <1>8, <1>9 DEF Told
-----------------------------------------------------------------------------
(* How a request of a task ends, whatever the answer: the wire and the lock   *)
(* are free, and the task is done or at its next request.                    *)
Leaves(c, r) ==
  /\ callers' = [callers EXCEPT ![c] = r]
  /\ Shaped(r, NoWire) /\ r.staged = NoSession /\ r.op \in {callers[c].op, "idle"}
  /\ ProbeSees(r)'
NotesFit ==
  /\ features' \in [Steps -> Statuses]
  /\ \A q \in reports' : q \in reports \/ (Told(q) /\ q.report.status \in Statuses)
Settled(c) ==
  /\ wire' = [wire EXCEPT ![c] = NoWire]
  /\ holder' = (IF holder = c THEN NoCaller ELSE holder)
  /\ \E r \in CallerState : Leaves(c, r)
  /\ NotesFit

LEMMA BlankTyped == Blank \in [Steps -> Statuses]
BY DEF Blank, Statuses

LEMMA IdleShaped == Shaped(Idle, NoWire) /\ ProbeSees(Idle)'
BY IdleTyped DEF Shaped, ProbeSees, Idle, NoWire, Handshaking

(* The probe notes an outcome: the handshake decides whether it asks for the *)
(* tools, and only a listing that was seen counts.                          *)
LEMMA NotedSettles ==
  ASSUME TablesFit, NEW c \in Callers, Shaped(callers[c], wire[c]), ProbeSees(callers[c]),
         callers[c].op = "probe",
         NEW status \in Statuses, NEW listing \in SUBSET McpTools,
         listing # {} => status = "verified_now",
         Head(Todo(c)) = "init" => (status = "verified_now" <=> session' # NoSession),
         Head(Todo(c)) # "init" => session' = session,
         Noted(c, Head(Todo(c)), status, listing)
  PROVE  (\E s \in CallerState : Leaves(c, s)) /\ NotesFit
<1> DEFINE r == callers[c]
           step == Head(r.todo)
           skip == step = "init" /\ status # "verified_now"
           seen == [s \in Steps |-> IF s = step \/ (skip /\ s = "list") THEN status
                                    ELSE features[s]]
           rest == IF skip THEN Tail(Tail(r.todo)) ELSE Tail(r.todo)
           next == [r EXCEPT !.todo = rest, !.staged = NoSession,
                             !.tools = IF step = "list" THEN listing ELSE r.tools]
           told == [seen |-> seen, tools |-> r.tools, report |-> Report(seen, r.tools)]
<1>1. r \in CallerState /\ r.todo \in Left["probe"]
      /\ callers \in [Callers -> CallerState] /\ features \in [Steps -> Statuses]
  BY DEF Shaped, TablesFit
<1>2. features' = (IF rest = <<>> THEN Blank ELSE seen)
  BY DEF Noted, Todo
<1>3. reports' = (IF rest # <<>> THEN reports ELSE reports \cup {told})
  BY DEF Noted, Todo
<1>4. callers' = [callers EXCEPT ![c] = IF rest = <<>> THEN Idle ELSE next]
  BY DEF Noted, Todo
<1>5. seen \in [Steps -> Statuses]
  BY <1>1
<1>6. step \in Steps /\ (step # "models" => r.tools = {})
  BY <1>1, OpsAre, LeftHasNext DEF Shaped
<1>7. CASE step = "models"
  <2>1. rest = <<>>
    BY <1>1, <1>7, ProbeAfter
  <2>2. r.tools # {} => seen["list"] = "verified_now"
    BY <1>1, <1>7 DEF ProbeSees, Steps
  <2>3. r.tools \in SUBSET McpTools
    BY <1>1 DEF CallerState
  <2>4. told.report.status \in Statuses /\ Told(told)
    BY <1>5, <2>2, <2>3, ReportTells
  <2> HIDE DEF rest, told
  <2>5. NotesFit
    BY <1>2, <1>3, <2>1, <2>4, BlankTyped DEF NotesFit
  <2> QED
    BY <1>4, <2>1, <2>5, IdleTyped, IdleShaped DEF Leaves
<1>8. CASE step # "models"
  <2>1. /\ step = "healthz" => rest = <<"readyz", "init", "list", "models">>
        /\ step = "readyz" => rest = <<"init", "list", "models">>
        /\ step = "init" /\ status = "verified_now" => rest = <<"list", "models">>
        /\ step = "init" /\ status # "verified_now" => rest = <<"models">>
        /\ step = "list" => rest = <<"models">>
    BY <1>1, ProbeAfter
  <2> HIDE DEF rest
  <2>2. rest \in Left["probe"] /\ rest # <<>>
    BY <1>6, <1>8, <2>1, ProbeLeft DEF Steps
  <2>3. /\ step = "healthz" => Head(rest) = "readyz"
        /\ step = "readyz" => Head(rest) = "init"
        /\ step = "init" => Head(rest) = (IF status = "verified_now" THEN "list" ELSE "models")
        /\ step = "list" => Head(rest) = "models"
    BY <2>1, ProbeLeft
  <2>4. features' = seen /\ reports' = reports /\ callers' = [callers EXCEPT ![c] = next]
    BY <1>2, <1>3, <1>4, <2>2
  <2>5. rest \in {<<>>} \cup UNION {Left[op] : op \in Ops}
    BY <2>2, OpsAre, TodoTyped
  <2>6. /\ next \in CallerState /\ next.op = "probe" /\ next.todo = rest
        /\ next.staged = NoSession
        /\ next.tools = (IF step = "list" THEN listing ELSE {})
    BY <1>1, <1>6, <1>8, <2>5 DEF CallerState
  <2>7. PICK s : s = next
    OBVIOUS
  <2> HIDE DEF next
  <2>8. Shaped(s, NoWire)
    <3>1. s.tools # {} => Head(rest) = "models"
      BY <2>3, <2>6, <2>7
    <3> QED
      BY <2>2, <2>6, <2>7, <3>1 DEF Shaped, NoWire, Handshaking
  <2>9. ProbeSees(s)'
    <3>1. s.tools # {} => features'["list"] = "verified_now"
      BY <2>4, <2>6, <2>7 DEF Steps
    <3>2. Head(rest) \in {"healthz", "readyz", "init"} => session' = NoSession
      BY <1>6, <1>8, <2>3 DEF ProbeSees, Steps, Todo
    <3>3. Head(rest) = "list" => session' # NoSession
      BY <1>6, <1>8, <2>3 DEF Steps, Todo
    <3> QED
      BY <2>6, <2>7, <3>1, <3>2, <3>3 DEF ProbeSees
  <2>10. NotesFit
    BY <1>5, <2>4 DEF NotesFit
  <2> QED
    BY <2>4, <2>6, <2>7, <2>8, <2>9, <2>10 DEF Leaves
<1> QED
  BY <1>7, <1>8
LEMMA FailedIsNoSuccess == \A error : FailedStep(error) \in Statuses \ {"verified_now"}
BY DEF FailedStep, Statuses

LEMMA QuietNotes ==
  ASSUME TablesFit, UNCHANGED <<features, reports>>
  PROVE  NotesFit
BY DEF TablesFit, NotesFit

(* An error ends the task, or is noted by the probe.                         *)
LEMMA RaiseSettles ==
  ASSUME TablesFit, NEW c \in Callers, Shaped(callers[c], wire[c]), ProbeSees(callers[c]),
         callers[c].op # "idle", session' = session, NEW error, NEW w, Raise(c, error, w)
  PROVE  Settled(c)
<1>1. wire' = [wire EXCEPT ![c] = NoWire] /\ holder' = (IF holder = c THEN NoCaller ELSE holder)
  BY DEF Raise, Release
<1>2. CASE callers[c].op = "probe" /\ error # Escaped
  <2>1. Noted(c, Head(Todo(c)), FailedStep(error), {})
    BY <1>2 DEF Raise
  <2>2. Head(Todo(c)) = "init" => session' = NoSession
    BY <1>2 DEF ProbeSees, Todo
  <2>3. FailedStep(error) \in Statuses \ {"verified_now"}
    BY FailedIsNoSuccess
  <2> QED
    BY <1>1, <1>2, <2>1, <2>2, <2>3, NotedSettles, SMTT(30) DEF Settled
<1>3. CASE ~(callers[c].op = "probe" /\ error # Escaped)
  <2>1. /\ callers' = [callers EXCEPT ![c] = Idle] /\ reports' = reports
        /\ features' \in {features, Blank}
    BY <1>3 DEF Raise
  <2>2. NotesFit
    BY <2>1, BlankTyped DEF TablesFit, NotesFit
  <2> QED
    BY <1>1, <2>1, <2>2, IdleTyped, IdleShaped DEF Settled, Leaves
<1> QED
  BY <1>2, <1>3

(* A result: the next request of the task, or its end.                       *)
LEMMA ProceedSettles ==
  ASSUME TablesFit, NEW c \in Callers, Shaped(callers[c], wire[c]), ProbeSees(callers[c]),
         callers[c].op # "idle",
         NEW status \in Statuses, NEW listing \in SUBSET McpTools,
         listing # {} => status = "verified_now",
         callers[c].op = "probe" =>
           /\ Head(Todo(c)) = "init" => (status = "verified_now" <=> session' # NoSession)
           /\ Head(Todo(c)) # "init" => session' = session,
         callers[c].op # "probe" => callers[c].staged = NoSession,
         NEW w, Proceed(c, status, listing, w)
  PROVE  Settled(c)
<1>1. wire' = [wire EXCEPT ![c] = NoWire] /\ holder' = (IF holder = c THEN NoCaller ELSE holder)
  BY DEF Proceed, Release
<1>2. CASE callers[c].op = "probe"
  <2>1. Noted(c, Head(Todo(c)), status, listing)
    BY <1>2 DEF Proceed
  <2> QED
    BY <1>1, <1>2, <2>1, NotedSettles DEF Settled
<1>3. CASE callers[c].op # "probe"
  <2>1. /\ UNCHANGED <<features, reports>>
        /\ \/ Len(Todo(c)) > 1 /\ callers' = [callers EXCEPT ![c].todo = Tail(Todo(c))]
           \/ callers' = [callers EXCEPT ![c] = Idle]
    BY <1>3 DEF Proceed, Todo
  <2>2. CASE callers' = [callers EXCEPT ![c] = Idle]
    BY <1>1, <2>1, <2>2, IdleTyped, IdleShaped, QuietNotes DEF Settled, Leaves
  <2>3. CASE Len(Todo(c)) > 1 /\ callers' = [callers EXCEPT ![c].todo = Tail(Todo(c))]
    <3>1. PICK r : r = callers[c]
      OBVIOUS
    <3>2. r \in CallerState /\ r.op \in Ops \ {"probe"} /\ r.todo \in Left[r.op]
          /\ r.staged = NoSession /\ r.tools = {} /\ Todo(c) = r.todo
      BY <1>3, <3>1 DEF Shaped, CallerState, Todo
    <3>3. Tail(r.todo) \in Left[r.op]
      BY <2>3, <3>2, LeftAfter
    <3>4. Tail(r.todo) \in {<<>>} \cup UNION {Left[op] : op \in Ops}
      BY <3>2, <3>3, TodoTyped
    <3>5. PICK s : s = [r EXCEPT !.todo = Tail(r.todo)]
      OBVIOUS
    <3>6. /\ s \in CallerState /\ s.todo = Tail(r.todo) /\ s.op = r.op /\ s.staged = NoSession
          /\ s.tools = {}
      BY <3>2, <3>4, <3>5 DEF CallerState
    <3>7. callers' = [callers EXCEPT ![c] = s]
      BY <2>3, <3>1, <3>2, <3>5
    <3>8. Shaped(s, NoWire)
      BY <3>2, <3>3, <3>6, OpsAre DEF Shaped, NoWire, Handshaking
    <3>9. ProbeSees(s)'
      BY <3>2, <3>6 DEF ProbeSees
    <3> QED
      BY <1>1, <2>1, <3>1, <3>6, <3>7, <3>8, <3>9, QuietNotes DEF Settled, Leaves
  <2> QED
    BY <2>1, <2>2, <2>3
<1> QED
  BY <1>2, <1>3
-----------------------------------------------------------------------------
(* The steps of a task that end a request of its operation.                  *)
Ends(c) ==
  \/ SendFails(c) \/ Rejected(c) \/ Lost(c) \/ Garbage(c) \/ Undecodable(c) \/ NotReady(c)
  \/ Got(c)
  \/ \E status \in DOMAIN Refusals : Answered(c, status)
  \/ \E m \in Replies :
       \/ \E type \in {"denied", "provider"} : Failed(c, m, type)
       \/ \E tools \in Listings : Listed(c, m, tools)
       \/ \E failure \in BOOLEAN, content \in Contents : Called(c, m, failure, content)
Begins(c) == \E m \in Replies, s \in Sessions : Initialized(c, m, s)

LEMMA StepsAre ==
  [Next]_vars =>
    \/ \E c \in Callers :
         (\E op \in Ops : Start(c, op)) \/ Send(c) \/ Ends(c) \/ Begins(c) \/ Notified(c)
    \/ \E serial \in pending : Execute(serial)
    \/ UNCHANGED vars
BY DEF Next, Ends, Begins

(* What is on the wire is what the task is at.                               *)
LEMMA Awaited ==
  ASSUME TablesFit, NEW c \in Callers, Shaped(callers[c], wire[c])
  PROVE  /\ wire[c] # NoWire <=> wire[c].kind # "none"
         /\ wire[c] # NoWire => callers[c].op \in Ops /\ wire[c] \in Wires
         /\ wire[c].kind \notin {"none", "init", "note"} =>
              Head(Todo(c)) = wire[c].kind /\ callers[c].staged = NoSession
         /\ callers[c].op # "idle" => callers[c].op \in Ops
<1>1. wire[c] \in Wires \cup {NoWire} /\ callers[c] \in CallerState
  BY DEF Shaped
<1>2. /\ wire[c] # NoWire <=> wire[c].kind # "none"
      /\ wire[c] # NoWire => wire[c] \in Wires
  BY <1>1, WireIs
<1>3. callers[c].op \in Ops \cup {"idle"}
  BY <1>1 DEF CallerState
<1> QED
  BY <1>2, <1>3 DEF Shaped, Todo

LEMMA EndsSettle ==
  ASSUME TablesFit, NEW c \in Callers, Shaped(callers[c], wire[c]), ProbeSees(callers[c]), Ends(c)
  PROVE  Settled(c) /\ session' = session
<1>1. session' = session
  BY DEF Ends, SendFails, Rejected, Lost, Garbage, Undecodable, NotReady, Got, Answered, Failed,
     Listed, Called
<1>2. ASSUME NEW error, NEW w, Raise(c, error, w), callers[c].op # "idle" PROVE Settled(c)
  BY <1>1, <1>2, RaiseSettles
<1>3. wire[c] # NoWire => callers[c].op # "idle"
  BY DEF Shaped
<1>4. wire[c].kind # "none" => wire[c] # NoWire
  BY DEF NoWire
<1>5. ASSUME NEW status \in Statuses, NEW listing \in SUBSET McpTools, NEW w,
             listing # {} => status = "verified_now", Proceed(c, status, listing, w),
             wire[c].kind \notin {"none", "init", "note"}
      PROVE  Settled(c)
  <2>1. Head(Todo(c)) # "init" /\ callers[c].staged = NoSession /\ callers[c].op # "idle"
    BY <1>3, <1>4, <1>5, Awaited
  <2> QED
    BY <1>1, <1>5, <2>1, ProceedSettles
<1>6. CASE SendFails(c) \/ Rejected(c)
  <2>1. callers[c].op # "idle"
    BY <1>6 DEF SendFails, Rejected
  <2> QED
    BY <1>2, <1>6, <2>1 DEF SendFails, Rejected
<1>7. CASE \/ Lost(c) \/ Garbage(c) \/ Undecodable(c)
           \/ \E status \in DOMAIN Refusals : Answered(c, status)
  BY <1>2, <1>3, <1>7 DEF Lost, Garbage, Undecodable, Answered
<1>8. "verified_now" \in Statuses /\ "partial" \in Statuses /\ {} \in SUBSET McpTools
      /\ Gets \cap {"none", "init", "note"} = {} /\ ToolCalls \cap {"none", "init", "note"} = {}
  BY DEF Statuses, Gets, ToolCalls
<1>9. CASE NotReady(c)
  <2>1. wire[c].kind \notin {"none", "init", "note"}
    BY <1>9 DEF NotReady
  <2> QED
    BY <1>5, <1>8, <1>9, <2>1 DEF NotReady
<1>10. CASE Got(c)
  BY <1>5, <1>8, <1>10 DEF Got
<1>11. ASSUME NEW m, Takes(c, m) PROVE callers[c].op # "idle"
  BY <1>3, <1>4, <1>11 DEF Takes, Awaiting, ToolCalls
<1>12. ASSUME NEW m \in Replies, NEW type, Failed(c, m, type) PROVE Settled(c)
  BY <1>2, <1>11, <1>12 DEF Failed
<1>13. ASSUME NEW m \in Replies, NEW tools \in Listings, Listed(c, m, tools) PROVE Settled(c)
  <2>1. tools \in SUBSET McpTools /\ wire[c].kind \notin {"none", "init", "note"}
    BY <1>13, ClientAssumption DEF ClientAssumption, Listed
  <2> QED
    BY <1>2, <1>5, <1>8, <1>11, <1>13, <2>1 DEF Listed
<1>14. ASSUME NEW m \in Replies, NEW failure \in BOOLEAN, NEW content \in Contents,
              Called(c, m, failure, content)
       PROVE  Settled(c)
  <2>1. callers[c].op # "idle" /\ wire[c].kind \notin {"none", "init", "note"}
    BY <1>8, <1>11, <1>14 DEF Called
  <2>2. (\E error : Raise(c, error, wire[c])) \/ Proceed(c, "verified_now", {}, wire[c])
    BY <1>14 DEF Called
  <2> QED
    BY <1>2, <1>5, <1>8, <2>1, <2>2
<1> QED
  BY <1>1, <1>6, <1>7, <1>9, <1>10, <1>12, <1>13, <1>14 DEF Ends
-----------------------------------------------------------------------------
LEMMA NotifiedSettles ==
  ASSUME TablesFit, NEW c \in Callers, Shaped(callers[c], wire[c]), ProbeSees(callers[c]),
         Notified(c)
  PROVE  /\ Settled(c)
         /\ session' \in Sessions /\ session' \in open' /\ session' = wire[c].session
<1>1. PICK r : r = callers[c] /\ r \in CallerState
  BY DEF Shaped
<1>2. wire[c].kind = "note" /\ wire[c] # NoWire /\ r.staged # NoSession
      /\ wire[c].session = r.staged /\ r.op \in Ops
  BY <1>1, Awaited DEF Notified, Shaped, NoWire
<1>3. session' = r.staged /\ r.staged \in open' /\ r.staged \in Sessions
  BY <1>1, <1>2 DEF Notified, Published, CallerState
<1>4. session' # NoSession
  BY <1>2, <1>3
<1>5. CASE r.op = "probe"
  <2>1. Proceed(c, "verified_now", {}, wire[c])
    BY <1>1, <1>5 DEF Notified
  <2>2. Head(Todo(c)) = "init"
    BY <1>1, <1>2, <1>5 DEF Shaped, Handshaking, Todo
  <2>3. "verified_now" \in Statuses /\ {} \in SUBSET McpTools
    BY DEF Statuses
  <2>4. Settled(c)
    BY <1>1, <1>2, <1>4, <1>5, <2>1, <2>2, <2>3, OpsAre, ProceedSettles
  <2> QED
    BY <1>2, <1>3, <2>4
<1>6. CASE r.op # "probe"
  <2>1. PICK s : s = [r EXCEPT !.staged = NoSession]
    OBVIOUS
  <2>2. /\ s \in CallerState /\ s.todo = r.todo /\ s.op = r.op /\ s.staged = NoSession
        /\ s.tools = r.tools
    BY <1>1, <2>1 DEF CallerState
  <2>3. /\ wire' = [wire EXCEPT ![c] = NoWire]
        /\ holder' = (IF holder = c THEN NoCaller ELSE holder)
        /\ callers' = [callers EXCEPT ![c].staged = NoSession]
        /\ UNCHANGED <<features, reports>>
    BY <1>1, <1>6 DEF Notified, Release
  <2>4. callers' = [callers EXCEPT ![c] = s]
    BY <1>1, <2>1, <2>3
  <2>5. Shaped(s, NoWire)
    BY <1>1, <1>2, <1>6, <2>2, OpsAre DEF Shaped, NoWire, Handshaking
  <2>6. ProbeSees(s)'
    BY <1>1, <1>6, <2>2 DEF Shaped, ProbeSees
  <2>7. Settled(c)
    BY <1>1, <2>2, <2>3, <2>4, <2>5, <2>6, QuietNotes DEF Settled, Leaves
  <2> QED
    BY <1>2, <1>3, <2>7
<1> QED
  BY <1>5, <1>6

(* A task that acts is at its operation, moves no other task and takes up no  *)
(* other operation.                                                          *)
LEMMA OthersWait ==
  ASSUME TablesFit, NEW c \in Callers, Shaped(callers[c], wire[c]), ProbeSees(callers[c]),
         Send(c) \/ Ends(c) \/ Begins(c) \/ Notified(c)
  PROVE  /\ \A d \in Callers : d # c => callers'[d] = callers[d] /\ wire'[d] = wire[d]
         /\ callers[c].op \in Ops /\ callers'[c].op \in {callers[c].op, "idle"}
         /\ \A d \in Callers : callers'[d].op # "idle" => callers'[d].op = callers[d].op
         /\ endpoint' = endpoint /\ begun' = begun
         /\ callers[c].op # "probe" => UNCHANGED <<features, reports>>
<1>1. endpoint' = endpoint /\ begun' = begun
  BY DEF Send, Ends, Begins, SendFails, Rejected, Lost, Garbage, Undecodable, NotReady, Got,
     Answered, Failed, Listed, Called, Initialized, Notified
<1>2. wire[c].kind # "none" => callers[c].op \in Ops
  BY Awaited
<1>3. callers[c].op \in Ops
  <2>1. CASE Send(c) \/ SendFails(c) \/ Rejected(c)
    BY <2>1, Awaited, OpsAre DEF Send, SendFails, Rejected
  <2>2. CASE \/ Lost(c) \/ Garbage(c) \/ Undecodable(c)
             \/ \E status \in DOMAIN Refusals : Answered(c, status)
    BY <2>2, Awaited DEF Lost, Garbage, Undecodable, Answered
  <2>3. CASE NotReady(c) \/ Got(c) \/ Notified(c)
    BY <1>2, <2>3 DEF NotReady, Got, Notified, Gets
  <2>4. CASE \E m \in Replies : Takes(c, m)
    BY <1>2, <2>4 DEF Takes, Awaiting, ToolCalls
  <2>5. Begins(c) => \E m \in Replies : Takes(c, m)
    BY DEF Begins, Initialized
  <2>6. Ends(c) => \/ SendFails(c) \/ Rejected(c) \/ Lost(c) \/ Garbage(c) \/ Undecodable(c)
                   \/ NotReady(c) \/ Got(c) \/ \E status \in DOMAIN Refusals : Answered(c, status)
                   \/ \E m \in Replies : Takes(c, m)
    <3>1. /\ \A m, type : Failed(c, m, type) => Takes(c, m)
          /\ \A m, tools : Listed(c, m, tools) => Takes(c, m)
          /\ \A m, failure, content : Called(c, m, failure, content) => Takes(c, m)
      BY DEF Failed, Listed, Called
    <3> QED
      BY <3>1 DEF Ends
  <2> QED
    BY <2>1, <2>2, <2>3, <2>4, <2>5, <2>6
<1>4. callers[c].op # "probe" => UNCHANGED <<features, reports>>
  <2> SUFFICES ASSUME callers[c].op # "probe" PROVE UNCHANGED <<features, reports>>
    OBVIOUS
  <2>1. /\ \A error, w : Raise(c, error, w) => UNCHANGED <<features, reports>>
        /\ \A status, tools, w : Proceed(c, status, tools, w) => UNCHANGED <<features, reports>>
    BY DEF Raise, Proceed
  <2>2. Ends(c) => UNCHANGED <<features, reports>>
    <3>1. \/ SendFails(c) \/ Rejected(c) \/ Lost(c) \/ Garbage(c) \/ Undecodable(c)
          \/ NotReady(c) \/ Got(c)
          => UNCHANGED <<features, reports>>
      BY <2>1 DEF SendFails, Rejected, Lost, Garbage, Undecodable, NotReady, Got
    <3>2. /\ \A status : Answered(c, status) => UNCHANGED <<features, reports>>
          /\ \A m, type : Failed(c, m, type) => UNCHANGED <<features, reports>>
          /\ \A m, tools : Listed(c, m, tools) => UNCHANGED <<features, reports>>
      BY <2>1 DEF Answered, Failed, Listed
    <3>3. \A m, failure, content :
            Called(c, m, failure, content) => UNCHANGED <<features, reports>>
      BY <2>1 DEF Called
    <3> QED
      BY <3>1, <3>2, <3>3 DEF Ends
  <2>3. \A m, s : Initialized(c, m, s) => UNCHANGED <<features, reports>>
    BY DEF Initialized
  <2>4. Send(c) \/ Begins(c) => UNCHANGED <<features, reports>>
    BY <2>3 DEF Send, Begins, history
  <2>5. Notified(c) => UNCHANGED <<features, reports>>
    BY DEF Notified
  <2> QED
    BY <2>2, <2>4, <2>5
<1>5. ASSUME NEW r \in CallerState, NEW w, r.op \in {callers[c].op, "idle"},
             callers' = [callers EXCEPT ![c] = r], wire' = [wire EXCEPT ![c] = w]
      PROVE  /\ \A d \in Callers : d # c => callers'[d] = callers[d] /\ wire'[d] = wire[d]
             /\ callers'[c].op \in {callers[c].op, "idle"}
  BY <1>5 DEF TablesFit
<1>6. /\ \A d \in Callers : d # c => callers'[d] = callers[d] /\ wire'[d] = wire[d]
      /\ callers'[c].op \in {callers[c].op, "idle"}
  <2>1. CASE Send(c)
    BY <2>1 DEF Send, TablesFit
  <2>2. CASE Ends(c)
    BY <1>5, <2>2, EndsSettle DEF Settled, Leaves
  <2>3. CASE Begins(c)
    BY <2>3 DEF Begins, Initialized, TablesFit, CallerState
  <2>4. CASE Notified(c)
    BY <1>5, <2>4, NotifiedSettles DEF Settled, Leaves
  <2> QED
    BY <2>1, <2>2, <2>3, <2>4
<1> QED
  BY <1>1, <1>3, <1>4, <1>6
(* The node gives out sessions and opens only those; requests are numbered.   *)
LEMMA EndsKeep ==
  ASSUME TablesFit, NEW c \in Callers, Shaped(callers[c], wire[c]),
         SessionFits(callers[c], wire[c]), Ends(c)
  PROVE  /\ given' = given /\ open \subseteq open' /\ open' \subseteq given
         /\ sent' \in {sent, sent + 1} /\ nextId' \in {nextId, nextId + 1}
         /\ nextId' <= sent' + 1
<1>1. SendFails(c) => /\ UNCHANGED <<given, open>> /\ sent' = sent + 1
                      /\ nextId' \in {nextId, nextId + 1}
  BY DEF SendFails, node, NextId
<1>2. Rejected(c) \/ NotReady(c) \/ Got(c) => UNCHANGED <<given, open, nextId, sent>>
  BY DEF Rejected, NotReady, Got, node
<1>3. /\ \A status : Answered(c, status) => UNCHANGED <<given, open, nextId, sent>>
      /\ \A m, type : Failed(c, m, type) => UNCHANGED <<given, open, nextId, sent>>
      /\ \A m, tools : Listed(c, m, tools) => UNCHANGED <<given, open, nextId, sent>>
      /\ \A m, failure, content :
           Called(c, m, failure, content) => UNCHANGED <<given, open, nextId, sent>>
  BY DEF Answered, Failed, Listed, Called, node
<1>4. Lost(c) \/ Garbage(c) \/ Undecodable(c) =>
        /\ UNCHANGED <<given, nextId, sent>> /\ wire[c] # NoWire
        /\ \/ open' = open
           \/ wire[c].kind = "note" /\ open' = open \cup {wire[c].session}
  BY DEF Lost, Garbage, Undecodable, MayOpen
<1>5. wire[c].kind = "note" => wire[c].session \in given
  BY DEF Shaped, SessionFits, NoWire
<1>6. \/ UNCHANGED <<given, open>> /\ sent' = sent + 1 /\ nextId' \in {nextId, nextId + 1}
      \/ UNCHANGED <<given, open, nextId, sent>>
      \/ Lost(c) \/ Garbage(c) \/ Undecodable(c)
  BY <1>1, <1>2, <1>3 DEF Ends
<1> QED
  BY <1>4, <1>5, <1>6 DEF TablesFit

LEMMA TablesKept ==
  ASSUME TablesFit, NEW c \in Callers, Fits(callers[c], wire[c]),
         Send(c) \/ Ends(c) \/ Begins(c) \/ Notified(c)
  PROVE  /\ given \subseteq given' /\ given' \subseteq Sessions
         /\ open \subseteq open' /\ open' \subseteq given'
         /\ sent' \in {sent, sent + 1} /\ nextId' \in {nextId, nextId + 1}
         /\ nextId' <= sent' + 1
         /\ session' # NoSession => session' \in open'
         /\ session' \in Sessions \cup {NoSession}
<1>1. CASE Send(c)
  <2>1. /\ UNCHANGED <<given, open, session>> /\ sent' = sent + 1
        /\ nextId' \in {nextId, nextId + 1}
    BY <1>1 DEF Send, NextId
  <2> QED
    BY <2>1 DEF TablesFit
<1>2. CASE Ends(c)
  <2>1. session' = session
    BY <1>2, EndsSettle DEF Fits
  <2> QED
    BY <1>2, <2>1, EndsKeep DEF TablesFit, Fits
<1>3. CASE Begins(c)
  <2>1. /\ \E s \in Sessions : given' = given \cup {s}
        /\ UNCHANGED <<session, open, sent, nextId>>
    BY <1>3 DEF Begins, Initialized
  <2> QED
    BY <2>1 DEF TablesFit
<1>4. CASE Notified(c)
  <2>1. /\ UNCHANGED <<given, sent, nextId>> /\ wire[c].kind = "note"
        /\ open' = open \cup {wire[c].session}
    BY <1>4 DEF Notified
  <2>2. wire[c].session \in given
    BY <2>1 DEF Fits, Shaped, SessionFits, NoWire
  <2>3. session' \in Sessions /\ session' \in open'
    BY <1>4, NotifiedSettles DEF Fits
  <2> QED
    BY <2>1, <2>2, <2>3 DEF TablesFit
<1> QED
  BY <1>1, <1>2, <1>3, <1>4
LEMMA SessionMoves ==
  ASSUME TablesFit, NEW c \in Callers, Fits(callers[c], wire[c]),
         Send(c) \/ Ends(c) \/ Begins(c) \/ Notified(c)
  PROVE  Notified(c) \/ session' = session
BY EndsSettle DEF Send, Begins, Initialized, Fits

(* Whoever handshakes does so alone.                                         *)
LEMMA HandshakesAlone ==
  ASSUME HandshakeIsHeld, ProbeIsAlone, NEW c \in Callers, NEW d \in Callers, c # d,
         Fits(callers[c], wire[c]), Fits(callers[d], wire[d]),
         Handshaking(callers[c], wire[c]), holder \in Callers \cup {NoCaller}
  PROVE  /\ ~Handshaking(callers[d], wire[d])
         /\ wire[d].kind \notin {"list", "call"}
<1>1. /\ callers[c].op # "idle"
      /\ Handshaking(callers[d], wire[d]) => callers[d].op # "idle"
  BY DEF Fits, Shaped, Handshaking, Idle, NoWire
<1>2. ASSUME Handshaking(callers[d], wire[d]) PROVE FALSE
  <2>1. callers[c].op # "probe" /\ callers[d].op # "probe"
    BY <1>1, <1>2 DEF ProbeIsAlone
  <2>2. holder = c /\ holder = d
    BY <1>2, <2>1 DEF HandshakeIsHeld
  <2> QED
    BY <2>2
<1>3. wire[d].kind \notin {"list", "call"}
  BY DEF Fits, SessionFits
<1> QED
  BY <1>2, <1>3

(* What a task is at survives the steps of the others.                       *)
LEMMA OthersFit ==
  ASSUME ClientInduction, NEW c \in Callers, NEW d \in Callers, d # c,
         Send(c) \/ Ends(c) \/ Begins(c) \/ Notified(c)
  PROVE  Fits(callers[d], wire[d])'
<1>1. TablesFit /\ Fits(callers[c], wire[c]) /\ Fits(callers[d], wire[d])
  BY DEF ClientInduction
<1>2. /\ callers'[d] = callers[d] /\ wire'[d] = wire[d] /\ endpoint' = endpoint
      /\ callers[c].op \in Ops
  BY <1>1, OthersWait DEF Fits
<1>3. PICK r, w : r = callers[d] /\ w = wire[d]
  OBVIOUS
<1>4. Shaped(r, w) /\ ProbeSees(r) /\ SessionFits(r, w) /\ WireFits(w)
  BY <1>1, <1>3 DEF Fits
<1>5. r.op # "probe" /\ r.tools = {}
  <2>1. callers[c].op # "idle"
    BY <1>2, OpsAre
  <2> QED
    BY <1>3, <1>4, <2>1 DEF ClientInduction, ProbeIsAlone, Shaped
<1>6. ProbeSees(r)'
  BY <1>5 DEF ProbeSees
<1>7. /\ given \subseteq given' /\ sent' \in {sent, sent + 1} /\ nextId' \in {nextId, nextId + 1}
  BY <1>1, TablesKept
<1>8. SessionFits(r, w)'
  <2>1. CASE session' = session
    BY <1>4, <1>7, <2>1 DEF SessionFits, Handshaking
  <2>2. CASE Notified(c)
    <3>1. Handshaking(callers[c], wire[c])
      BY <2>2 DEF Notified, Handshaking
    <3>2. ~Handshaking(r, w) /\ w.kind \notin {"list", "call"}
      BY <1>1, <1>3, <3>1, HandshakesAlone DEF ClientInduction, TablesFit
    <3> QED
      BY <1>4, <1>7, <3>2 DEF SessionFits, Handshaking
  <2> QED
    BY <1>1, <2>1, <2>2, SessionMoves
<1>9. WireFits(w)'
  <2>1. w # NoWire => w \in Wires
    BY <1>4 DEF Shaped
  <2>2. w # NoWire => w.id \in Nat /\ w.serial \in Nat
    BY <2>1 DEF Wires
  <2>3. sent \in Nat /\ nextId \in Nat
    BY <1>1 DEF TablesFit
  <2> QED
    BY <1>2, <1>4, <1>7, <2>2, <2>3 DEF WireFits
<1>10. Fits(r, w)'
  BY <1>4, <1>6, <1>8, <1>9 DEF Fits
<1> QED
  BY <1>2, <1>3, <1>10
(* A task that ended a request is at rest, or before its next one.           *)
LEMMA SettledFits ==
  ASSUME TablesFit, NEW c \in Callers, Settled(c)
  PROVE  /\ Fits(callers[c], wire[c])' /\ ~Handshaking(callers[c], wire[c])'
         /\ wire' = [wire EXCEPT ![c] = NoWire] /\ wire'[c] = NoWire
         /\ callers' \in [Callers -> CallerState]
<1>1. PICK r \in CallerState : Leaves(c, r)
  BY DEF Settled
<1>2. callers' = [callers EXCEPT ![c] = r] /\ wire' = [wire EXCEPT ![c] = NoWire]
  BY <1>1 DEF Settled, Leaves
<1>3. callers'[c] = r /\ wire'[c] = NoWire /\ callers' \in [Callers -> CallerState]
  BY <1>2 DEF TablesFit
<1>4. ~Handshaking(r, NoWire) /\ Shaped(r, NoWire) /\ ProbeSees(r)' /\ r.staged = NoSession
  BY <1>1 DEF Leaves, Handshaking, NoWire
<1>5. SessionFits(r, NoWire)' /\ WireFits(NoWire)'
  BY <1>4 DEF SessionFits, WireFits, Handshaking, NoWire
<1>6. Fits(r, NoWire)'
  BY <1>4, <1>5 DEF Fits
<1> QED
  BY <1>2, <1>3, <1>4, <1>6

(* No connection is made to a peer the endpoint does not allow, whatever the *)
(* name comes to mean afterwards.                                           *)
LEMMA ConnectsToPermitted ==
  ASSUME NEW e, NEW guest, NEW answers, NEW later, NEW peer,
         Connects(e, guest, answers, later, peer)
  PROVE  Permitted(e, peer)
BY DEF Connects, ValidOrigin, ValidPath, Targets

LEMMA SentFits ==
  ASSUME TablesFit, NEW c \in Callers, Fits(callers[c], wire[c]), Send(c)
  PROVE  /\ Fits(callers[c], wire[c])' /\ wire' \in [Callers -> Wires \cup {NoWire}]
         /\ callers' = callers /\ wire'[c].id = nextId /\ wire'[c].kind # "none"
         /\ Handshaking(callers[c], wire[c])' /\ callers[c].op # "probe" =>
              Handshaking(callers[c], wire[c]) \/ Locks(c, Next1(c))
<1>1. PICK r, k, h : r = callers[c] /\ k = Next1(c) /\ h = HeaderOf(c, k)
  OBVIOUS
<1>2. callers' = callers /\ endpoint' = endpoint /\ session' = session /\ features' = features
      /\ given' = given /\ sent' = sent + 1 /\ nextId' = NextId(k)
      /\ r.op # "idle" /\ wire[c] = NoWire
  BY <1>1 DEF Send
<1>3. PICK peer \in Resolvable :
        /\ Permitted(endpoint, peer)
        /\ wire' = [wire EXCEPT ![c] =
             [kind |-> k, id |-> nextId, serial |-> sent + 1, session |-> h, peer |-> peer]]
  BY <1>1, ConnectsToPermitted DEF Send
<1>4. PICK w : w = [kind |-> k, id |-> nextId, serial |-> sent + 1, session |-> h, peer |-> peer]
  OBVIOUS
<1>5. w.kind = k /\ w.id = nextId /\ w.serial = sent + 1 /\ w.session = h /\ w.peer = peer
  BY <1>4
<1>6. Shaped(r, NoWire) /\ ProbeSees(r) /\ SessionFits(r, NoWire)
  BY <1>1, <1>2 DEF Fits
<1>7. r.op \in Ops /\ r.todo \in Left[r.op] /\ r \in CallerState
  BY <1>2, <1>6 DEF Shaped, CallerState
<1>8. /\ Head(r.todo) \in Kinds \ {"note"}
      /\ r.op # "probe" => Head(r.todo) # "init"
      /\ r.op = "probe" => Head(r.todo) \in Steps
  BY <1>7, LeftHasNext
<1>9. /\ r.staged # NoSession => k = "note"
      /\ r.staged = NoSession /\ Head(r.todo) \in {"list", "call"} /\ session = NoSession
           => k = "init"
      /\ r.staged = NoSession /\ ~(Head(r.todo) \in {"list", "call"} /\ session = NoSession)
           => k = Head(r.todo)
  BY <1>1 DEF Next1, Todo
<1>10. /\ k = "note" => h = r.staged
       /\ k \in {"list", "call"} => h = session
       /\ k \notin {"note", "list", "call"} => h = NoSession
  BY <1>1 DEF HeaderOf
<1>11. k \in Kinds /\ k # "none"
  BY <1>8, <1>9, KindsAre
<1>12. w \in Wires /\ w # NoWire
  <2>1. h \in Sessions \cup {NoSession}
    BY <1>7, <1>10 DEF CallerState, TablesFit
  <2>2. peer \in Addresses \cup Inodes
    BY <1>3, ClientAssumption DEF ClientAssumption
  <2>3. nextId \in Nat /\ sent + 1 \in Nat
    BY DEF TablesFit
  <2>4. w \in Wires
    BY <1>4, <1>11, <2>1, <2>2, <2>3 DEF Wires
  <2> QED
    BY <1>5, <1>11, <2>4 DEF NoWire
<1>13. k = "init" => session = NoSession
  BY <1>6, <1>7, <1>8, <1>9 DEF ProbeSees
<1>14. k = "note" <=> r.staged # NoSession
  BY <1>8, <1>9
<1>15. r.op = "probe" /\ (r.staged # NoSession \/ k = "init") => Head(r.todo) = "init"
  BY <1>6, <1>8, <1>9 DEF ProbeSees, Shaped, Handshaking, Steps
<1>16. Shaped(r, w)
  <2>1. w.kind \notin {"none", "init", "note"} => w.kind = Head(r.todo)
    BY <1>5, <1>9
  <2>2. w.kind = "note" => w.session = r.staged
    BY <1>5, <1>10
  <2>3. w.kind = "note" <=> w # NoWire /\ r.staged # NoSession
    BY <1>5, <1>12, <1>14
  <2>4. r.op = "probe" /\ Handshaking(r, w) => Head(r.todo) = "init"
    BY <1>5, <1>14, <1>15 DEF Handshaking
  <2>5. r.tools # {} => r.op = "probe" /\ Head(r.todo) = "models"
    BY <1>6 DEF Shaped
  <2> QED
    BY <1>2, <1>7, <1>12, <2>1, <2>2, <2>3, <2>4, <2>5 DEF Shaped
<1>17. ProbeSees(r)'
  BY <1>2, <1>6 DEF ProbeSees
<1>18. SessionFits(r, w)'
  BY <1>2, <1>5, <1>6, <1>9, <1>10, <1>13, <1>14 DEF SessionFits, Handshaking
<1>19. WireFits(w)'
  <2>1. k \in Requesting => nextId' = nextId + 1
    BY <1>2 DEF NextId, Requesting, Gets, ToolCalls
  <2> QED
    BY <1>2, <1>3, <1>5, <2>1 DEF WireFits, TablesFit
<1>20. wire'[c] = w /\ wire' \in [Callers -> Wires \cup {NoWire}]
  BY <1>3, <1>4, <1>12 DEF TablesFit
<1>21. Fits(r, w)'
  BY <1>16, <1>17, <1>18, <1>19 DEF Fits
<1>22. Handshaking(r, w) /\ r.op # "probe" => r.staged # NoSession \/ k = "init"
  BY <1>5, <1>14 DEF Handshaking
<1>23. r.op # "probe" /\ k = "init" => Locks(c, k)
  BY <1>1, <1>8 DEF Locks, Todo
<1> QED
  BY <1>1, <1>2, <1>5, <1>11, <1>20, <1>21, <1>22, <1>23 DEF Handshaking
(* The handshake goes on under the lock that began it.                       *)
LEMMA BegunFits ==
  ASSUME TablesFit, NEW c \in Callers, Fits(callers[c], wire[c]), Begins(c)
  PROVE  /\ Fits(callers[c], wire[c])' /\ wire' = [wire EXCEPT ![c] = NoWire]
         /\ callers' \in [Callers -> CallerState] /\ holder' = holder
         /\ Handshaking(callers[c], wire[c])
<1>1. PICK m \in Replies, s \in Sessions : Initialized(c, m, s)
  BY DEF Begins
<1>2. /\ wire[c].kind = "init" /\ given' = given \cup {s} /\ session' = session
      /\ callers' = [callers EXCEPT ![c].staged = s] /\ wire' = [wire EXCEPT ![c] = NoWire]
      /\ holder' = holder /\ features' = features
  BY <1>1 DEF Initialized
<1>3. PICK r, w : r = callers[c] /\ w = wire[c]
  OBVIOUS
<1>4. Shaped(r, w) /\ ProbeSees(r) /\ SessionFits(r, w) /\ Handshaking(r, w) /\ w # NoWire
  BY <1>2, <1>3 DEF Fits, Handshaking, NoWire
<1>5. r \in CallerState /\ r.op \in Ops /\ r.todo \in Left[r.op]
  BY <1>4 DEF Shaped, CallerState
<1>6. PICK q : q = [r EXCEPT !.staged = s]
  OBVIOUS
<1>7. /\ q \in CallerState /\ q.staged = s /\ q.op = r.op /\ q.todo = r.todo /\ q.tools = r.tools
  BY <1>5, <1>6 DEF CallerState
<1>8. callers' = [callers EXCEPT ![c] = q]
  BY <1>2, <1>3, <1>6
<1>9. Shaped(q, NoWire)
  BY <1>4, <1>5, <1>7, OpsAre DEF Shaped, NoWire
<1>10. ProbeSees(q)'
  BY <1>2, <1>4, <1>7 DEF ProbeSees
<1>11. SessionFits(q, NoWire)' /\ WireFits(NoWire)'
  BY <1>2, <1>4, <1>7 DEF SessionFits, WireFits, NoWire
<1>12. Fits(q, NoWire)'
  BY <1>9, <1>10, <1>11 DEF Fits
<1>13. callers'[c] = q /\ wire'[c] = NoWire /\ callers' \in [Callers -> CallerState]
  BY <1>2, <1>7, <1>8 DEF TablesFit
<1> QED
  BY <1>2, <1>3, <1>4, <1>12, <1>13

(* What of the induction is about the tasks, the session and their requests.  *)
TasksFit ==
  /\ TablesFit /\ \A c \in Callers : Fits(callers[c], wire[c])
  /\ HandshakeIsHeld /\ ProbeIsAlone /\ IdsDiffer

(* A task takes up an operation; a probe takes a client nobody has used.     *)
LEMMA StartFits ==
  ASSUME ClientInduction, NEW c \in Callers, NEW op \in Ops, Start(c, op)
  PROVE  TasksFit'
<1>1. TablesFit /\ \A d \in Callers : Fits(callers[d], wire[d])
  BY DEF ClientInduction
<1>2. /\ callers[c].op = "idle" /\ begun < MaxOps
      /\ begun' = (IF op = "probe" THEN MaxOps ELSE begun + 1)
      /\ op = "probe" => begun = 0
      /\ callers' = [callers EXCEPT ![c] = [Idle EXCEPT !.op = op, !.todo = Programmes[op]]]
      /\ UNCHANGED <<endpoint, session, holder, nextId, wire, features, given, open, sent>>
  BY DEF Start, node
<1>19. begun \in Nat /\ MaxOps \in Nat /\ \A d \in Callers : callers[d].op # "probe"
  BY <1>1, <1>2, ClientAssumption DEF ClientInduction, ProbeIsAlone, TablesFit, ClientAssumption
<1>3. PICK q : q = [Idle EXCEPT !.op = op, !.todo = Programmes[op]]
  OBVIOUS
<1>4. Programmes[op] \in Left[op]
  BY ProgrammeIsLeft
<1>5. Programmes[op] \in {<<>>} \cup UNION {Left[o] : o \in Ops}
  BY <1>4, TodoTyped
<1>6. /\ q \in CallerState /\ q.op = op /\ q.todo = Programmes[op] /\ q.staged = NoSession
      /\ q.tools = {}
  BY <1>3, <1>5 DEF CallerState, Idle
<1>7. callers' = [callers EXCEPT ![c] = q] /\ callers'[c] = q
  BY <1>1, <1>2, <1>3 DEF TablesFit
<1>8. wire[c] = NoWire
  BY <1>1, <1>2 DEF Fits, Shaped
<1>9. op # "idle"
  BY OpsAre
<1>10. Shaped(q, NoWire) /\ ~Handshaking(q, NoWire)
  BY <1>4, <1>6, <1>9 DEF Shaped, NoWire, Handshaking
<1>11. ProbeSees(q)'
  <2>1. Head(Programmes["probe"]) = "healthz"
    BY DEF Programmes
  <2>2. op = "probe" => session = NoSession
    BY <1>2 DEF ClientInduction, ProbeIsAlone
  <2> QED
    BY <1>2, <1>6, <2>1, <2>2 DEF ProbeSees
<1>12. SessionFits(q, NoWire)' /\ WireFits(NoWire)'
  BY <1>6, <1>10 DEF SessionFits, WireFits, NoWire
<1>13. Fits(callers[c], wire[c])'
  BY <1>2, <1>7, <1>8, <1>10, <1>11, <1>12 DEF Fits
<1>14. ASSUME NEW d \in Callers, d # c PROVE Fits(callers[d], wire[d])'
  <2>1. PICK r, w : r = callers[d] /\ w = wire[d]
    OBVIOUS
  <2>2. callers'[d] = r /\ wire'[d] = w /\ Fits(r, w)
    BY <1>1, <1>2, <1>7, <1>14, <2>1
  <2>3. Fits(r, w)'
    BY <1>2, <2>2 DEF Fits, ProbeSees, SessionFits, WireFits
  <2> QED
    BY <2>2, <2>3
<1>15. TablesFit'
  <2>1. callers' \in [Callers -> CallerState]
    BY <1>1, <1>6, <1>7 DEF TablesFit
  <2>2. begun' \in 0..MaxOps
    BY <1>2, <1>19
  <2> QED
    BY <1>1, <1>2, <2>1, <2>2 DEF TablesFit
<1>16. HandshakeIsHeld'
  <2>1. ASSUME NEW d \in Callers, Handshaking(callers[d], wire[d])', callers'[d].op # "probe"
        PROVE  holder' = d
    <3>1. d # c
      BY <1>2, <1>7, <1>8, <1>10, <2>1
    <3>2. callers'[d] = callers[d] /\ wire'[d] = wire[d]
      BY <1>1, <1>2, <1>7, <3>1 DEF TablesFit
    <3> QED
      BY <1>2, <2>1, <3>2 DEF ClientInduction, HandshakeIsHeld, Handshaking
  <2> QED
    BY <2>1 DEF HandshakeIsHeld
<1>17. ProbeIsAlone'
  <2>1. begun' # 0 /\ (op = "probe" => begun' = MaxOps)
    BY <1>2, <1>19
  <2>2. \A d \in Callers : d # c => callers'[d] = callers[d]
    BY <1>1, <1>7 DEF TablesFit
  <2>3. \A d \in Callers : op = "probe" /\ d # c => callers[d].op = "idle"
    BY <1>2 DEF ClientInduction, ProbeIsAlone
  <2> QED
    BY <1>6, <1>7, <1>19, <2>1, <2>2, <2>3 DEF ProbeIsAlone
<1>18. IdsDiffer'
  BY <1>2 DEF ClientInduction, IdsDiffer
<1> QED
  BY <1>13, <1>14, <1>15, <1>16, <1>17, <1>18 DEF TasksFit
(* A request, its answer or its failure.                                     *)
LEMMA RequestFits ==
  ASSUME ClientInduction, NEW c \in Callers,
         Send(c) \/ Ends(c) \/ Begins(c) \/ Notified(c)
  PROVE  TasksFit'
<1>1. TablesFit /\ \A d \in Callers : Fits(callers[d], wire[d])
  BY DEF ClientInduction
<1>2. Shaped(callers[c], wire[c]) /\ ProbeSees(callers[c]) /\ Fits(callers[c], wire[c])
  BY <1>1 DEF Fits
<1>3. Ends(c) \/ Notified(c) => Settled(c)
  BY <1>1, <1>2, EndsSettle, NotifiedSettles
<1>4. Fits(callers[c], wire[c])'
  BY <1>1, <1>2, <1>3, SettledFits, SentFits, BegunFits
<1>5. \A d \in Callers : Fits(callers[d], wire[d])'
  BY <1>4, OthersFit
<1>6. /\ \A d \in Callers : d # c => callers'[d] = callers[d] /\ wire'[d] = wire[d]
      /\ callers[c].op \in Ops /\ callers'[c].op \in {callers[c].op, "idle"}
      /\ endpoint' = endpoint /\ begun' = begun
      /\ callers[c].op # "probe" => UNCHANGED <<features, reports>>
  BY <1>1, <1>2, OthersWait
<1>7. callers' \in [Callers -> CallerState] /\ wire' \in [Callers -> Wires \cup {NoWire}]
  <2>1. CASE Ends(c) \/ Notified(c)
    <3>1. callers' \in [Callers -> CallerState] /\ wire' = [wire EXCEPT ![c] = NoWire]
      BY <1>1, <1>3, <2>1, SettledFits
    <3> QED
      BY <1>1, <3>1 DEF TablesFit
  <2>2. CASE Begins(c)
    <3>1. callers' \in [Callers -> CallerState] /\ wire' = [wire EXCEPT ![c] = NoWire]
      BY <1>1, <1>2, <2>2, BegunFits
    <3> QED
      BY <1>1, <3>1 DEF TablesFit
  <2>3. CASE Send(c)
    BY <1>1, <1>2, <2>3, SentFits DEF TablesFit
  <2> QED
    BY <2>1, <2>2, <2>3
<1>8. features' \in [Steps -> Statuses]
  <2>1. Send(c) \/ Begins(c) => features' = features
    BY DEF Send, Begins, Initialized
  <2> QED
    BY <1>1, <1>3, <2>1 DEF TablesFit, Settled, NotesFit
<1>9. \/ holder' = holder
      \/ holder = c /\ holder' = NoCaller
      \/ Send(c) /\ Locks(c, Next1(c)) /\ holder = NoCaller /\ holder' = c
  <2>1. Settled(c) => holder' = holder \/ (holder = c /\ holder' = NoCaller)
    BY DEF Settled
  <2>2. Begins(c) => holder' = holder
    BY DEF Begins, Initialized
  <2>3. Send(c) => \/ holder' = holder
                   \/ Locks(c, Next1(c)) /\ holder = NoCaller /\ holder' = c
    BY DEF Send
  <2> QED
    BY <1>3, <2>1, <2>2, <2>3
<1>10. TablesFit'
  <2>1. /\ given' \subseteq Sessions /\ open' \subseteq given'
        /\ sent' \in Nat /\ nextId' \in Nat \ {0} /\ nextId' <= sent' + 1
        /\ session' # NoSession => session' \in open'
        /\ session' \in Sessions \cup {NoSession}
    BY <1>1, <1>2, TablesKept DEF TablesFit
  <2>2. holder' \in Callers \cup {NoCaller} /\ endpoint' \in UsedEndpoints /\ begun' \in 0..MaxOps
    BY <1>1, <1>6, <1>9 DEF TablesFit
  <2> QED
    BY <1>7, <1>8, <2>1, <2>2 DEF TablesFit
<1>11. HandshakeIsHeld'
  <2>1. ASSUME NEW d \in Callers, Handshaking(callers[d], wire[d])', callers'[d].op # "probe",
               d # c
        PROVE  holder' = d
    <3>1. callers'[d] = callers[d] /\ wire'[d] = wire[d]
      BY <1>6, <2>1
    <3>2. holder = d
      BY <2>1, <3>1 DEF ClientInduction, HandshakeIsHeld, Handshaking
    <3> QED
      BY <1>9, <2>1, <3>2, ClientAssumption DEF ClientAssumption
  <2>2. ASSUME Handshaking(callers[c], wire[c])', callers'[c].op # "probe"
        PROVE  holder' = c
    <3>1. ~(Ends(c) \/ Notified(c))
      BY <1>1, <1>3, <2>2, SettledFits
    <3>2. callers[c].op # "probe"
      <4>1. ASSUME callers'[c].op = "idle" PROVE FALSE
        <5>1. PICK r, w : r = callers'[c] /\ w = wire'[c]
          OBVIOUS
        <5>2. Shaped(r, w) /\ Handshaking(r, w) /\ r.op = "idle"
          BY <1>4, <2>2, <4>1, <5>1 DEF Fits, Shaped, Handshaking
        <5> QED
          BY <5>2 DEF Shaped, Handshaking, Idle, NoWire
      <4> QED
        BY <1>6, <2>2, <4>1
    <3>3. CASE Begins(c)
      <4>1. Handshaking(callers[c], wire[c]) /\ holder' = holder
        BY <1>1, <1>2, <3>3, BegunFits
      <4> QED
        BY <3>2, <4>1 DEF ClientInduction, HandshakeIsHeld
    <3>4. CASE Send(c)
      <4>1. Handshaking(callers[c], wire[c]) \/ Locks(c, Next1(c))
        BY <1>1, <1>2, <2>2, <3>2, <3>4, SentFits
      <4>2. CASE Locks(c, Next1(c))
        BY <3>4, <4>2 DEF Send
      <4>3. CASE Handshaking(callers[c], wire[c])
        <5>1. holder = c
          BY <3>2, <4>3 DEF ClientInduction, HandshakeIsHeld
        <5> QED
          BY <3>4, <5>1 DEF Send
      <4> QED
        BY <4>1, <4>2, <4>3
    <3> QED
      BY <3>1, <3>3, <3>4
  <2> QED
    BY <2>1, <2>2 DEF HandshakeIsHeld
<1>12. ProbeIsAlone'
  <2>1. callers[c].op # "idle"
    BY <1>6, OpsAre
  <2>2. begun # 0
    BY <2>1 DEF ClientInduction, ProbeIsAlone
  <2>3. \A d \in Callers : callers'[d].op \in {callers[d].op, "idle"}
    BY <1>6
  <2>4. \A d, e \in Callers : callers[d].op = "probe" /\ d # e => callers[e].op = "idle"
    BY DEF ClientInduction, ProbeIsAlone
  <2>5. "probe" # "idle"
    OBVIOUS
  <2>6. \A d \in Callers : callers[d].op = "probe" => begun = MaxOps
    BY DEF ClientInduction, ProbeIsAlone
  <2> QED
    BY <1>6, <2>2, <2>3, <2>4, <2>5, <2>6 DEF ProbeIsAlone
<1>13. IdsDiffer'
  <2>1. \A d, e \in Callers : /\ wire[d].kind \in Requesting /\ wire[e].kind \in Requesting
                              /\ wire[d].id = wire[e].id
                              => d = e
    BY DEF ClientInduction, IdsDiffer
  <2>2. CASE wire'[c].kind = "none"
    <3>1. "none" \notin Requesting
      BY DEF Requesting, ToolCalls
    <3> QED
      BY <1>6, <2>1, <2>2, <3>1 DEF IdsDiffer
  <2>3. CASE wire'[c].kind # "none"
    <3>1. Send(c)
      <4>1. wire' = [wire EXCEPT ![c] = NoWire] => wire'[c].kind = "none"
        BY <1>1 DEF TablesFit, NoWire
      <4>2. Settled(c) \/ Begins(c) => wire' = [wire EXCEPT ![c] = NoWire]
        BY <1>1, <1>2, BegunFits DEF Settled
      <4> QED
        BY <1>3, <2>3, <4>1, <4>2
    <3>2. wire'[c].id = nextId
      BY <1>1, <1>2, <3>1, SentFits
    <3>3. ASSUME NEW d \in Callers, wire[d].kind \in Requesting PROVE wire[d].id # nextId
      <4>1. wire[d] # NoWire
        BY <3>3 DEF Requesting, ToolCalls, NoWire
      <4>2. wire[d].id \in Nat
        BY <1>1, <4>1 DEF Fits, Shaped, Wires
      <4>3. wire[d].id < nextId
        BY <1>1, <3>3, <4>1 DEF Fits, WireFits
      <4> QED
        BY <1>1, <4>2, <4>3 DEF TablesFit
    <3> QED
      BY <1>6, <2>1, <3>2, <3>3 DEF IdsDiffer
  <2> QED
    BY <2>2, <2>3
<1> QED
  BY <1>5, <1>10, <1>11, <1>12, <1>13 DEF TasksFit
-----------------------------------------------------------------------------
(* What a task may be told of the call it made.                              *)
Record(w, op, error) == [serial |-> w.serial, op |-> op, code |-> CodeOf(op, error)]

LEMMA ToldOfCall ==
  ASSUME NEW c, NEW error, NEW w, Raise(c, error, w)
  PROVE  \/ notrun' = notrun
         \/ /\ notrun' = notrun \cup {Record(w, callers[c].op, error)} /\ w.kind \in ToolCalls
            /\ CodeOf(callers[c].op, error) \notin MayHaveRun
<1>1. CASE callers[c].op = "probe" /\ error # Escaped
  <2>1. Noted(c, Head(Todo(c)), FailedStep(error), {})
    BY <1>1 DEF Raise
  <2> QED
    BY <2>1 DEF Noted
<1>2. CASE ~(callers[c].op = "probe" /\ error # Escaped)
  <2>1. Tell(c, CodeOf(callers[c].op, error), w)
    BY <1>2 DEF Raise
  <2> QED
    BY <2>1 DEF Tell, Record
<1> QED
  BY <1>1, <1>2

LEMMA ResultIsTold ==
  ASSUME NEW c, NEW status, NEW listing, NEW w, Proceed(c, status, listing, w)
  PROVE  notrun' = notrun
<1>1. CASE callers[c].op = "probe"
  <2>1. Noted(c, Head(Todo(c)), status, listing)
    BY <1>1 DEF Proceed
  <2> QED
    BY <2>1 DEF Noted
<1>2. CASE callers[c].op # "probe"
  <2>1. notrun' = notrun \/ Tell(c, "ok", w)
    BY <1>2 DEF Proceed
  <2> QED
    BY <2>1 DEF Tell, MayHaveRun
<1> QED
  BY <1>1, <1>2

(* The ids of the requests that wait for an answer differ, so that the only   *)
(* message of an id is the answer to its request.                            *)
LEMMA TakesItsOwn ==
  ASSUME IdsDiffer, NEW c \in Callers, NEW m, Takes(c, m)
  PROVE  /\ m.of = wire[c].serial /\ swapped' = swapped /\ wire[c].kind \in Requesting
<1>1. PICK messages \in SUBSET Replies : Mine(c, messages) = {m}
  BY DEF Takes
<1>2. m \in Replies /\ m.id = wire[c].id
  BY <1>1 DEF Mine
<1>3. PICK d \in Callers : /\ wire[d].kind \in Requesting
                           /\ m = [id |-> wire[d].id, of |-> wire[d].serial]
  BY <1>2 DEF Replies, Awaiting, Requesting
<1>4. wire[c].kind \in Requesting
  BY DEF Takes, Awaiting, Requesting
<1>5. c = d
  BY <1>2, <1>3, <1>4 DEF IdsDiffer
<1> QED
  BY <1>3, <1>4, <1>5 DEF Takes

(* What each way of failing says of a call: only an escaped error says of a  *)
(* native read what may not be so.                                           *)
Uncertain(op, error) ==
  CodeOf(op, error) \in MayHaveRun \/ (op \notin Gated /\ CodeOf(op, error) = "sam_unavailable")

LEMMA CodesAre ==
  /\ \A op, kind : kind \in ToolCalls =>
       /\ Uncertain(op, TransportLost(kind)) /\ Uncertain(op, Unusable(kind))
       /\ Uncertain(op, Refused(kind, "redirect")) /\ Uncertain(op, Refused(kind, "s5xx"))
  /\ \A op : /\ Uncertain(op, Error("provider", "none")) /\ Uncertain(op, Error("schema", "none"))
             /\ Uncertain(op, Escaped)
<1>1. /\ Error("ambiguous", "unknown").type = "ambiguous"
      /\ Error("ambiguous", "yes").type = "ambiguous" /\ Error("provider", "none").type = "provider"
      /\ Error("schema", "none").type = "schema" /\ Escaped.type = "escaped"
  BY DEF Error, Escaped
<1>2. ASSUME NEW op, NEW error, error.type \in {"ambiguous", "provider", "schema", "escaped"}
      PROVE  Uncertain(op, error)
  <2>1. CASE op \in Gated
    <3>1. CodeOf(op, error) = GateCode(error)
      BY <2>1 DEF CodeOf
    <3>2. GateCode(error) \in {"duplicate_execution_possible", "schema_changed"}
      BY <1>2 DEF GateCode
    <3> QED
      BY <3>1, <3>2 DEF Uncertain, MayHaveRun
  <2>2. CASE op \notin Gated
    <3>1. CodeOf(op, error) = NativeCode(error)
      BY <2>2 DEF CodeOf
    <3>2. NativeCode(error) \in {"duplicate_execution_possible", "schema_changed",
                                "provider_exhausted", "sam_unavailable"}
      BY <1>2 DEF NativeCode
    <3> QED
      BY <2>2, <3>1, <3>2 DEF Uncertain, MayHaveRun
  <2> QED
    BY <2>1, <2>2
<1>3. /\ \A kind \in ToolCalls : /\ TransportLost(kind).type = "ambiguous"
                                /\ Unusable(kind).type = "ambiguous"
                                /\ Refused(kind, "redirect").type = "ambiguous"
  BY <1>1 DEF TransportLost, Unusable, Refused
<1>4. \A kind : Refused(kind, "s5xx").type = "provider"
  BY DEF Refused, Refusals, Error
<1> QED
  BY <1>1, <1>2, <1>3, <1>4

(* A call that is told not to have run is one the node never ran and no       *)
(* longer holds, or a native read whose answer could not be decoded.         *)
Tells ==
  /\ executed' = executed /\ pending' \subseteq pending /\ swapped' = swapped
  /\ \A t \in notrun' :
       \/ t \in notrun
       \/ /\ t.serial \in 1..sent
          /\ t.serial \in executed \cup pending' =>
               t.op \notin Gated /\ t.code = "sam_unavailable"

LEMMA RaisedTells ==
  ASSUME ClientInduction, NEW c \in Callers, wire[c] # NoWire,
         NEW error, Raise(c, error, wire[c]), swapped' = swapped,
         \/ /\ UNCHANGED <<pending, executed>>
            /\ wire[c].kind \in ToolCalls => Uncertain(callers[c].op, error)
         \/ /\ Drop(wire[c]) /\ executed' = executed /\ wire[c].serial \notin executed
  PROVE  Tells
<1>1. PICK w, op : w = wire[c] /\ op = callers[c].op
  OBVIOUS
<1>2. w.serial \in 1..sent
  BY <1>1 DEF ClientInduction, Fits, WireFits
<1>3. \/ notrun' = notrun
      \/ /\ notrun' = notrun \cup {Record(w, op, error)} /\ w.kind \in ToolCalls
         /\ CodeOf(op, error) \notin MayHaveRun
  BY <1>1, ToldOfCall
<1>4. /\ Record(w, op, error).serial = w.serial /\ Record(w, op, error).op = op
      /\ Record(w, op, error).code = CodeOf(op, error)
  BY DEF Record
<1>5. CASE UNCHANGED <<pending, executed>> /\ (w.kind \in ToolCalls => Uncertain(op, error))
  BY <1>2, <1>3, <1>4, <1>5 DEF Tells, Uncertain
<1>6. CASE Drop(w) /\ executed' = executed /\ w.serial \notin executed
  <2>1. pending' = pending \ {w.serial}
    BY <1>6 DEF Drop
  <2> QED
    BY <1>2, <1>3, <1>4, <1>6, <2>1 DEF Tells
<1> QED
  BY <1>1, <1>5, <1>6

LEMMA EndsTell ==
  ASSUME ClientInduction, NEW c \in Callers, Ends(c)
  PROVE  Tells
<1>1. ASSUME NEW status, NEW listing, NEW w, Proceed(c, status, listing, w),
             UNCHANGED <<pending, executed, swapped>>
      PROVE  Tells
  BY <1>1, ResultIsTold DEF Tells
<1>2. CASE SendFails(c) \/ Rejected(c)
  <2>1. (\E error : Raise(c, error, NoWire)) /\ UNCHANGED <<pending, executed, swapped>>
    BY <1>2 DEF SendFails, Rejected, node
  <2>2. NoWire.kind \notin ToolCalls
    BY DEF NoWire, ToolCalls
  <2>3. notrun' = notrun
    BY <2>1, <2>2, ToldOfCall
  <2> QED
    BY <2>1, <2>3 DEF Tells
<1>3. CASE Lost(c)
  <2>1. /\ wire[c] # NoWire /\ UNCHANGED <<pending, executed, swapped>>
        /\ Raise(c, TransportLost(wire[c].kind), wire[c])
    BY <1>3 DEF Lost
  <2> QED
    BY <2>1, RaisedTells, CodesAre
<1>4. CASE Garbage(c) \/ Undecodable(c)
  <2>1. /\ wire[c] # NoWire /\ UNCHANGED <<pending, executed, swapped>>
        /\ Raise(c, Unusable(wire[c].kind), wire[c]) \/ Raise(c, Escaped, wire[c])
    BY <1>4 DEF Garbage, Undecodable
  <2> QED
    BY <2>1, RaisedTells, CodesAre
<1>5. CASE NotReady(c) \/ Got(c)
  <2>1. UNCHANGED <<pending, executed, swapped>>
        /\ \E status : Proceed(c, status, {}, wire[c])
    BY <1>5 DEF NotReady, Got, node
  <2> QED
    BY <1>1, <2>1
<1>6. ASSUME NEW status \in DOMAIN Refusals, Answered(c, status) PROVE Tells
  <2>1. /\ wire[c] # NoWire /\ executed' = executed /\ swapped' = swapped
        /\ Raise(c, Refused(wire[c].kind, status), wire[c])
        /\ status \in Turned => wire[c].serial \notin executed /\ Drop(wire[c])
        /\ status \notin Turned => pending' = pending
    BY <1>6 DEF Answered
  <2>2. status \in Turned \/ status \in {"redirect", "s5xx"}
    BY DEF Refusals, Turned
  <2>3. CASE status \in Turned
    BY <2>1, <2>3, RaisedTells
  <2>4. CASE status \notin Turned
    <3>1. wire[c].kind \in ToolCalls => Uncertain(callers[c].op, Refused(wire[c].kind, status))
      BY <2>2, <2>4, CodesAre
    <3> QED
      BY <2>1, <2>4, <3>1, RaisedTells
  <2> QED
    BY <2>3, <2>4
<1>7. ASSUME NEW m, Takes(c, m)
      PROVE  /\ m.of = wire[c].serial /\ swapped' = swapped /\ wire[c] # NoWire
             /\ wire[c].kind \in Requesting
  BY <1>7, TakesItsOwn DEF ClientInduction, Requesting, ToolCalls, NoWire
<1>8. ASSUME NEW m \in Replies, NEW type \in {"denied", "provider"}, Failed(c, m, type)
      PROVE  Tells
  <2>1. /\ Takes(c, m) /\ executed' = executed /\ Raise(c, Error(type, "none"), wire[c])
        /\ type = "denied" => m.of \notin executed /\ Drop(wire[c])
        /\ type # "denied" => pending' = pending
    BY <1>8 DEF Failed
  <2>2. m.of = wire[c].serial /\ swapped' = swapped /\ wire[c] # NoWire
    BY <1>7, <2>1
  <2>3. CASE type = "denied"
    BY <2>1, <2>2, <2>3, RaisedTells
  <2>4. CASE type = "provider"
    BY <2>1, <2>2, <2>4, RaisedTells, CodesAre
  <2> QED
    BY <2>3, <2>4
<1>9. ASSUME NEW m \in Replies, NEW tools \in Listings, Listed(c, m, tools) PROVE Tells
  <2>1. /\ Takes(c, m) /\ wire[c].kind = "list" /\ UNCHANGED <<pending, executed>>
        /\ \/ Proceed(c, "verified_now", tools, wire[c])
           \/ Raise(c, Error("schema", "none"), wire[c])
    BY <1>9 DEF Listed, node
  <2>2. swapped' = swapped /\ wire[c] # NoWire /\ wire[c].kind \notin ToolCalls
    BY <1>7, <2>1 DEF ToolCalls
  <2> QED
    BY <1>1, <2>1, <2>2, RaisedTells
<1>10. ASSUME NEW m \in Replies, NEW failure \in BOOLEAN, NEW content \in Contents,
              Called(c, m, failure, content)
       PROVE  Tells
  <2>1. Takes(c, m) /\ UNCHANGED <<pending, executed>>
    BY <1>10 DEF Called, node
  <2>2. \/ Proceed(c, "verified_now", {}, wire[c])
        \/ Raise(c, Rejection(failure, content), wire[c])
    BY <1>10 DEF Called
  <2>3. swapped' = swapped /\ wire[c] # NoWire
    BY <1>7, <2>1
  <2>4. Rejection(failure, content) \in
          {Error("provider", "none"), Escaped, Error("schema", "none")}
    BY DEF Rejection
  <2>5. CASE Proceed(c, "verified_now", {}, wire[c])
    BY <1>1, <2>1, <2>3, <2>5
  <2>6. CASE Raise(c, Rejection(failure, content), wire[c])
    BY <2>1, <2>3, <2>4, <2>6, RaisedTells, CodesAre
  <2> QED
    BY <2>2, <2>5, <2>6
<1> QED
  BY <1>2, <1>3, <1>4, <1>5, <1>6, <1>8, <1>9, <1>10 DEF Ends

LEMMA LedgerKept ==
  ASSUME ClientInduction, [Next]_vars
  PROVE  LedgerFits'
<1>1. /\ pending \cap executed = {} /\ pending \cup executed \subseteq 1..sent
      /\ \A t \in notrun :
           /\ t.serial \in 1..sent
           /\ t.serial \in executed \cup pending =>
                t.op \notin Gated /\ t.code = "sam_unavailable"
      /\ swapped = {} /\ sent \in Nat
  BY DEF ClientInduction, LedgerFits, ExecutedIsTold, AnswerIsOwn, TablesFit
<1>2. ASSUME Tells, sent' \in {sent, sent + 1} PROVE LedgerFits'
  BY <1>1, <1>2 DEF Tells, LedgerFits, ExecutedIsTold, AnswerIsOwn
<1>3. TablesFit /\ \A c \in Callers : Fits(callers[c], wire[c])
  BY DEF ClientInduction
<1>4. ASSUME NEW c \in Callers, Ends(c) PROVE LedgerFits'
  <2>1. sent' \in {sent, sent + 1}
    BY <1>3, <1>4, EndsKeep DEF Fits
  <2> QED
    BY <1>2, <1>4, <2>1, EndsTell
<1>5. ASSUME NEW c \in Callers, Send(c) PROVE LedgerFits'
  <2>1. /\ sent' = sent + 1 /\ UNCHANGED <<executed, notrun, swapped>>
        /\ pending' = pending \/ pending' = pending \cup {sent + 1}
    BY <1>5 DEF Send, history
  <2>2. sent + 1 \notin 1..sent /\ 1..sent \subseteq 1..(sent + 1) /\ sent + 1 \in 1..(sent + 1)
    BY <1>1
  <2> QED
    BY <1>1, <2>1, <2>2 DEF LedgerFits, ExecutedIsTold, AnswerIsOwn
<1>6. ASSUME NEW c \in Callers, Begins(c) PROVE LedgerFits'
  <2>1. PICK m \in Replies : /\ Takes(c, m) /\ UNCHANGED <<pending, executed, sent, notrun>>
    BY <1>6 DEF Begins, Initialized
  <2>2. swapped' = swapped
    BY <2>1, TakesItsOwn DEF ClientInduction
  <2> QED
    BY <1>1, <2>1, <2>2 DEF LedgerFits, ExecutedIsTold, AnswerIsOwn
<1>7. ASSUME NEW c \in Callers, Notified(c) PROVE LedgerFits'
  <2>1. /\ UNCHANGED <<pending, executed, sent, swapped>>
        /\ notrun' = notrun \/ Proceed(c, "verified_now", {}, wire[c])
    BY <1>7 DEF Notified
  <2>2. notrun' = notrun
    BY <2>1, ResultIsTold
  <2> QED
    BY <1>1, <2>1, <2>2 DEF LedgerFits, ExecutedIsTold, AnswerIsOwn
<1>8. ASSUME NEW c \in Callers, NEW op \in Ops, Start(c, op) PROVE LedgerFits'
  <2>1. UNCHANGED <<pending, executed, sent, swapped, notrun>>
    BY <1>8 DEF Start, node, history
  <2> QED
    BY <1>1, <2>1 DEF LedgerFits, ExecutedIsTold, AnswerIsOwn
<1>9. ASSUME NEW serial \in pending, Execute(serial) PROVE LedgerFits'
  <2>1. /\ pending' = pending \ {serial} /\ executed' = executed \cup {serial}
        /\ UNCHANGED <<sent, swapped, notrun>>
    BY <1>9 DEF Execute, history
  <2> QED
    BY <1>1, <2>1 DEF LedgerFits, ExecutedIsTold, AnswerIsOwn
<1>10. CASE UNCHANGED vars
  <2>1. UNCHANGED <<pending, executed, sent, swapped, notrun>>
    BY <1>10 DEF vars, node, history
  <2> QED
    BY <1>1, <2>1 DEF LedgerFits, ExecutedIsTold, AnswerIsOwn
<1> QED
  BY <1>4, <1>5, <1>6, <1>7, <1>8, <1>9, <1>10, StepsAre
LEMMA ReportsKept ==
  ASSUME ClientInduction, [Next]_vars
  PROVE  ReportsFit'
<1>1. ReportsFit <=> \A r \in reports : Told(r) /\ r.report.status \in Statuses
  BY DEF ReportsFit, ReportIsSeen, Told
<1>2. ReportsFit' <=> \A r \in reports' : Told(r) /\ r.report.status \in Statuses
  BY DEF ReportsFit, ReportIsSeen, Told
<1>3. ReportsFit
  BY DEF ClientInduction
<1>4. ASSUME NEW c \in Callers, Ends(c) \/ Notified(c) PROVE ReportsFit'
  <2>1. Settled(c)
    BY <1>4, EndsSettle, NotifiedSettles DEF ClientInduction, Fits
  <2>2. \A r \in reports' : r \in reports \/ (Told(r) /\ r.report.status \in Statuses)
    BY <2>1 DEF Settled, NotesFit
  <2> QED
    BY <1>1, <1>2, <1>3, <2>2
<1>5. ASSUME reports' = reports PROVE ReportsFit'
  BY <1>1, <1>2, <1>3, <1>5
<1>6. ASSUME NEW c \in Callers, Send(c) \/ Begins(c) \/ \E op \in Ops : Start(c, op)
      PROVE  reports' = reports
  BY <1>6 DEF Send, Begins, Initialized, Start, history
<1>7. (\E serial \in pending : Execute(serial)) \/ UNCHANGED vars => reports' = reports
  BY DEF Execute, vars, history
<1> QED
  BY <1>4, <1>5, <1>6, <1>7, StepsAre

(* The client starts with no session, no request and an empty ledger.        *)
LEMMA InitFits ==
  ASSUME Init
  PROVE  ClientInduction
<1>1. Idle \in CallerState /\ Idle.op = "idle" /\ Idle.staged = NoSession /\ Idle.tools = {}
  BY IdleTyped DEF Idle
<1>2. \A c \in Callers : callers[c] = Idle /\ wire[c] = NoWire
  BY DEF Init
<1>3. TablesFit
  BY <1>1, BlankTyped, ClientAssumption DEF Init, TablesFit, ClientAssumption
<1>4. Shaped(Idle, NoWire) /\ ~Handshaking(Idle, NoWire) /\ NoWire.kind = "none"
  BY <1>1 DEF Shaped, Handshaking, NoWire
<1>5. Fits(Idle, NoWire)
  BY <1>1, <1>4 DEF Fits, ProbeSees, SessionFits, WireFits
<1>6. HandshakeIsHeld /\ ProbeIsAlone
  BY <1>1, <1>2, <1>4 DEF HandshakeIsHeld, ProbeIsAlone, Init
<1>7. IdsDiffer
  BY <1>2, <1>4 DEF IdsDiffer, Requesting, ToolCalls
<1>8. LedgerFits /\ ReportsFit
  BY DEF Init, LedgerFits, ExecutedIsTold, AnswerIsOwn, ReportsFit, ReportIsSeen
<1> QED
  BY <1>2, <1>3, <1>5, <1>6, <1>7, <1>8 DEF ClientInduction

LEMMA ExecutingFits ==
  ASSUME ClientInduction, UNCHANGED <<endpoint, client, given, open, begun, sent>>
  PROVE  TasksFit'
<1>1. UNCHANGED <<endpoint, session, holder, nextId, callers, wire, features, given, open, begun,
                  sent>>
  BY DEF client
<1>2. TablesFit'
  BY <1>1 DEF ClientInduction, TablesFit
<1>3. ASSUME NEW d \in Callers PROVE Fits(callers[d], wire[d])'
  <2>1. PICK r, w : r = callers[d] /\ w = wire[d]
    OBVIOUS
  <2>2. callers'[d] = r /\ wire'[d] = w /\ Fits(r, w)
    BY <1>1, <2>1 DEF ClientInduction
  <2>3. Fits(r, w)'
    BY <1>1, <2>2 DEF Fits, ProbeSees, SessionFits, WireFits
  <2> QED
    BY <2>2, <2>3
<1>4. HandshakeIsHeld' /\ ProbeIsAlone' /\ IdsDiffer'
  BY <1>1 DEF ClientInduction, HandshakeIsHeld, Handshaking, ProbeIsAlone, IdsDiffer
<1> QED
  BY <1>2, <1>3, <1>4 DEF TasksFit

(* Every step of the client, of a task or of the node keeps the induction.   *)
LEMMA NextFits ==
  ASSUME ClientInduction, [Next]_vars
  PROVE  ClientInduction'
<1>1. LedgerFits' /\ ReportsFit'
  BY LedgerKept, ReportsKept
<1>2. TasksFit'
  <2>1. ASSUME NEW c \in Callers, NEW op \in Ops, Start(c, op) PROVE TasksFit'
    BY <2>1, StartFits
  <2>2. ASSUME NEW c \in Callers, Send(c) \/ Ends(c) \/ Begins(c) \/ Notified(c) PROVE TasksFit'
    BY <2>2, RequestFits
  <2>3. ASSUME NEW serial \in pending, Execute(serial) PROVE TasksFit'
    BY <2>3, ExecutingFits DEF Execute
  <2>4. CASE UNCHANGED vars
    BY <2>4, ExecutingFits DEF vars, node
  <2> QED
    BY <2>1, <2>2, <2>3, <2>4, StepsAre
<1> QED
  BY <1>1, <1>2 DEF ClientInduction, TasksFit
-----------------------------------------------------------------------------
(* However tasks, answers and failures follow on each other, each task is at *)
(* the request that is next for it, the handshake is one task's, and the     *)
(* ledger of calls agrees with what was told of them.                        *)
THEOREM ClientInduces == Spec => []ClientInduction
<1>1. Init => ClientInduction
  BY InitFits
<1>2. ClientInduction /\ [Next]_vars => ClientInduction'
  BY NextFits
<1> QED
  BY <1>1, <1>2, PTL DEF Spec

(* Every variable keeps its type; and a session is begun once however many   *)
(* tasks want it, is used only after the node was told so, and a failed      *)
(* handshake leaves no trace of it (ensure_session and initialize).          *)
THEOREM ClientInvariantHolds == Spec => []ClientInvariant
<1>1. ClientInduction => ClientTypeOK
  <2> SUFFICES ASSUME ClientInduction PROVE ClientTypeOK
    OBVIOUS
  <2>1. ASSUME NEW c \in Callers
        PROVE  /\ callers[c].op \in Ops \cup {"idle"}
               /\ callers[c].staged \in Sessions \cup {NoSession}
               /\ wire[c] # NoWire => wire[c].kind \in Kinds /\ wire[c].serial \in 1..sent
    BY DEF ClientInduction, TablesFit, CallerState, Fits, Shaped, WireFits, Wires
  <2>2. nextId \in 1..(sent + 1)
    BY DEF ClientInduction, TablesFit
  <2> QED
    BY <2>1, <2>2 DEF ClientInduction, TablesFit, LedgerFits, ReportsFit, ClientTypeOK
<1>2. ClientInduction => SessionIsOpen
  <2> SUFFICES ASSUME ClientInduction PROVE SessionIsOpen
    OBVIOUS
  <2>1. ASSUME NEW c \in Callers
        PROVE  /\ session # NoSession => callers[c].staged = NoSession
               /\ wire[c].kind \in {"list", "call"} =>
                    wire[c].session = session /\ session # NoSession
               /\ wire[c].kind \in {"init", "note"} => session = NoSession
    BY DEF ClientInduction, Fits, SessionFits, Handshaking
  <2> QED
    BY <2>1 DEF ClientInduction, TablesFit, SessionIsOpen
<1> QED
  BY <1>1, <1>2, ClientInduces, PTL DEF ClientInvariant

(* The credential is written to no node but one the endpoint allows          *)
(* (_PinnedBackend and PinnedUnixTransport).                                 *)
THEOREM PeersAreAllowed == Spec => []PeerIsAllowed
<1>1. ClientInduction => PeerIsAllowed
  BY DEF ClientInduction, Fits, WireFits, PeerIsAllowed
<1> QED
  BY <1>1, ClientInduces, PTL

(* No task is told that a call did not take place when the node ran it, or   *)
(* may yet run it (gate.py:424-457, tool_runtime.py:65-89), but for a native  *)
(* read whose answer fails to decode: sam_unavailable.  Of a gated call,      *)
(* which may have acted, nobody is ever told so.                             *)
THEOREM ExecutedCallsAreTold == Spec => []ExecutedIsTold
<1>1. ClientInduction => ExecutedIsTold
  BY DEF ClientInduction, LedgerFits
<1> QED
  BY <1>1, ClientInduces, PTL

(* The answer a task acts on is the one the node wrote for its request,      *)
(* whatever other answers its stream holds (_matching_message).              *)
THEOREM AnswersAreOwn == Spec => []AnswerIsOwn
<1>1. ClientInduction => AnswerIsOwn
  BY DEF ClientInduction, LedgerFits
<1> QED
  BY <1>1, ClientInduces, PTL

(* A probe reports nothing it did not see: verified is every step answered    *)
(* and every pinned tool listed once, as pinned (CapabilityProbe.probe).     *)
THEOREM ReportsAreSeen == Spec => []ReportIsSeen
<1>1. ClientInduction => ReportIsSeen
  BY DEF ClientInduction, ReportsFit
<1> QED
  BY <1>1, ClientInduces, PTL
=============================================================================
