------------------------------- MODULE SamClient -------------------------------
(***************************************************************************)
(* One SAM client and the tasks that use it: the session of mcp_transport   *)
(* .py, the calls of sam_client.py, and what remote_tools.py, tool_runtime  *)
(* .py and capabilities.py make of them.  A step is one request handed to   *)
(* the connection, one answer or failure with all the code that follows it  *)
(* up to the next await, or a move of the node.  HTTP framing, limits and   *)
(* JSON are two answers: one the code finds unusable, and one its decoding   *)
(* fails on with an error that is no SamError.                              *)
(***************************************************************************)
EXTENDS Integers, PinnedTransport, CapabilityProbe

CONSTANTS
  Callers, NoCaller,      \* tasks
  Sessions, NoSession,    \* session identifiers of the node
  DescribeTool,           \* the read tool that stands for all of them
  Listings,               \* what tools/list may answer
  UsedEndpoints,          \* configurations of the client
  Resolvable,             \* addresses and inodes a name or a path may lead to
  MaxOps                  \* bound: operations begun, or one probe

ASSUME ClientAssumption ==
  /\ NoCaller \notin Callers /\ NoSession \notin Sessions
  /\ DescribeTool \in ReadTools
  /\ Listings \subseteq {tools \in SUBSET McpTools : Listing(tools)}
  /\ UsedEndpoints \subseteq Endpoints /\ Resolvable \subseteq Addresses \cup Inodes
  /\ MaxOps \in Nat

VARIABLES
  endpoint,
  session,    \* _session_id and _protocol_version: set together
  holder,     \* the task that holds _initialize_lock
  nextId,     \* _next_id
  callers,    \* each task: the requests it has yet to make
  wire,       \* the request each task awaits
  features,   \* the report of the running probe
  given, open,        \* node: sessions given out, and those told initialized
  pending, executed,  \* node: tool calls it may still run, and those it ran
  begun, sent,        \* history: operations begun, and requests tried
  notrun,             \* history: calls their task was told did not run, and by which code
  swapped,            \* history: answers taken from another request
  reports             \* history: the reports of probes

client == <<session, holder, nextId, callers, wire, features>>
node == <<given, open, pending, executed>>
history == <<notrun, swapped, reports>>
vars == <<endpoint, client, node, begun, sent, history>>

Gets == {"healthz", "readyz", "models"}
ToolCalls == {"call", "embassy"}
Kinds == Gets \cup ToolCalls \cup {"init", "note", "list"}

(* Native tools and views (_dispatch_client), the two ways of a gated call  *)
(* (RemoteTools.call), and the capability probe.                            *)
Programmes ==
  [status |-> <<"healthz", "models">>, read |-> <<"list", "call">>,
   describe |-> <<"list", "list", "call">>, call |-> <<"call">>,
   embassy |-> <<"embassy">>, probe |-> <<"healthz", "readyz", "init", "list", "models">>]
Ops == DOMAIN Programmes

NoWire == [kind |-> "none"]
Blank == [s \in Steps |-> "unreachable"]
Idle == [op |-> "idle", todo |-> <<>>, staged |-> NoSession, tools |-> {}]

Init ==
  /\ endpoint \in UsedEndpoints
  /\ session = NoSession /\ holder = NoCaller /\ nextId = 1
  /\ callers = [c \in Callers |-> Idle] /\ wire = [c \in Callers |-> NoWire]
  /\ features = Blank
  /\ given = {} /\ open = {} /\ pending = {} /\ executed = {} 
  /\ begun = 0 /\ sent = 0 /\ notrun = {} /\ swapped = {} /\ reports = {}

-----------------------------------------------------------------------------
(* How a request can fail: mcp_transport.py:26-76.  dispatched is what the  *)
(* error says of the request having left.                                   *)
Error(type, dispatched) == [type |-> type, dispatched |-> dispatched]
NotConnected == Error("connectivity", "no")
\* httpx.DecodingError passes both clauses of _send(); a number json.loads
\* refuses or a nesting too deep for it passes _decode_json_bytes().
Escaped == Error("escaped", "none")
TransportLost(kind) ==
  Error(IF kind \in ToolCalls THEN "ambiguous" ELSE "connectivity", "unknown")

(* _request() and _tool_result(): once a tool call has left, an answer that *)
(* cannot be used says nothing of what the call did.                        *)
Unusable(kind) ==
  IF kind \in ToolCalls THEN Error("ambiguous", "yes") ELSE Error("schema", "none")

(* _send(): the status line. *)
Refusals ==
  [redirect |-> "schema", s401 |-> "auth_required", s403 |-> "auth_rejected",
   s503 |-> "not_ready", s404 |-> "missing", s5xx |-> "provider"]
Turned == {"s401", "s403", "s503", "s404"}     \* the node ran nothing
Refused(kind, status) ==
  IF status = "redirect" THEN Unusable(kind) ELSE Error(Refusals[status], "none")

(* execute_native(): the code a native tool reports. *)
NativeCode(error) ==
  CASE error.type = "connectivity" -> "destination_unavailable"
    [] error.type = "ambiguous" -> "duplicate_execution_possible"
    [] error.type = "schema" -> "schema_changed"
    [] error.type = "denied" -> "policy_denied"
    [] error.type = "not_ready" -> "node_not_ready"
    [] error.type \in {"provider", "missing"} -> "provider_exhausted"
    [] error.type = "escaped" -> "sam_unavailable"
    [] OTHER -> error.type

(* DelegationGate.invoke(): a gated call has been admitted when it gets here,  *)
(* and its errors are caught there, whatever they are.                       *)
\* Mutant: what is no SamCallAmbiguous is told as before the admission.
GateCodeUndispatched(error) ==
  CASE error.type \in {"auth_required", "auth_rejected"} -> error.type
    [] error.type = "denied" -> "policy_denied"
    [] error.type = "schema" -> "schema_changed"
    [] error.type = "ambiguous" -> "duplicate_execution_possible"
    [] error.type = "escaped" -> "gate_unavailable"
    [] OTHER -> "destination_unavailable"
GateCode(error) ==
  CASE error.type \in {"auth_required", "auth_rejected"} -> error.type
    [] error.type = "denied" -> "policy_denied"
    [] error.type = "schema" -> "schema_changed"
    [] OTHER -> "duplicate_execution_possible"

Gated == {"call", "embassy"}
CodeOf(op, error) == IF op \in Gated THEN GateCode(error) ELSE NativeCode(error)

-----------------------------------------------------------------------------
Todo(c) == callers[c].todo

(* What the task sends next: request() begins a session first where one is   *)
(* needed and there is none, and initialize() ends with a notification.      *)
Next1(c) ==
  IF callers[c].staged # NoSession THEN "note"
  ELSE IF Head(Todo(c)) \in {"list", "call"} /\ session = NoSession THEN "init"
  ELSE Head(Todo(c))

\* Mutant: initialize() without _initialize_lock.
LocksNever(c, kind) == FALSE
Locks(c, kind) == kind = "init" /\ Head(Todo(c)) # "init"

(* _session_headers(), the staged ones of the handshake, or none. *)
HeaderOf(c, kind) ==
  CASE kind = "note" -> callers[c].staged
    [] kind \in {"list", "call"} -> session
    [] OTHER -> NoSession

\* Mutant: every request of the session has the same id.
NextIdSame(kind) == nextId
NextId(kind) == IF kind \in Gets \cup {"note"} THEN nextId ELSE nextId + 1

(* What a task is told of a call it made.  A schema that changed says of a    *)
(* read that its text was refused; of a gated call it is told as uncertain.   *)
MayHaveRun == {"ok", "provider_exhausted", "duplicate_execution_possible", "schema_changed"}
Tell(c, code, w) ==
  notrun' = IF w.kind \notin ToolCalls \/ code \in MayHaveRun THEN notrun
            ELSE notrun \cup {[serial |-> w.serial, op |-> callers[c].op, code |-> code]}
Release(c) == holder' = IF holder = c THEN NoCaller ELSE holder

(* The probe notes every outcome and goes on; without a session it does not *)
(* ask for the tools.                                                       *)
Noted(c, step, status, listing) ==
  LET skip == step = "init" /\ status # "verified_now"
      seen == [s \in Steps |-> IF s = step \/ (skip /\ s = "list") THEN status ELSE features[s]]
      rest == IF skip THEN Tail(Tail(Todo(c))) ELSE Tail(Todo(c))
  IN  /\ features' = IF rest = <<>> THEN Blank ELSE seen
      /\ reports' = IF rest # <<>> THEN reports ELSE reports \cup
           {[seen |-> seen, tools |-> callers[c].tools, report |-> Report(seen, callers[c].tools)]}
      /\ callers' = [callers EXCEPT ![c] = IF rest = <<>> THEN Idle ELSE
           [callers[c] EXCEPT !.todo = rest, !.staged = NoSession,
                              !.tools = IF step = "list" THEN listing ELSE callers[c].tools]]
      /\ UNCHANGED <<notrun>>

(* An error ends the operation of any other task; an error that is no SamError *)
(* ends a probe as well, without a report.                                  *)
Raise(c, error, w) ==
  /\ wire' = [wire EXCEPT ![c] = NoWire]
  /\ Release(c)
  /\ IF callers[c].op = "probe" /\ error # Escaped
     THEN Noted(c, Head(Todo(c)), FailedStep(error), {})
     ELSE /\ callers' = [callers EXCEPT ![c] = Idle]
          /\ features' = IF callers[c].op = "probe" THEN Blank ELSE features
          /\ Tell(c, CodeOf(callers[c].op, error), w)
          /\ UNCHANGED reports

(* A result: the next request of the operation, or its end. *)
Proceed(c, status, listing, w) ==
  /\ wire' = [wire EXCEPT ![c] = NoWire]
  /\ Release(c)
  /\ IF callers[c].op = "probe" THEN Noted(c, Head(Todo(c)), status, listing)
     ELSE /\ IF Len(Todo(c)) > 1
             THEN callers' = [callers EXCEPT ![c].todo = Tail(@)] /\ UNCHANGED notrun
             ELSE callers' = [callers EXCEPT ![c] = Idle] /\ Tell(c, "ok", w)
          /\ UNCHANGED <<features, reports>>
-----------------------------------------------------------------------------
(* Operations share a client; a probe has one to itself (control_api.py:260).*)
Start(c, op) ==
  /\ callers[c].op = "idle" /\ begun < MaxOps
  /\ op = "probe" => begun = 0
  /\ callers' = [callers EXCEPT ![c] = [Idle EXCEPT !.op = op, !.todo = Programmes[op]]]
  /\ begun' = IF op = "probe" THEN MaxOps ELSE begun + 1
  /\ UNCHANGED <<endpoint, session, holder, nextId, wire, features, node, sent, history>>

(* Every request opens a connection of its own (no keep-alive, no retry).    *)
Send(c) ==
  /\ callers[c].op # "idle" /\ wire[c] = NoWire
  /\ LET kind == Next1(c) IN
     /\ Locks(c, kind) => holder = NoCaller
     /\ \E answers \in SUBSET Resolvable, later \in Resolvable,
           peer \in Resolvable, guest \in BOOLEAN :
          /\ Connects(endpoint, guest, answers, {later}, peer)
          /\ wire' = [wire EXCEPT ![c] =
               [kind |-> kind, id |-> nextId, serial |-> sent + 1,
                session |-> HeaderOf(c, kind), peer |-> peer]]
     /\ holder' = IF Locks(c, kind) THEN c ELSE holder
     /\ nextId' = NextId(kind)
     /\ sent' = sent + 1
     /\ pending' = IF kind \in ToolCalls THEN pending \cup {sent + 1} ELSE pending
  /\ UNCHANGED <<endpoint, session, callers, features, given, open, executed, begun, history>>

(* Refused by the checks, or by the peer: nothing was written.               *)
SendFails(c) ==
  /\ callers[c].op # "idle" /\ wire[c] = NoWire
  /\ Locks(c, Next1(c)) => holder = NoCaller
  /\ nextId' = NextId(Next1(c)) /\ sent' = sent + 1
  /\ Raise(c, NotConnected, NoWire)
  /\ UNCHANGED <<endpoint, session, node, begun, swapped>>

(* call_embassy_tool(): a destination that is none, or a sovereign guest.    *)
Rejected(c) ==
  /\ callers[c].op = "embassy" /\ wire[c] = NoWire
  /\ Raise(c, Error("schema", "none"), NoWire)
  /\ UNCHANGED <<endpoint, session, nextId, node, begun, sent, swapped>>

-----------------------------------------------------------------------------
(* The node.  It runs a call it was sent at most once, at any time, whether  *)
(* or not anybody still waits for it.                                       *)
Execute(serial) ==
  /\ serial \in pending
  /\ pending' = pending \ {serial}
  /\ executed' = executed \cup {serial}
  /\ UNCHANGED <<endpoint, client, given, open, begun, sent, history>>

Drop(w) == pending' = pending \ {w.serial}

(* A notification that is not confirmed may have reached the node.            *)
MayOpen(w) == UNCHANGED open \/ (w.kind = "note" /\ open' = open \cup {w.session})

Lost(c) ==
  /\ wire[c] # NoWire
  /\ MayOpen(wire[c])
  /\ Raise(c, TransportLost(wire[c].kind), wire[c])
  /\ UNCHANGED <<endpoint, session, nextId, given, pending, executed, begun, sent, swapped>>

Answered(c, status) ==
  /\ wire[c] # NoWire
  /\ status \in Turned => wire[c].serial \notin executed
  /\ IF status \in Turned THEN Drop(wire[c]) ELSE UNCHANGED pending
  /\ Raise(c, Refused(wire[c].kind, status), wire[c])
  /\ UNCHANGED <<endpoint, session, nextId, given, open, executed, begun, sent, swapped>>

(* Too long, malformed, empty, of no known type, no answer to this id, or one  *)
(* whose content does not have its form: a SamSchemaError.                  *)
Garbage(c) ==
  /\ wire[c] # NoWire
  /\ MayOpen(wire[c])
  /\ Raise(c, Unusable(wire[c].kind), wire[c])
  /\ UNCHANGED <<endpoint, session, nextId, given, pending, executed, begun, sent, swapped>>

(* An answer, of any status, whose decoding fails with another error.        *)
Undecodable(c) ==
  /\ wire[c] # NoWire
  /\ MayOpen(wire[c])
  /\ Raise(c, Escaped, wire[c])
  /\ UNCHANGED <<endpoint, session, nextId, given, pending, executed, begun, sent, swapped>>

(* A probe of the process that says it is not ready. *)
NotReady(c) ==
  /\ wire[c].kind \in {"healthz", "readyz"}
  /\ Proceed(c, "partial", {}, wire[c])
  /\ UNCHANGED <<endpoint, session, nextId, node, begun, sent, swapped>>

Got(c) ==
  /\ wire[c].kind \in Gets
  /\ Proceed(c, "verified_now", {}, wire[c])
  /\ UNCHANGED <<endpoint, session, nextId, node, begun, sent, swapped>>
-----------------------------------------------------------------------------
(* _matching_message(): a stream may hold messages for other requests in     *)
(* flight; exactly one must carry this id.                                  *)
Awaiting == {c \in Callers : wire[c].kind \in ToolCalls \cup {"init", "list"}}
Replies == {[id |-> wire[c].id, of |-> wire[c].serial] : c \in Awaiting}
Mine(c, messages) == {m \in messages : m.id = wire[c].id}
Takes(c, m) ==
  /\ c \in Awaiting
  /\ \E messages \in SUBSET Replies : Mine(c, messages) = {m}
  /\ swapped' = IF m.of = wire[c].serial THEN swapped ELSE swapped \cup {<<wire[c].serial, m.of>>}

(* A JSON-RPC error; the node denies only what it has not run.               *)
Failed(c, m, type) ==
  /\ Takes(c, m)
  /\ type = "denied" => m.of \notin executed
  /\ IF type = "denied" THEN Drop(wire[c]) ELSE UNCHANGED pending
  /\ Raise(c, Error(type, "none"), wire[c])
  /\ UNCHANGED <<endpoint, session, nextId, given, open, executed, begun, sent>>

(* initialize(): the identifier is kept aside until the node is notified.    *)
Initialized(c, m, s) ==
  /\ Takes(c, m) /\ wire[c].kind = "init"
  /\ s \in Sessions \ given
  /\ given' = given \cup {s}
  /\ callers' = [callers EXCEPT ![c].staged = s]
  /\ wire' = [wire EXCEPT ![c] = NoWire]
  /\ UNCHANGED <<endpoint, session, holder, nextId, features, open, pending, executed, begun, sent,
                 notrun, reports>>

Published(c) == callers[c].staged
Notified(c) ==
  /\ wire[c].kind = "note"
  /\ open' = open \cup {wire[c].session}
  /\ session' = Published(c)
  /\ IF callers[c].op = "probe" THEN Proceed(c, "verified_now", {}, wire[c])
     ELSE /\ Release(c)
          /\ wire' = [wire EXCEPT ![c] = NoWire]
          /\ callers' = [callers EXCEPT ![c].staged = NoSession]
          /\ UNCHANGED <<features, notrun, reports>>
  /\ UNCHANGED <<endpoint, nextId, given, pending, executed, begun, sent, swapped>>

(* list_tools(), and the check of the schema that must precede a use.        *)
Wanted(c) ==
  IF callers[c].op = "describe" /\ Len(Todo(c)) = 3 THEN CallTool ELSE DescribeTool
Listed(c, m, tools) ==
  /\ Takes(c, m) /\ wire[c].kind = "list"
  /\ IF callers[c].op = "probe" \/ SchemaChecked(tools, Wanted(c))
     THEN Proceed(c, "verified_now", tools, wire[c])
     ELSE Raise(c, Error("schema", "none"), wire[c])
  /\ UNCHANGED <<endpoint, session, nextId, node, begun, sent>>

(* The contents a usable result may have.  A read takes one JSON text, and a *)
(* description only that of the tool that was named; the caller of a gated   *)
(* call takes any content.  A text may be nested too deep for json.loads.    *)
Contents == {"as_asked", "of_another_tool", "not_text", "too_deep"}
ReadAccepts(content) == content \notin {"not_text", "too_deep"}
DescribeAccepts(content) == ReadAccepts(content) /\ content # "of_another_tool"
Accepts(op, content) ==
  /\ op = "read" => ReadAccepts(content)
  /\ op = "describe" => DescribeAccepts(content)

(* _tool_result() of a call that ran; failure: isError. *)
Rejection(failure, content) ==
  CASE failure -> Error("provider", "none")
    [] ~failure /\ content = "too_deep" -> Escaped
    [] OTHER -> Error("schema", "none")
Called(c, m, failure, content) ==
  /\ Takes(c, m) /\ wire[c].kind \in ToolCalls
  /\ m.of \in executed
  /\ IF ~failure /\ Accepts(callers[c].op, content)
     THEN Proceed(c, "verified_now", {}, wire[c])
     ELSE Raise(c, Rejection(failure, content), wire[c])
  /\ UNCHANGED <<endpoint, session, nextId, node, begun, sent>>

Next ==
  \/ \E c \in Callers :
       \/ \E op \in Ops : Start(c, op)
       \/ Send(c) \/ SendFails(c) \/ Rejected(c)
       \/ Lost(c) \/ Garbage(c) \/ Undecodable(c) \/ NotReady(c) \/ Got(c) \/ Notified(c)
       \/ \E status \in DOMAIN Refusals : Answered(c, status)
       \/ \E m \in Replies :
            \/ \E type \in {"denied", "provider"} : Failed(c, m, type)
            \/ \E s \in Sessions : Initialized(c, m, s)
            \/ \E tools \in Listings : Listed(c, m, tools)
            \/ \E failure \in BOOLEAN, content \in Contents : Called(c, m, failure, content)
  \/ \E serial \in pending : Execute(serial)

Spec == Init /\ [][Next]_vars

-----------------------------------------------------------------------------
(* Every variable keeps its type. *)
ClientTypeOK ==
  /\ endpoint \in UsedEndpoints
  /\ session \in Sessions \cup {NoSession} /\ holder \in Callers \cup {NoCaller}
  /\ nextId \in 1..(sent + 1) /\ begun \in 0..MaxOps
  /\ \A c \in Callers :
       /\ callers[c].op \in Ops \cup {"idle"}
       /\ callers[c].staged \in Sessions \cup {NoSession}
       /\ wire[c] # NoWire => wire[c].kind \in Kinds /\ wire[c].serial \in 1..sent
  /\ features \in [Steps -> Statuses]
  /\ given \subseteq Sessions /\ open \subseteq given
  /\ pending \cap executed = {} /\ pending \cup executed \subseteq 1..sent
  /\ \A r \in reports : r.report.status \in Statuses

(* A task is never told that a call did not take place when the node ran it, *)
(* or runs it later: it has its result, its failure, or the warning that it *)
(* may have run (gate.py:424-457, tool_runtime.py:65-89).  The one exception *)
(* is a native read whose answer cannot be decoded: it is told that the node  *)
(* is unreachable, by the clause that catches what no other does.            *)
ExecutedIsTold ==
  \A t \in notrun : t.serial \in executed \cup pending =>
    t.op \notin Gated /\ t.code = "sam_unavailable"

(* Tasks share a session and a stream may carry the answers of others: the  *)
(* answer a task acts on is the one the node wrote for its request.         *)
AnswerIsOwn == swapped = {}

(* The session is begun once however many tasks want it, is used only after *)
(* the node was told so, and a failed handshake leaves no trace of it.      *)
SessionIsOpen ==
  /\ session # NoSession => session \in open /\ \A c \in Callers : callers[c].staged = NoSession
  /\ \A c \in Callers : wire[c] # NoWire =>
       /\ wire[c].kind \in {"list", "call"} => wire[c].session = session /\ session # NoSession
       /\ wire[c].kind \in {"init", "note"} => session = NoSession

(* The node that is written to, with the credential, is one the endpoint     *)
(* allows, whatever the name or the path came to mean after it was checked.  *)
PeerIsAllowed ==
  \A c \in Callers : wire[c] # NoWire => Permitted(endpoint, wire[c].peer)

(* What holds whenever a request is on the wire.                             *)
ClientInvariant == ClientTypeOK /\ SessionIsOpen

(* A probe reports only what this probe saw: verified means that every       *)
(* request was answered and that each pinned tool is the only one of its     *)
(* name, with the pinned schema; unreachable that nothing was answered.      *)
ReportIsSeen ==
  \A r \in reports :
    /\ r.report.status = "verified_now" =>
         /\ \A s \in Steps : r.seen[s] = "verified_now"
         /\ \A name \in ReadTools \cup {CallTool} :
              \E t \in r.tools : t.fits /\ Named(r.tools, name) = {t}
    /\ r.report.status = "unreachable" => r.tools = {}
    /\ \A name \in Proposed(r.report).enabled : Cardinality(Named(r.tools, name)) = 1
=============================================================================
