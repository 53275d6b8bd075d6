---------------------------- MODULE CapabilityProbe ----------------------------
(***************************************************************************)
(* What a listing of tools is taken for: src/helpers/capabilities.py and    *)
(* native_mcp.py, and _check_schema of remote_tools.py.  A tool is listed   *)
(* under its own name or under a canonical address that ends in it, with a  *)
(* schema that fits the pinned one or does not (_schema_matches).           *)
(***************************************************************************)
EXTENDS Integers, FiniteSets, Sequences

CONSTANTS
  ReadTools,     \* EXPECTED_READ_TOOL_SCHEMAS
  LegacyTools,   \* REMOVED_DIAGNOSTIC_TOOLS
  CallTool       \* call_remote_tool

Names == ReadTools \cup LegacyTools \cup {CallTool}
McpTools == [name: Names, wire: {"plain", "canonical"}, fits: BOOLEAN]

(* list_tools() refuses two tools with one wire name. *)
Listing(tools) ==
  \A a, b \in tools : a.name = b.name /\ a.wire = b.wire => a = b

Statuses == {"verified_now", "partial", "unreachable", "schema_changed", "unsupported"}
Steps == {"healthz", "readyz", "init", "list", "models"}

(* _index_tools(): by the last part of the address, the ambiguous left out.  *)
Named(tools, name) == {t \in tools : t.name = name}
Indexed(tools, name) == IF Cardinality(Named(tools, name)) = 1 THEN Named(tools, name) ELSE {}

(* One tool of the report; missing: the status of one that is not listed.    *)
\* Mutant: the first tool of a name is taken, whatever else has the name.
ToolFeatureFirst(tools, name, missing) ==
  CASE Named(tools, name) = {} -> missing
    [] \E t \in Named(tools, name) : t.fits -> "verified_now"
    [] OTHER -> "schema_changed"
ToolFeature(tools, name, missing) ==
  CASE Named(tools, name) = {} -> missing
    [] \E t \in Indexed(tools, name) : t.fits -> "verified_now"
    [] OTHER -> "schema_changed"

(* _failed_probe() *)
FailedStep(error) ==
  CASE error.type \in {"connectivity", "ambiguous"} -> "unreachable"
    [] error.type = "schema" -> "schema_changed"
    [] error.type = "missing" -> "unsupported"     \* a provider error with status 404
    [] OTHER -> "partial"

(* _aggregate_status(): its argument is never empty. *)
Aggregate(statuses) ==
  CASE statuses = {"verified_now"} -> "verified_now"
    [] statuses = {"unreachable"} -> "unreachable"
    [] OTHER -> "partial"

(* CapabilityProbe.probe(), after its requests. *)
Missing(features) == IF features["list"] = "verified_now" THEN "unsupported" ELSE features["list"]
Report(features, tools) ==
  LET feature(name) == ToolFeature(tools, name, Missing(features))
  IN  [status |-> Aggregate({features[s] : s \in Steps}
                            \cup {feature(name) : name \in ReadTools \cup {CallTool}}),
       enabled |-> {name \in ReadTools : feature(name) = "verified_now"},
       callable |-> feature(CallTool) = "verified_now",
       legacy |-> {name \in LegacyTools : Indexed(tools, name) # {}}]

(* build_native_mcp_plan(): always a proposal; the tools it would let in.    *)
Proposed(report) == [available |-> FALSE, enabled |-> report.enabled \cap ReadTools]

(* RemoteTools._check_schema(): by wire name, before every use of a tool.    *)
SchemaChecked(tools, name) ==
  \E t \in tools : t.name = name /\ t.wire = "plain" /\ t.fits
=============================================================================
