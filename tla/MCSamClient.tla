------------------------------ MODULE MCSamClient ------------------------------
EXTENDS SamClient, TLC

Tool(name, form, fits) == [name |-> name, wire |-> form, fits |-> fits]
Complete == {Tool("describe", "plain", TRUE), Tool("call_remote_tool", "plain", TRUE)}
\* All there; an older node; a second tool under the name of a pinned one; a
\* changed schema beside a removed diagnostic.
MCListings ==
  {Complete, {Tool("describe", "plain", TRUE)},
   Complete \cup {Tool("describe", "canonical", FALSE)},
   {Tool("describe", "plain", FALSE), Tool("call_remote_tool", "plain", TRUE),
    Tool("get_token_info", "plain", TRUE)}}
MCEndpoints ==
  {[host |-> "name", listed |-> TRUE, bare |-> FALSE],
   [host |-> "uds", listed |-> FALSE, bare |-> FALSE]}
MCSymmetry == Permutations(Callers) \cup Permutations(Sessions)
=============================================================================
