-------------------------- MODULE MCDelegationGate ---------------------------
(* Small instances of the gate for TLC.  What the policy says of them is     *)
(* checked first: k1 is a Sovereign guest with a valid receipt, k2 an        *)
(* Explorer whose socket is not there yet; v1 and v3 write, v2 only reads,   *)
(* and the schema of v3 refuses the arguments.                               *)
EXTENDS DelegationGate, Settings, TLC

CONSTANTS p1, p2, c1, c2, d1, d2, n1, l1, l2, t1, t2, t3, v1, v2, v3, k1, k2, a0, a1

MCPassport(m) ==
  [mode |-> m, max_data_class |-> "confidential", allow |-> {"store", "lookup"}, deny |-> {},
   remote_mutations |-> "approval", inference |-> FALSE, inbound |-> FALSE]
MCTransport(type, host) ==
  [type |-> type, origin |-> host, loopback |-> FALSE, dangerous |-> FALSE,
   socket |-> IF type = "uds" THEN "node" ELSE NoFile, secret |-> NoFile,
   token_file |-> NoFile, allowed_origins |-> IF type = "http" THEN {host} ELSE {}]
MCFeatures ==
  [remote_calls |-> TRUE, mesh_inference |-> FALSE, inbound_publication |-> FALSE,
   raw_mcp |-> FALSE]
MCSettings == [k \in Configs |->
  IF k = k2
  THEN [connection |-> "external", transport |-> MCTransport("uds", "http://localhost"),
        passport |-> MCPassport("explorer"), features |-> MCFeatures]
  ELSE [connection |-> "external", transport |-> MCTransport("http", Facade),
        passport |-> MCPassport("sovereign"), features |-> MCFeatures]]

MCSeen == [n \in Named |-> 1]
MCReceipt == Issued(0, MCSeen, MCSeen, FALSE, FALSE, RequiredChecks)
MCHost ==
  [sockets |-> [f \in {NoFile, "node"} |-> "absent"], files |-> [f \in {NoFile} |-> "unsafe"],
   secrets |-> {}, managed |-> {},
   certified |-> CertifiedForGuest(MCReceipt, Observations, MCSeen, MaxAge, FALSE)]

MCDescriptors == [v \in Tools |->
  [uri |-> IF v = v2 THEN "lookup" ELSE "store", hints |-> {}, verified |-> TRUE,
   identity |-> IF v = v2 THEN {"read_only"} ELSE {"mutation"}, keys |-> {}]]
MCConforming == Tools \ {v3}
MCPolicyOf == [x \in Tools \X Configs |->
  IF x[2] = k2 THEN "deny" ELSE IF x[1] = v2 THEN "allow" ELSE "needs_approval"]

\* The table is what the settings give, and either configuration resolves.
ASSUME MCPolicyIsComputed ==
  /\ \A k \in Configs : Resolved(MCSettings[k], MCHost) # {}
  /\ \A x \in Tools \X Configs :
       LET s == MCSettings[x[2]]
       IN  MCPolicyOf[x] = GatePolicy(s.passport, s.features, MCDescriptors[x[1]], {}, "internal")

\* One chat.
MCProfileOf == (c1 :> p1)
MCScopeOf == [x \in Calls |-> c1]
MCOneProcess == [t \in Threads |-> a0]

\* Two processes, each with its thread, may change places.
MCTwoProcesses == [t \in Threads |-> IF t = t1 THEN a0 ELSE a1]
MCSymmetry ==
  {f \in Permutations(Threads \cup Processes) :
     \A t \in Threads : f[t] \in Threads /\ ProcessOf[f[t]] = f[ProcessOf[t]]}
=============================================================================
