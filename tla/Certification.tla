----------------------------- MODULE Certification -----------------------------
(***************************************************************************)
(* When a Sovereign deployment counts as certified: the receipt of            *)
(* deploy/scripts/certify-runtime.py against the host it is used on, as       *)
(* helpers/sovereign.py judges it for the operator (certified_probe) and in   *)
(* the guest (guest_probe).  A hash is the version of what was hashed; a      *)
(* reading that raises is a blocker like any other.                          *)
(***************************************************************************)
EXTENDS Integers

GuestCheck == "native_sovereign_guest"
RequiredChecks ==
  {"tun_real", "named_external_allowed", "unapproved_name_denied", "literal_ip_denied",
   "literal_ipv6_denied", "udp_denied", "dns_no_external_packets", "mesh_models_allowed",
   "mesh_mcp_allowed", "named_mesh_mcp_allowed", "mesh_admin_denied", "node_authority_absent",
   "ui_reachable", "ui_websocket", "ui_gateway_no_egress", "socket_separation",
   "missing_credential_denied", "expired_credential_denied", "wrong_audience_denied",
   "wrong_subject_denied", "invalid_signature_denied", "expiry_drains_live",
   "credential_tamper_drains", "socket_tamper_drains", "box_restart", "node_restart_drains",
   "agent_restart", "drain_preserves_state", "rollback_preserves_state", "native_a0_ui",
   "native_a0_websocket", "native_a0_message_loop", "ui_gateway_ipv6_denied",
   "ui_gateway_dns_denied", "ui_initializer_caps_dropped", GuestCheck}
MaxAge == 86400

(* What a receipt names of the host and the files it was made with.            *)
Binaries == {"sam-node", "sam-box", "nano-init"}
Named == Binaries \cup {"pack", "kernel", "boot", "a0_source", "image", "firewall_image"}

Receipts(Versions) ==
  [schema: Nat, generated_at: Int, supported: BOOLEAN, guest_validation_only: BOOLEAN,
   of: [Named -> Versions], checks: SUBSET RequiredChecks]

(* validate_receipt(): what speaks against a receipt, given what is seen.        *)
Stale(receipt, now) ==
  ~(0 <= now - receipt.generated_at /\ now - receipt.generated_at <= MaxAge)

Valid(receipt, seen, now, require_guest) ==
  /\ receipt.schema = 1 /\ receipt.supported
  /\ ~Stale(receipt, now)
  /\ \A n \in Binaries \cup {"pack", "kernel"} : receipt.of[n] = seen[n]
  /\ \A c \in RequiredChecks : c \in receipt.checks \/ (c = GuestCheck /\ ~require_guest)

(* certified_probe(): the operator's side, before anything is started.          *)
CertifiedForHost(receipt, private, host, now) ==
  /\ private
  /\ Valid(receipt, host, now, TRUE)
  /\ \A n \in {"boot", "a0_source", "image", "firewall_image"} : receipt.of[n] = host[n]

(* What a guest observes of itself: read-only mounts of receipt, boundary and     *)
(* core; private files; only lo and tun0, and tun0 for every default route; no     *)
(* capability but one for the TUN; nothing of the node; a CONNECT that is answered. *)
Observations ==
  {"readonly", "private", "isolated", "routed", "unprivileged", "no_authority", "admitted"}

(* guest_probe(): node and box are out of sight, so that the receipt is believed   *)
(* about them, and the images are the operator's to check.                      *)
CertifiedForGuest(receipt, observed, host, now, bootstrap) ==
  LET seen == [host EXCEPT !["sam-node"] = receipt.of["sam-node"],
                           !["sam-box"] = receipt.of["sam-box"]]
  IN  /\ observed = Observations
      /\ Valid(receipt, seen, now, ~(bootstrap /\ receipt.guest_validation_only))
      /\ \A n \in {"boot", "a0_source"} : receipt.of[n] = host[n]

(* certify-runtime.py: the receipt at the end of a run, whatever it went through;   *)
(* started and finished are what was hashed before and after.                   *)
Issued(now, started, finished, adapter_only, failed, checks) ==
  [schema |-> 1, generated_at |-> now, guest_validation_only |-> FALSE,
   of |-> finished, checks |-> checks,
   supported |-> /\ ~adapter_only /\ ~failed
                 /\ \A n \in Binaries \cup {"pack"} : started[n] = finished[n]
                 /\ RequiredChecks \subseteq checks]

=============================================================================
