---------------------------- MODULE PinnedTransport ----------------------------
(***************************************************************************)
(* Which node a connection may reach: src/helpers/tcp_transport.py,         *)
(* uds_transport.py, mcp_transport.validate_tcp_origin.  An endpoint stands *)
(* for a TransportConfig; an address for its class.  For a Unix socket the  *)
(* addresses are the inodes the path may lead to.                           *)
(***************************************************************************)

Hosts == {"uds", "localhost", "loopback", "literal", "name", "mesh.sam.alt"}
Endpoints ==
  [host: Hosts,
   listed: BOOLEAN,      \* _origin(base_url) is one of allowed_origins
   bare: BOOLEAN]        \* exactly the mesh facade, no socket, no token

Inodes == {"own_socket", "other_inode"}
Addresses == {"loopback", "reserved", "synthetic4", "synthetic6", "routable"}

(* _address_is_forbidden(): unspecified, link-local, multicast or reserved;  *)
(* the synthetic IPv6 network is a reserved one outside the mesh.           *)
Forbidden == {"reserved", "synthetic6"}

Permitted(endpoint, address) ==
  CASE endpoint.host = "uds" -> address = "own_socket"
    [] endpoint.host = "mesh.sam.alt" -> address \in {"synthetic4", "synthetic6"}
    [] OTHER -> /\ address \in Addresses \ Forbidden
                /\ address = "loopback" => endpoint.host \in {"localhost", "loopback"}

(* Before any name is resolved; guest: guest_probe() finds a certified one.  *)
OriginAccepted(endpoint, guest) ==
  /\ endpoint.host \in {"name", "mesh.sam.alt"} => endpoint.listed
  /\ endpoint.host = "mesh.sam.alt" => endpoint.bare /\ guest

(* validate_tcp_origin(): every answer must be permitted, not only the one   *)
(* that is used.                                                            *)
ValidOrigin(endpoint, guest, answers) ==
  /\ endpoint.host # "uds"
  /\ OriginAccepted(endpoint, guest)
  /\ answers # {}
  /\ \A a \in answers : Permitted(endpoint, a)

(* connect_unix_socket(): the walk ends, by directories nobody else may      *)
(* change, at one inode, held open until it is connected to.                *)
ValidPath(endpoint, answers) ==
  /\ endpoint.host = "uds"
  /\ \E inode \in Inodes : answers = {inode} /\ Permitted(endpoint, inode)

\* Mutant: the name is resolved again to connect.
TargetsResolved(endpoint, answers, later) == later

(* The addresses a validated connection is made to: one of the answers just *)
(* checked, never a second resolution (the literal, or the open inode).     *)
Targets(endpoint, answers, later) == answers

(* later: what the name, or the path, leads to when the socket connects.  *)
Connects(endpoint, guest, answers, later, peer) ==
  /\ ValidOrigin(endpoint, guest, answers) \/ ValidPath(endpoint, answers)
  /\ peer \in Targets(endpoint, answers, later)
=============================================================================
