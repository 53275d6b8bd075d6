------------------------------- MODULE Settings -------------------------------
(***************************************************************************)
(* From stored settings to the configuration of a call: validate_storage_    *)
(* config() and resolve_config() of config.py and the choice of hooks.py.      *)
(* Settings that are not well formed are refused before anything else and do   *)
(* not occur here; a host, an origin, a path or a name is a string.           *)
(***************************************************************************)
EXTENDS PassportPolicy, Certification

NoFile == ""
Facade == "http://mesh.sam.alt"

Transports ==
  [type: {"http", "uds"}, origin: STRING, loopback: BOOLEAN, dangerous: BOOLEAN,
   socket: STRING, secret: STRING, token_file: STRING, allowed_origins: SUBSET STRING]

(* The host when the settings are read: sockets and token files by path, secrets     *)
(* by name, what the managed node offers (transport() raises until it is ready).   *)
Hosts ==
  [sockets: [STRING -> {"absent", "unsafe", "safe"}], files: [STRING -> {"unsafe", "safe"}],
   secrets: SUBSET STRING, managed: SUBSET Transports, certified: BOOLEAN]

-----------------------------------------------------------------------------
(* _parse_transport(): the kind of route, ...                                 *)
RouteOK(t) ==
  \/ t.type = "uds" /\ t.allowed_origins = {}
  \/ t.type = "http" /\ t.socket = NoFile /\ t.loopback
  \/ t.type = "http" /\ t.socket = NoFile /\ ~t.dangerous /\ t.origin \in t.allowed_origins

(* ... its socket: one that is there must be safe, whoever asks, ...             *)
SocketOK(t, host, allow_absent) ==
  t.type = "uds" => \/ host.sockets[t.socket] = "safe"
                    \/ host.sockets[t.socket] = "absent" /\ allow_absent

(* ... and one source of credentials at most, ...                             *)
OneSource(t) == t.secret = NoFile \/ t.token_file = NoFile

(* ... which is read only when a call is prepared.                             *)
CredentialsOK(t, host) ==
  /\ t.secret # NoFile => t.secret \in host.secrets
  /\ t.token_file # NoFile => host.files[t.token_file] = "safe"

TransportOK(t, host, allow_absent) ==
  RouteOK(t) /\ SocketOK(t, host, allow_absent) /\ OneSource(t)

(* validate_storage_config(): what may be saved, and loaded again.              *)
Storable(s, host) == TransportOK(s.transport, host, TRUE)

-----------------------------------------------------------------------------
(* The only route of a guest in Sovereign mode.                                *)
FacadeOnly(t) ==
  /\ t.type = "http" /\ t.origin = Facade /\ t.socket = NoFile
  /\ t.secret = NoFile /\ t.token_file = NoFile /\ t.allowed_origins = {Facade}

Managed(s) == s.connection = "managed" /\ s.passport.mode # "sovereign"

(* resolve_config(): the configurations the settings give on this host, at most   *)
(* one; none if anything is refused.                                          *)
Resolved(s, host) ==
  {[transport |-> t, passport |-> ConstrainedPassport(s.passport),
    features |-> ConstrainedFeatures(s.passport, s.features)] :
   t \in {u \in IF Managed(s) THEN host.managed ELSE {s.transport} :
            /\ s.passport.mode = "sovereign" => host.certified /\ FacadeOnly(s.transport)
            /\ TransportOK(u, host, AuthorityDisabled(s.passport, s.features))
            /\ CredentialsOK(u, host)}}

(* ensure_runtime(): whether saving or installing starts the managed node.       *)
EnsuresNode(s, host) == Storable(s, host) /\ Managed(s)

=============================================================================
