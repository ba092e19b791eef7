----------------------------- MODULE Handshake -----------------------------
(***************************************************************************)
(* A connection from the client's command line to the end of its transfer: *)
(* the client reads its arguments, connects, sends its configuration and   *)
(* waits for a verdict (client/client_cli.c, client/client_send.c,         *)
(* shared/config.c); a forked child of the server receives it, passes it   *)
(* through the module gate with its authentication, through the security   *)
(* gates and the preparation of the session (server/server.c), and serves  *)
(* the transfer.  The authentication failures of a source are counted in   *)
(* memory that all children share (shared/daemon_limits.c); every atomic   *)
(* access to it is a step of its own.                                      *)
(*                                                                         *)
(* The transfer itself is one frame each way: SendFiles, SenderPipeline    *)
(* and ReceiverPipeline are about what it hides, and DaemonLimits about    *)
(* the connection caps.                                                    *)
(*                                                                         *)
(* Faulty variants, named Bad..., stand before the definition they are a   *)
(* plausible slip of; the README says which property finds each of them.   *)
(***************************************************************************)
EXTENDS ClientConfig

CONSTANTS Conns,        \* connections, one client process each
          Sources,      \* remote source addresses
          Args,         \* the arguments a client may add to its command line
          Scenes,       \* a server's set-up, and the clients that call on it
          Duration      \* "auth lockout duration"

(* A client of a scene has the configuration its first arguments give it,  *)
(* the number of arguments it may still get, the rest of its command line  *)
(* and environment, and what the server sees of it.  The lockout is on: a  *)
(* threshold of 0 switches it off; "none" is the name no module has.       *)
ASSUME HandshakeAssumption ==
    /\ Duration \in Nat \ {0}
    /\ \A a \in Args : /\ a[1] = "super" => a[2] \in {"AUTO", "ON", "OFF"}
                       /\ a[1] = "max_del" => a[2] \in Int
    /\ \A s \in Scenes : s.server.threshold \in Nat \ {0} /\ s.server.module.name # "none"
    /\ \A s \in Scenes, c \in Conns :
          /\ s.client[c].free \in Nat /\ Parsed(s.client[c].start)
          /\ s.client[c].line.env.codec \in Codecs \cup {"bad"}
          /\ s.client[c].line.env.checksum \in Checksums \cup {"bad"}

VARIABLES
    scene,        \* the scene, fixed at the start
    client,       \* where each client is
    conf,         \* the configuration it builds and sends
    free,         \* how many more arguments it may get
    code,         \* its exit code
    child,        \* where the server's child for each connection is
    sconf,        \* the configuration it works with
    link,         \* [up, down, broken]: frames in flight, and whether it is lost
    root_exists,  \* the destination root is there
    host_fail, host_until, now,   \* the lockout registry, and the time
    served,       \* history: what became of each transfer, "no" before it
    punished,     \* history: the end of a source's latest lockout, 0 once forgiven
    raced         \* history: has clearing a source's record overlapped a failure?

registry == <<host_fail, host_until>>
history == <<served, punished, raced>>
vars == <<scene, client, conf, free, code, child, sconf, link, root_exists, registry, now, history>>

server == scene.server
Line(c) == scene.client[c].line
Peer(c) == scene.client[c].peer         \* [source, cn, secret, path]

Init ==
    /\ scene \in Scenes
    /\ client = [c \in Conns |-> IF c \in scene.conns THEN "parse" ELSE "absent"]
    /\ conf = [c \in Conns |-> scene.client[c].start]
    /\ free = [c \in Conns |-> scene.client[c].free]
    /\ code = [c \in Conns |-> -1]
    /\ child = [c \in Conns |-> "none"]
    /\ sconf = [c \in Conns |-> Defaults]
    /\ link = [c \in Conns |-> [up |-> <<>>, down |-> <<>>, broken |-> FALSE]]
    /\ root_exists = scene.server.root_exists
    /\ host_fail = [s \in Sources |-> 0] /\ host_until = [s \in Sources |-> 0] /\ now = 1
    /\ served = [c \in Conns |-> "no"]
    /\ punished = [s \in Sources |-> 0] /\ raced = [s \in Sources |-> FALSE]
---------------------------------------------------------------------------
(* The wire.  Frames arrive in order; a broken connection delivers none.   *)

Wired(l, f) == IF l.broken THEN <<>> ELSE f
ToChild(c, f) == link' = [link EXCEPT ![c].up = Wired(link[c], Append(@, f))]
ToClient(c, f) == link' = [link EXCEPT ![c].down = Wired(link[c], Append(@, f))]
Consume(c) == link' = [link EXCEPT ![c].up = Tail(@)]
Reply(c, f) == link' = [link EXCEPT ![c].up = Tail(@), ![c].down = Wired(link[c], Append(@, f))]

(* A read that finds the connection closed, or the peer silent past the    *)
(* deadline.                                                               *)
ClientAtEof(c) == link[c].down = <<>> /\ (child[c] = "closed" \/ link[c].broken)
BadChildAtEof(c) == link[c].up = <<>> /\ (client[c] = "done" \/ link[c].broken)
ChildAtEof(c) == link[c].up = <<>> /\ (client[c] \in {"done", "stalled"} \/ link[c].broken)
---------------------------------------------------------------------------
(* The client.                                                             *)

Go(c, pc) == client' = [client EXCEPT ![c] = pc]
Exit(c, n) == client' = [client EXCEPT ![c] = "done"] /\ code' = [code EXCEPT ![c] = n]
serverside == <<child, sconf, root_exists, registry, served, punished, raced>>

(* One turn of the loop of parse_args. *)
ReadArgument(c) ==
    /\ client[c] = "parse" /\ free[c] > 0
    /\ \E a \in Args : conf' = [conf EXCEPT ![c] = ReadArg(@, a)]
    /\ free' = [free EXCEPT ![c] = @ - 1]
    /\ IF Refused(conf'[c]) THEN Exit(c, conf'[c].exit) ELSE UNCHANGED <<client, code>>
    /\ UNCHANGED <<scene, link, serverside, now>>

(* main between parse_args and the transfer. *)
Prepare(c) ==
    /\ client[c] = "parse"
    /\ conf' = [conf EXCEPT ![c] = Prepared(@, Line(c))]
    /\ CASE Refused(conf'[c]) -> Exit(c, conf'[c].exit)
         [] ~Refused(conf'[c]) /\ LocalRun(conf'[c]) -> Exit(c, 0)
         [] OTHER -> Go(c, "connect") /\ UNCHANGED code
    /\ UNCHANGED <<scene, free, link, serverside, now>>

(* connect_transfer_client, then config_send_wire_block.  The connection   *)
(* fails when the two ends do not speak the same transport, or, in a scene *)
(* with faults, for a reason of the network's.                             *)
SameTransport(c) ==
    IF conf[c].transport = "ssh" THEN server.kind = "stdio"
    ELSE server.kind # "stdio" /\ (("use_tls" \in conf[c].on) <=> server.tls)
Connect(c) ==
    /\ client[c] = "connect" /\ SameTransport(c)
    /\ Go(c, "verdict") /\ child' = [child EXCEPT ![c] = "config"]
    /\ ToChild(c, "config")
    /\ UNCHANGED <<scene, conf, free, code, sconf, root_exists, registry, now, history>>
ConnectFails(c) ==
    /\ client[c] = "connect" /\ (scene.faults \/ ~SameTransport(c))
    /\ Exit(c, 1)
    /\ UNCHANGED <<scene, conf, free, link, serverside, now>>

(* The status config_send waits for, the exchange of client_auth_exchange, *)
(* the greeting of receive_daemon_motd (its loss is not fatal), and the    *)
(* transfer.  --write-batch writes its file after a successful transfer.   *)
Welcome(c) == IF conf[c].module # "none" THEN "motd" ELSE "send"
Reaction(c, f) ==
    CASE client[c] = "verdict" /\ f = "OK" -> {Welcome(c)}
      [] client[c] = "verdict" /\ f = "AUTH_CHALLENGE" /\ "auth_user" \in conf[c].on -> {"prove"}
      [] client[c] = "proof" /\ f = "AUTH_OK" -> {"accept"}
      [] client[c] = "accept" /\ f = "OK" -> {Welcome(c)}
      [] client[c] = "motd" -> {"send"}
      [] client[c] = "outcome" /\ f = "SUCCESS" ->
           {"success"} \cup When("write_batch" \in conf[c].on, {"failure"})
      [] OTHER -> {"failure"}
Reading == {"verdict", "proof", "accept", "motd", "outcome"}
Follow(c, f) ==
    \E pc \in Reaction(c, f) :
        CASE pc = "success" -> Exit(c, 0)
          [] pc = "failure" -> Exit(c, 1)
          [] OTHER -> Go(c, pc) /\ UNCHANGED code
ReadFrame(c) ==
    /\ client[c] \in Reading /\ link[c].down # <<>>
    /\ Follow(c, Head(link[c].down))
    /\ link' = [link EXCEPT ![c].down = Tail(@)]
    /\ UNCHANGED <<scene, conf, free, serverside, now>>
ReadFails(c) ==
    /\ client[c] \in Reading /\ ClientAtEof(c)
    /\ Follow(c, "EOF")
    /\ UNCHANGED <<scene, conf, free, link, serverside, now>>

(* The proof the server asked for, and the files. *)
Answer(c) ==
    /\ client[c] \in {"prove", "send"}
    /\ Go(c, IF client[c] = "prove" THEN "proof" ELSE "outcome")
    /\ ToChild(c, IF client[c] = "prove" THEN Peer(c).secret ELSE "files")
    /\ UNCHANGED <<scene, conf, free, code, serverside, now>>
---------------------------------------------------------------------------
(* The server's child: the module gate.                                    *)

At(c, pc) == child' = [child EXCEPT ![c] = pc]
Refuse(c) == At(c, "closed") /\ ToClient(c, "ERROR")
clientside == <<scene, client, conf, free, code>>

(* config_receive_with_validate up to its callback. *)
ReceiveConfig(c) ==
    /\ child[c] = "config" /\ link[c].up # <<>>
    /\ sconf' = [sconf EXCEPT ![c] = Received(conf[c])]
    /\ IF ValidReceived(sconf'[c])
       THEN At(c, "gate") /\ Consume(c)
       ELSE At(c, "closed") /\ Reply(c, "ERROR")
    /\ UNCHANGED <<clientside, root_exists, registry, now, history>>

(* The operator's veto, and a privileged listener that was not opted in.   *)
SuperVetoed == server.no_super \/ (server.kind # "daemon" /\ server.root /\ ~server.allow_super)

(* identity_copy_as_refused on the effective configuration, and a charset  *)
(* conversion this server cannot perform.                                  *)
CannotHonour(c) ==
    \/ /\ "copy_as_set" \in sconf[c].on
       /\ ~server.root \/ SuperVetoed \/ sconf[c].super_mode = "OFF"
    \/ "iconv_spec" \in sconf[c].on /\ ~server.iconv_ok

(* module_gate_lookup_module *)
LookupModule(c) ==
    /\ sconf[c].module = server.module.name
    /\ server.module.read_only => "dry_run" \in sconf[c].on

(* daemon_hosts_allowed; module_gate_check_hosts fails closed. *)
HostsAllowed(acl, source) == source \notin acl.deny /\ (acl.allow # {} => source \in acl.allow)
CheckHosts(c) ==
    \A acl \in {server.acl, server.module.acl} :
        acl.allow \cup acl.deny # {} =>
            Peer(c).source # "unknown" /\ HostsAllowed(acl, Peer(c).source)

(* identity_explicit_ownership_requested, module_gate_check_ownership *)
ExplicitOwnership(r) ==
    \/ r.on \cap {"numeric_ids", "chown_uid_set", "chown_gid_set", "usermap", "groupmap",
                  "copy_as_set", "fake_super"} # {}
    \/ r.super_mode = "ON"
CheckOwnership(c) == server.module.client_owner \/ ~ExplicitOwnership(sconf[c])

(* server_module_gate down to the authentication.  A daemon's caps may     *)
(* turn the connection away.  The child keeps the veto in its copy of the  *)
(* configuration, where nothing reads it before server_accept_config.      *)
Overridden(r, veto) == IF veto THEN [r EXCEPT !.super_mode = "OFF"] ELSE r
ModuleGate(c) ==
    /\ child[c] = "gate"
    /\ IF server.kind = "daemon"
       THEN IF ~CannotHonour(c) /\ LookupModule(c) /\ CheckHosts(c) /\ CheckOwnership(c)
            THEN /\ At(c, IF server.module.auth THEN "locked" ELSE "root") /\ UNCHANGED link
                 /\ sconf' = [sconf EXCEPT ![c] =
                                Overridden(@, SuperVetoed \/ ~server.module.client_owner)]
            ELSE Refuse(c) /\ UNCHANGED sconf
       ELSE IF ~CannotHonour(c) /\ sconf[c].module = "none"
            THEN /\ At(c, "accept") /\ UNCHANGED link
                 /\ sconf' = [sconf EXCEPT ![c] = Overridden(@, SuperVetoed)]
            ELSE Refuse(c) /\ UNCHANGED sconf
    /\ UNCHANGED <<clientside, root_exists, registry, now, history>>
CapReached(c) ==
    /\ child[c] = "gate" /\ server.kind = "daemon" /\ server.capped
    /\ ~CannotHonour(c) /\ LookupModule(c) /\ CheckHosts(c)
    /\ Refuse(c)
    /\ UNCHANGED <<clientside, sconf, root_exists, registry, now, history>>
---------------------------------------------------------------------------
(* module_gate_authenticate and the registry of daemon_limits.c.  Loopback *)
(* and unknown peers are not counted.                                      *)

Counted(c) == Peer(c).source \in Sources
Source(c) == Peer(c).source

(* A failure was recorded after the counter was cleared, or a lockout      *)
(* stored after the deadline was read.                                     *)
Overtaken(s) == host_fail[s] # 0 \/ host_until[s] > now

(* daemon_limits_auth_locked: the load, and the two stores that clear a    *)
(* lockout that has expired.                                               *)
AuthLocked(c) ==
    /\ child[c] = "locked"
    /\ CASE Counted(c) /\ host_until[Source(c)] > now -> Refuse(c)
         [] Counted(c) /\ host_until[Source(c)] # 0 /\ host_until[Source(c)] <= now ->
              At(c, "clear_fail") /\ UNCHANGED link
         [] OTHER -> At(c, "policy") /\ UNCHANGED link
    /\ UNCHANGED <<clientside, sconf, root_exists, registry, now, history>>
ClearFail(c) ==
    /\ child[c] = "clear_fail" /\ At(c, "clear_until")
    /\ host_fail' = [host_fail EXCEPT ![Source(c)] = 0]
    /\ UNCHANGED <<clientside, sconf, link, root_exists, host_until, now, history>>
ClearUntil(c) ==
    /\ child[c] = "clear_until" /\ At(c, "policy")
    /\ host_until' = [host_until EXCEPT ![Source(c)] = 0]
    /\ raced' = [raced EXCEPT ![Source(c)] = @ \/ Overtaken(Source(c))]
    /\ UNCHANGED <<clientside, sconf, link, root_exists, host_fail, now, served, punished>>

(* Credentials travel over verified TLS with the required name, or over a  *)
(* plaintext loopback connection the operator allowed.  Without a user     *)
(* name the failure needs no challenge.                                    *)
TransportTrusted(c) ==
    \/ server.tls /\ server.cn_required /\ Peer(c).cn
    \/ server.allow_unauthenticated /\ ~server.tls /\ Peer(c).source = "loopback"
Challenge(c) ==
    /\ child[c] = "policy"
    /\ CASE ~TransportTrusted(c) -> Refuse(c)
         [] TransportTrusted(c) /\ "auth_user" \notin sconf[c].on ->
              At(c, "failed") /\ ToClient(c, "AUTH_FAILED")
         [] OTHER -> At(c, "response") /\ ToClient(c, "AUTH_CHALLENGE")
    /\ UNCHANGED <<clientside, sconf, root_exists, registry, now, history>>

(* The rest of server_auth_handshake.  The success frame may fail to reach *)
(* a connection that is gone, and then the attempt is a failure.           *)
CheckResponse(c) ==
    /\ child[c] = "response" /\ link[c].up # <<>>
    /\ IF Head(link[c].up) = "right"
       THEN At(c, "reset_fail") /\ Reply(c, "AUTH_OK")
       ELSE At(c, "failed") /\ Reply(c, "AUTH_FAILED")
    /\ UNCHANGED <<clientside, sconf, root_exists, registry, now, history>>
SuccessUnsent(c) ==
    /\ child[c] = "response" /\ link[c].up # <<>> /\ Head(link[c].up) = "right"
    /\ link[c].broken
    /\ At(c, "failed") /\ Consume(c)
    /\ UNCHANGED <<clientside, sconf, root_exists, registry, now, history>>
ResponseMissing(c) ==
    /\ child[c] = "response" /\ ChildAtEof(c)
    /\ At(c, "failed") /\ ToClient(c, "AUTH_FAILED")
    /\ UNCHANGED <<clientside, sconf, root_exists, registry, now, history>>

(* daemon_limits_auth_record_failure: the increment, then the store of the *)
(* lockout once the threshold is reached.  The failure has been answered:  *)
(* the sentinel the gate returns keeps config_receive_with_validate from   *)
(* sending a second status.                                                *)
BadLocksOut(failures) == failures > server.threshold
LocksOut(failures) == failures >= server.threshold
RecordFailure(c) ==
    /\ child[c] = "failed"
    /\ IF Counted(c)
       THEN /\ host_fail' = [host_fail EXCEPT ![Source(c)] = @ + 1]
            /\ At(c, IF LocksOut(host_fail'[Source(c)]) THEN "lock" ELSE "terminated")
       ELSE At(c, "terminated") /\ UNCHANGED host_fail
    /\ UNCHANGED <<clientside, sconf, link, root_exists, host_until, now, history>>
Lock(c) ==
    /\ child[c] = "lock" /\ At(c, "terminated")
    /\ host_until' = [host_until EXCEPT ![Source(c)] = now + Duration]
    /\ punished' = [punished EXCEPT ![Source(c)] = now + Duration]
    /\ raced' = [raced EXCEPT ![Source(c)] = FALSE]
    /\ UNCHANGED <<clientside, sconf, link, root_exists, host_fail, now, served>>

BadTerminated(c) ==
    /\ child[c] = "terminated" /\ Refuse(c)
    /\ UNCHANGED <<clientside, sconf, root_exists, registry, now, history>>
Terminated(c) ==
    /\ child[c] = "terminated" /\ At(c, "closed")
    /\ UNCHANGED <<clientside, sconf, link, root_exists, registry, now, history>>

(* daemon_limits_auth_record_success *)
ResetFail(c) ==
    /\ child[c] = "reset_fail" /\ At(c, "reset_until")
    /\ host_fail' = [s \in Sources |-> IF s = Source(c) THEN 0 ELSE host_fail[s]]
    /\ UNCHANGED <<clientside, sconf, link, root_exists, host_until, now, history>>
ResetUntil(c) ==
    /\ child[c] = "reset_until" /\ At(c, "root")
    /\ host_until' = [s \in Sources |-> IF s = Source(c) THEN 0 ELSE host_until[s]]
    /\ punished' = [s \in Sources |-> IF s = Source(c) THEN 0 ELSE punished[s]]
    /\ raced' = [s \in Sources |-> raced[s] \/ (s = Source(c) /\ Overtaken(s))]
    /\ UNCHANGED <<clientside, sconf, link, root_exists, host_fail, now, served>>

(* module_gate_install_root, then the status that accepts the connection.  *)
InstallRoot(c) ==
    /\ child[c] = "root"
    /\ IF server.module.path_ok THEN At(c, "accept") /\ UNCHANGED link ELSE Refuse(c)
    /\ UNCHANGED <<clientside, sconf, root_exists, registry, now, history>>
Accept(c) ==
    /\ child[c] = "accept" /\ At(c, "gates") /\ ToClient(c, "OK")
    /\ UNCHANGED <<clientside, sconf, root_exists, registry, now, history>>
---------------------------------------------------------------------------
(* The phases of handler after the configuration was accepted.  A refusal  *)
(* from here on only closes the connection.                                *)

(* server_apply_security_gates *)
GatesPass(c) ==
    /\ server.allow_unauthenticated \/ server.tls
    /\ server.tls /\ server.cn_required => Peer(c).cn
    /\ Peer(c).path # "outside" /\ (server.kind = "daemon" => Peer(c).path # "absolute")
SecurityGates(c) ==
    /\ child[c] = "gates"
    /\ IF GatesPass(c)
       THEN /\ At(c, "prepare")
            /\ sconf' = [sconf EXCEPT ![c].on =
                           @ \ When(~server.allow_delete, {"use_delete", "force_delete"})]
       ELSE At(c, "closed") /\ UNCHANGED sconf
    /\ UNCHANGED <<clientside, link, root_exists, registry, now, history>>

(* server_prepare_session: the last deletion policy, the destination root  *)
(* (a dry run only looks at it), and the daemon's greeting.  Setting up    *)
(* the staging directory or the identities may fail.                       *)
RootReady(c) ==
    \/ root_exists
    \/ "mkpath" \in sconf[c].on /\ "dry_run" \notin sconf[c].on
Greet(c) == IF server.kind = "daemon" THEN ToClient(c, "MOTD") ELSE UNCHANGED link
PrepareSession(c) ==
    /\ child[c] = "prepare"
    /\ sconf' = [sconf EXCEPT ![c].on =
                   @ \ When(~server.allow_delete, {"delete_missing_args"})]
    /\ root_exists' = RootReady(c)
    /\ IF RootReady(c) THEN At(c, "serve") /\ Greet(c) ELSE At(c, "closed") /\ UNCHANGED link
    /\ UNCHANGED <<clientside, registry, now, history>>
PrepareFails(c) ==
    /\ child[c] = "prepare" /\ RootReady(c)
    /\ server.fragile
    /\ root_exists' = TRUE /\ At(c, "closed")
    /\ UNCHANGED <<clientside, sconf, link, registry, now, history>>

(* server_run_transfer: the files arrive and are stored, or the transfer   *)
(* fails, or the connection does.                                          *)
Serve(c) ==
    /\ child[c] = "serve" /\ link[c].up # <<>>
    /\ At(c, "closed")
    /\ \E ok \in BOOLEAN :
          /\ served' = [served EXCEPT ![c] = IF ok THEN "stored" ELSE "failed"]
          /\ Reply(c, IF ok THEN "SUCCESS" ELSE "ERROR")
    /\ UNCHANGED <<clientside, sconf, root_exists, registry, now, punished, raced>>
PeerLost(c) ==
    /\ child[c] \in {"config", "serve"} /\ ChildAtEof(c)
    /\ At(c, "closed")
    /\ UNCHANGED <<clientside, sconf, link, root_exists, registry, now, history>>
---------------------------------------------------------------------------
(* Faults and time, as far as the scene has them. *)

Break(c) ==
    /\ scene.faults /\ child[c] \notin {"none", "closed"} /\ ~link[c].broken
    /\ \E frames \in {link[c].up, <<>>} :
          link' = [link EXCEPT ![c] = [up |-> frames, down |-> <<>>, broken |-> TRUE]]
    /\ UNCHANGED <<clientside, serverside, now>>
Stall(c) ==
    /\ scene.faults /\ client[c] \in Reading
    /\ Go(c, "stalled")
    /\ UNCHANGED <<scene, conf, free, code, link, serverside, now>>
Tick ==
    /\ now < scene.clock /\ now' = now + 1
    /\ UNCHANGED <<clientside, link, serverside>>
---------------------------------------------------------------------------
ParseStep(c) == ReadArgument(c) \/ Prepare(c)
ClientStep(c) ==
    Connect(c) \/ ConnectFails(c) \/ ReadFrame(c) \/ ReadFails(c) \/ Answer(c)
Authenticate(c) ==
    \/ AuthLocked(c) \/ ClearFail(c) \/ ClearUntil(c) \/ Challenge(c)
    \/ CheckResponse(c) \/ SuccessUnsent(c) \/ ResponseMissing(c)
    \/ RecordFailure(c) \/ Lock(c) \/ Terminated(c) \/ ResetFail(c) \/ ResetUntil(c)
ChildStep(c) ==
    \/ ReceiveConfig(c) \/ ModuleGate(c) \/ CapReached(c) \/ Authenticate(c)
    \/ InstallRoot(c) \/ Accept(c) \/ SecurityGates(c)
    \/ PrepareSession(c) \/ PrepareFails(c) \/ Serve(c) \/ PeerLost(c)

Ended(c) == client[c] \in {"absent", "done", "stalled"} /\ child[c] \in {"none", "closed"}
Over == (\A c \in Conns : Ended(c)) /\ UNCHANGED vars

Next ==
    \/ \E c \in Conns : ParseStep(c) \/ ClientStep(c) \/ ChildStep(c) \/ Break(c) \/ Stall(c)
    \/ Tick \/ Over
Spec == Init /\ [][Next]_vars

(* Processes that can run do, and the deadlines of the server's reads      *)
(* expire; nothing is assumed of faults, nor of the clock.                 *)
FairSpec == Spec /\ WF_vars(\E c \in Conns : ClientStep(c) \/ ChildStep(c))
---------------------------------------------------------------------------
(* The properties.                                                         *)

(* A configuration that validate_config lets through is never refused by   *)
(* the receiver's own checks of it: "so the client and the server can      *)
(* never disagree" (client_validation.c).  The two ends evaluate the same  *)
(* predicate on different records: the frame drops, derives and clamps     *)
(* members on the way.                                                     *)
AgreeOnConfig ==
    \A c \in Conns :
        client[c] \notin {"absent", "parse"} /\ ~Refused(conf[c]) => ValidReceived(Received(conf[c]))

(* What a command line means does not depend on the order of its options   *)
(* unless one takes back what the other sets, or both give a value to the  *)
(* same member; --no-perms and --no-times, read last, hold against every   *)
(* default that another option implies (cli_finalize_config).              *)
Valued == {"no", "super", "zc", "zl", "cc", "chunk", "block", "delta_max", "max_del", "max_alloc"}
TakenBack(a) ==
    CASE a[1] # "no" -> {} [] a[1] = "no" /\ a[2] = "--preserve" -> Attributes [] OTHER -> {a[2]}
Independent(a, b) ==
    /\ ~(a[1] = b[1] /\ a[1] \in Valued)
    /\ TakenBack(a) \cap ReadArg(Defaults, b).on = {}
    /\ TakenBack(b) \cap ReadArg(Defaults, a).on = {}
    /\ \A x \in {a, b} : x[1] = "chown" => "stranger" \notin {x[2][1], x[2][2]}
SameMeaning(d, e) == d = e \/ (Refused(d) /\ Refused(e))
OptionsCompose ==
    \A c \in Conns :
        client[c] = "parse" /\ free[c] > 0 =>
            /\ \A a, b \in Args : Independent(a, b) =>
                  SameMeaning(ReadArg(ReadArg(conf[c], a), b), ReadArg(ReadArg(conf[c], b), a))
            /\ \A f \in {"preserve_perms", "preserve_times"} :
                  f \notin Prepared(ReadArg(conf[c], <<"no", f>>), Line(c)).on

(* What the server serves: deletion, super-user activities, client-chosen  *)
(* owners, a read-only module and a module with users only with the        *)
(* operator's consent, whatever the client asked for; every other option   *)
(* is the client's own.                                                    *)
Deletions == {"use_delete", "force_delete", "delete_missing_args"}
WithinPolicy(c) ==
    LET r == sconf[c]
        m == server.module
    IN /\ r.on \cap Deletions # {} => server.allow_delete
       /\ r.super_mode # "OFF" =>
            ~server.no_super /\ (IF server.kind = "daemon" THEN m.client_owner
                                 ELSE ~server.root \/ server.allow_super)
       /\ "copy_as_set" \in r.on => server.root /\ r.super_mode # "OFF"
       /\ server.kind = "daemon" =>
            /\ m.read_only => "dry_run" \in conf[c].on
            /\ m.auth => Peer(c).secret = "right" /\ "auth_user" \in conf[c].on
            /\ Peer(c).source \notin server.acl.deny \cup m.acl.deny
       /\ r.on \cup Deletions = Received(conf[c]).on \cup Deletions
       /\ r.on \subseteq Received(conf[c]).on

(* What each state of the client may find on the wire. *)
Expected(pc) ==
    CASE pc = "verdict" -> {"OK", "ERROR", "AUTH_CHALLENGE", "AUTH_FAILED"}
      [] pc = "proof" -> {"AUTH_OK", "AUTH_FAILED"}
      [] pc = "accept" -> {"OK", "ERROR"}
      [] pc = "motd" -> {"MOTD"}
      [] OTHER -> {"SUCCESS", "ERROR"}
Terminal == {"ERROR", "AUTH_FAILED", "SUCCESS"}

(* The client exits with 0 exactly when the server stored its files, the   *)
(* two ends stay in step on the wire with one terminal status at most, and *)
(* whatever is served is within the server's policy.                       *)
VerdictsMatch ==
    \A c \in Conns :
        /\ code[c] = 0 => LocalRun(conf[c]) \/ served[c] = "stored"
        /\ served[c] = "stored" /\ client[c] = "done" /\ ~link[c].broken
              => code[c] = 0 \/ "write_batch" \in conf[c].on
        /\ client[c] \in Reading /\ link[c].down # <<>> => Head(link[c].down) \in Expected(client[c])
        /\ \A i, j \in DOMAIN link[c].down :
              {link[c].down[i], link[c].down[j]} \subseteq Terminal => i = j
        /\ child[c] = "serve" \/ served[c] # "no" => WithinPolicy(c)

(* A source that failed too often stays locked out for Duration: when the  *)
(* threshold is reached the deadline is stored or about to be, the         *)
(* deadline stored last is the one in force, and no child passes the check *)
(* before it.  The registry's separate stores leave one gap, kept in       *)
(* "raced": clearing a record while another child records a failure.       *)
LockoutStored ==
    \A s \in Sources : ~raced[s] =>
        /\ host_fail[s] >= server.threshold =>
             host_until[s] # 0 \/ \E c \in Conns : Source(c) = s /\ child[c] = "lock"
        /\ punished[s] > now => host_until[s] = punished[s]
LockoutRespected ==
    \A c \in Conns :
        child[c] = "locked" /\ child'[c] # "locked" /\ Counted(c) /\ punished[Source(c)] > now
           => child'[c] = "closed" \/ raced[Source(c)]
LockoutHolds == [][LockoutStored' /\ LockoutRespected]_vars

(* Every connection that a client sets out to make ends: no child waits    *)
(* for a client that is gone or silent, no client for a child that has     *)
(* refused it.                                                             *)
HandshakeEnds == \A c \in Conns : client[c] = "connect" ~> Ended(c)
=============================================================================
