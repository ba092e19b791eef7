---------------------------- MODULE MCHandshake ----------------------------
(* Handshake for TLC. *)
EXTENDS Handshake
LOCAL INSTANCE SequencesExt

NoAcl == [allow |-> {}, deny |-> {}]
Share == [name |-> "share", read_only |-> FALSE, client_owner |-> FALSE, auth |-> FALSE,
          path_ok |-> TRUE, acl |-> NoAcl]
Listener == [kind |-> "listener", tls |-> FALSE, cn_required |-> FALSE, root |-> FALSE,
             no_super |-> FALSE, allow_super |-> FALSE, allow_delete |-> TRUE,
             allow_unauthenticated |-> TRUE, iconv_ok |-> TRUE, root_exists |-> TRUE,
             capped |-> FALSE, fragile |-> FALSE, acl |-> NoAcl, module |-> Share,
             threshold |-> 2]
Daemon == [Listener EXCEPT !.kind = "daemon"]
TlsDaemon == [Daemon EXCEPT !.tls = TRUE, !.cn_required = TRUE, !.module.auth = TRUE]

(* The configuration after the arguments of a sequence. *)
Read(args) == FoldLeft(ReadArg, Defaults, args)

Env == [codec |-> "zstd", checksum |-> "xxh128"]
Path == [form |-> "path", module |-> "none", loopback |-> FALSE]
ToShare == [form |-> "daemon", module |-> "share", loopback |-> FALSE]
Command(dest) == [positional |-> 2, env_dirs |-> FALSE, env |-> Env, dest |-> dest,
                  secret_readable |-> TRUE]
Remote == [source |-> "far", cn |-> TRUE, secret |-> "right", path |-> "relative"]
Caller(args, n, dest) ==
    [start |-> Read(args), free |-> n, line |-> Command(dest), peer |-> Remote]
Alone(srv, caller, faults) ==
    [server |-> srv, conns |-> {"c1"}, client |-> [c \in Conns |-> caller], faults |-> faults,
     clock |-> 1]

Table(F) == {<<"table", f>> : f \in F}
(* The arguments that interact. *)
MCArgs ==
    Table({"use_delete", "delete_before", "delete_after", "use_incremental", "use_delta",
           "whole_file", "fuzzy", "checksum", "ignore_existing", "append", "inplace",
           "partial_dir", "delay_updates", "preserve_hard_links", "preserve_acls",
           "preserve_atimes", "update", "itemize_changes", "dry_run", "write_batch",
           "only_write_batch", "backup_dir", "numeric_ids", "delete_missing_args", "stats",
           "frobnicate"})
    \cup {<<"meta", f>> : f \in {"-a", "-P", "-D", "--preserve", "preserve_owner", "use_sendfile",
                                 "use_chunk_serialization", "use_executability"}}
    \cup {<<"valued", f>> : f \in {"skip_compress_set", "compression_threads", "basis_dirs",
                                   "copy_as_set", "iconv_invalid", "backup_dir_reserved",
                                   "many_filters"}}
    \cup {<<"no", f>> : f \in {"--preserve", "preserve_perms", "preserve_times", "use_delta",
                               "use_incremental", "use_delete", "use_compression", "rsync"}}
    \cup {<<"super", "ON">>, <<"super", "OFF">>, <<"-z", "">>, <<"usermap", "">>,
          <<"chown", <<"known", "absent">>>>, <<"chown", <<"stranger", "known">>>>,
          <<"cc", <<"none", "none">>>>, <<"cc", <<"md5", "md5">>>>}
    \cup {<<"zc", k>> : k \in {"lz4", "none", "brotli"}}
    \cup {<<"zl", n>> : n \in {0, 12}}
    \cup {<<"chunk", n>> : n \in {0, 2}} \cup {<<"block", 9>>, <<"delta_max", 9>>}
    \cup {<<"max_del", -5>>, <<"max_alloc", 0>>}

(* One client gives any two of them, after none or after -i, to a listener *)
(* that accepts whatever is sound.                                         *)
Lines == {Alone(Listener, Caller(args, 2, Path), FALSE) : args \in {<<>>, <<<<"table", "use_incremental">>>>}}

(* One client asks a server, each with one feature at a time: who is       *)
(* admitted, to what, and what a fault leaves behind.                      *)
Asks == {<<>>, <<<<"meta", "-a">>>>, <<<<"table", "use_delete">>, <<"table", "force_delete">>>>,
         <<<<"table", "delete_missing_args">>, <<"table", "mkpath">>>>,
         <<<<"table", "dry_run">>, <<"table", "server_host">>, <<"table", "mkpath">>>>,
         <<<<"super", "ON">>>>, <<<<"super", "OFF">>, <<"valued", "copy_as_set">>>>,
         <<<<"valued", "copy_as_set">>>>, <<<<"table", "iconv_spec">>>>,
         <<<<"chown", <<"known", "absent">>>>>>, <<<<"table", "write_batch">>>>}
Tls == <<<<"table", "use_tls">>, <<"table", "tls_cert">>, <<"table", "tls_key">>, <<"table", "tls_ca">>>>
Login == Tls \o <<<<"table", "password_file">>>>

Servers ==
    {Listener, Daemon, [Listener EXCEPT !.root = TRUE],
     [Listener EXCEPT !.root = TRUE, !.allow_super = TRUE],
     [Listener EXCEPT !.root = TRUE, !.allow_super = TRUE, !.no_super = TRUE],
     [Listener EXCEPT !.allow_delete = FALSE, !.iconv_ok = FALSE, !.root_exists = FALSE],
     [Listener EXCEPT !.allow_unauthenticated = FALSE],
     [Daemon EXCEPT !.root = TRUE], [Daemon EXCEPT !.root = TRUE, !.module.client_owner = TRUE],
     [Daemon EXCEPT !.module.read_only = TRUE], [Daemon EXCEPT !.allow_delete = FALSE],
     [Daemon EXCEPT !.module.path_ok = FALSE], [Daemon EXCEPT !.module.name = "other"],
     [Daemon EXCEPT !.root_exists = FALSE, !.fragile = TRUE, !.capped = TRUE],
     [Daemon EXCEPT !.acl.deny = {"far"}], [Daemon EXCEPT !.module.acl.allow = {"near"}],
     [Daemon EXCEPT !.acl.allow = {"far"}]}
Admission ==
    {Alone(srv, Caller(args, 0, IF srv.kind = "daemon" THEN ToShare ELSE Path), FALSE) :
        srv \in Servers, args \in Asks}
    \cup {Alone(srv, [Caller(<<>>, 0, dest) EXCEPT !.peer.path = path, !.peer.source = src], TRUE) :
        srv \in {Listener, Daemon, [Daemon EXCEPT !.acl.deny = {"near"}]}, dest \in {Path, ToShare},
        path \in {"relative", "absolute", "outside"}, src \in {"far", "unknown"}}
    \cup {Alone([Listener EXCEPT !.kind = "stdio"], Caller(args, 0, [Path EXCEPT !.form = form]), TRUE) :
        args \in {<<>>, <<<<"valued", "remote_options">>>>}, form \in {"ssh", "path", "malformed"}}

(* One client authenticates, over TLS or on the loopback. *)
Logins ==
    {Alone(srv, [Caller(args, 0, ToShare) EXCEPT !.peer.cn = cn, !.peer.secret = secret], TRUE) :
        srv \in {TlsDaemon, [TlsDaemon EXCEPT !.cn_required = FALSE], [TlsDaemon EXCEPT !.module.auth = FALSE]},
        args \in {Tls, Login, <<>>}, cn \in BOOLEAN, secret \in {"right", "wrong"}}
    \cup {Alone(srv, [Caller(<<<<"table", "password_file">>>>, 0, [ToShare EXCEPT !.loopback = TRUE])
                        EXCEPT !.peer.source = src, !.peer.secret = secret], FALSE) :
        srv \in {[Daemon EXCEPT !.module.auth = TRUE, !.allow_unauthenticated = allowed] : allowed \in BOOLEAN},
        src \in {"loopback", "far"}, secret \in {"right", "wrong"}}

(* Several clients of one source fail and succeed, while time passes. *)
Crowd(n, good) ==
    [server |-> [TlsDaemon EXCEPT !.threshold = n], conns |-> Conns, faults |-> FALSE, clock |-> 3,
     client |-> [c \in Conns |-> [Caller(Login, 0, ToShare) EXCEPT
                   !.peer.secret = IF c \in good THEN "right" ELSE "wrong"]]]
Lockouts == {Crowd(1, {}), Crowd(2, {"c3"})}

MCScenes == Lines \cup Admission \cup Logins \cup Lockouts
===========================================================================
