---------------------------- MODULE ClientConfig ----------------------------
(***************************************************************************)
(* From a command line to the configuration both ends run on: the client   *)
(* parses its arguments (client/client_cli.c), derives what they imply,    *)
(* validates the result (client/client_validation.c) and serialises it;    *)
(* the server rebuilds it and validates it again (shared/config.c).        *)
(*                                                                         *)
(* A configuration is a record.  Its field "on" is the set of the names of *)
(* the Boolean members that are true and of the strings and lists that are *)
(* set, the parser's own bookkeeping included; the members whose value     *)
(* matters have a field each.  An argument is a pair <<kind, value>>: the  *)
(* spellings and aliases of an option are one argument here.  The field    *)
(* "exit" is the exit code of a command line that was refused, else 0; no  *)
(* stage of main goes on after a refusal.                                  *)
(*                                                                         *)
(* Faulty variants, named Bad..., stand before the definition they are a   *)
(* plausible slip of; the README says which property finds each of them.   *)
(***************************************************************************)
EXTENDS Integers, Sequences, FiniteSets

CONSTANTS MaxChunkSize,               \* MAX_CHUNK_SIZE
          BlockSizeMin, BlockSizeMax, \* DELTA_BLOCK_SIZE_MIN, _MAX
          DeltaFileMin, DeltaFileMax, \* DELTA_MIN_FILE_SIZE, DELTA_MAX_FILE_SIZE
          MaxServerAlloc              \* MAX_SERVER_ALLOC

ASSUME SizesAssumption ==
    /\ MaxChunkSize \in Nat \ {0} /\ MaxServerAlloc \in Nat \ {0}
    /\ BlockSizeMin \in Nat /\ BlockSizeMax \in Nat /\ BlockSizeMin <= BlockSizeMax
    /\ DeltaFileMin \in Nat /\ DeltaFileMax \in Nat /\ DeltaFileMin <= DeltaFileMax

Codecs == {"zstd", "lz4", "zlib", "zlibx", "none"}
Checksums == {"xxh128", "xxh3", "xxh64", "md5", "md4", "sha1", "none"}
DeleteTimings == {"delete_before", "delete_during", "delete_delay", "delete_after"}
Attributes == {"preserve_perms", "preserve_times", "preserve_owner", "preserve_group"}
Batches == {"write_batch", "only_write_batch", "read_batch"}

When(b, F) == IF b THEN F ELSE {}

(* config_create: what a configuration is before any argument is read. *)
Defaults ==
    [on |-> {}, compress_choice |-> "unset", compression_algo |-> "zstd",
     compression_level |-> 5, checksum_algo |-> "xxh128", super_mode |-> "AUTO",
     transport |-> "tcp", module |-> "none", chunk_size |-> MaxChunkSize, delta_block_size |-> BlockSizeMin,
     delta_max_file_size |-> DeltaFileMax, max_alloc |-> MaxServerAlloc + 1,
     max_delete |-> -1, exit |-> 0]

Turn(c, F) == [c EXCEPT !.on = @ \cup F]
Fail(c, code) == [c EXCEPT !.exit = code]
Refused(c) == c.exit # 0
---------------------------------------------------------------------------
(* The arguments.                                                          *)

(* The flags, and the strings that are only present or absent, of the      *)
(* option table that another definition below reads.                       *)
TableFlags ==
    {"dry_run", "remove_source_files", "use_delete", "use_incremental", "size_only",
     "use_delta", "whole_file", "fuzzy", "save_to_disk", "show_progress", "use_tls",
     "backup", "stats", "partial", "update", "preserve_hard_links", "inplace", "append",
     "append_verify", "checksum", "itemize_changes", "out_format", "log_file_format",
     "existing", "ignore_existing", "delay_updates", "mkpath", "password_file",
     "iconv_spec", "delete_excluded", "force_delete", "ignore_missing_args",
     "delete_missing_args", "server_host", "tls_cert", "tls_key", "tls_ca", "backup_dir",
     "partial_dir", "address", "ipv4", "ipv6", "numeric_ids", "preserve_atimes",
     "preserve_crtimes", "preserve_devices", "preserve_specials", "copy_devices",
     "write_devices", "preserve_xattrs", "preserve_acls", "fake_super", "chmod_spec",
     "list_only", "send_directory", "receive_root_directory"}
    \cup DeleteTimings \cup Batches

(* What one option turns on besides its own member: the implications the   *)
(* parser applies at once.                                                 *)
TableOption(f) ==
    {f} \cup When(f \in DeleteTimings, {"use_delete"})
        \cup When(f = "delete_missing_args", {"ignore_missing_args"})
        \cup When(f = "preserve_acls", {"preserve_perms"})

(* The options outside the table: -P, -D, -a, --preserve and the single    *)
(* flags.                                                                  *)
OtherFlags ==
    Attributes \cup {"use_executability", "use_sendfile", "use_multithreading",
                     "use_chunk_serialization", "no_motd"}
MetaFlags == OtherFlags \cup {"-P", "-D", "-a", "--preserve"}
MetaFlag(b) ==
    CASE b = "-P" -> {"partial", "show_progress"}
      [] b = "-D" -> {"preserve_devices", "preserve_specials"}
      [] b = "-a" -> Attributes \cup {"follow_symlinks", "preserve_devices", "preserve_specials"}
      [] b = "--preserve" -> {"preserve_perms", "preserve_times"}
      [] OTHER -> {b}

(* Options with a value that only matters by being there.  Values that     *)
(* fail later, or that need something of the peer, have names of their     *)
(* own.                                                                    *)
TableValues == {"bad_version", "iconv_invalid", "backup_dir_reserved", "out_format_wire"}
ConnectionFlags == {"server_port", "log_file"}
FilterFlags == {"many_filters", "files_from", "bad_files_from"}
ReportFlags == {"info_del", "skip_compress_set"}
BasisFlags == {"remote_options", "basis_dirs", "copy_as_set"}
ValuedFlags ==
    TableValues \cup ConnectionFlags \cup FilterFlags \cup ReportFlags \cup BasisFlags
    \cup {"compression_threads"}
ValuedOption(f) ==
    CASE f = "iconv_invalid" -> {f, "iconv_spec"}
      [] f = "backup_dir_reserved" -> {f, "backup_dir"}
      [] f = "out_format_wire" -> {f, "out_format"}
      [] OTHER -> {f}

(* --no-NAME. *)
Negation(c, f) ==
    IF f = "--preserve"
    THEN [c EXCEPT !.on = (@ \ Attributes) \cup
             {"metadata_explicitly_disabled", "perms_explicit_off", "times_explicit_off"}]
    ELSE [c EXCEPT !.on = (@ \ ({f} \cup When(f = "iconv_spec", {"iconv_invalid"})))
             \cup When(f = "preserve_perms", {"perms_explicit_off"})
             \cup When(f = "preserve_times", {"times_explicit_off"})
             \cup When(f = "use_delta", {"no_delta"})
             \cup When(f = "use_incremental", {"no_incremental"})]

Negatable ==
    {"--preserve", "dry_run", "use_delete", "use_incremental", "use_delta", "whole_file",
     "fuzzy", "save_to_disk", "show_progress", "use_tls", "backup", "stats", "partial",
     "preserve_hard_links", "inplace", "checksum", "use_compression", "use_multithreading",
     "use_sendfile", "use_chunk_serialization", "preserve_xattrs", "preserve_acls",
     "fake_super", "iconv_spec"} \cup Attributes

(* --compress-choice and -z, which yields to an earlier choice of "none".  *)
CompressChoice(c, codec) ==
    IF codec \notin Codecs THEN Fail(c, 4)
    ELSE [c EXCEPT !.compress_choice = codec, !.compression_algo = codec,
                   !.on = (@ \ {"use_compression"}) \cup When(codec # "none", {"use_compression"})]
Compress(c) ==
    [c EXCEPT !.on = (@ \ {"use_compression"})
                     \cup When(c.compress_choice # "none", {"use_compression"})]
CompressLevel(c, n) ==
    IF n \notin 1..22 THEN Fail(c, 1)
    ELSE [Turn(c, {"compression_level_set"}) EXCEPT !.compression_level = n]

(* --checksum-choice=TRANSFER,PRE-TRANSFER. *)
ChecksumChoice(c, transfer, pre) ==
    IF {transfer, pre} \subseteq Checksums
    THEN [Turn(c, {"checksum_choice_set"} \cup When(transfer = "none", {"whole_file"}))
             EXCEPT !.checksum_algo = pre]
    ELSE Fail(c, 4)

(* --usermap, --groupmap, and --chown with an owner and a group, each      *)
(* absent, known to the sender, unknown to it, or an id out of range.      *)
(* --chown appends a map rule on each side it gives, and records the id    *)
(* when it can resolve it.                                                 *)
UserMap(c) ==
    IF "chown_uid_set" \in c.on THEN Fail(c, 1) ELSE Turn(c, {"usermap", "preserve_owner"})
GroupMap(c) ==
    IF "chown_gid_set" \in c.on THEN Fail(c, 1) ELSE Turn(c, {"groupmap", "preserve_group"})
Chown(c, owner, group) ==
    LET on == c.on \cup When(owner # "absent", {"usermap"}) \cup When(group # "absent", {"groupmap"})
                   \cup When(owner = "known", {"chown_uid_set"})
                   \cup When(group = "known", {"chown_gid_set"})
    IN IF \/ owner # "absent" /\ "usermap" \in c.on
          \/ group # "absent" /\ "groupmap" \in c.on
          \/ "out_of_range" \in {owner, group}
          \/ {owner, group} = {"absent"}
       THEN Fail(c, 1)
       ELSE Turn(c, on \cup When("chown_uid_set" \in on, {"preserve_owner"})
                       \cup When("chown_gid_set" \in on, {"preserve_group"}))

(* The numeric options: an error, a warning that keeps the default, or a   *)
(* clamp, as each of them does.                                            *)
ChunkSize(c, n) == IF n \in 1..MaxChunkSize THEN [c EXCEPT !.chunk_size = n] ELSE Fail(c, 1)
BlockSize(c, n) == IF n \in BlockSizeMin..BlockSizeMax THEN [c EXCEPT !.delta_block_size = n] ELSE c
DeltaMax(c, n) ==
    IF n \in DeltaFileMin..DeltaFileMax THEN [c EXCEPT !.delta_max_file_size = n]
    ELSE IF n < DeltaFileMin THEN c ELSE Fail(c, 1)
MaxDelete(c, n) == [c EXCEPT !.max_delete = IF n < 0 THEN -1 ELSE n]
MaxAlloc(c, n) == [c EXCEPT !.max_alloc = n]

(* The dispatch of parse_args: the first handler that knows the argument,  *)
(* or the error for an argument that none of them knows.                   *)
HandleFlag(c, kind, f) ==
    CASE kind = "table" /\ f \in TableFlags -> Turn(c, TableOption(f))
      [] kind = "meta" /\ f \in MetaFlags -> Turn(c, MetaFlag(f))
      [] kind = "valued" /\ f \in ValuedFlags -> Turn(c, ValuedOption(f))
      [] kind = "no" /\ f \in Negatable -> Negation(c, f)
      [] OTHER -> Fail(c, 1)
HandleArg(c, a) ==
    CASE a[1] \in {"table", "meta", "valued", "no"} -> HandleFlag(c, a[1], a[2])
      [] a[1] = "super"     -> [c EXCEPT !.super_mode = a[2]]
      [] a[1] = "-z"        -> Compress(c)
      [] a[1] = "zc"        -> CompressChoice(c, a[2])
      [] a[1] = "zl"        -> CompressLevel(c, a[2])
      [] a[1] = "cc"        -> ChecksumChoice(c, a[2][1], a[2][2])
      [] a[1] = "usermap"   -> UserMap(c)
      [] a[1] = "groupmap"  -> GroupMap(c)
      [] a[1] = "chown"     -> Chown(c, a[2][1], a[2][2])
      [] a[1] = "chunk"     -> ChunkSize(c, a[2])
      [] a[1] = "block"     -> BlockSize(c, a[2])
      [] a[1] = "delta_max" -> DeltaMax(c, a[2])
      [] a[1] = "max_del"   -> MaxDelete(c, a[2])
      [] a[1] = "max_alloc" -> MaxAlloc(c, a[2])
      [] OTHER              -> Fail(c, 1)

(* What reading arguments keeps true, whichever they are. *)
Parsed(c) ==
    /\ DOMAIN c = DOMAIN Defaults
    /\ c.compress_choice \in Codecs \cup {"unset"} /\ c.compression_algo \in Codecs
    /\ c.compression_level \in 1..22 /\ c.checksum_algo \in Checksums
    /\ c.chunk_size \in 1..MaxChunkSize /\ c.delta_block_size \in BlockSizeMin..BlockSizeMax
    /\ c.delta_max_file_size \in DeltaFileMin..DeltaFileMax
    /\ c.max_delete \in Int /\ c.max_delete >= -1
    /\ c.super_mode \in {"AUTO", "ON", "OFF"}

(* parse_args stops at the first argument that is refused. *)
ReadArg(c, a) == IF Refused(c) THEN c ELSE HandleArg(c, a)
---------------------------------------------------------------------------
(* cli_finalize_config: what the arguments imply once all are read.  env   *)
(* holds what the environment prefers: a codec and a checksum, or "bad"    *)
(* for a list that names none that is supported.                           *)

DefaultTiming(c) ==
    Turn(c, When("use_delete" \in c.on /\ c.on \cap DeleteTimings = {}, {"delete_during"})
            \cup When("partial_dir" \in c.on /\ "inplace" \notin c.on, {"partial"}))

(* The codec is the choice, or the preferred one for a bare -z. *)
ResolveCodec(c, env) ==
    CASE c.compress_choice # "unset" ->
           [c EXCEPT !.compression_algo = c.compress_choice,
                     !.on = (@ \ {"use_compression"})
                            \cup When(c.compress_choice # "none", {"use_compression"})]
      [] c.compress_choice = "unset" /\ "use_compression" \in c.on ->
           IF env.codec = "bad" THEN Fail(c, 4)
           ELSE [c EXCEPT !.compression_algo = env.codec,
                          !.on = @ \ When(env.codec = "none", {"use_compression"})]
      [] OTHER -> c

DefaultLevel(codec) ==
    CASE codec = "zstd" -> 3 [] codec \in {"zlib", "zlibx"} -> 6 [] codec = "lz4" -> 1 [] OTHER -> 0
ClampLevel(codec, n) ==
    CASE codec = "lz4" -> 1 [] codec = "none" -> 0
      [] codec \in {"zlib", "zlibx"} /\ n > 9 -> 9 [] OTHER -> n
ResolveLevel(c) ==
    IF "use_compression" \notin c.on THEN c
    ELSE [c EXCEPT !.compression_level =
            IF "compression_level_set" \in c.on THEN ClampLevel(c.compression_algo, @)
            ELSE DefaultLevel(c.compression_algo)]

ResolveChecksum(c, env) ==
    LET algo == IF "checksum_choice_set" \in c.on THEN c.checksum_algo ELSE env.checksum
    IN IF Refused(c) THEN c
       ELSE IF algo = "bad" \/ (algo = "none" /\ "checksum" \in c.on) THEN Fail(c, 4)
       ELSE [c EXCEPT !.checksum_algo = algo]

BadImplied(c) ==
    LET incremental == \/ c.on \cap {"use_incremental", "basis_dirs", "append", "append_verify"} # {}
                       \/ "fuzzy" \in c.on /\ "no_incremental" \notin c.on
        delta == \/ "use_delta" \in c.on
                 \/ "fuzzy" \in c.on /\ c.on \cap {"whole_file", "no_delta", "no_incremental"} = {}
    IN Turn(c, When(incremental \/ c.on \cap {"checksum", "ignore_existing"} # {}, {"use_incremental"})
               \cup When(delta, {"use_delta"})
               \cup When((incremental \/ delta) /\ "metadata_explicitly_disabled" \notin c.on,
                         {"preserve_perms", "preserve_times"}))

(* The implications on the incremental check, the delta and the attributes *)
(* they preserve by default: -c and --ignore-existing ask for the check    *)
(* and for no attribute.                                                   *)
Implied(c) ==
    LET incremental == \/ c.on \cap {"use_incremental", "basis_dirs", "append", "append_verify"} # {}
                       \/ "fuzzy" \in c.on /\ "no_incremental" \notin c.on
        delta == \/ "use_delta" \in c.on
                 \/ "fuzzy" \in c.on /\ c.on \cap {"whole_file", "no_delta", "no_incremental"} = {}
        preserve == (incremental \/ delta) /\ "metadata_explicitly_disabled" \notin c.on
    IN Turn(c, When(incremental \/ c.on \cap {"checksum", "ignore_existing"} # {}, {"use_incremental"})
               \cup When(delta, {"use_delta"})
               \cup When(preserve /\ "perms_explicit_off" \notin c.on, {"preserve_perms"})
               \cup When(preserve /\ "times_explicit_off" \notin c.on, {"preserve_times"}))

(* config_derived_use_metadata *)
MetadataFields ==
    Attributes \cup
    {"preserve_atimes", "preserve_crtimes", "use_executability", "preserve_xattrs",
     "preserve_acls", "fake_super", "preserve_devices", "preserve_specials", "copy_devices",
     "write_devices", "chmod_spec", "copy_as_set", "chown_uid_set", "chown_gid_set",
     "usermap", "groupmap", "update"}
UseMetadata(on) ==
    \/ on \cap MetadataFields # {}
    \/ on \cap {"use_incremental", "use_delta"} # {} /\ "metadata_explicitly_disabled" \notin on

(* The metadata frame and the reports the receiver is asked for. *)
Derived(c) ==
    LET deletes == /\ "use_delete" \in c.on /\ "dry_run" \notin c.on
                   /\ c.on \cap {"info_del", "itemize_changes", "out_format"} # {}
    IN Turn(c, When(UseMetadata(c.on), {"use_metadata"})
               \cup When(c.on \cap {"preserve_acls", "preserve_xattrs"} # {}, {"use_xattrs"})
               \cup When(\/ c.on \cap {"itemize_changes", "out_format"} # {}
                         \/ {"log_file", "log_file_format"} \subseteq c.on, {"report_dest_info"})
               \cup When(deletes, {"report_deletes"})
               \cup When(\/ c.on \cap {"stats", "show_progress", "out_format_wire"} # {} \/ deletes
                         \/ {"dry_run", "use_delete"} \subseteq c.on, {"report_stats"}))

(* A --files-from list that cannot be read stops the run here. *)
Derive(c) ==
    CASE Refused(c) -> c
      [] ~Refused(c) /\ "bad_files_from" \in c.on -> Fail(c, 1)
      [] OTHER -> Derived(Implied(c))

Finalize(c, env) ==
    IF Refused(c) THEN c
    ELSE Derive(ResolveChecksum(ResolveLevel(ResolveCodec(DefaultTiming(c), env)), env))
---------------------------------------------------------------------------
(* main: the directories, the destination's form, the credentials, the     *)
(* validation.  A command line holds the number of positional arguments,   *)
(* whether the environment names both directories, the destination         *)
(* [form, module, loopback], and whether the secret file can be read.      *)

Directories == {"send_directory", "receive_root_directory"}
Positional(c, line) ==
    IF Refused(c) THEN c ELSE
    CASE line.positional = 2 -> Turn(c, Directories \cup {"save_to_disk"})
      [] line.positional = 1 /\ "read_batch" \in c.on ->
           Turn(c, {"receive_root_directory", "save_to_disk"})
      [] line.positional = 1 /\ "only_write_batch" \in c.on /\ "read_batch" \notin c.on ->
           Turn(c, {"send_directory"})
      [] line.positional = 0 -> Turn(c, When(line.env_dirs, Directories))
      [] OTHER -> Fail(c, 1)

(* host::module/path, user@host:path, or a path. *)
ParseTransportDest(c, dest) ==
    IF Refused(c) \/ "receive_root_directory" \notin c.on THEN c
    ELSE CASE dest.form = "daemon" ->
                [c EXCEPT !.module = dest.module,
                          !.on = @ \cup When(dest.loopback, {"host_is_loopback"})]
           [] dest.form = "ssh" -> [c EXCEPT !.transport = "ssh"]
           [] dest.form = "malformed" -> Fail(c, 1)
           [] OTHER -> c

LoadDaemonCredentials(c, line) ==
    CASE Refused(c) \/ "password_file" \notin c.on -> c
      [] ~Refused(c) /\ "password_file" \in c.on /\ c.module # "none" /\ line.secret_readable -> Turn(c, {"auth_user"})
      [] OTHER -> Fail(c, 1)

(* config_has_valid_delete_timing *)
ValidDeleteTiming(on) ==
    IF "use_delete" \in on THEN \A t, u \in on \cap DeleteTimings : t = u
    ELSE on \cap DeleteTimings = {}

(* config_invariants_error, one conjunct for each combination it refuses:  *)
(* the predicate both ends evaluate.                                       *)
InvariantsHold(on) ==
    LET has(f) == f \in on
        append == on \cap {"append", "append_verify"} # {}
        delta == has("use_delta") /\ ~has("whole_file")
    IN /\ has("use_chunk_serialization") =>
            /\ on \cap {"basis_dirs", "use_sendfile", "use_incremental", "skip_compress_set",
                        "preserve_hard_links", "preserve_xattrs", "preserve_acls"} = {}
            /\ ~delta /\ ~append
       /\ ~(has("use_sendfile") /\ has("use_compression"))
       /\ delta => has("use_incremental") /\ ~has("use_sendfile")
       /\ append => ~has("whole_file") /\ ~has("preserve_hard_links")
       /\ has("delay_updates") => ~has("inplace") /\ ~has("backup_dir_reserved")
       /\ ValidDeleteTiming(on)
       /\ ~has("iconv_invalid")
       /\ on \cap (Attributes \cup {"preserve_atimes", "preserve_crtimes", "use_executability",
                                    "copy_as_set"}) # {} => has("use_metadata")

ValidateConfig(c) ==
    LET has(f) == f \in c.on
        batches == c.on \cap Batches
    IN /\ \A b, d \in batches : b = d
       /\ ~(has("dry_run") /\ batches # {})
       /\ CASE has("read_batch") -> has("receive_root_directory")
            [] has("only_write_batch") -> has("send_directory")
            [] OTHER -> Directories \subseteq c.on
       /\ has("compression_threads") => has("use_compression")
       /\ ~(c.transport = "ssh" /\ has("use_sendfile"))
       /\ has("remote_options") => c.transport = "ssh"
       /\ ~({"ipv4", "ipv6"} \subseteq c.on)
       /\ ~({"inplace", "partial_dir"} \subseteq c.on)
       /\ has("log_file_format") => has("log_file")
       /\ has("use_tls") => {"tls_cert", "tls_key", "tls_ca"} \subseteq c.on
       /\ has("password_file") => has("use_tls") \/ has("host_is_loopback")
       /\ InvariantsHold(c.on)
       /\ ~has("many_filters") /\ ~has("bad_version")

(* main up to the transfer: the configuration, with an exit code when one  *)
(* of its checks refuses it.                                               *)
Validated(c) == IF ~Refused(c) /\ ~ValidateConfig(c) THEN Fail(c, 1) ELSE c
Prepared(c, line) ==
    Validated(LoadDaemonCredentials(
        ParseTransportDest(Positional(Finalize(c, line.env), line), line.dest), line))

(* dry_run_targets_server *)
DryRunTargetsServer(c) ==
    \/ c.transport = "ssh" \/ c.module # "none"
    \/ c.on \cap {"server_host", "server_port", "use_tls", "address"} # {}

(* The runs that never open a connection. *)
LocalRun(c) ==
    \/ c.on \cap {"read_batch", "only_write_batch", "list_only"} # {}
    \/ "dry_run" \in c.on /\ ~DryRunTargetsServer(c)
---------------------------------------------------------------------------
(* The configuration frame.                                                *)

WireFields ==
    Attributes \cup DeleteTimings \cup Directories \cup
    {"save_to_disk", "use_multithreading", "use_chunk_serialization", "use_compression",
     "use_metadata", "use_executability", "use_sendfile", "dry_run", "use_delete",
     "use_incremental", "size_only", "backup", "backup_dir", "backup_dir_reserved",
     "remove_source_files", "preserve_hard_links", "preserve_acls", "preserve_xattrs",
     "preserve_devices", "preserve_specials", "copy_devices", "write_devices",
     "follow_symlinks", "ignore_existing", "existing", "update", "inplace", "delay_updates",
     "append", "append_verify", "delete_excluded", "force_delete", "delete_missing_args",
     "mkpath", "partial", "partial_dir", "checksum", "chmod_spec", "skip_compress_set",
     "basis_dirs", "fuzzy", "numeric_ids", "chown_uid_set", "chown_gid_set", "usermap",
     "groupmap", "preserve_atimes", "preserve_crtimes", "fake_super", "auth_user",
     "iconv_spec", "iconv_invalid", "copy_as_set", "report_dest_info", "report_stats",
     "report_deletes", "many_filters", "bad_version"}

BadOnWire(on) == on \cap (WireFields \cup {"use_delta"})

(* The delta is what remains of it under --whole-file; what the receiver   *)
(* derives for itself is not sent.                                         *)
OnWire(on) ==
    (on \cap WireFields)
    \cup When("use_delta" \in on /\ "whole_file" \notin on, {"use_delta"})

(* config_receive: the values sent, the derived extended-attribute bit,    *)
(* the clamped allocation limit, defaults for the rest.                    *)
Received(c) ==
    [c EXCEPT
       !.on = OnWire(c.on) \cup When(c.on \cap {"preserve_acls", "preserve_xattrs"} # {}, {"use_xattrs"}),
       !.max_alloc = IF @ \in 1..MaxServerAlloc THEN @ ELSE MaxServerAlloc,
       !.transport = "tcp", !.exit = 0]

(* The checks of config_receive_with_validate before its callback.         *)
ValidReceived(c) ==
    /\ {"bad_version", "many_filters"} \cap c.on = {}
    /\ c.compress_choice # "unset" => c.compress_choice = c.compression_algo
    /\ c.compression_algo \in Codecs /\ c.checksum_algo \in Checksums
    /\ "use_compression" \in c.on => c.compression_algo # "none" /\ c.compression_level \in 1..22
    /\ "checksum" \in c.on => c.checksum_algo # "none"
    /\ InvariantsHold(c.on)
    /\ c.chunk_size \in 1..MaxChunkSize
    /\ c.delta_block_size \in BlockSizeMin..BlockSizeMax
    /\ c.delta_max_file_size =< DeltaFileMax
    /\ c.max_delete >= -1
    /\ c.max_alloc =< MaxServerAlloc
    /\ c.super_mode \in {"AUTO", "ON", "OFF"}
=============================================================================
