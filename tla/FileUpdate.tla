----------------------------- MODULE FileUpdate -----------------------------
(***************************************************************************)
(* One file brought up to date, run after run.  A run stats and loads the  *)
(* source, exchanges the check with the receiver, transmits what the       *)
(* receiver asked for (nothing, a delta, a tail, everything), and the      *)
(* receiver installs the result system call by system call.  Meanwhile the *)
(* source may be rewritten, calls fail, either process dies or the machine *)
(* loses power; the next run starts from what was left.                    *)
(***************************************************************************)
EXTENDS Delta, FiniteSets

CONSTANTS
    Contents,       \* what the source may hold: sequences of bytes
    Cases,          \* pairs of an option record and a first state of the receiver's files
    Inodes,         \* numbers of regular files
    MaxRuns,        \* bound: runs of the program
    MaxWrites,      \* bound: rewrites of the source by other programs
    MaxFaults,      \* bound: failed calls, dead processes, power losses
    Foreign,        \* content another program may put at the destination
    NameDistance,   \* fuzzy_distance of the neighbours' names to the file's
    DistLimit       \* FUZZY_DIST_LIMIT

NoEntry == 0                    \* nothing at a path
Directory == -1                 \* a directory at a path
Symlink == -2
Node == -3                      \* a FIFO, socket or device
NoData == <<-1>>                \* content not in memory
NoTime == -1                    \* no metadata came with the file
Paths == {"dest", "sib", "tmp", "scratch", "backup", "partial", "basis"}
Blank == [data |-> <<>>, mtime |-> 0, synced |-> TRUE]
NoFile == [size |-> 0, mtime |-> 0, data |-> NoData, offset |-> 0]
NoCheck == [size |-> 0, mtime |-> 0, old |-> NoData]
NoJob == [target |-> "dest", at |-> "dest", engine |-> "none", data |-> NoData,
          mtime |-> NoTime, size |-> 0, from |-> "basis", scratch |-> FALSE,
          fd |-> NoEntry, wrote |-> FALSE, exdev |-> FALSE]

ASSUME FileUpdateAssumption ==
    /\ \A c \in Contents : c \in Seq(Nat)
    /\ Inodes \subseteq Nat \ {NoEntry}
    /\ {MaxRuns, MaxWrites, MaxFaults} \subseteq Nat

VARIABLES
    config,         \* the options of the runs
    clock,          \* time of the last write of a file
    src,            \* the source: kind of entry, data, mtime
    dir,            \* the entry at each path of the receiver
    ino,            \* the regular files of the receiver
    sp, file,       \* sender: where it is, and its File
    up, down,       \* frames under way to the receiver, to the sender
    rp, check, job, \* receiver: where it is, the check, the file being saved
    runs, writes, faults,
    changed,        \* the source was rewritten since the run's scan
    clean,          \* the last complete run ended well and saw a stable source
    atStart,        \* the destination's content when the run began
    strays,         \* what temporary files were left behind by
    desync,         \* an endpoint met a frame it did not expect
    failures,       \* the receiver counted an entry as failed in this run
    stored,         \* a save of this run was reported as written
    announced       \* what the dry run before this run said of the file

senderVars == <<sp, file>>
receiverVars == <<rp, check, job>>
fsVars == <<dir, ino>>
outcomeVars == <<failures, stored, announced>>
historyVars == <<runs, writes, faults, changed, clean, atStart, strays, desync,
                 outcomeVars>>
vars == <<config, clock, src, fsVars, senderVars, up, down, receiverVars,
          historyVars, deltaVars>>

----------------------------------------------------------------------------
(* The receiver's file system.                                             *)

Exists(p) == dir[p] # NoEntry
IsReg(p) == dir[p] \in Inodes
Named(d) == {d[p] : p \in Paths}
FreeInode == CHOOSE i \in Inodes : i \notin Named(dir) /\ \A k \in Inodes : k < i => k \in Named(dir)

\* The directory becomes d and the files f; a file no path names is gone.
Becomes(d, f) ==
    /\ dir' = d
    /\ ino' = [i \in Inodes |-> IF i \in Named(d) THEN f[i] ELSE Blank]

\* rename(2): nothing happens when both names are links to one file.
Renamed(p, q) == IF dir[p] = dir[q] THEN dir
                 ELSE [dir EXCEPT ![q] = dir[p], ![p] = NoEntry]
Unlinked(p) == [dir EXCEPT ![p] = NoEntry]

\* With --dry-run the first run is a dry run, and a real one follows.
DryRun == config.dry_run /\ runs = 1

CrossDevice == job.scratch /\ config.temp_dir = "other"
TempPath == IF job.scratch THEN "scratch" ELSE "tmp"

----------------------------------------------------------------------------

Init ==
    /\ \E case \in Cases : LET scene == case.scene IN
         /\ src \in [kind : {case.kind}, mtime : {1},
                    data : IF case.kind = "file" THEN Contents ELSE {<<>>}]
         /\ config = case.config
         /\ dir = [p \in Paths |-> IF p \in DOMAIN scene.dir THEN scene.dir[p] ELSE NoEntry]
         /\ ino = [i \in Inodes |->
                     IF i \notin DOMAIN scene.ino THEN Blank
                     ELSE [data |-> IF scene.ino[i] = NoData THEN src.data ELSE scene.ino[i],
                           mtime |-> IF scene.ino[i] = NoData THEN src.mtime ELSE 0,
                           synced |-> TRUE]]
    /\ clock = 1
    /\ sp = "scan" /\ file = NoFile /\ up = <<>> /\ down = <<>>
    /\ rp = "frame" /\ check = NoCheck /\ job = NoJob
    /\ runs = 1 /\ writes = 0 /\ faults = 0
    /\ changed = FALSE /\ clean = FALSE /\ strays = {} /\ desync = FALSE
    /\ failures = FALSE /\ stored = FALSE /\ announced = "none"
    /\ atStart = IF IsReg("dest") THEN ino[dir["dest"]].data ELSE NoData
    /\ DeltaIdle

\* Another program rewrites the source, at a later time than any write before.
SourceWrites(c) ==
    /\ writes < MaxWrites /\ c # src.data /\ src.kind = "file"
    /\ clock' = clock + 1
    /\ src' = [src EXCEPT !.data = c, !.mtime = clock + 1]
    /\ writes' = writes + 1 /\ changed' = TRUE
    /\ clean' = FALSE /\ announced' = "none"
    /\ UNCHANGED <<config, fsVars, senderVars, up, down, receiverVars, runs, faults,
                   atStart, strays, desync, failures, stored, deltaVars>>

\* Another program creates the destination while it is not there.
OtherCreates ==
    /\ Foreign # NoData /\ config.ignore_existing /\ ~Exists("dest")
    /\ clock' = clock + 1
    /\ Becomes([dir EXCEPT !["dest"] = FreeInode],
               [ino EXCEPT ![FreeInode] = [data |-> Foreign, mtime |-> clock + 1,
                                           synced |-> TRUE]])
    /\ announced' = "none"
    /\ UNCHANGED <<config, src, senderVars, up, down, receiverVars, runs, writes, faults,
                   changed, clean, atStart, strays, desync, failures, stored, deltaVars>>

----------------------------------------------------------------------------
(* The sender.                                                             *)

SenderOnly == UNCHANGED <<config, clock, src, fsVars, receiverVars, runs, writes,
                          faults, clean, atStart, strays, failures, stored>>

Prefix(s, n) == SubSeq(s, 1, n)
Readable(f) == Len(src.data) >= f.size

\* The scanner stats the source: size and times are fixed from here on.  A
\* large file is not loaded but read while it is sent.
Scan ==
    /\ sp = "scan"
    /\ file' = [size |-> Len(src.data), mtime |-> src.mtime, data |-> NoData,
                offset |-> 0]
    /\ sp' = CASE src.kind # "file" -> "node"
               [] src.kind = "file" /\ (config.stream \/ DryRun) -> "check"
               [] OTHER -> "load"
    /\ changed' = FALSE
    /\ UNCHANGED <<up, down, desync, announced, deltaVars>> /\ SenderOnly

\* Directories, symlinks and special files have a frame of their own and no
\* check; a dry run announces them and sends nothing.
SendNode ==
    /\ sp = "node"
    /\ IF DryRun THEN announced' = "transfer" /\ UNCHANGED up
       ELSE /\ up' = Append(up, [t |-> "NODE", kind |-> src.kind, mtime |-> file.mtime])
            /\ UNCHANGED announced
    /\ sp' = "finish"
    /\ UNCHANGED <<file, down, changed, desync, deltaVars>> /\ SenderOnly

\* file_load_data: exactly as many bytes as the scan found, or the load fails.
LoadData ==
    /\ sp = "load"
    /\ IF Readable(file)
         THEN /\ file' = [file EXCEPT !.data = Prefix(src.data, file.size)]
              /\ sp' = "check"
         ELSE sp' = "failed" /\ UNCHANGED file
    /\ UNCHANGED <<up, down, changed, desync, announced, deltaVars>> /\ SenderOnly

\* file_checksum: the loaded bytes, or for an unloaded file what is there now.
Digest == IF ~(config.checksum \/ config.verify_basis) THEN NoData
          ELSE IF file.data = NoData THEN src.data ELSE file.data

\* incremental_check sends the request; without --incremental the whole file
\* follows at once.
SendCheck ==
    /\ sp = "check"
    /\ IF config.incremental \/ DryRun
         THEN /\ up' = Append(up, [t |-> "CHECK", size |-> file.size,
                                   mtime |-> file.mtime, digest |-> Digest])
              /\ sp' = "verdict"
         ELSE sp' = "full" /\ UNCHANGED up
    /\ UNCHANGED <<file, down, changed, desync, announced, deltaVars>> /\ SenderOnly

AfterFile == IF config.hard_links /\ ~DryRun THEN "sibling" ELSE "finish"

\* incremental_check and send_single_file act on the receiver's reply.  A
\* delta needs the file in memory; without it the sender declines with NEXT.
ReceiveVerdict ==
    /\ sp = "verdict" /\ down # <<>>
    /\ down' = Tail(down)
    /\ LET m == Head(down)
           declines == m.t = "DELTA_SIGNATURE" /\ (config.stream \/ ~config.delta \/ file.size = 0)
       IN  /\ sp' = CASE m.t = "OK" -> AfterFile
                      [] m.t = "DRY_RUN_TRANSFER" /\ DryRun -> "finish"
                      [] m.t = "NEXT" \/ declines -> "full"
                      [] m.t = "DELTA_SIGNATURE" /\ ~declines -> "delta"
                      [] m.t = "APPEND" -> "append"
                      [] OTHER -> "failed"
           /\ up' = IF declines THEN Append(up, [t |-> "NEXT"]) ELSE up
           /\ IF sp' = "delta" THEN DeltaStart(file.data, m.blocks) ELSE UNCHANGED deltaVars
           /\ file' = IF m.t = "APPEND" THEN [file EXCEPT !.offset = m.offset] ELSE file
           /\ desync' = (desync \/ (sp' = "failed" /\ m.t # "ERROR"))
           /\ announced' = IF ~DryRun THEN announced
                           ELSE IF m.t = "OK" THEN "skip" ELSE "transfer"
    /\ UNCHANGED changed /\ SenderOnly

SenderFails == sp' = "failed" /\ UNCHANGED <<up, file>>

\* send_delta: the loop, and then the delta or, when it is not worth it, NEXT.
ComputeDelta ==
    /\ sp = "delta" /\ DeltaStep
    /\ UNCHANGED <<senderVars, up, down, changed, desync, announced>> /\ SenderOnly

SendDelta ==
    /\ sp = "delta" /\ DeltaDone
    /\ IF Worthwhile(Instructions, file.size)
         THEN /\ up' = Append(up, [t |-> "DELTA_DATA", delta |-> Instructions,
                                   size |-> file.size, mtime |-> file.mtime])
              /\ sp' = AfterFile
         ELSE /\ up' = Append(up, [t |-> "NEXT"])
              /\ sp' = "full"
    /\ DeltaReset
    /\ UNCHANGED <<file, down, changed, desync, announced>> /\ SenderOnly

TailFrame(f) == [t |-> "APPEND_DATA", mtime |-> f.mtime,
                 data |-> SubSeq(f.data, f.offset + 1, f.size)]

\* send_append loads an unloaded file, refuses an offset behind the end, and
\* under --append-verify first sends the checksum of the prefix.
SendAppend ==
    /\ sp = "append"
    /\ LET f == IF file.data = NoData
                  THEN [file EXCEPT !.data = Prefix(src.data, file.size)] ELSE file
       IN  IF (file.data = NoData /\ ~Readable(file)) \/ file.offset >= file.size
             THEN SenderFails
             ELSE /\ file' = f
                  /\ IF config.append_verify
                       THEN /\ up' = Append(up, [t |-> "APPEND_SIG",
                                                 hash |-> Prefix(f.data, f.offset)])
                            /\ sp' = "appendVerdict"
                       ELSE /\ up' = Append(up, TailFrame(f))
                            /\ sp' = AfterFile
    /\ UNCHANGED <<down, changed, desync, deltaVars, announced>> /\ SenderOnly

ReceiveAppendVerdict ==
    /\ sp = "appendVerdict" /\ down # <<>>
    /\ down' = Tail(down)
    /\ LET t == Head(down).t
       IN  /\ sp' = CASE t = "APPEND_OK" -> AfterFile [] t = "NEXT" -> "full" [] OTHER -> "failed"
           /\ up' = IF t = "APPEND_OK" THEN Append(up, TailFrame(file)) ELSE up
           /\ desync' = (desync \/ t \notin {"APPEND_OK", "NEXT", "ERROR"})
    /\ UNCHANGED <<file, changed, deltaVars, announced>> /\ SenderOnly

\* The whole file: from memory, or read now (file_send_sendfile), where a source
\* shorter than the scan found it ends the transfer.
SendFull ==
    /\ sp = "full"
    /\ IF file.data = NoData /\ ~Readable(file) THEN SenderFails
       ELSE /\ up' = Append(up, [t |-> "FILE", mtime |-> file.mtime,
                                 data |-> IF file.data = NoData
                                            THEN Prefix(src.data, file.size)
                                            ELSE file.data])
            /\ sp' = AfterFile /\ UNCHANGED file
    /\ UNCHANGED <<down, changed, desync, deltaVars, announced>> /\ SenderOnly

\* -H: the second name of the source file, without data.
SendHardlink ==
    /\ sp = "sibling"
    /\ up' = Append(up, [t |-> "HARDLINK"])
    /\ sp' = "finish"
    /\ UNCHANGED <<file, down, changed, desync, deltaVars, announced>> /\ SenderOnly

SendFinished ==
    /\ sp = "finish"
    /\ up' = Append(up, [t |-> "FINISHED"])
    /\ sp' = "await"
    /\ UNCHANGED <<file, down, changed, desync, deltaVars, announced>> /\ SenderOnly

AwaitOutcome ==
    /\ sp = "await" /\ down # <<>>
    /\ down' = Tail(down)
    /\ sp' = IF Head(down).t = "OK" THEN "done" ELSE "failed"
    /\ desync' = (desync \/ Head(down).t \notin {"OK", "PARTIAL", "ERROR"})
    /\ UNCHANGED <<file, up, changed, deltaVars, announced>> /\ SenderOnly

\* The receiver is gone and nothing it sent is left to read.
SenderSeesEof ==
    /\ sp \notin {"scan", "load", "done", "failed"}
    /\ rp \in {"failed", "dead"} /\ down = <<>>
    /\ sp' = "failed" /\ DeltaReset
    /\ UNCHANGED <<file, up, down, changed, desync, announced>> /\ SenderOnly

----------------------------------------------------------------------------
(* The receiver's answer to a check.                                       *)

ReceiverFrame == UNCHANGED <<config, src, senderVars, runs, writes, changed, clean,
                             atStart, strays, announced, deltaVars>>
ReceiverOnly == ReceiverFrame /\ UNCHANGED <<failures, stored>>

Old == ino[dir["dest"]]
HasOld == IsReg("dest")

\* file_basis_quick_match and, under --verify-basis, the digest.
BasisHit(m) ==
    /\ config.basis # "none" /\ ~config.ignore_times /\ IsReg("basis")
    /\ LET b == ino[dir["basis"]] IN
         /\ Len(b.data) = m.size
         /\ config.size_only \/ b.mtime = m.mtime
         /\ config.verify_basis => ~DryRun /\ b.data = m.digest

\* incremental_check_link_dest_relink: an existing file that is not yet the
\* basis file itself.
Relinks(m) == ~DryRun /\ BasisHit(m) /\ config.basis = "link" /\ HasOld /\ dir["basis"] # dir["dest"]

\* incremental_check_quick_skip.  A dry run reads no content: under --checksum
\* it goes by size and time.
UpToDate(m) ==
    /\ HasOld /\ Len(Old.data) = m.size /\ ~config.ignore_times
    /\ IF config.checksum /\ ~DryRun THEN Old.data = m.digest
       ELSE config.size_only \/ Old.mtime = m.mtime

Materialises(m) == BasisHit(m) /\ config.basis \in {"copy", "link"}
ComparesEqual(m) == BasisHit(m) /\ config.basis = "compare" /\ ~HasOld
AppendResumes(m) == /\ config.append \/ config.append_verify
                    /\ HasOld /\ Len(Old.data) < m.size
TriesDelta(m) == config.delta /\ HasOld /\ ShouldAttempt(Len(Old.data), m.size)

\* fuzzy_basis_find_and_load: a neighbour of the same size and time, or else the
\* one whose name is nearest, the nearer in size among equally near ones.
Neighbours == {p \in DOMAIN NameDistance : IsReg(p) /\ ino[dir[p]].data # <<>>}
Twins(m) == {p \in Neighbours : /\ Len(ino[dir[p]].data) = m.size
                                /\ ino[dir[p]].mtime = m.mtime}
SizeGap(p, m) == LET n == Len(ino[dir[p]].data) IN IF n > m.size THEN n - m.size ELSE m.size - n
Nearest(m) ==
    {p \in Neighbours :
       /\ NameDistance[p] <= DistLimit
       /\ \A q \in Neighbours :
            \/ NameDistance[p] < NameDistance[q]
            \/ NameDistance[p] = NameDistance[q] /\ SizeGap(p, m) <= SizeGap(q, m)}
FuzzyBases(m) == IF ~(config.fuzzy /\ config.delta) THEN {}
                 ELSE IF Twins(m) # {} THEN Twins(m) ELSE Nearest(m)

\* The File of a basis hit: its bytes come from the basis path at install time.
BasisJob(m) == [NoJob EXCEPT !.engine = config.basis, !.from = "basis",
                             !.size = m.size, !.mtime = m.mtime]

BadWay(m) ==
    CASE config.ignore_existing /\ Exists("dest") -> "skip"
      [] Relinks(m) -> "basis"
      [] UpToDate(m) -> "skip"
      [] DryRun -> "announce"
      [] Materialises(m) -> "basis"
      [] ComparesEqual(m) -> "skip"
      [] AppendResumes(m) -> "append"
      [] TriesDelta(m) -> "delta"
      [] FuzzyBases(m) # {} -> "fuzzy"
      [] OTHER -> "full"

\* The order in which receive_incremental_check_ex tries the ways out.
Way(m) ==
    CASE config.ignore_existing /\ Exists("dest") -> "skip"
      [] Relinks(m) -> "basis"
      [] UpToDate(m) -> "skip"
      [] DryRun -> IF ComparesEqual(m) THEN "skip" ELSE "announce"
      [] Materialises(m) -> "basis"
      [] ComparesEqual(m) -> "skip"
      [] AppendResumes(m) -> "append"
      [] TriesDelta(m) -> "delta"
      [] FuzzyBases(m) # {} -> "fuzzy"
      [] OTHER -> "full"

\* What the delta or the tail builds on.
OldData(m, way) ==
    CASE way \in {"append", "delta"} -> Old.data
      [] way = "fuzzy" -> ino[dir[CHOOSE p \in FuzzyBases(m) : TRUE]].data
      [] OTHER -> NoData

Reply(m, way) ==
    CASE way \in {"skip", "basis"} -> [t |-> "OK"]
      [] way = "append" -> [t |-> "APPEND", offset |-> Len(Old.data)]
      [] way \in {"delta", "fuzzy"} ->
           [t |-> "DELTA_SIGNATURE", blocks |-> Signature(OldData(m, way))]
      [] way = "announce" -> [t |-> "DRY_RUN_TRANSFER"]
      [] OTHER -> [t |-> "NEXT"]

BadNextPc(way) ==
    CASE way \in {"skip", "announce"} -> "frame"
      [] way = "basis" -> "policies"
      [] way = "append" -> "appendData"
      [] way \in {"delta", "fuzzy"} -> "deltaReply"
      [] OTHER -> "fullData"

NextPc(way) ==
    CASE way \in {"skip", "announce"} -> "frame"
      [] way = "basis" -> "policies"
      [] way = "append" -> IF config.append_verify THEN "appendSig" ELSE "appendData"
      [] way \in {"delta", "fuzzy"} -> "deltaReply"
      [] OTHER -> "fullData"

\* receive_incremental_check_ex up to the reply; the old content that a delta or
\* an append needs is read here.
ReceiveCheck ==
    /\ rp = "frame" /\ up # <<>> /\ Head(up).t = "CHECK"
    /\ up' = Tail(up)
    /\ LET m == Head(up)
           way == Way(m)
       IN  /\ down' = Append(down, Reply(m, way))
           /\ rp' = NextPc(way)
           /\ job' = IF way = "basis" THEN BasisJob(m) ELSE NoJob
           /\ check' = IF way \in {"append", "delta", "fuzzy"}
                THEN [size |-> m.size, mtime |-> m.mtime, old |-> OldData(m, way)] ELSE NoCheck
    /\ UNCHANGED <<clock, fsVars, faults, desync>> /\ ReceiverOnly

PlainJob(data, mtime) ==
    [NoJob EXCEPT !.engine = IF config.inplace THEN "inplace" ELSE "plain",
                  !.data = data, !.mtime = mtime, !.size = Len(data)]

\* A file has been received completely: saving it comes next.
Saves(data, mtime) ==
    /\ job' = PlainJob(data, mtime) /\ rp' = "policies" /\ check' = NoCheck

\* receive_full_file, and the file that follows without a check.
ReceiveFile ==
    /\ \/ rp = "fullData"
       \/ rp = "frame" /\ ~config.incremental
    /\ up # <<>> /\ Head(up).t = "FILE"
    /\ up' = Tail(up) /\ Saves(Head(up).data, Head(up).mtime)
    /\ UNCHANGED <<clock, fsVars, down, faults, desync>> /\ ReceiverOnly

\* --append-verify: equal prefixes are appended to, others replaced.
ReceiveAppendSig ==
    /\ rp = "appendSig" /\ up # <<>> /\ Head(up).t = "APPEND_SIG"
    /\ up' = Tail(up)
    /\ IF Head(up).hash = check.old
         THEN down' = Append(down, [t |-> "APPEND_OK"]) /\ rp' = "appendData"
         ELSE down' = Append(down, [t |-> "NEXT"]) /\ rp' = "fullData"
    /\ UNCHANGED <<check, job, clock, fsVars, faults, desync>> /\ ReceiverOnly

ReceiverFails == rp' = "failed" /\ check' = NoCheck /\ job' = NoJob

\* The tail must complete the file exactly.
ReceiveAppendData ==
    /\ rp = "appendData" /\ up # <<>> /\ Head(up).t = "APPEND_DATA"
    /\ up' = Tail(up)
    /\ IF Len(check.old) + Len(Head(up).data) = check.size
         THEN Saves(check.old \o Head(up).data, Head(up).mtime) /\ UNCHANGED <<down, desync>>
         ELSE ReceiverFails /\ down' = Append(down, [t |-> "ERROR"]) /\ desync' = TRUE
    /\ UNCHANGED <<clock, fsVars, faults>> /\ ReceiverOnly

\* receive_delta_file after the signature was sent.
ReceiveDeltaReply ==
    /\ rp = "deltaReply" /\ up # <<>> /\ Head(up).t \in {"DELTA_DATA", "NEXT"}
    /\ up' = Tail(up)
    /\ LET m == Head(up) IN
         IF m.t = "NEXT" THEN rp' = "fullData" /\ check' = NoCheck /\ UNCHANGED <<job, desync>>
         ELSE IF Appliable(check.old, m.delta, m.size)
                THEN Saves(Apply(check.old, m.delta), m.mtime) /\ UNCHANGED desync
                ELSE ReceiverFails /\ desync' = TRUE
    /\ UNCHANGED <<clock, fsVars, down, faults>> /\ ReceiverOnly

Expected == CASE rp = "frame" -> {"CHECK", "NODE", "HARDLINK", "FINISHED"} \cup
                                 IF config.incremental THEN {} ELSE {"FILE"}
              [] rp = "fullData" -> {"FILE"}
              [] rp = "appendSig" -> {"APPEND_SIG"}
              [] rp = "appendData" -> {"APPEND_DATA"}
              [] rp = "deltaReply" -> {"DELTA_DATA", "NEXT"}
              [] OTHER -> {}

Receiving == rp \in {"frame", "fullData", "appendSig", "appendData", "deltaReply"}

ReceiverSeesEof ==
    /\ Receiving /\ up = <<>> /\ sp = "failed"
    /\ ReceiverFails
    /\ UNCHANGED <<clock, fsVars, up, down, faults, desync>> /\ ReceiverOnly

ReceiveFinished ==
    /\ rp = "frame" /\ up # <<>> /\ Head(up).t = "FINISHED"
    /\ up' = Tail(up)
    /\ down' = Append(down, [t |-> IF failures THEN "PARTIAL" ELSE "OK"])
    /\ rp' = "done"
    /\ UNCHANGED <<check, job, clock, fsVars, faults, desync>> /\ ReceiverOnly

----------------------------------------------------------------------------
(* Saving a file.  Each step is one call that changes the file system.     *)

SaveFrame == ReceiverFrame /\ UNCHANGED <<check, up, down, desync>>
SaveOnly == SaveFrame /\ UNCHANGED <<failures, stored>>
Goes(pc) == rp' = pc
SaveDone == rp' = "frame" /\ job' = NoJob
SaveError == rp' = "failed" /\ job' = NoJob

Newer(p) == IsReg(p) /\ ino[dir[p]].mtime > job.mtime

\* --existing, --ignore-existing and --update decide on the final path.
PolicySkips(p) ==
    \/ config.existing /\ ~Exists(p)
    \/ config.ignore_existing /\ Exists(p)
    \/ config.update /\ Newer(p)

UsePartialRoot == config.partial /\ config.partial_dir
UseScratch == config.temp_dir # "none" /\ ~config.inplace /\ ~UsePartialRoot

\* file_save_apply_prewrite_policies, the part that changes nothing yet.
ApplyPolicies ==
    /\ rp = "policies"
    /\ IF PolicySkips("dest") THEN SaveDone
       ELSE /\ job' = [job EXCEPT !.at = IF UsePartialRoot THEN "partial" ELSE "dest",
                                  !.scratch = UseScratch]
            /\ Goes(IF config.force /\ dir["dest"] = Directory THEN "force"
                    ELSE IF config.backup /\ ~config.ignore_existing /\ IsReg("dest")
                           THEN "backup" ELSE "open")
    /\ UNCHANGED <<clock, fsVars, faults>> /\ SaveOnly

\* --force: the directory in the way is removed.
ForceRemove ==
    /\ rp = "force"
    /\ Becomes(Unlinked("dest"), ino)
    /\ Goes("open")
    /\ UNCHANGED <<clock, job, faults>> /\ SaveOnly

BadMoveToBackup ==
    /\ rp = "backup"
    /\ Becomes(Unlinked("dest"), ino)
    /\ Goes("open")
    /\ UNCHANGED <<clock, job, faults>> /\ SaveOnly

\* --backup: the old file is renamed before the new one is written.
MoveToBackup ==
    /\ rp = "backup"
    /\ Becomes(Renamed("dest", "backup"), ino)
    /\ Goes("open")
    /\ UNCHANGED <<clock, job, faults>> /\ SaveOnly

\* The same policies for the sibling; it comes without metadata, so that --update
\* has no time to compare.
SiblingSkips ==
    \/ config.existing /\ ~Exists("sib")
    \/ config.ignore_existing /\ Exists("sib")

\* file_save_hardlink_sibling: the content of the first member is read, and the
\* sibling is linked to it; without a first member an existing sibling stays.
SaveHardlinkSibling ==
    /\ rp = "frame" /\ up # <<>> /\ Head(up).t = "HARDLINK"
    /\ up' = Tail(up)
    /\ IF SiblingSkips \/ (~Exists("dest") /\ Exists("sib"))
         THEN UNCHANGED <<job, rp>>
       ELSE IF ~IsReg("dest") THEN SaveError
       ELSE /\ job' = [NoJob EXCEPT !.target = "sib", !.at = "sib", !.engine = "link",
                                    !.data = ino[dir["dest"]].data, !.from = "dest",
                                    !.size = Len(ino[dir["dest"]].data),
                                    !.scratch = config.temp_dir # "none"]
            /\ Goes("open")
    /\ UNCHANGED <<check, clock, fsVars, down, faults, desync>> /\ ReceiverOnly

\* The engines that get the --update flag: not the link engine's fallbacks.
ChecksUpdate == /\ config.update /\ job.target = "dest"
                /\ job.engine = "copy" => config.basis = "copy"

\* A new empty file at the temporary name; its descriptor stays with the job.
OpenTemp ==
    /\ rp = "open" /\ job.engine \in {"plain", "copy"}
    /\ IF ChecksUpdate /\ Newer(job.at)
         THEN Goes("installed") /\ UNCHANGED <<fsVars, job>>
         ELSE /\ Becomes([dir EXCEPT ![TempPath] = FreeInode],
                         [ino EXCEPT ![FreeInode] = [Blank EXCEPT !.synced = FALSE]])
              /\ job' = [job EXCEPT !.fd = FreeInode,
                                    !.data = IF job.engine = "copy"
                                               THEN ino[dir[job.from]].data ELSE job.data]
              /\ Goes("write")
    /\ UNCHANGED <<clock, faults>> /\ SaveOnly

\* --inplace opens the destination itself, creating it when it is not there; only
\* then is its time compared for --update.
OpenInplace ==
    /\ rp = "open" /\ job.engine = "inplace"
    /\ IF dir[job.at] = Directory THEN SaveError /\ UNCHANGED <<fsVars, clock>>
       ELSE LET i == IF IsReg(job.at) THEN dir[job.at] ELSE FreeInode
                f == IF IsReg(job.at) THEN ino
                     ELSE [ino EXCEPT ![i] = [data |-> <<>>, mtime |-> clock + 1,
                                              synced |-> FALSE]]
            IN  /\ Becomes([dir EXCEPT ![job.at] = i], f)
                /\ clock' = IF IsReg(job.at) THEN clock ELSE clock + 1
                /\ job' = [job EXCEPT !.fd = i]
                /\ Goes(IF config.update /\ f[i].mtime > job.mtime
                          THEN "installed" ELSE "write")
    /\ UNCHANGED faults /\ SaveOnly

\* What the file holds once n bytes are written: bytes not reached yet, and
\* under --sparse the zeros that are skipped, are whatever was there before.
Written(base, n) ==
    LET sparse == config.sparse /\ job.engine # "copy"
        reserved == IF sparse THEN job.size
                    ELSE IF config.preallocate /\ job.size > Len(base) THEN job.size
                    ELSE Len(base)
        len == IF reserved > n THEN reserved ELSE n
        was(k) == IF k <= Len(base) THEN base[k] ELSE 0
    IN  [k \in 1..len |-> IF k <= n /\ ~(sparse /\ job.data[k] = 0)
                            THEN job.data[k] ELSE was(k)]

BadWriteSome ==
    /\ rp = "write"
    /\ ino' = [ino EXCEPT ![job.fd] =
                 [data |-> Written(ino[job.fd].data, job.size \div 2),
                  mtime |-> job.mtime, synced |-> FALSE]]
    /\ clock' = clock + 1
    /\ job' = [job EXCEPT !.wrote = TRUE]
    /\ Goes("rest")
    /\ UNCHANGED <<dir, faults>> /\ SaveOnly

\* The write, in two parts between which it may fail or be cut off.
WriteSome ==
    /\ rp = "write"
    /\ ino' = [ino EXCEPT ![job.fd] =
                 [data |-> Written(ino[job.fd].data, job.size \div 2),
                  mtime |-> clock + 1, synced |-> FALSE]]
    /\ clock' = clock + 1
    /\ job' = [job EXCEPT !.wrote = TRUE]
    /\ Goes("rest")
    /\ UNCHANGED <<dir, faults>> /\ SaveOnly

WriteRest ==
    /\ rp = "rest"
    /\ ino' = [ino EXCEPT ![job.fd].data = SubSeq(Written(ino[job.fd].data, job.size),
                                                  1, job.size)]
    /\ Goes("times")
    /\ UNCHANGED <<dir, clock, job, faults>> /\ SaveOnly

\* file_restore_metadata_fd
SetTimes ==
    /\ rp = "times"
    /\ ino' = IF config.times /\ job.mtime # NoTime THEN [ino EXCEPT ![job.fd].mtime = job.mtime] ELSE ino
    /\ Goes("sync")
    /\ UNCHANGED <<dir, clock, job, faults>> /\ SaveOnly

Sync ==
    /\ rp = "sync"
    /\ ino' = IF config.fsync THEN [ino EXCEPT ![job.fd].synced = TRUE] ELSE ino
    /\ Goes(IF job.engine = "inplace" THEN "installed" ELSE "commit")
    /\ UNCHANGED <<dir, clock, job, faults>> /\ SaveOnly

\* The link engine: a second name for the file it links to, which must be on
\* the same device as the temporary name.
LinkTemp ==
    /\ rp = "open" /\ job.engine = "link"
    /\ IF CrossDevice
         THEN /\ job' = [job EXCEPT !.engine = "copy"]
              /\ UNCHANGED <<fsVars, rp>>
         ELSE /\ Becomes([dir EXCEPT ![TempPath] = dir[job.from]], ino)
              /\ job' = [job EXCEPT !.fd = dir[job.from]]
              /\ Goes("sync")
    /\ UNCHANGED <<clock, faults>> /\ SaveOnly

BadCommit ==
    /\ rp = "commit"
    /\ IF CrossDevice \/ dir[job.at] = Directory
         THEN Goes("cleanup") /\ job' = [job EXCEPT !.exdev = CrossDevice] /\ UNCHANGED fsVars
         ELSE Becomes(Renamed(TempPath, job.at), ino) /\ Goes("installed") /\ UNCHANGED job
    /\ UNCHANGED <<clock, faults>> /\ SaveOnly

NoReplace == job.engine = "plain" /\ job.target = "dest" /\ config.ignore_existing

\* The finished temporary file takes the place of the target; for
\* --ignore-existing it is linked there, so that it replaces nothing.
Commit ==
    /\ rp = "commit"
    /\ IF CrossDevice \/ (~NoReplace /\ dir[job.at] = Directory)
         THEN Goes("cleanup") /\ job' = [job EXCEPT !.exdev = CrossDevice] /\ UNCHANGED fsVars
       ELSE IF NoReplace
         THEN /\ IF Exists(job.at) THEN UNCHANGED fsVars
                 ELSE Becomes([dir EXCEPT ![job.at] = dir[TempPath]], ino)
              /\ Goes("unlink") /\ UNCHANGED job
         ELSE Becomes(Renamed(TempPath, job.at), ino) /\ Goes("installed") /\ UNCHANGED job
    /\ UNCHANGED <<clock, faults>> /\ SaveOnly

UnlinkTemp ==
    /\ rp = "unlink"
    /\ Becomes(Unlinked(TempPath), ino)
    /\ Goes("installed")
    /\ UNCHANGED <<clock, job, faults>> /\ SaveOnly

\* --partial-dir: the complete file moves from there to the destination.
InstallPartial ==
    /\ rp = "installed"
    /\ IF job.at # "partial" THEN SaveDone /\ UNCHANGED fsVars
       ELSE IF dir["dest"] = Directory THEN SaveError /\ UNCHANGED fsVars
       ELSE SaveDone /\ Becomes(Renamed("partial", "dest"), ino)
    /\ stored' = (stored \/ rp' = "frame")
    /\ UNCHANGED <<clock, faults, failures>> /\ SaveFrame

\* Directories, symlinks, FIFOs, sockets and devices.
ReceiveNode ==
    /\ rp = "frame" /\ up # <<>> /\ Head(up).t = "NODE"
    /\ up' = Tail(up)
    /\ job' = [NoJob EXCEPT !.engine = Head(up).kind, !.mtime = Head(up).mtime]
    /\ Goes(Head(up).kind)
    /\ UNCHANGED <<check, clock, fsVars, down, faults, desync>> /\ ReceiverOnly

\* file_save_directory_to_disk: a directory that is there will do.
MakeDirectory ==
    /\ rp = "directory"
    /\ IF dir["dest"] \in {NoEntry, Directory}
         THEN /\ SaveDone /\ stored' = TRUE
              /\ Becomes([dir EXCEPT !["dest"] = Directory], ino)
         ELSE SaveError /\ UNCHANGED <<fsVars, stored>>
    /\ UNCHANGED <<clock, faults, failures>> /\ SaveFrame

\* file_symlink_at_secure: what is there goes first, unless it is a directory;
\* none of the policies for files is asked.
RemoveForSymlink ==
    /\ rp = "symlink"
    /\ IF dir["dest"] = Directory THEN SaveError /\ UNCHANGED fsVars
       ELSE Goes("place") /\ UNCHANGED job /\ Becomes(Unlinked("dest"), ino)
    /\ UNCHANGED <<clock, faults>> /\ SaveOnly

PlaceSymlink ==
    /\ rp = "place"
    /\ IF Exists("dest") THEN SaveError /\ UNCHANGED <<fsVars, stored>>
       ELSE /\ SaveDone /\ stored' = TRUE
            /\ Becomes([dir EXCEPT !["dest"] = Symlink], ino)
    /\ UNCHANGED <<clock, faults, failures>> /\ SaveFrame

\* file_save_special_to_disk never replaces an entry.
MakeNode ==
    /\ rp \in {"fifo", "device"}
    /\ SaveDone
    /\ IF PolicySkips("dest") \/ Exists("dest") THEN UNCHANGED <<fsVars, stored>>
       ELSE stored' = TRUE /\ Becomes([dir EXCEPT !["dest"] = Node], ino)
    /\ UNCHANGED <<clock, faults, failures>> /\ SaveFrame

TempEngine == job.engine \in {"plain", "copy", "link"}

BadKeepsPartial ==
    /\ job.engine = "plain" /\ job.target = "dest"
    /\ job.wrote /\ ~NoReplace /\ ~CrossDevice /\ dir[job.at] # Directory

\* --partial keeps the temporary file as the destination, if it holds data.
KeepsPartial ==
    /\ config.partial /\ job.engine = "plain" /\ job.target = "dest"
    /\ job.wrote /\ ~NoReplace /\ ~CrossDevice /\ dir[job.at] # Directory

BadCleanup ==
    /\ rp = "cleanup"
    /\ SaveError /\ UNCHANGED fsVars
    /\ UNCHANGED <<clock, faults>> /\ SaveOnly

\* After a failure: the temporary file goes away or is kept as a partial file,
\* and the next engine is tried, if there is one: without the scratch directory,
\* a copy instead of a link, the content in memory instead of a copy.
Cleanup ==
    /\ rp = "cleanup"
    /\ Becomes(IF KeepsPartial THEN Renamed(TempPath, job.at) ELSE Unlinked(TempPath), ino)
    /\ LET again(e, scratch) ==
             /\ Goes("open")
             /\ job' = [job EXCEPT !.engine = e, !.scratch = scratch, !.fd = NoEntry,
                                   !.wrote = FALSE, !.exdev = FALSE]
       IN  CASE job.engine = "link" -> again("copy", job.scratch)
             [] job.engine = "copy" /\ job.scratch -> again("copy", FALSE)
             [] job.engine = "copy" /\ ~job.scratch /\ job.target = "sib" ->
                  again("plain", config.temp_dir # "none")
             [] job.engine = "plain" /\ job.exdev -> again("plain", FALSE)
             [] OTHER -> SaveError
    /\ UNCHANGED <<clock, faults>> /\ SaveOnly

----------------------------------------------------------------------------
(* Faults, and the end of a run.                                           *)

Saving == rp \notin {"frame", "fullData", "appendSig", "appendData", "deltaReply",
                     "policies", "cleanup", "done", "failed", "dead"}

\* A system call of the save fails.  A device that cannot be made counts as
\* failed, a FIFO or socket is skipped; any other failure ends the session.
CallFails ==
    /\ faults < MaxFaults /\ Saving
    /\ rp = "installed" => job.at = "partial"
    /\ faults' = faults + 1 /\ announced' = "none"
    /\ CASE TempEngine /\ rp \in {"open", "write", "rest", "times", "sync", "commit", "unlink"} ->
              Goes("cleanup") /\ UNCHANGED job
         [] rp \in {"fifo", "device"} -> SaveDone
         [] OTHER -> SaveError
    /\ failures' = (failures \/ rp = "device")
    /\ UNCHANGED <<config, src, senderVars, runs, writes, changed, clean, atStart, strays,
                   deltaVars, clock, fsVars, check, up, down, desync, stored>>

Died(pc) == pc \in {"done", "failed", "dead"}

\* The receiver's process is killed.
ReceiverDies ==
    /\ faults < MaxFaults /\ ~Died(rp) /\ sp # "idle"
    /\ faults' = faults + 1
    /\ rp' = "dead" /\ job' = NoJob /\ check' = NoCheck
    /\ UNCHANGED <<clock, fsVars, up, down, desync>> /\ ReceiverOnly

\* The sender's process is killed, or the connection breaks.
SenderDies ==
    /\ faults < MaxFaults /\ sp \notin {"done", "failed", "idle"}
    /\ faults' = faults + 1
    /\ sp' = "failed" /\ DeltaReset
    /\ UNCHANGED <<config, clock, src, fsVars, file, up, down, receiverVars, runs,
                   writes, changed, clean, atStart, strays, desync, outcomeVars>>

\* The receiver's machine loses power: what was not synced may be gone.  Only
\* under --fsync is anything promised about that.
PowerLoss ==
    /\ config.fsync /\ faults < MaxFaults /\ ~Died(rp) /\ sp # "idle"
    /\ faults' = faults + 1
    /\ ino' = [i \in Inodes |-> IF ino[i].synced THEN ino[i]
                                ELSE [ino[i] EXCEPT !.data = <<>>, !.synced = TRUE]]
    /\ rp' = "dead" /\ job' = NoJob /\ check' = NoCheck
    /\ UNCHANGED <<clock, dir, up, down, desync>> /\ ReceiverOnly

\* Both ends are through.  Temporary names hold the process id, so that what is
\* left of them is met by no later run.
EndRun ==
    /\ sp \in {"done", "failed"} /\ Died(rp)
    /\ sp' = "idle" /\ file' = NoFile
    /\ clean' = (sp = "done" /\ ~changed /\ ~DryRun)
    /\ announced' = IF sp = "failed" \/ changed THEN "none" ELSE announced
    /\ strays' = IF Exists("tmp") \/ Exists("scratch")
                   THEN strays \cup {IF rp = "dead" THEN "crash" ELSE "run"} ELSE strays
    /\ Becomes([dir EXCEPT !["tmp"] = NoEntry, !["scratch"] = NoEntry], ino)
    /\ up' = <<>> /\ down' = <<>> /\ rp' = "frame"
    /\ UNCHANGED <<config, clock, src, check, job, runs, writes, faults, changed,
                   atStart, desync, failures, stored, deltaVars>>

NextRun ==
    /\ sp = "idle" /\ runs < MaxRuns
    /\ sp' = "scan" /\ runs' = runs + 1
    /\ clean' = FALSE /\ changed' = FALSE /\ failures' = FALSE /\ stored' = FALSE
    /\ atStart' = IF IsReg("dest") THEN ino[dir["dest"]].data ELSE NoData
    /\ UNCHANGED <<config, clock, src, fsVars, file, up, down, receiverVars, writes,
                   faults, strays, desync, announced, deltaVars>>

Over == sp = "idle" /\ runs = MaxRuns /\ UNCHANGED vars

SenderStep ==
    \/ Scan \/ SendNode \/ LoadData \/ SendCheck \/ ReceiveVerdict \/ ComputeDelta \/ SendDelta
    \/ SendAppend \/ ReceiveAppendVerdict \/ SendFull \/ SendHardlink \/ SendFinished
    \/ AwaitOutcome \/ SenderSeesEof

ReceiverStep ==
    \/ ReceiveCheck \/ ReceiveFile \/ ReceiveAppendSig \/ ReceiveAppendData
    \/ ReceiveDeltaReply \/ ReceiveFinished
    \/ ReceiverSeesEof \/ ApplyPolicies \/ ForceRemove \/ MoveToBackup
    \/ SaveHardlinkSibling \/ OpenTemp \/ OpenInplace \/ LinkTemp \/ WriteSome
    \/ WriteRest \/ SetTimes \/ Sync \/ Commit \/ UnlinkTemp \/ InstallPartial \/ Cleanup
    \/ ReceiveNode \/ MakeDirectory \/ RemoveForSymlink \/ PlaceSymlink \/ MakeNode

Fault == CallFails \/ ReceiverDies \/ SenderDies \/ PowerLoss

Others == (\E c \in Contents : SourceWrites(c)) \/ OtherCreates

Next == SenderStep \/ ReceiverStep \/ EndRun \/ NextRun \/ Fault \/ Others \/ Over

Spec == Init /\ [][Next]_vars

----------------------------------------------------------------------------
(* Properties.                                                             *)

Content(p) == IF IsReg(p) THEN ino[dir[p]].data ELSE NoData

\* What the save is to store.
Intended == IF job.engine = "link" THEN Content(job.from) ELSE job.data

\* Without --inplace and --partial the destination only ever goes from one
\* complete content to another: an interrupted transfer leaves no partial file
\* there (the temporary file of file_to_disk_secure_impl and its rename).
ReplacedWhole ==
    [][ ~config.inplace /\ ~config.partial /\ Content("dest")' # Content("dest") =>
          \/ Content("dest")' = Intended /\ Len(Intended) = job.size
          \/ Content("dest")' = NoData /\ Content("backup")' = Content("dest")
          \/ Content("dest") = NoData /\ Content("dest")' = Foreign
          \/ rp = "symlink" ]_vars

\* When a run ended well and the source was not rewritten meanwhile, the
\* destination holds what the source holds, whatever earlier runs left behind:
\* the size and time compared by incremental_check_quick_skip never vouch for
\* other content.  Options that let the destination differ are left out.
Exact == /\ ~config.update /\ ~config.existing /\ ~config.ignore_existing
         /\ ~config.size_only /\ ~config.append /\ config.basis # "compare"

Converges ==
    clean /\ sp = "idle" /\ Exact =>
       CASE src.kind = "file" -> /\ Content("dest") = src.data
                                 /\ config.hard_links => Content("sib") = src.data
         [] src.kind = "directory" -> dir["dest"] = Directory
         [] src.kind = "symlink" -> dir["dest"] = Symlink
         [] src.kind = "device" -> Exists("dest")
         [] OTHER -> TRUE

\* --backup: until the run ends, what the destination held when it began is at
\* the destination or at the backup path (file_save_apply_prewrite_policies
\* renames it before the write).
BackupKeepsOld ==
    config.backup /\ ~config.partial /\ ~config.ignore_existing /\ src.kind = "file"
      /\ atStart # NoData =>
       atStart \in {Content("dest"), Content("backup")}

\* --ignore-existing: the plain engine replaces nothing that is there, even if it
\* appeared after the policy was checked (linkat in file_to_disk_secure_impl).
NothingClobbered ==
    [][ config.ignore_existing /\ ~config.inplace /\ config.basis = "none"
          /\ src.kind # "symlink" /\ Exists("dest") => dir'["dest"] = dir["dest"] ]_vars

\* What a dry run announces is what the next run does, as far as the options
\* leave the decision to the check (incremental_check_dry_run_shortcut).
Foretold ==
    sp = "idle" /\ clean /\ announced # "none" /\ src.kind \notin {"fifo", "device"} =>
       stored = (announced = "transfer")

\* The two ends agree at every point of the exchange on which frame comes next
\* (the status codes of incremental_check and receive_incremental_check_ex).
InStep == ~desync /\ ~(Receiving /\ up # <<>> /\ Head(up).t \notin Expected)

\* Unless a process is killed, no temporary file outlives a run: every early exit
\* of the engines unlinks it.  Left out is --hard-links, where renaming one link of
\* a file onto another leaves both (file_to_disk_secure_link_impl on a repeated run).
NoStrays == config.hard_links \/ strays \subseteq {"crash"}

=============================================================================
