----------------------------- MODULE SendFiles -----------------------------
(***************************************************************************)
(* One run of the client on a source tree that other programs change: the  *)
(* check of the --files-from list, the pre-scan that a --delete timing     *)
(* asks for, the data pass, the completion tail and the exit code; and the *)
(* dry runs and the scanner thread of the multithreaded client over the    *)
(* same scanners.  The receiver is what the run's frames make of its set   *)
(* of paths.                                                               *)
(***************************************************************************)
EXTENDS ParallelScanner

VARIABLES
    pc,             \* where send_files is
    cur,            \* the chunk in hand
    chunks,         \* the chunks a pre-scan retained
    manifest,       \* the files of the keep-set
    missing,        \* destination paths of missing --files-from entries
    had_io,         \* had_scan_io
    stopped,        \* scan_stopped_early
    aborted,        \* an interrupt is pending
    sent,           \* the files sent, or announced by a dry run, in order
    exit,           \* the exit code (of the scanner thread: 1 is thrd_error), -1 before
    dest,           \* the receiver's paths
    deferred,       \* what --delete-delay recorded
    killed,         \* what the run removed
    foretold        \* what a dry run said it would remove

runVars == <<pc, cur, chunks, manifest, missing, had_io, stopped, aborted, sent, exit,
             dest, deferred, killed, foretold>>
vars == <<scanVars, parVars, runVars>>

Early == opt.delete = "before"
PerDir == opt.delete \in {"during", "delay"}
Late == opt.delete = "after"
Kept == {f.wire : f \in manifest}

InitSinks == [excluded |-> {}, size |-> {}, synced |-> {}, plan |-> {}, times |-> <<>>]
Init ==
    /\ \E c \in Cases :
         /\ src = c.tree /\ opt = c.opt /\ dest = c.dest /\ changes = c.changes
    /\ sc = [w \in Scanners |-> Idle] /\ sinks = InitSinks /\ tap = {} /\ deadline = FALSE
    /\ alive = TRUE /\ base = NoRules /\ links = <<>> /\ stable = Paths
    /\ ps = NoScanner /\ work = NoWork
    /\ pc = "check" /\ cur = <<>> /\ chunks = <<>> /\ manifest = {} /\ missing = {}
    /\ had_io = FALSE /\ stopped = FALSE /\ aborted = FALSE /\ sent = <<>> /\ exit = -1
    /\ deferred = {} /\ killed = {} /\ foretold = {}

-----------------------------------------------------------------------------
(* The receiver's deletion                                                 *)

Below(p, S) == \E q \in S : IsStrictPrefix(p, q)
Under(p, S) == \E q \in S : IsPrefix(q, p)
Shields == sinks.excluded \cup sinks.size

\* What goes of a set of extras: shielded entries stay, and with them the
\* directories above them.
Removable(extras) ==
    {p \in extras : /\ ~Under(p, Shields)
                    /\ \A q \in dest : IsStrictPrefix(p, q) => q \in extras /\ ~Under(q, Shields)}

\* The whole-tree walk: below a synchronized directory, neither kept nor above
\* something kept.
TreeExtras ==
    Removable({p \in dest : /\ \E d \in sinks.synced : IsStrictPrefix(d, p)
                            /\ p \notin Kept \cup sinks.synced
                            /\ ~Below(p, Kept \cup sinks.synced)})

\* delete_plan_send_all and the plans applied: the children of a planned
\* directory that no kept path is at or below, with all that is in them.
Above(S) == UNION {{SubSeq(p, 1, i) : i \in 1..Len(p)} : p \in S}
PlanKeep == Above(Kept \cup sinks.plan)
PlannedDirs ==
    CASE opt.files_from -> ({Root} \cup Above(sinks.plan)) \cap sinks.synced
      [] Prefixed /\ RelativePrefix # Root ->
           {RelativePrefix} \cup {d \in Above(sinks.plan) : IsPrefix(RelativePrefix, d)}
      [] OTHER -> {Root} \cup Above(sinks.plan)
PlanExtras ==
    LET heads == {p \in dest : p # Root /\ Front(p) \in PlannedDirs /\ p \notin PlanKeep}
    IN  Removable({p \in dest : Under(p, heads)})

\* --delete-delay: the recorded paths, a recorded directory walked again.
DeferredNow ==
    Removable({p \in dest : Under(p, deferred)})
MissingNow == {p \in missing \cap dest : ~Below(p, dest)}

-----------------------------------------------------------------------------
(* Start                                                                   *)

Exits(code) == exit' = code /\ pc' = "over"

MissingEntries ==
    {FileList[i] : i \in {j \in DOMAIN FileList : FileList[j] # Root /\
                            (FileList[j] \notin Paths \/ src[FileList[j]].kind = "none")}}

\* files_from_list_check, the list having been loaded.
CheckList ==
    /\ alive /\ pc = "check"
    /\ IF opt.files_from /\ (~FileListLoads \/ (MissingEntries # {} /\ opt.missing = "error"))
       THEN Exits(1) /\ UNCHANGED missing
       ELSE /\ pc' = "prepare"
            /\ missing' = IF opt.files_from /\ opt.missing = "delete"
                          THEN {IF opt.relative THEN e ELSE Home \o e : e \in MissingEntries}
                          ELSE {}
            /\ UNCHANGED exit
    /\ UNCHANGED <<scanVars, parVars, cur, chunks, manifest, had_io, stopped, aborted, sent,
                   dest, deferred, killed, foretold>>

\* append_implied_dir_times: the directories above the source that -R names.
ImpliedDirs ==
    IF opt.dir_times /\ Prefixed /\ ~opt.no_implied
    THEN [i \in 1..(Len(RelativePrefix) - 1) |->
            SubSeq(RelativePrefix, 1, Len(RelativePrefix) - i)]
    ELSE <<>>

DeleteTaps ==
    IF opt.delete = "no" THEN {}
    ELSE {"size"} \cup (IF opt.delete_excluded THEN {} ELSE {"excluded"})
                  \cup (IF opt.files_from THEN {"synced"} ELSE {})
TimeTaps == IF opt.dir_times THEN {"times"} ELSE {}

\* What the data pass records: all of it when the manifest grows with it, the
\* directory times unless the pre-scan took them.
DataTaps == (IF Late THEN DeleteTaps ELSE {}) \cup (IF Early THEN {} ELSE TimeTaps) \cup {"stop"}

\* send_files_prepare, and what its dry and multithreaded counterparts share
\* with it: the rules, the lists, the root of the deletion's scope.
Prepare ==
    /\ alive /\ pc = "prepare"
    /\ base' = FilterBaseBuild
    /\ IF ~base'.ok THEN Exits(1) /\ UNCHANGED <<sinks, tap>>
       ELSE /\ pc' = CASE opt.mode = "threads" -> "create"
                       [] opt.mode = "real" /\ (Early \/ PerDir) -> "prescan"
                       [] OTHER -> "data"
            /\ tap' = CASE opt.mode = "dry_local" -> {}
                        [] opt.mode = "dry_remote" -> DeleteTaps
                        [] opt.mode = "real" /\ Early -> DeleteTaps \cup TimeTaps
                        [] opt.mode = "real" /\ PerDir -> DeleteTaps \cup {"plan"}
                        [] OTHER -> DataTaps
            /\ sinks' = [sinks EXCEPT
                 !.synced = IF opt.delete # "no" /\ ~opt.files_from
                            THEN {IF Prefixed THEN RelativePrefix ELSE Root} ELSE {},
                 !.times = IF opt.mode \in {"real", "threads"} THEN ImpliedDirs ELSE <<>>]
            /\ UNCHANGED exit
    /\ UNCHANGED <<src, opt, sc, deadline, alive, links, changes, stable, parVars, cur, chunks,
                   manifest, missing, had_io, stopped, aborted, sent, dest, deferred, killed,
                   foretold>>

-----------------------------------------------------------------------------
(* The pre-scan and the deletions before the data                          *)

BadAddToManifest(chunk) == manifest \cup {f \in Range(chunk) : ~f.dir}

\* add_chunk_to_manifest
AddToManifest(chunk) == manifest \cup Range(chunk)

StartPreScan ==
    /\ alive /\ pc = "prescan"
    /\ sc' = [sc EXCEPT ![0] = Called(Seeded(Root, <<>>))]
    /\ pc' = "prescanning"
    /\ UNCHANGED <<src, opt, base, sinks, tap, deadline, alive, links, changes, stable, parVars, cur,
                   chunks, manifest, missing, had_io, stopped, aborted, sent, exit, dest,
                   deferred, killed, foretold>>

\* scan_paths_only: one chunk of it.  --delete-before keeps the chunk.
PreScanChunk ==
    /\ alive /\ pc = "prescanning" /\ ~sc[0].busy /\ sc[0].ret # <<>>
    /\ manifest' = AddToManifest(sc[0].ret)
    /\ chunks' = IF Early THEN Append(chunks, sc[0].ret) ELSE chunks
    /\ sc' = [sc EXCEPT ![0] = Called(@)]
    /\ UNCHANGED <<src, opt, base, sinks, tap, deadline, alive, links, changes, stable, parVars, pc,
                   cur, missing, had_io, stopped, aborted, sent, exit, dest, deferred, killed,
                   foretold>>

BadDeleteAllowed(io) == TRUE

\* ignore_errors_allows_delete
DeleteAllowed(io) == ~io \/ opt.ignore_errors

Removes(gone) == dest' = dest \ gone /\ killed' = killed \cup gone

\* The rest of send_files_prepare_delete: fail, skip the deletion, or send the
\* manifest and wait for its ack, or send all of the plans.  An interrupt may
\* end the wait, the deletion being done.
PreScanned ==
    LET s == sc[0]
        found == IF Early THEN manifest # {} ELSE \E f \in manifest : ~f.dir
        refused == s.failed \/ (s.io /\ ~found)
        deletes == ~refused /\ DeleteAllowed(s.io)
        gone == IF Early THEN TreeExtras \cup MissingNow ELSE PlanExtras
    IN  /\ alive /\ pc = "prescanning" /\ ~s.busy /\ s.ret = <<>>
        /\ had_io' = s.io
        /\ CASE ~deletes -> UNCHANGED <<dest, killed, deferred>>
             [] opt.delete = "delay" -> deferred' = gone /\ UNCHANGED <<dest, killed>>
             [] OTHER -> Removes(gone) /\ UNCHANGED deferred
        /\ missing' = IF deletes /\ PerDir THEN missing ELSE {}
        /\ tap' = DataTaps
        /\ \/ (refused \/ (Early /\ deletes /\ aborted)) /\ Exits(1)
           \/ ~refused /\ pc' = "data" /\ UNCHANGED exit
        /\ UNCHANGED <<src, opt, base, sc, sinks, deadline, alive, links, changes, stable, parVars,
                       cur, chunks, manifest, stopped, aborted, sent, foretold>>

-----------------------------------------------------------------------------
(* The data pass                                                           *)

\* --delete-before sends the list it deleted by; the others scan (again).
Replays == Early

\* send_files_run up to its loop, and the scanners of the dry runs.
StartData ==
    /\ alive /\ pc = "data" /\ pc' = "loop"
    /\ sc' = IF opt.mode = "real" /\ Replays THEN sc
             ELSE [sc EXCEPT ![0] = Called(Seeded(Root, <<>>))]
    /\ UNCHANGED <<src, opt, base, sinks, tap, deadline, alive, links, changes, stable, parVars, cur,
                   chunks, manifest, missing, had_io, stopped, aborted, sent, exit, dest,
                   deferred, killed, foretold>>

\* One turn of send_files_run's loop up to the manifest.
TakeChunk ==
    LET replay == Replays
        chunk == IF ~replay THEN sc[0].ret ELSE IF chunks = <<>> THEN <<>> ELSE Head(chunks)
    IN  /\ alive /\ pc = "loop" /\ opt.mode = "real" /\ (replay \/ ~sc[0].busy)
        /\ chunks' = IF replay /\ chunks # <<>> THEN Tail(chunks) ELSE chunks
        /\ CASE chunk = <<>> -> pc' = "finalize" /\ UNCHANGED <<exit, stopped, cur, manifest>>
             [] chunk # <<>> /\ aborted -> Exits(1) /\ UNCHANGED <<stopped, cur, manifest>>
             [] chunk # <<>> /\ ~aborted /\ deadline ->
                  /\ stopped' = TRUE /\ pc' = "finalize"
                  /\ UNCHANGED <<exit, cur, manifest>>
             [] OTHER ->
                  /\ cur' = chunk /\ pc' = "send"
                  /\ manifest' = IF Late THEN AddToManifest(chunk) ELSE manifest
                  /\ UNCHANGED <<exit, stopped>>
        /\ UNCHANGED <<scanVars, parVars, missing, had_io, aborted, sent, dest, deferred,
                       killed, foretold>>

\* file_load_data of the chunk, then send_chunk_with_removal.  Only a regular
\* file that is not a sibling is read: one that is gone ends the run.
SendChunk ==
    /\ alive /\ pc = "send"
    /\ IF \E f \in Range(cur) : ~f.dir /\ f.link = Root /\ src[f.path].kind = "none"
       THEN Exits(1) /\ UNCHANGED <<sent, dest, sc>>
       ELSE /\ sent' = sent \o cur
            /\ dest' = dest \cup Above({f.wire : f \in Range(cur)})
            /\ pc' = "loop"
            /\ sc' = IF Replays THEN sc ELSE [sc EXCEPT ![0] = Called(@)]
            /\ UNCHANGED exit
    /\ cur' = <<>>
    /\ UNCHANGED <<src, opt, base, sinks, tap, deadline, alive, links, changes, stable, parVars,
                   chunks, manifest, missing, had_io, stopped, aborted, deferred, killed,
                   foretold>>

\* send_files_finalize, and what the receiver does on STATUS_FINISHED.
Finalize ==
    LET scan == ~Replays
        io == had_io \/ (scan /\ sc[0].io)
        cut == stopped \/ deadline
        late == Late \/ (opt.delete = "no" /\ opt.missing = "delete")
        gone == CASE PerDir -> DeferredNow \cup MissingNow
                  [] late /\ ~cut /\ DeleteAllowed(io) ->
                       (IF Late THEN TreeExtras ELSE {}) \cup MissingNow
                  [] OTHER -> {}
    IN  /\ alive /\ pc = "finalize"
        /\ IF \/ scan /\ sc[0].failed
              \/ aborted
              \/ ~cut /\ io /\ Late /\ manifest = {}
           THEN Exits(1) /\ UNCHANGED <<had_io, stopped, dest, killed>>
           ELSE /\ had_io' = io /\ stopped' = cut
                /\ Removes(gone)
                /\ Exits(IF io THEN 23 ELSE 0)
        /\ UNCHANGED <<scanVars, parVars, cur, chunks, manifest, missing, aborted, sent,
                       deferred, foretold>>

-----------------------------------------------------------------------------
(* Dry runs                                                                *)

DryChunk ==
    /\ alive /\ pc = "loop" /\ opt.mode \in {"dry_local", "dry_remote"}
    /\ ~sc[0].busy /\ sc[0].ret # <<>>
    /\ sent' = sent \o sc[0].ret
    /\ manifest' = AddToManifest(sc[0].ret)
    /\ sc' = [sc EXCEPT ![0] = Called(@)]
    /\ UNCHANGED <<src, opt, base, sinks, tap, deadline, alive, links, changes, stable, parVars, pc,
                   cur, chunks, missing, had_io, stopped, aborted, exit, dest, deferred, killed,
                   foretold>>

\* The local dry run never asks whether the scan failed; the remote one sends the
\* keep-set, whatever the timing, and the receiver answers with the extras.
DryDone ==
    LET s == sc[0] IN
    /\ alive /\ pc = "loop" /\ opt.mode \in {"dry_local", "dry_remote"}
    /\ ~s.busy /\ s.ret = <<>>
    /\ \/ opt.mode = "dry_local" /\ Exits(0) /\ foretold' = missing
       \/ /\ opt.mode = "dry_remote" /\ (s.failed \/ (Early /\ aborted))
          /\ Exits(1) /\ UNCHANGED foretold
       \/ /\ opt.mode = "dry_remote" /\ ~s.failed
          /\ Exits(IF s.io THEN 1 ELSE 0)
          /\ foretold' = IF opt.delete = "no" THEN {} ELSE TreeExtras
    /\ UNCHANGED <<scanVars, parVars, cur, chunks, manifest, missing, had_io, stopped, aborted,
                   sent, dest, deferred, killed>>

-----------------------------------------------------------------------------
(* The scanner thread of the multithreaded client                          *)

ThreadCreates ==
    /\ pc = "create"
    /\ \E ok \in BOOLEAN : /\ CreateParallel(ok)
                           /\ IF ok THEN pc' = "parallel" /\ UNCHANGED exit ELSE Exits(1)
    /\ UNCHANGED <<cur, chunks, manifest, missing, had_io, stopped, aborted, sent, dest,
                   deferred, killed, foretold>>

\* scan_directory_multithreaded: a chunk goes to the loaders' queue, or the
\* pipeline is cancelled.
ThreadTakes ==
    /\ pc = "parallel"
    /\ \E chunk \in {<<>>, ps.initial} \cup Range(ps.queue) :
         /\ ParallelNext(chunk)
         /\ CASE chunk = <<>> ->
                   /\ pc' = "destroy" /\ exit' = IF ps.failed THEN 1 ELSE 0
                   /\ UNCHANGED <<sent, manifest>>
              [] chunk # <<>> /\ aborted ->
                   pc' = "destroy" /\ exit' = 1 /\ UNCHANGED <<sent, manifest>>
              [] OTHER ->
                   /\ sent' = sent \o chunk
                   /\ manifest' = IF Late THEN AddToManifest(chunk) ELSE manifest
                   /\ UNCHANGED <<pc, exit>>
    /\ UNCHANGED <<scanVars, cur, chunks, missing, had_io, stopped, aborted, dest, deferred,
                   killed, foretold>>

\* The I/O verdict is read, then the scanner destroyed.
ThreadDestroys ==
    /\ pc = "destroy" /\ pc' = "join" /\ DestroyParallel
    /\ had_io' = ps.io
    /\ exit' = IF exit = 0 /\ ps.io THEN 23 ELSE exit
    /\ UNCHANGED <<scanVars, cur, chunks, manifest, missing, stopped, aborted, sent, dest,
                   deferred, killed, foretold>>
ThreadJoins ==
    /\ pc = "join" /\ pc' = "over" /\ ParallelJoined
    /\ UNCHANGED <<scanVars, cur, chunks, manifest, missing, had_io, stopped, aborted, sent,
                   exit, dest, deferred, killed, foretold>>

-----------------------------------------------------------------------------
(* The surroundings                                                        *)

SourceChanges ==
    /\ pc # "over" /\ \E p \in Paths : SourceRemoved(p) \/ SourceCreated(p)
    /\ UNCHANGED <<parVars, runVars>>
\* --stop-at, --stop-after: the deadline is set when the data pass begins.
DeadlinePasses ==
    /\ alive /\ opt.stop /\ ~deadline /\ pc \notin {"check", "prepare", "prescan", "prescanning", "over"}
    /\ deadline' = TRUE
    /\ UNCHANGED <<src, opt, base, sc, sinks, tap, alive, links, changes, stable, parVars, runVars>>
Interrupt ==
    /\ alive /\ opt.interrupt /\ ~aborted /\ pc # "over"
    /\ aborted' = TRUE
    /\ UNCHANGED <<scanVars, parVars, pc, cur, chunks, manifest, missing, had_io, stopped, sent,
                   exit, dest, deferred, killed, foretold>>
Over == (pc = "over" \/ ~alive) /\ UNCHANGED vars

SequentialStep ==
    \/ CheckList \/ Prepare \/ StartPreScan \/ PreScanChunk \/ PreScanned
    \/ StartData \/ TakeChunk \/ SendChunk \/ Finalize \/ DryChunk \/ DryDone \/ ThreadCreates
    \/ ScannerStep(0) /\ UNCHANGED <<parVars, runVars>>
ThreadStep == ThreadTakes \/ ThreadDestroys \/ ThreadJoins
WorkersStep(w) == WorkerStep(w) /\ UNCHANGED runVars

Next ==
    \/ SequentialStep \/ ThreadStep \/ \E w \in Workers : WorkersStep(w)
    \/ SourceChanges \/ DeadlinePasses \/ Interrupt \/ Over

\* The scanner thread and its workers keep running.
Spec == Init /\ [][Next]_vars /\ WF_vars(ThreadStep) /\ \A w \in Workers : WF_vars(WorkersStep(w))

-----------------------------------------------------------------------------
(* What a run selects, stated without the walk                             *)

Ups(p) == {SubSeq(p, 1, i) : i \in 0..Len(p)}
RulesFor(d) ==
    FoldLeft(LAMBDA acc, i : FilterContext(SubSeq(d, 1, i - 1), acc), <<>>, [i \in 1..(Len(d) + 1) |-> i])
Chosen(p, is_dir) == PassesSelection(RulesFor(Front(p)), p, is_dir)
Entered(d) ==
    d = Root \/ /\ Inspected(src[d]).dir /\ Chosen(d, TRUE) /\ SameFilesystem(src[d].fs)
                /\ opt.max_depth > 0 => Len(d) < opt.max_depth
MountPoint(p) ==
    Inspected(src[p]).dir /\ Chosen(p, TRUE) /\ ~SameFilesystem(src[p].fs) /\ opt.one_fs = 1
ChosenFile(p) ==
    LET i == Inspected(src[p])
    IN  /\ i.kept /\ ~i.dir /\ ~SpecialSkipped(i.kind) /\ Chosen(p, FALSE)
        /\ opt.max_depth > 0 => Len(p) =< opt.max_depth
Barren(d) ==
    /\ d # Root /\ src[d].kind = "dir" /\ Entered(d) /\ ~opt.prune_empty /\ ~opt.files_from
    /\ \A p \in Children(d) :
         /\ ~ChosenFile(p)
         /\ ~(Inspected(src[p]).dir /\ Chosen(p, TRUE) /\ (SameFilesystem(src[p].fs) \/ opt.one_fs = 1))
\* Selected, were everything readable.
Selected(p) ==
    /\ p \in Paths /\ src[p].kind # "none" /\ \A d \in Ups(Front(p)) : Entered(d)
    /\ ChosenFile(p) \/ MountPoint(p) \/ Barren(p)
Reached(p) == \A d \in Ups(Front(p)) : Openable(d)

\* The order of a file list: in every directory its files, then its mount points,
\* then its directories, each by name.
Rank(p, i) ==
    CASE i < Len(p) \/ Barren(p) -> 2 [] MountPoint(p) -> 1 [] OTHER -> 0
Precedes(p, q) ==
    LET i == Min({k \in 1..Len(p) : k > Len(q) \/ p[k] # q[k]})
        before(r, s) == r < s \/ (r = s /\ p[i] < q[i])
    IN  before(Rank(p, i), Rank(q, i))
SelectedList ==
    InOrder({p \in Paths : Selected(p) /\ Reached(p) /\ (Barren(p) => Openable(p))}, Precedes)

Finished == alive /\ pc = "over"
Complete == Finished /\ exit \in {0, 23} /\ ~stopped /\ ~deadline
SentPaths == [i \in DOMAIN sent |-> sent[i].path]

-----------------------------------------------------------------------------
(* Properties                                                              *)

\* directory_scanner_next, in chunks and over a stack of directories, gives
\* exactly the selected entries in rsync's order (RSYNC_COMPAT: a directory's
\* files before its subdirectories); the parallel scanner gives each of them
\* once, in some order.  A tree nobody changes; every traversed directory's
\* time is taken once.
EmitsSelection ==
    Complete /\ stable = Paths /\ ~opt.dirs =>
      /\ \E list \in {SelectedList} :
           IF opt.mode = "threads"
           THEN Range(SentPaths) = Range(list) /\ Len(SentPaths) = Len(list)
           ELSE SentPaths = list
      /\ Cardinality(Range(sinks.times)) = Len(sinks.times)

Untouched(p) == \A q \in Paths : IsPrefix(p, q) \/ IsPrefix(q, p) => q \in stable

\* Exit code 0: every selected entry that no other program touched was sent,
\* also when it lies below a directory that cannot be opened.
ExitTells ==
    Complete /\ exit = 0 /\ opt.mode # "dry_local" /\ ~opt.dirs =>
      \A p \in Paths : (Untouched(p) /\ Selected(p)) => p \in Range(SentPaths)

\* The mirror of a source path the run has no business deleting.
Transferable(p) ==
    LET i == Inspected(src[p])
    IN  CASE i.dir -> SameFilesystem(src[p].fs) /\ (opt.max_depth > 0 => Len(p) < opt.max_depth)
                      /\ (src[p].open \/ ~opt.ignore_errors)
          [] i.kept -> ~SpecialSkipped(i.kind) /\ (opt.max_depth > 0 => Len(p) =< opt.max_depth)
          [] OTHER -> i.excluded # "no"
Claimed(p) ==
    /\ p \in Paths /\ src[p].kind # "none" /\ Untouched(p)
    /\ \A d \in Ups(p) \ {Root} : FileListAffects(d) /\ Transferable(d)
    /\ Inspected(src[p]).dir => ~opt.prune_empty /\ ~opt.files_from
    /\ opt.delete_excluded => \A d \in Ups(p) \ {Root} : Chosen(d, Inspected(src[d]).dir)

\* No timing of --delete removes the mirror of a source path that was there all
\* the time: not for an unreadable directory (unless --ignore-errors), a stop
\* deadline, an interrupt, a rule, a size limit, or what others do meanwhile.
\* Nor does a dry run that ends well say so.
StableMirrorsSurvive ==
    \A p \in Paths : Claimed(p) =>
      WirePath(p) \notin killed /\ (exit = 0 => WirePath(p) \notin foretold)

\* What a run that ends well has sent is at the destination when it ends
\* (a deletion never takes back what the same run transferred), except for a path
\* that appeared behind the pre-scan of --delete-delay: its snapshot is committed
\* as it was recorded.
SentSurvive ==
    Finished /\ opt.mode = "real" /\ exit \in {0, 23} =>
      \A i \in DOMAIN sent :
        sent[i].wire \in dest \/ (opt.delete = "delay" /\ sent[i].path \notin stable)

\* -H: a sibling is sent behind the first file of its group, which is sent with
\* its data (scanner_assign_hardlink: "the first member is left untouched").
FirstBeforeSiblings ==
    \A i \in DOMAIN sent : sent[i].link # Root =>
      \E j \in 1..(i - 1) : sent[j].wire = sent[i].link /\ sent[j].link = Root

\* The scanner thread ends: every worker returns and is joined, also when the
\* consumer stops taking chunks (parallel_scanner_destroy), the queue being full.
ThreadsEnd == pc = "parallel" ~> (pc = "over" \/ ~alive)

=============================================================================
