------------------------------ MODULE Scanner ------------------------------
(***************************************************************************)
(* The source scan: the filter rules and their per-directory merge files,  *)
(* the --files-from allow-set, the inspection of one entry, and the        *)
(* DirectoryScanner that walks the tree with a stack of directories and    *)
(* hands its caller chunks of files.  Several scanners may run at a time   *)
(* (the workers of the parallel scanner); other programs change the source *)
(* between two steps.                                                      *)
(***************************************************************************)
EXTENDS Integers, Sequences, FiniteSets, TLC, FiniteSetsExt, SequencesExt

CONSTANTS
    Paths,          \* paths below the transfer root: sequences of names, names
                    \* being positive integers in byte order
    Home,           \* the path of the transfer root itself
    FilterFile,     \* the name .rsync-filter
    MergeFiles,     \* merge files by name: sequences of rule texts
    CvsPattern,     \* what the CVS default patterns match
    MaxMergeDepth,  \* FILTER_MAX_MERGE_DEPTH
    ChunkSize,      \* chunk_size
    Scanners,       \* scanner identities; 0 is the sequential one
    MaxChanges,     \* bound: changes other programs make to the source
    NewInode,       \* the inode of a file they create
    Cases           \* source tree, destination and options of a run

Root == <<>>
Dot == 0            \* the component "."; -1 is ".."; -2 an empty component
DotDot == -1
Empty == -2

ASSUME ScannerAssumption ==
    /\ \A p \in Paths : p # Root /\ (Len(p) > 1 => Front(p) \in Paths)
    /\ Home # Root /\ MaxMergeDepth \in Nat /\ ChunkSize \in Nat /\ MaxChanges \in Nat
    /\ 0 \in Scanners /\ \A c \in Cases : c.changes =< MaxChanges

VARIABLES
    src,            \* the source: an entry for every path and the root
    opt,            \* the configuration
    base,           \* the rules of the command line, once prepared
    sc,             \* scanner states
    sinks,          \* the lists a scan fills besides its chunks
    tap,            \* which of them, and the stop condition, are attached
    deadline,       \* the stop deadline has passed
    alive,          \* the client process runs
    links,          \* the -H table: the first path sent of an inode
    changes, stable \* changes still to come, and the paths they left alone

scanVars == <<src, opt, base, sc, sinks, tap, deadline, alive, links, changes, stable>>

\* An entry: kind; size; fs, the device it is on; ref, what a link refers to;
\* unsafe, a link out of the tree; open and search, the permissions of a
\* directory; rules, the lines of a filter file; ino, its inode.
NoEntry == [kind |-> "none", size |-> 0, ino |-> Root, fs |-> 0, ref |-> "none", unsafe |-> FALSE,
            open |-> TRUE, search |-> TRUE, rules |-> <<>>]

IsDirAt(p) == src[p].kind = "dir" \/ (src[p].kind = "link" /\ src[p].ref = "dir")
Openable(p) == IsDirAt(p) /\ src[p].open
Children(d) ==
    {p \in Paths : Len(p) = Len(d) + 1 /\ IsPrefix(d, p) /\ src[p].kind # "none"}
\* A set as the sequence a strict total order makes of it.
InOrder(S, Before(_, _)) ==
    [i \in 1..Cardinality(S) |->
       CHOOSE p \in S : Cardinality({q \in S : q # p /\ Before(q, p)}) = i - 1]
ByName(S) == InOrder(S, LAMBDA p, q : Last(p) < Last(q))

-----------------------------------------------------------------------------
(* The --files-from list                                                   *)

NormalizeEntry(raw) == SelectSeq(raw, LAMBDA c : c \notin {Dot, Empty})
InvalidEntry(raw) == DotDot \in Range(raw) \/ (raw # <<>> /\ Head(raw) = Empty)
\* Blank lines are skipped; "." lists the root.
Normalized(entries) == [i \in DOMAIN entries |-> NormalizeEntry(entries[i])]
FileList == Normalized(SelectSeq(opt.list, LAMBDA e : e # <<>>))
FileListLoads == \A i \in DOMAIN opt.list : ~InvalidEntry(opt.list[i])

\* A path is affected by a listed path, one above it or one below it.
FileListAffects(rel) ==
    opt.files_from => \E e \in Range(FileList) : IsPrefix(e, rel) \/ IsPrefix(rel, e)
FileListDirInScope(rel) ==
    opt.files_from => \E e \in Range(FileList) : IsPrefix(e, rel)

-----------------------------------------------------------------------------
(* Paths on the wire                                                       *)

\* -R with --files-from: relative_mode.
Bare == opt.relative /\ opt.files_from
\* scanner_relative_prefix: what follows the "/./" of the source argument.
RelativePrefix == SubSeq(Home, opt.cut + 1, Len(Home))
Prefixed == opt.relative /\ ~opt.files_from
WirePath(rel) ==
    CASE Bare -> rel [] Prefixed -> RelativePrefix \o rel [] OTHER -> Home \o rel

-----------------------------------------------------------------------------
(* Filter rules                                                            *)

\* A rule text: [kind, mod, pat, dir, file]; a rule: [act, sides, anchored,
\* dir_only, negate, owner, pat].  A pattern is the set of paths it matches.
Rule(t) ==
    [act      |-> IF t.kind \in {"include", "show", "risk"} THEN "include" ELSE "exclude",
     sides    |-> CASE t.kind \in {"hide", "show"} -> {"s"}
                    [] t.kind \in {"protect", "risk"} -> {"r"}
                    [] t.mod \cap {"s", "r"} # {} -> t.mod \cap {"s", "r"}
                    [] opt.delete_excluded -> {"s"}
                    [] OTHER -> {"s", "r"},
     anchored |-> "/" \in t.mod, dir_only |-> t.dir, negate |-> "!" \in t.mod,
     owner    |-> Root, pat |-> t.pat]
CvsRules(sides) ==
    <<[act |-> "exclude", sides |-> sides, anchored |-> FALSE, dir_only |-> FALSE,
       negate |-> FALSE, owner |-> Root, pat |-> CvsPattern]>>

\* A merge rule stands for the lines of its file, to a depth; a file that cannot
\* be read, or one too deep, for a line that is refused.
Refused == <<[kind |-> "invalid", mod |-> {}, pat |-> {}, dir |-> FALSE, file |-> 0]>>
IsMerge(t) == t.kind = "merge" /\ t.mod \cap {"x", "C"} = {}
MergeFile ==
    LET m[k \in 1..(MaxMergeDepth + 1), f \in DOMAIN MergeFiles] ==
          IF k > MaxMergeDepth /\ MergeFiles[f] # <<>> THEN Refused
          ELSE FlattenSeq([i \in DOMAIN MergeFiles[f] |->
                 LET t == MergeFiles[f][i]
                 IN  IF ~IsMerge(t) THEN <<t>>
                     ELSE IF t.file \in DOMAIN MergeFiles THEN m[k + 1, t.file] ELSE Refused])
    IN  m
Expanded(texts) ==
    FlattenSeq([i \in DOMAIN texts |->
      IF ~IsMerge(texts[i]) THEN <<texts[i]>>
      ELSE IF texts[i].file \in DOMAIN MergeFiles THEN MergeFile[1, texts[i].file] ELSE Refused])

\* filter_list_parse_append_depth: the rules behind the last clear rule, and the
\* names dir-merge rules register (a clear rule leaves them).
RejectedLine(t) == t.kind = "invalid" \/ "x" \in t.mod
ClearsRules(t) == t.kind = "clear" /\ "C" \notin t.mod
LineRules(t) ==
    CASE "C" \in t.mod ->
           CvsRules(IF t.mod \cap {"s", "r"} # {} THEN t.mod \cap {"s", "r"} ELSE {"s", "r"})
      [] t.kind \in {"clear", "dir-merge"} -> <<>>
      [] OTHER -> <<Rule(t)>>
LastClear(lines) == Max({0} \cup {i \in DOMAIN lines : ClearsRules(lines[i])})
RulesOf(lines) == FlattenSeq([i \in DOMAIN lines |-> LineRules(lines[i])])
NamesOf(merges) ==
    LET first == {i \in DOMAIN merges : \A k \in 1..(i - 1) : merges[k].file # merges[i].file}
        nth == InOrder(first, LAMBDA i, k : i < k)
    IN  [i \in 1..Cardinality(first) |-> merges[nth[i]].file]
ParsedExpanded(all) ==
    [ok |-> ~\E t \in Range(all) : RejectedLine(t), cleared |-> LastClear(all) > 0,
     rules |-> RulesOf(SubSeq(all, LastClear(all) + 1, Len(all))),
     names |-> NamesOf(SelectSeq(all, LAMBDA t : t.kind = "dir-merge" /\ "C" \notin t.mod))]
ParsedLines(texts) == ParsedExpanded(Expanded(texts))

NoRules == [ok |-> TRUE, cleared |-> FALSE, rules |-> <<>>, names |-> <<>>]

\* filter_base_build: the command line's rules, then -C.
FilterBaseBuild ==
    LET parsed == ParsedLines(opt.filters)
    IN  IF opt.cvs THEN [parsed EXCEPT !.rules = @ \o CvsRules({"s", "r"})] ELSE parsed

\* A file that is not there contributes nothing; a directory cannot be read.
FilterFileReadable(p) == p \notin Paths \/ ~IsDirAt(p)
FilterFileLines(p) == IF p \in Paths /\ src[p].kind # "none" THEN src[p].rules ELSE <<>>

\* filter_file_append.  The owner is given to the rules behind those that were
\* there before the file was read: with a clear rule in a second file that is
\* not all of them.
OwnedBehind(n, rules, d) ==
    [i \in DOMAIN rules |-> IF i > n THEN [rules[i] EXCEPT !.owner = d] ELSE rules[i]]
FilterFileAppend(rules, d, parsed) ==
    OwnedBehind(Len(rules), IF parsed.cleared THEN parsed.rules ELSE rules \o parsed.rules, d)

\* read_dir_filters: .rsync-filter under -F, then every dir-merge name.
FilterNames == (IF opt.per_dir > 0 THEN <<FilterFile>> ELSE <<>>) \o base.names
FilterFiles(d, names) == [i \in DOMAIN names |-> Append(d, names[i])]
Joined(d, files) ==
    FoldLeft(LAMBDA acc, p : LET parsed == ParsedLines(FilterFileLines(p))
                             IN  [ok |-> acc.ok /\ parsed.ok /\ FilterFileReadable(p),
                                  rules |-> FilterFileAppend(acc.rules, d, parsed)],
             [ok |-> TRUE, rules |-> <<>>], files)
DirFilters(d) == Joined(d, FilterFiles(d, FilterNames))

\* open_directory_filter_context: the innermost rules come first.
FilterContext(d, inherited) == DirFilters(d).rules \o inherited

RuleMatches(r, rel, is_dir, side) ==
    /\ side \in r.sides /\ IsStrictPrefix(r.owner, rel)
    /\ LET rel2 == SubSeq(rel, Len(r.owner) + 1, Len(rel))
           matched == /\ r.dir_only => is_dir
                      /\ CASE r.anchored -> rel2 \in r.pat
                           [] \E q \in r.pat : Len(q) > 1 -> Suffixes(rel2) \cap r.pat # {}
                           [] OTHER -> <<Last(rel)>> \in r.pat
       IN  matched # r.negate

\* The first rule that matches decides, for each side by itself.
ExcludedOnSide(rules, rel, is_dir, side) ==
    LET hits == {i \in DOMAIN rules : RuleMatches(rules[i], rel, is_dir, side)}
    IN  hits # {} /\ rules[Min(hits)].act = "exclude"

\* entry_passes_selection: what the allow-set and the rules say of an entry.
Filtering == opt.filters # <<>> \/ opt.cvs \/ opt.per_dir > 0
FilterFileHidden(rel, is_dir) == opt.per_dir > 1 /\ ~is_dir /\ Last(rel) = FilterFile
PassesSelection(ctx, rel, is_dir) ==
    /\ FileListAffects(rel)
    /\ Filtering => /\ ~FilterFileHidden(rel, is_dir)
                    /\ ~ExcludedOnSide(ctx \o base.rules, rel, is_dir, "s")
ProtectedByRule(ctx, rel, is_dir) ==
    /\ FileListAffects(rel) /\ Filtering /\ ~FilterFileHidden(rel, is_dir)
    /\ ExcludedOnSide(ctx \o base.rules, rel, is_dir, "r")

-----------------------------------------------------------------------------
(* Inspection of one entry                                                 *)

\* scanner_link_action
LinkAction(e) ==
    CASE opt.links = {} -> "skip"
      [] "copy" \in opt.links \/ ("copy_unsafe" \in opt.links /\ e.unsafe) -> "deref"
      [] "copy_dirlinks" \in opt.links /\ e.ref = "dir" -> "deref"
      [] "safe" \in opt.links /\ (e.unsafe \/ opt.munge) -> "protect"
      [] "carry" \in opt.links -> "carry"
      [] OTHER -> "skip"

SizeExcluded(size) ==
    \/ opt.max_size > 0 /\ size > opt.max_size
    \/ opt.min_size > 0 /\ size < opt.min_size

\* scanner_inspect_entry: kept; dir; kind of what is kept; excluded, with size
\* when by its size; dangling, a followed link without a referent; freed, the
\* path was freed and is still in the record.
Skip == [kept |-> FALSE, dir |-> FALSE, kind |-> "none", size |-> 0, fs |-> 0, ino |-> Root,
         excluded |-> "no", dangling |-> FALSE, freed |-> FALSE]
Inspected(e) ==
    LET act == IF e.kind = "link" THEN LinkAction(e) ELSE "deref"
        kind == IF e.kind = "link" /\ act = "deref" THEN e.ref ELSE e.kind
    IN  CASE act = "skip" -> Skip
          [] act = "protect" -> [Skip EXCEPT !.excluded = "rule"]
          [] kind = "none" -> [Skip EXCEPT !.dangling = TRUE]
          [] kind = "dir" -> [Skip EXCEPT !.kept = TRUE, !.dir = TRUE, !.kind = kind, !.fs = e.fs]
          [] SizeExcluded(e.size) -> [Skip EXCEPT !.excluded = "size"]
          [] OTHER -> [Skip EXCEPT !.kept = TRUE, !.kind = kind, !.size = e.size, !.fs = e.fs,
                              !.ino = e.ino]
\* lstat failed: the entry vanished since readdir, or the directory cannot be
\* searched.
Unstatable == [Skip EXCEPT !.freed = TRUE]

\* -x
SameFilesystem(fs) == opt.one_fs = 0 \/ fs = src[Root].fs

\* scanner_prepare_special: devices and special files are skipped unless asked
\* for.
SpecialSkipped(kind) ==
    \/ kind = "device" /\ ~opt.copy_devices /\ "devices" \notin opt.keep
    \/ kind = "fifo" /\ "specials" \notin opt.keep

\* scanner_buffer_current_directory: what is not a directory first, each group
\* by name.
Sorted(d, gone) ==
    LET inspected(p) == IF p \in gone \/ ~src[d].search THEN Unstatable ELSE Inspected(src[p])
        entries == {[path |-> p, insp |-> inspected(p)] : p \in Children(d)}
    IN  InOrder(entries, LAMBDA e, f : IF e.insp.dir = f.insp.dir THEN Last(e.path) < Last(f.path)
                                       ELSE f.insp.dir)

-----------------------------------------------------------------------------
(* The scanner                                                             *)

Idle == [stack |-> <<>>, open |-> FALSE, dir |-> Root, depth |-> 0, ctx |-> <<>>,
         left |-> <<>>, freed |-> FALSE, pending |-> <<>>, produced |-> FALSE,
         batch |-> <<>>, bytes |-> 0, started |-> FALSE, index |-> 0,
         failed |-> FALSE, io |-> FALSE, busy |-> FALSE, ret |-> <<>>]
\* directory_scanner_create_with_options
Seeded(root, ctx) == [Idle EXCEPT !.stack = <<[path |-> root, depth |-> 0, ctx |-> ctx]>>]

\* A file of a chunk; link: the path of the first file of its -H group.
Item(rel, wire, is_dir) == [path |-> rel, wire |-> wire, dir |-> is_dir, link |-> Root]

BadAssignHardlink(ino, wire) == (ino :> wire) @@ links

\* hardlink_table_assign: an inode the table knows makes a file a sibling.
AssignHardlink(ino, wire) ==
    IF ino \in DOMAIN links THEN links ELSE links @@ (ino :> wire)
Grouped(e) == opt.hard_links /\ e.insp.kind = "file"
FileItem(e) ==
    LET item == Item(e.path, WirePath(e.path), FALSE)
    IN  IF Grouped(e) /\ e.insp.ino \in DOMAIN links
        THEN [item EXCEPT !.link = links[e.insp.ino]] ELSE item

Called(s) == [s EXCEPT !.busy = TRUE, !.ret = <<>>]
Returns(s) == [s EXCEPT !.busy = FALSE, !.ret = s.batch, !.batch = <<>>, !.bytes = 0]
ReturnsNull(s) == [s EXCEPT !.busy = FALSE, !.ret = <<>>, !.batch = <<>>, !.bytes = 0]

StopReached == "stop" \in tap /\ deadline
Scanning(w) == alive /\ sc[w].busy

\* The stop condition drops what the call has gathered.
StopScan(w) ==
    /\ Scanning(w) /\ StopReached
    /\ sc' = [sc EXCEPT ![w] = ReturnsNull(@)]
    /\ UNCHANGED <<src, opt, base, sinks, tap, deadline, alive, links, changes, stable>>

\* scanner_record_synced_dir and scanner_capture_dir_time of a directory.
SyncedDir(k, d) ==
    LET wire == {WirePath(d)}
    IN  IF ~FileListDirInScope(d) THEN k
        ELSE [k EXCEPT !.synced = IF "synced" \in tap THEN @ \cup wire ELSE @,
                       !.plan = IF "plan" \in tap /\ WirePath(d) # Root THEN @ \cup wire ELSE @]
DirTime(k, d) ==
    IF \/ "times" \notin tap \/ WirePath(d) = Root
       \/ opt.no_implied /\ opt.files_from /\ ~FileListDirInScope(d)
    THEN k ELSE [k EXCEPT !.times = Append(@, WirePath(d))]

\* open_next_directory of one queued directory.  A directory that cannot be
\* opened is skipped; the root is not.
Entering(popped, de, filters, entries) ==
    [popped EXCEPT !.open = TRUE, !.dir = de.path, !.depth = de.depth,
                   !.ctx = filters.rules \o de.ctx, !.left = entries, !.pending = <<>>,
                   !.freed = \E i \in DOMAIN entries : entries[i].insp.freed]
OpenDirectory(w) ==
    LET s == sc[w]
        de == Last(s.stack)
        d == de.path
        popped == [s EXCEPT !.stack = Front(@), !.produced = FALSE]
    IN  /\ Scanning(w) /\ ~StopReached /\ ~opt.dirs /\ ~s.open /\ s.stack # <<>>
        /\ \/ /\ ~Openable(d)
              /\ sc' = [sc EXCEPT ![w] =
                   IF d = Root THEN Returns([popped EXCEPT !.io = TRUE, !.failed = TRUE])
                   ELSE [popped EXCEPT !.io = TRUE]]
              /\ UNCHANGED <<src, sinks, changes, stable>>
           \/ /\ Openable(d)
              /\ \E filters \in {DirFilters(d)} :
                   \/ /\ ~filters.ok
                      /\ sc' = [sc EXCEPT ![w] = Returns([popped EXCEPT !.failed = TRUE])]
                      /\ UNCHANGED <<src, sinks, changes, stable>>
                   \/ /\ filters.ok /\ s.failed
                      /\ sc' = [sc EXCEPT ![w] = Returns(popped)]
                      /\ sinks' = DirTime(SyncedDir(sinks, d), d)
                      /\ UNCHANGED <<src, changes, stable>>
                   \/ /\ filters.ok /\ ~s.failed
                      /\ \E gone \in {{}} \cup {{p} : p \in Children(d)} :
                           LET lost == {p \in Paths : \E g \in gone : IsPrefix(g, p)}
                           IN  /\ Cardinality(gone) =< changes
                               /\ changes' = changes - Cardinality(gone)
                               /\ stable' = stable \ lost
                               /\ src' = [p \in DOMAIN src |-> IF p \in lost THEN NoEntry ELSE src[p]]
                               /\ sc' = [sc EXCEPT ![w] = Entering(popped, de, filters, Sorted(d, gone))]
                      /\ sinks' = DirTime(SyncedDir(sinks, d), d)
        /\ UNCHANGED <<opt, base, tap, deadline, alive, links>>

\* scanner_record_selection_protection: the mirrors a dropped or protected entry
\* keeps from deletion.  An entry outside the --files-from list keeps nothing.
SelectionShield(ctx, rel, is_dir) ==
    LET protect == ProtectedByRule(ctx, rel, is_dir)
    IN  IF /\ ~PassesSelection(ctx, rel, is_dir) \/ protect
           /\ IF Bare THEN protect ELSE FileListAffects(rel)
        THEN {WirePath(rel)} ELSE {}

\* scanner_handle_skipped_entry and the recording half of scanner_process_entry.
EntryShields(e, ctx) ==
    [excluded |-> CASE e.insp.kept -> SelectionShield(ctx, e.path, e.insp.dir)
                    [] e.insp.excluded = "rule" -> {WirePath(e.path)}
                    [] OTHER -> {},
     size     |-> IF e.insp.excluded = "size" THEN {WirePath(e.path)} ELSE {}]

\* A mount point's entry carries no path of its own for the wire.
MountItem(rel) == Item(rel, Home \o rel, TRUE)

\* scanner_process_entry on a directory: handled as a mount point, or queued.
DirectoryEntry(s, e) ==
    CASE ~SameFilesystem(e.insp.fs) /\ opt.one_fs > 1 -> s
      [] ~SameFilesystem(e.insp.fs) ->
           [s EXCEPT !.batch = Append(@, MountItem(e.path)), !.produced = TRUE]
      [] opt.max_depth > 0 /\ s.depth + 1 >= opt.max_depth -> [s EXCEPT !.produced = TRUE]
      [] OTHER -> [s EXCEPT !.produced = TRUE, !.pending =
                     Append(@, [path |-> e.path, depth |-> s.depth + 1, ctx |-> s.ctx])]

\* --max-depth, and a special file nobody asked for.
FileDropped(s, e) ==
    (opt.max_depth > 0 /\ s.depth + 1 > opt.max_depth) \/ SpecialSkipped(e.insp.kind)

\* scanner_process_entry on anything else; the chunk is cut behind the file that
\* makes it too large.  A carried link and a sibling weigh nothing.
FileEntry(s, e) ==
    LET size == IF e.insp.kind = "link" \/ FileItem(e).link # Root THEN 0 ELSE e.insp.size
        added == [s EXCEPT !.produced = TRUE, !.bytes = @ + size,
                           !.batch = Append(@, FileItem(e))]
    IN  IF FileDropped(s, e) THEN s ELSE IF added.bytes > ChunkSize THEN Returns(added) ELSE added

\* One buffered entry.
ScanEntry(w) ==
    LET e == Head(sc[w].left)
        s == [sc[w] EXCEPT !.left = Tail(@)]
        shields == EntryShields(e, s.ctx)
        file == e.insp.kept /\ ~e.insp.dir /\ PassesSelection(s.ctx, e.path, FALSE)
    IN  /\ Scanning(w) /\ ~StopReached /\ ~opt.dirs /\ sc[w].open /\ sc[w].left # <<>>
        /\ sinks' = [sinks EXCEPT
             !.excluded = IF "excluded" \in tap THEN @ \cup shields.excluded ELSE @,
             !.size = IF "size" \in tap THEN @ \cup shields.size ELSE @]
        /\ sc' = [sc EXCEPT ![w] =
             CASE ~e.insp.kept -> [s EXCEPT !.io = @ \/ e.insp.dangling]
               [] ~PassesSelection(s.ctx, e.path, e.insp.dir) -> s
               [] e.insp.dir -> DirectoryEntry(s, e)
               [] OTHER -> FileEntry(s, e)]
        /\ links' = IF file /\ Grouped(e) /\ ~FileDropped(s, e)
                    THEN AssignHardlink(e.insp.ino, WirePath(e.path)) ELSE links
        /\ UNCHANGED <<src, opt, base, tap, deadline, alive, changes, stable>>

\* scanner_emit_empty_dir: the directory itself, when nothing came out of it.
EmptyDir(s) ==
    IF s.produced \/ opt.prune_empty \/ opt.files_from \/ s.dir = Root \/ src[s.dir].kind # "dir"
    THEN <<>> ELSE <<Item(s.dir, WirePath(s.dir), TRUE)>>

BadPushPending(s) == s.stack \o s.pending

\* scanner_push_pending_dirs: reversed, so that the first name is popped first.
PushPending(s) == s.stack \o Reverse(s.pending)

\* scanner_finish_current_directory.  Freeing the buffered entries frees the
\* path of one that could not be inspected a second time: anything may follow,
\* here the process goes on or is gone.
FinishDirectory(w) ==
    LET s == sc[w]
        done == [s EXCEPT !.batch = @ \o EmptyDir(s), !.stack = PushPending(s),
                          !.pending = <<>>, !.open = FALSE, !.freed = FALSE]
    IN  /\ Scanning(w) /\ ~StopReached /\ ~opt.dirs /\ s.open /\ s.left = <<>>
        /\ sc' = [sc EXCEPT ![w] = IF s.failed THEN ReturnsNull(done) ELSE done]
        /\ alive' \in (IF s.freed THEN BOOLEAN ELSE {TRUE})
        /\ UNCHANGED <<src, opt, base, sinks, tap, deadline, links, changes, stable>>

EndScan(w) ==
    /\ Scanning(w) /\ ~StopReached /\ ~opt.dirs /\ ~sc[w].open /\ sc[w].stack = <<>>
    /\ sc' = [sc EXCEPT ![w] = Returns(@)]
    /\ UNCHANGED <<src, opt, base, sinks, tap, deadline, alive, links, changes, stable>>

-----------------------------------------------------------------------------
(* --dirs: the root's own entry, its children, or the listed entries       *)

\* dirs_file_for_entry: a file, none when the entry is skipped, or a failure.
DirsFile(rel) ==
    LET e == src[rel]
        act == IF e.kind = "link" THEN LinkAction(e) ELSE "deref"
        kind == IF e.kind = "link" /\ act = "deref" THEN e.ref ELSE e.kind
        size == IF kind = "file" THEN e.size ELSE 0
        file == [ok |-> TRUE, size |-> size, file |-> <<Item(rel, WirePath(rel), kind = "dir")>>]
        none == [ok |-> TRUE, size |-> 0, file |-> <<>>]
    IN  CASE rel = Root /\ Bare -> none
          [] rel # Root /\ e.kind = "none" -> [none EXCEPT !.ok = opt.missing # "error"]
          [] act \in {"skip", "protect"} -> none
          [] kind \in {"dir", "file", "link"} -> file
          [] OTHER -> none

DirsEmpty(d) == Openable(d) /\ Children(d) = {}

DirsAdd(s, f) ==
    LET added == [s EXCEPT !.batch = @ \o f.file, !.bytes = @ + f.size]
    IN  CASE ~f.ok -> ReturnsNull([s EXCEPT !.failed = TRUE])
          [] added.bytes > ChunkSize -> Returns(added)
          [] OTHER -> added

DirsScanning(w) == Scanning(w) /\ opt.dirs /\ ~StopReached

\* dirs_next_file for a bare source directory, and the opening of DIR/.
DirsRoot(w) ==
    LET s == [sc[w] EXCEPT !.started = TRUE]
    IN  /\ DirsScanning(w) /\ ~opt.files_from /\ ~sc[w].started
        /\ \/ /\ opt.prune_empty /\ DirsEmpty(Root)
              /\ sc' = [sc EXCEPT ![w] = Returns(s)]
              /\ UNCHANGED sinks
           \/ /\ ~opt.slash /\ ~(opt.prune_empty /\ DirsEmpty(Root))
              /\ sc' = [sc EXCEPT ![w] = DirsAdd(s, DirsFile(Root))]
              /\ UNCHANGED sinks
           \/ /\ opt.slash /\ ~(opt.prune_empty /\ DirsEmpty(Root))
              /\ sc' = [sc EXCEPT ![w] =
                   IF Openable(Root)
                   THEN [s EXCEPT !.left = ByName(Children(Root))]
                   ELSE ReturnsNull([s EXCEPT !.io = TRUE, !.failed = TRUE])]
              /\ sinks' = SyncedDir(sinks, Root)
        /\ UNCHANGED <<src, opt, base, tap, deadline, alive, links, changes, stable>>

\* dirs_next_child.  The rules of the root's own filter files are not consulted.
DirsChild(w) ==
    LET rel == Head(sc[w].left)
        s == [sc[w] EXCEPT !.left = Tail(@)]
        f == DirsFile(rel)
        dropped == f.file # <<>> /\ \/ ~PassesSelection(<<>>, rel, f.file[1].dir)
                                    \/ f.file[1].dir /\ opt.prune_empty /\ DirsEmpty(rel)
    IN  /\ DirsScanning(w) /\ ~opt.files_from /\ sc[w].left # <<>>
        /\ sc' = [sc EXCEPT ![w] = IF dropped THEN s ELSE DirsAdd(s, f)]
        /\ UNCHANGED <<src, opt, base, sinks, tap, deadline, alive, links, changes, stable>>

DirsListed(w) ==
    LET s == [sc[w] EXCEPT !.index = @ + 1]
    IN  /\ DirsScanning(w) /\ opt.files_from /\ sc[w].index < Len(FileList)
        /\ sc' = [sc EXCEPT ![w] = DirsAdd(s, DirsFile(FileList[s.index]))]
        /\ UNCHANGED <<src, opt, base, sinks, tap, deadline, alive, links, changes, stable>>

DirsEnd(w) ==
    /\ DirsScanning(w)
    /\ IF opt.files_from THEN sc[w].index = Len(FileList) ELSE sc[w].started /\ sc[w].left = <<>>
    /\ sc' = [sc EXCEPT ![w] = Returns(@)]
    /\ UNCHANGED <<src, opt, base, sinks, tap, deadline, alive, links, changes, stable>>

\* directory_scanner_next, one step of it.
ScannerStep(w) ==
    \/ StopScan(w) \/ OpenDirectory(w) \/ ScanEntry(w) \/ FinishDirectory(w) \/ EndScan(w)
    \/ DirsRoot(w) \/ DirsChild(w) \/ DirsListed(w) \/ DirsEnd(w)

-----------------------------------------------------------------------------
(* Other programs                                                          *)

Lost(p) == {q \in Paths : IsPrefix(p, q)}
SourceRemoved(p) ==
    /\ alive /\ changes > 0 /\ p \in Paths /\ src[p].kind # "none"
    /\ src' = [q \in DOMAIN src |-> IF q \in Lost(p) THEN NoEntry ELSE src[q]]
    /\ stable' = stable \ Lost(p)
    /\ changes' = changes - 1
    /\ UNCHANGED <<opt, base, sc, sinks, tap, deadline, alive, links>>
SourceCreated(p) ==
    /\ alive /\ changes > 0 /\ p \in Paths /\ src[p].kind = "none"
    /\ src[Front(p)].kind = "dir"
    /\ src' = [src EXCEPT ![p] = [NoEntry EXCEPT !.kind = "file", !.size = 1, !.ino = NewInode]]
    /\ stable' = stable \ {p}
    /\ changes' = changes - 1
    /\ UNCHANGED <<opt, base, sc, sinks, tap, deadline, alive, links>>

=============================================================================
