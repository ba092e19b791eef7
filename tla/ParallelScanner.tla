-------------------------- MODULE ParallelScanner --------------------------
(***************************************************************************)
(* The parallel scanner: the root is scanned when it is created, its       *)
(* subdirectories are shared out to worker threads that each run a         *)
(* DirectoryScanner, and their chunks reach the consumer through a bounded *)
(* queue.                                                                  *)
(***************************************************************************)
EXTENDS Scanner

CONSTANT QueueCap   \* capacity of result_queue, at creation

VARIABLES
    ps,             \* the ParallelScanner
    work            \* its workers

parVars == <<ps, work>>
Workers == Scanners \ {0}
NoScanner == [up |-> "none", ctx |-> <<>>, initial |-> <<>>, queue |-> <<>>, failed |-> FALSE,
              io |-> FALSE, done |-> FALSE, cancelled |-> FALSE, completed |-> 0, threads |-> 0, cap |-> QueueCap]
NoWork == [w \in Workers |-> [pc |-> "none", dirs |-> <<>>, chunk |-> <<>>]]

\* scan_root_entry: a mount point has its own path on the wire only under the
\* prefix of -R.
RootItem(e) ==
    IF e.insp.dir THEN Item(e.path, IF Prefixed THEN WirePath(e.path) ELSE Home \o e.path, TRUE)
    ELSE Item(e.path, WirePath(e.path), FALSE)
RootKept(e, ctx) == e.insp.kept /\ PassesSelection(ctx, e.path, e.insp.dir)
RootSubdir(e, ctx) == RootKept(e, ctx) /\ e.insp.dir /\ SameFilesystem(e.insp.fs)
RootFile(e, ctx) ==
    /\ RootKept(e, ctx)
    /\ IF e.insp.dir THEN ~SameFilesystem(e.insp.fs) /\ opt.one_fs = 1
       ELSE ~SpecialSkipped(e.insp.kind)

\* batch_files: a chunk ends with the file that fills it.
BatchFiles(files) ==
    LET add(acc, e) == [acc EXCEPT !.chunk = Append(@, RootItem(e)),
                                   !.bytes = @ + (IF e.insp.kind = "link" THEN 0 ELSE e.insp.size)]
        cut(acc) == IF acc.bytes < ChunkSize THEN acc
                    ELSE [chunks |-> Append(acc.chunks, acc.chunk), chunk |-> <<>>, bytes |-> 0]
        rest(acc) == IF acc.chunk = <<>> THEN acc.chunks ELSE Append(acc.chunks, acc.chunk)
    IN  rest(FoldLeft(LAMBDA acc, e : cut(add(acc, e)),
                      [chunks |-> <<>>, chunk |-> <<>>, bytes |-> 0], files))

\* spawn_parallel_workers: the t-th of n consecutive shares, the first ones
\* taking one more.
Share(dirs, n, t) ==
    LET each == Len(dirs) \div n
        rest == Len(dirs) % n
        start == t * each + (IF t < rest THEN t ELSE rest)
    IN  SubSeq(dirs, start + 1, start + each + (IF t < rest THEN 1 ELSE 0))

\* queue_enqueue doubles a full queue: the root's chunks always fit.
Capacity(n) == Min({QueueCap * 2^k : k \in 0..n} \cap {c \in 0..(QueueCap * 2^n) : c >= n})

\* parallel_scanner_create_with_options; ok: a scanner came out of it.
SpawnWorkers(n, dirs) ==
    [w \in Workers |->
       IF w > n THEN [pc |-> "none", dirs |-> <<>>, chunk |-> <<>>]
       ELSE [pc |-> "next", chunk |-> <<>>, dirs |-> Share(dirs, n, w - 1)]]
PathsOf(entries) == [i \in DOMAIN entries |-> entries[i].path]
WithShields(k, shields) ==
    [k EXCEPT !.excluded = @ \cup (IF "excluded" \in tap THEN UNION {s.excluded : s \in shields} ELSE {}),
              !.size = @ \cup (IF "size" \in tap THEN UNION {s.size : s \in shields} ELSE {})]
CreateFrom(ctx, all) ==
    \E chunks \in {BatchFiles(SelectSeq(all, LAMBDA e : RootFile(e, ctx)))},
      dirs \in {PathsOf(SelectSeq(all, LAMBDA e : RootSubdir(e, ctx)))} :
      LET n == Min({Cardinality(Workers), Len(dirs)})
      IN  /\ ps' = [NoScanner EXCEPT
               !.up = "live", !.ctx = ctx, !.threads = n,
               !.cap = Capacity(IF chunks = <<>> THEN 0 ELSE Len(chunks) - 1),
               !.initial = IF chunks = <<>> THEN <<>> ELSE Head(chunks),
               !.queue = IF chunks = <<>> THEN <<>> ELSE Tail(chunks),
               !.io = \E i \in DOMAIN all : all[i].insp.dangling]
          /\ work' = SpawnWorkers(n, dirs)
          /\ sinks' = WithShields(DirTime(SyncedDir(sinks, Root), Root),
                                  {EntryShields(e, ctx) : e \in Range(all)})
CreateParallel(ok) ==
    /\ alive /\ ps.up = "none"
    /\ \E filters \in {DirFilters(Root)} :
         /\ ok = (Openable(Root) /\ filters.ok)
         /\ IF ok THEN CreateFrom(filters.rules, Sorted(Root, {})) ELSE UNCHANGED <<sinks, ps, work>>
    /\ UNCHANGED <<src, opt, base, sc, tap, deadline, alive, links, changes, stable>>

\* parallel_worker_thread: the next directory.  With -x its device must be known.
WorkerOpens(w) ==
    /\ alive /\ work[w].pc = "next" /\ work[w].dirs # <<>>
    /\ IF opt.one_fs > 0 /\ src[Head(work[w].dirs)].kind = "none"
       THEN /\ ps' = [ps EXCEPT !.failed = TRUE, !.cancelled = TRUE]
            /\ work' = [work EXCEPT ![w].dirs = <<>>]
            /\ UNCHANGED sc
       ELSE /\ sc' = [sc EXCEPT ![w] = Called(Seeded(Head(work[w].dirs), ps.ctx))]
            /\ work' = [work EXCEPT ![w].pc = "scan"]
            /\ UNCHANGED ps
    /\ UNCHANGED <<src, opt, base, sinks, tap, deadline, alive, links, changes, stable>>

\* What the scanner of one directory leaves: a failure stops everyone, an I/O
\* error is remembered.
BadVerdict(w) == [ps EXCEPT !.failed = @ \/ sc[w].failed, !.cancelled = @ \/ sc[w].failed]
Verdict(w) ==
    IF sc[w].failed THEN [ps EXCEPT !.failed = TRUE, !.cancelled = TRUE]
    ELSE [ps EXCEPT !.io = @ \/ sc[w].io]

WorkerReturned(w) ==
    /\ alive /\ work[w].pc = "scan" /\ ~sc[w].busy
    /\ IF sc[w].ret = <<>>
       THEN /\ ps' = Verdict(w)
            /\ work' = [work EXCEPT ![w].pc = "next", ![w].dirs = Tail(@)]
       ELSE /\ work' = [work EXCEPT ![w].pc = "put", ![w].chunk = sc[w].ret]
            /\ UNCHANGED ps
    /\ UNCHANGED scanVars

BadWorkerPuts(w) ==
    /\ alive /\ work[w].pc = "put" /\ Len(ps.queue) < ps.cap
    /\ ps' = [ps EXCEPT !.queue = Append(@, work[w].chunk)]
    /\ work' = [work EXCEPT ![w].pc = "scan", ![w].chunk = <<>>]
    /\ sc' = [sc EXCEPT ![w] = Called(@)]
    /\ UNCHANGED <<src, opt, base, sinks, tap, deadline, alive, links, changes, stable>>

\* queue_enqueue_multithreaded_cancel.  A cancelled worker drops the directory.
WorkerPuts(w) ==
    /\ alive /\ work[w].pc = "put"
    /\ \/ /\ ps.cancelled
          /\ ps' = Verdict(w)
          /\ work' = [work EXCEPT ![w].pc = "next", ![w].dirs = Tail(@), ![w].chunk = <<>>]
          /\ UNCHANGED sc
       \/ /\ ~ps.cancelled /\ Len(ps.queue) < ps.cap
          /\ ps' = [ps EXCEPT !.queue = Append(@, work[w].chunk)]
          /\ work' = [work EXCEPT ![w].pc = "scan", ![w].chunk = <<>>]
          /\ sc' = [sc EXCEPT ![w] = Called(@)]
    /\ UNCHANGED <<src, opt, base, sinks, tap, deadline, alive, links, changes, stable>>

WorkerEnds(w) ==
    /\ alive /\ work[w].pc = "next" /\ work[w].dirs = <<>>
    /\ work' = [work EXCEPT ![w].pc = "done"]
    /\ ps' = [ps EXCEPT !.completed = @ + 1, !.done = @ \/ ps.completed + 1 >= ps.threads]
    /\ UNCHANGED scanVars

\* parallel_scanner_next has an answer: a chunk, or NULL (<<>>).
ParallelNext(chunk) ==
    /\ alive /\ ps.up = "live"
    /\ \/ /\ ps.initial # <<>> /\ chunk = ps.initial
          /\ ps' = [ps EXCEPT !.initial = <<>>]
       \/ /\ ps.initial = <<>> /\ ps.queue # <<>> /\ chunk = Head(ps.queue)
          /\ ps' = [ps EXCEPT !.queue = Tail(@)]
       \/ /\ ps.initial = <<>> /\ ps.queue = <<>> /\ (ps.done \/ ps.threads = 0) /\ chunk = <<>>
          /\ ps' = [ps EXCEPT !.done = TRUE]
    /\ UNCHANGED work

\* parallel_scanner_destroy, and the joins it ends with.
DestroyParallel ==
    /\ alive /\ ps.up = "live"
    /\ ps' = [ps EXCEPT !.up = "closing", !.done = TRUE, !.cancelled = TRUE]
    /\ UNCHANGED work
ParallelJoined ==
    /\ alive /\ ps.up = "closing" /\ \A w \in 1..ps.threads : work[w].pc = "done"
    /\ ps' = [ps EXCEPT !.up = "gone", !.queue = <<>>, !.initial = <<>>]
    /\ UNCHANGED work

WorkerStep(w) ==
    \/ WorkerOpens(w) \/ WorkerReturned(w) \/ WorkerPuts(w) \/ WorkerEnds(w)
    \/ ScannerStep(w) /\ UNCHANGED parVars

=============================================================================
