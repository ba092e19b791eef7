-------------------------- MODULE ReceiverPipeline --------------------------
(***************************************************************************)
(* The multithreaded receiver of the server: receive_thread reads the      *)
(* frames of one connection and hands files to write_thread through a      *)
(* queue bounded by a count and by a byte budget; the connection's main    *)
(* thread creates both, joins both, and only then commits the deferred     *)
(* deletion, publishes --delay-updates and sends the terminal frames.      *)
(*                                                                         *)
(* A critical section (mtx_lock to mtx_unlock, or to a cnd_wait) is one    *)
(* action.  Each condition variable has one possible waiter: receive_thread*)
(* waits on condition_not_full (rpc = "wait"), write_thread waits on       *)
(* condition_not_empty (wpc = "wait"); a wake-up moves the waiter back to  *)
(* the test of its loop.                                                   *)
(***************************************************************************)
EXTENDS Integers, Sequences, Totals

CONSTANTS
    Capacity,       \* queue_create(100): files the queue holds
    Budget,         \* RECEIVER_QUEUE_MAX_BYTES
    Payloads,       \* the shapes of entries that occur: [bytes, kind]
    MaxFrames,      \* bound: frames of one connection (the code's bound is
                    \* the wall-clock limit of receiver_note_status)
    MaxChunk,       \* bound: files carried by one frame
    Configs         \* negotiated configurations to consider

Kinds == {"reg", "symlink", "dir", "special", "skip"}

Sizes == {p.bytes : p \in Payloads}

File == [id : Nat, bytes : Sizes, kind : Kinds]

Config == [use_delete : BOOLEAN, delete_missing_args : BOOLEAN,
           timing : {"none", "before", "during", "delay", "after"},
           delay_updates : BOOLEAN, remove_source_files : BOOLEAN,
           save_to_disk : BOOLEAN, dry_run : BOOLEAN]

ASSUME PipelineAssumption ==
    /\ Capacity \in Nat \ {0}
    /\ Budget \in Nat \ {0}
    /\ Payloads \subseteq [bytes : Nat, kind : Kinds]
    /\ MaxFrames \in Nat
    /\ MaxChunk \in Nat \ {0}
    /\ Configs \subseteq Config

config_has_valid_delete_timing(c) == ~c.use_delete => c.timing = "none"

config_delete_timing_early(c) == c.timing = "before"

config_delete_timing_per_dir(c) == c.timing \in {"during", "delay"}

DeletionRequested(c) == c.use_delete \/ c.delete_missing_args

VARIABLES
    config,             \* the Config of the connection
    \* receive_thread and its ReceiverPendingState
    rpc, frames, nfiles, hold, deferred_manifest, plan_session,
    \* PipelineContextReceiver
    queue, queued_bytes, cancelled, receiver_done,
    outcomes, failed_entries, delete_limit_reached,
    pending_manifest, pending_plans,
    \* write_thread
    wpc, wfile, wfailing,
    \* server_run_mt_receiver
    mpc, transfer_ok, reply,
    \* the receive root, and the history of the files
    removals, published, accepted, written

stream  == <<rpc, frames, nfiles, hold, deferred_manifest, plan_session>>
shared  == <<queue, queued_bytes, cancelled, receiver_done>>
results == <<outcomes, failed_entries>>
handed  == <<pending_manifest, pending_plans>>
writer  == <<wpc, wfile, wfailing>>
main    == <<mpc, transfer_ok, reply>>
disk    == <<removals, published>>
history == <<accepted, written>>
vars == <<config, stream, shared, results, delete_limit_reached, handed,
          writer, main, disk, history>>

\* pipeline_context_receiver_create and _set_queue_byte_limit.
Init ==
    /\ config \in {c \in Configs : config_has_valid_delete_timing(c)}
    /\ rpc = "none" /\ frames = 0 /\ nfiles = 0 /\ hold = <<>>
    /\ deferred_manifest = FALSE /\ plan_session = FALSE
    /\ queue = <<>> /\ queued_bytes = 0
    /\ cancelled = FALSE /\ receiver_done = FALSE
    /\ outcomes = <<>> /\ failed_entries = 0 /\ delete_limit_reached = FALSE
    /\ pending_manifest = FALSE /\ pending_plans = FALSE
    /\ wpc = "none" /\ wfile = <<>> /\ wfailing = FALSE
    /\ mpc = "create_receiver" /\ transfer_ok = FALSE /\ reply = "none"
    /\ removals = {} /\ published = "no"
    /\ accepted = <<>> /\ written = <<>>

\* Faulty variants, named Bad..., stand before the definition they are a
\* plausible slip of; the README says which property finds each of them.
BadWakeReceiver == rpc' = rpc

\* cnd_signal/cnd_broadcast of condition_not_full and condition_not_empty.
WakeReceiver == rpc' = IF rpc = "wait" THEN "store" ELSE rpc
WakeWriter == wpc' = IF wpc = "wait" THEN "dequeue" ELSE wpc

-----------------------------------------------------------------------------
(* receive_thread: receiver_process_pending with the enqueueing sink       *)

\* A frame has been read and dispatched.
Frame ==
    /\ rpc = "receive"
    /\ frames < MaxFrames
    /\ frames' = frames + 1

\* Frames whose files go to the sink one after the other: STATUS_NEXT, _CHUNK,
\* _CHECK that materialised a file, _MKDIR, _DIR_TIMES, _HARDLINK, _SYMLINK and
\* _SPECIAL.
ReceiveFiles ==
    /\ Frame
    /\ \E n \in 1..MaxChunk :
         \E entry \in [1..n -> Payloads] :
            /\ hold' = [i \in 1..n |-> [id |-> nfiles + i, bytes |-> entry[i].bytes,
                                       kind |-> entry[i].kind]]
            /\ nfiles' = nfiles + n
    /\ rpc' = "store"
    /\ UNCHANGED <<config, deferred_manifest, plan_session, shared, results,
                   delete_limit_reached, handed, writer, main, disk, history>>

\* Frames that store nothing: STATUS_KEEPALIVE, STATUS_CHECK_BATCH, and a
\* STATUS_CHECK answered "up to date" (or any STATUS_CHECK of a dry run).
ReceiveProbe ==
    /\ Frame
    /\ UNCHANGED <<config, rpc, nfiles, hold, deferred_manifest, plan_session,
                   shared, results, delete_limit_reached, handed, writer, main,
                   disk, history>>

\* receiver_drop_pending: "Never commit a deletion for a failed stream."
receiver_drop_pending ==
    /\ deferred_manifest' = FALSE
    /\ plan_session' = FALSE

FailStream ==
    /\ rpc' = "fail"
    /\ receiver_drop_pending

\* receiver_handle_manifest, --delete-before: delete now, then acknowledge.
ReceiveEarlyManifest ==
    /\ Frame
    /\ config_delete_timing_early(config)
    /\ ~config.dry_run
    /\ removals' = removals \cup {"before"}
    /\ \/ FailStream /\ UNCHANGED delete_limit_reached
       \/ /\ delete_limit_reached' = TRUE \/ UNCHANGED delete_limit_reached
          /\ UNCHANGED <<rpc, deferred_manifest, plan_session>>
    /\ UNCHANGED <<config, nfiles, hold, shared, results, handed, writer, main,
                   published, history>>

\* receiver_handle_manifest, late timings: park the keep-set; a second one is an
\* error.
ReceiveLateManifest ==
    /\ Frame
    /\ ~config_delete_timing_early(config)
    /\ ~config.dry_run
    /\ DeletionRequested(config)
    /\ IF deferred_manifest
         THEN FailStream
         ELSE /\ deferred_manifest' = TRUE
              /\ UNCHANGED <<rpc, plan_session>>
    /\ UNCHANGED <<config, nfiles, hold, shared, results, delete_limit_reached,
                   handed, writer, main, disk, history>>

\* A manifest nobody asked for, or one read by a dry run, is consumed and freed.
ReceiveIgnoredManifest ==
    /\ Frame
    /\ config.dry_run \/ ~DeletionRequested(config)
    /\ ~(config_delete_timing_early(config) /\ ~config.dry_run)
    /\ UNCHANGED <<config, rpc, nfiles, hold, deferred_manifest, plan_session,
                   shared, results, delete_limit_reached, handed, writer, main,
                   disk, history>>

\* receiver_handle_delete_plan: --delete-during removes the extras of the
\* directory at once, --delete-delay only snapshots them.
ReceiveDeletePlan ==
    /\ Frame
    /\ \/ FailStream /\ UNCHANGED delete_limit_reached
       \/ /\ config_delete_timing_per_dir(config)
          /\ plan_session' = TRUE
          /\ \/ UNCHANGED delete_limit_reached
             \/ ~config.dry_run /\ delete_limit_reached' = TRUE
          /\ UNCHANGED <<rpc, deferred_manifest>>
    /\ removals' = IF config.timing = "during" /\ ~config.dry_run
                     THEN removals \cup {"during"} ELSE removals
    /\ UNCHANGED <<config, nfiles, hold, shared, results, handed, writer, main,
                   published, history>>

\* STATUS_ABORT, an unexpected status, a malformed frame, a time limit of
\* receiver_note_status, or a lost connection.
ReceiveFails ==
    /\ rpc = "receive"
    /\ FailStream
    /\ UNCHANGED <<config, frames, nfiles, hold, shared, results,
                   delete_limit_reached, handed, writer, main, disk, history>>

\* STATUS_FINISHED: the parked deletions are handed to the main thread, because
\* the disk writer may still be draining.
ReceiveFinished ==
    /\ rpc = "receive"
    /\ rpc' = "finish"
    /\ pending_manifest' = deferred_manifest
    /\ pending_plans' = plan_session
    /\ receiver_drop_pending
    /\ UNCHANGED <<config, frames, nfiles, hold, shared, results,
                   delete_limit_reached, writer, main, disk, history>>

BadBlockedByBudget(bytes) == queued_bytes >= Budget

BlockedByCount == Len(queue) = Capacity

BlockedByBudget(bytes) ==
    \/ queued_bytes >= Budget
    \/ bytes > Budget - queued_bytes /\ queued_bytes # 0

MayAdmit(f) == ~cancelled /\ ~BlockedByCount /\ ~BlockedByBudget(f.bytes)

\* One pass of the loop of pipeline_context_receiver_enqueue_file.
EnqueueFile ==
    /\ rpc = "store"
    /\ LET f == Head(hold) IN
         \/ /\ cancelled
            /\ FailStream
            /\ hold' = <<>>
            /\ UNCHANGED <<queue, queued_bytes, wpc, accepted>>
         \/ /\ ~cancelled /\ ~MayAdmit(f)
            /\ rpc' = "wait"
            /\ UNCHANGED <<hold, deferred_manifest, plan_session, queue,
                           queued_bytes, wpc, accepted>>
         \/ /\ MayAdmit(f)
            /\ queue' = Append(queue, f)
            /\ queued_bytes' = queued_bytes + f.bytes
            /\ accepted' = Append(accepted, f)
            /\ hold' = Tail(hold)
            /\ rpc' = IF Tail(hold) = <<>> THEN "receive" ELSE "store"
            /\ WakeWriter
            /\ UNCHANGED <<deferred_manifest, plan_session>>
    /\ UNCHANGED <<config, frames, nfiles, cancelled, receiver_done, results,
                   delete_limit_reached, handed, wfile, wfailing, main, disk,
                   written>>

\* The end of receive_thread: receiver_thread_fail, or the success epilogue.
ReceiverExits ==
    /\ rpc \in {"fail", "finish"}
    /\ rpc' = IF rpc = "fail" THEN "error" ELSE "success"
    /\ cancelled' = (cancelled \/ rpc = "fail")
    /\ receiver_done' = TRUE
    /\ WakeWriter
    /\ UNCHANGED <<config, frames, nfiles, hold, deferred_manifest,
                   plan_session, queue, queued_bytes, results,
                   delete_limit_reached, handed, wfile, wfailing, main, disk,
                   history>>

ReceiveThread ==
    \/ ReceiveFiles \/ ReceiveProbe \/ ReceiveEarlyManifest
    \/ ReceiveLateManifest \/ ReceiveIgnoredManifest \/ ReceiveDeletePlan
    \/ ReceiveFails \/ ReceiveFinished \/ EnqueueFile \/ ReceiverExits

-----------------------------------------------------------------------------
(* write_thread                                                            *)

\* A cancelling exit: cancelled, receiver_done, both broadcasts, thrd_error.
WriterGivesUp ==
    /\ cancelled' = TRUE
    /\ receiver_done' = TRUE
    /\ WakeReceiver
    /\ wpc' = "error"

\* Copying receive_root_directory may fail before the loop starts.
WriterStarts ==
    /\ wpc = "init"
    /\ \/ /\ wpc' = "dequeue"
          /\ UNCHANGED <<rpc, cancelled, receiver_done>>
       \/ config.save_to_disk /\ WriterGivesUp
    /\ UNCHANGED <<config, frames, nfiles, hold, deferred_manifest,
                   plan_session, queue, queued_bytes, results,
                   delete_limit_reached, handed, wfile, wfailing, main, disk,
                   history>>

BadNextFile == queue[Len(queue)]

\* The element queue_dequeue takes.
NextFile == Head(queue)

\* queue_dequeue_multithreaded: one pass of its wait loop.  A cancelled pipeline
\* is still drained.
Dequeue ==
    /\ wpc = "dequeue"
    /\ IF queue = <<>>
         THEN /\ wpc' = IF receiver_done THEN "success" ELSE "wait"
              /\ UNCHANGED <<queue, wfile, rpc>>
         ELSE /\ wfile' = <<NextFile>>
              /\ queue' = Tail(queue)
              /\ wpc' = "save"
              /\ WakeReceiver
    /\ UNCHANGED <<config, frames, nfiles, hold, deferred_manifest,
                   plan_session, queued_bytes, cancelled, receiver_done, results,
                   delete_limit_reached, handed, wfailing, main, disk, history>>

\* What file_save_to_disk_full_ex may report: only a device node that could not
\* be created is a failure that does not abort the transfer.
SaveResults(f) ==
    IF ~config.save_to_disk \/ config.dry_run
      THEN {"SKIPPED"}
      ELSE {"WRITTEN", "SKIPPED", "ERROR"} \cup
           (IF f.kind = "special" THEN {"FAILED"} ELSE {})

\* The files a --remove-source-files sender is told about.
Acknowledged(f) == f.kind \notin {"dir", "special", "skip"}

BadRecorded(f) == config.remove_source_files /\ ~config.dry_run

\* The condition under which write_thread appends to the outcomes.
Recorded(f) ==
    config.remove_source_files /\ ~config.dry_run /\ Acknowledged(f)

\* The unlocked part of one iteration: save, then record.  Growing the list of
\* directory times or of outcomes may fail after the file was saved.
Save ==
    /\ wpc = "save"
    /\ \E result \in SaveResults(wfile[1]) :
         LET f == wfile[1]
         IN /\ failed_entries' = IF result = "FAILED" THEN failed_entries + 1
                                                    ELSE failed_entries
            /\ IF result = "ERROR"
                 THEN wfailing' = TRUE /\ UNCHANGED <<outcomes, written>>
                 ELSE /\ written' = Append(written, f)
                      /\ \/ /\ wfailing' = FALSE
                            /\ outcomes' = IF Recorded(f)
                                 THEN Append(outcomes, [id |-> f.id, result |-> result])
                                 ELSE outcomes
                         \/ /\ Recorded(f) \/ (f.kind = "dir" /\ ~config.dry_run)
                            /\ wfailing' = TRUE
                            /\ UNCHANGED outcomes
    /\ wpc' = "release"
    /\ UNCHANGED <<config, stream, shared, delete_limit_reached, handed, wfile,
                   main, disk, accepted>>

Remaining(released) ==
    IF released >= queued_bytes THEN 0 ELSE queued_bytes - released

\* pipeline_context_receiver_note_bytes_released.  Releasing nothing wakes nobody.
ReleaseBytes ==
    /\ wpc = "release"
    /\ LET released == wfile[1].bytes IN
         IF released = 0
           THEN UNCHANGED <<queued_bytes, rpc>>
           ELSE /\ queued_bytes' = Remaining(released)
                /\ WakeReceiver
    /\ wfile' = <<>>
    /\ wpc' = IF wfailing THEN "cancel" ELSE "dequeue"
    /\ UNCHANGED <<config, frames, nfiles, hold, deferred_manifest,
                   plan_session, queue, cancelled, receiver_done, results,
                   delete_limit_reached, handed, wfailing, main, disk, history>>

WriterCancels ==
    /\ wpc = "cancel"
    /\ WriterGivesUp
    /\ UNCHANGED <<config, frames, nfiles, hold, deferred_manifest,
                   plan_session, queue, queued_bytes, results,
                   delete_limit_reached, handed, wfile, wfailing, main, disk,
                   history>>

WriteThread == WriterStarts \/ Dequeue \/ Save \/ ReleaseBytes \/ WriterCancels

-----------------------------------------------------------------------------
(* server_run_mt_receiver                                                  *)

\* Creating the context, the queue or the first thread may fail.
CreateReceiver ==
    /\ mpc = "create_receiver"
    /\ \/ mpc' = "create_writer" /\ rpc' = "receive"
       \/ mpc' = "done" /\ UNCHANGED rpc
    /\ UNCHANGED <<config, frames, nfiles, hold, deferred_manifest,
                   plan_session, shared, results, delete_limit_reached, handed,
                   writer, transfer_ok, reply, disk, history>>

\* Without a writer the pipeline is cancelled and the receiver joined.
CreateWriter ==
    /\ mpc = "create_writer"
    /\ \/ /\ mpc' = "join" /\ wpc' = "init"
          /\ UNCHANGED <<rpc, cancelled>>
       \/ /\ mpc' = "join_receiver"
          /\ cancelled' = TRUE
          /\ WakeReceiver
          /\ UNCHANGED wpc
    /\ UNCHANGED <<config, frames, nfiles, hold, deferred_manifest,
                   plan_session, queue, queued_bytes, receiver_done, results,
                   delete_limit_reached, handed, wfile, wfailing, transfer_ok,
                   reply, disk, history>>

BadThreadsSucceeded == rpc = "success"

ThreadsSucceeded == rpc = "success" /\ wpc = "success"

Join ==
    /\ \/ /\ mpc = "join"
          /\ rpc \in {"success", "error"} /\ wpc \in {"success", "error"}
          /\ transfer_ok' = ThreadsSucceeded
          /\ mpc' = IF transfer_ok' /\ ~config.dry_run THEN "commit" ELSE "answer"
       \/ /\ mpc = "join_receiver"
          /\ rpc \in {"success", "error"}
          /\ mpc' = "done"
          /\ UNCHANGED transfer_ok
    /\ UNCHANGED <<config, stream, shared, results, delete_limit_reached, handed,
                   writer, reply, disk, history>>

\* The keep-set manifest, then the per-directory plans: each may fail, and a
\* failed manifest does not stop the plans.  The plans of --delete-during were
\* applied as they arrived, so their commit removes nothing more.
CommitDeletion ==
    /\ mpc = "commit"
    /\ \E manifest \in IF pending_manifest THEN {"OK", "LIMIT", "ERROR"} ELSE {"OK"},
          plans \in IF pending_plans THEN {"OK", "LIMIT", "ERROR"} ELSE {"OK"} :
          /\ transfer_ok' = ("ERROR" \notin {manifest, plans})
          /\ delete_limit_reached' =
                (delete_limit_reached \/ "LIMIT" \in {manifest, plans})
    /\ removals' = IF pending_manifest \/ (pending_plans /\ config.timing # "during")
                     THEN removals \cup {"commit"} ELSE removals
    /\ pending_manifest' = FALSE
    /\ pending_plans' = FALSE
    /\ mpc' = IF transfer_ok' THEN "publish" ELSE "answer"
    /\ UNCHANGED <<config, stream, shared, results, writer, reply, published,
                   history>>

BadPublishSucceeded(result) == TRUE

PublishSucceeded(result) == result = "all"

\* delay_updates_publish, then the directory times.
PublishUpdates ==
    /\ mpc = "publish"
    /\ IF config.delay_updates
         THEN \E result \in {"all", "partial"} :
                /\ published' = result
                /\ transfer_ok' = PublishSucceeded(result)
         ELSE UNCHANGED <<published, transfer_ok>>
    /\ mpc' = "answer"
    /\ UNCHANGED <<config, stream, shared, results, delete_limit_reached, handed,
                   writer, reply, removals, history>>

\* receiver_final_status, as server_run_mt_receiver computes it.
FinalStatus ==
    IF delete_limit_reached THEN "DELETE_LIMIT"
    ELSE IF failed_entries > 0 THEN "ERROR" ELSE "OK"

\* The stats frame and the acknowledgements end with the terminal status, unless
\* the connection is gone; a failed transfer sends an error detail.
Answer ==
    /\ mpc = "answer"
    /\ IF transfer_ok
         THEN \/ reply' = FinalStatus /\ UNCHANGED transfer_ok
              \/ transfer_ok' = FALSE /\ UNCHANGED reply
         ELSE reply' \in {"ERROR_DETAIL", "none"} /\ UNCHANGED transfer_ok
    /\ mpc' = "done"
    /\ UNCHANGED <<config, stream, shared, results, delete_limit_reached, handed,
                   writer, disk, history>>

MainThread ==
    \/ CreateReceiver \/ CreateWriter \/ Join \/ CommitDeletion
    \/ PublishUpdates \/ Answer

\* cnd_wait may return without a signal.
SpuriousWakeup ==
    /\ \/ rpc = "wait" /\ WakeReceiver /\ UNCHANGED wpc
       \/ wpc = "wait" /\ WakeWriter /\ UNCHANGED rpc
    /\ UNCHANGED <<config, frames, nfiles, hold, deferred_manifest,
                   plan_session, shared, results, delete_limit_reached, handed,
                   wfile, wfailing, main, disk, history>>

SessionOver == mpc = "done" /\ UNCHANGED vars

Next ==
    ReceiveThread \/ WriteThread \/ MainThread \/ SpuriousWakeup \/ SessionOver

\* Each thread is scheduled; reads from the peer are bounded by the per-message
\* poll timeout, so receive_thread is not stuck in one.  Nothing is assumed of
\* spurious wake-ups.
Fairness ==
    WF_vars(ReceiveThread) /\ WF_vars(WriteThread) /\ WF_vars(MainThread)

Spec == Init /\ [][Next]_vars

FairSpec == Spec /\ Fairness

-----------------------------------------------------------------------------
(* Properties                                                              *)

FlagsOK ==
    /\ deferred_manifest \in BOOLEAN /\ plan_session \in BOOLEAN
    /\ cancelled \in BOOLEAN /\ receiver_done \in BOOLEAN
    /\ delete_limit_reached \in BOOLEAN
    /\ pending_manifest \in BOOLEAN /\ pending_plans \in BOOLEAN
    /\ wfailing \in BOOLEAN /\ transfer_ok \in BOOLEAN

ControlOK ==
    /\ rpc \in {"none", "receive", "store", "wait", "fail", "finish", "success", "error"}
    /\ wpc \in {"none", "init", "dequeue", "wait", "save", "release", "cancel",
                "success", "error"}
    /\ mpc \in {"create_receiver", "create_writer", "join", "join_receiver",
                "commit", "publish", "answer", "done"}
    /\ reply \in {"none", "OK", "ERROR", "DELETE_LIMIT", "ERROR_DETAIL"}
    /\ removals \subseteq {"before", "during", "commit"}
    /\ published \in {"no", "partial", "all"}

DataOK ==
    /\ config \in Config
    /\ frames \in Nat /\ nfiles \in Nat
    /\ hold \in Seq(File)
    /\ rpc \in {"store", "wait"} => hold # <<>>
    /\ queue \in Seq(File) /\ queued_bytes \in Nat
    /\ outcomes \in Seq([id : Nat, result : {"WRITTEN", "SKIPPED", "FAILED"}])
    /\ failed_entries \in Nat
    /\ wfile \in Seq(File)
    /\ Len(wfile) = IF wpc \in {"save", "release"} THEN 1 ELSE 0
    /\ accepted \in Seq(File) /\ written \in Seq(File)

\* The type of every variable; receive_thread waits for the queue only with a
\* file in hand, and write_thread holds a file exactly while it saves or releases
\* it.
TypeOK == FlagsOK /\ ControlOK /\ DataOK

Bytes(files) == [i \in DOMAIN files |-> files[i].bytes]

\* enqueue_file and note_bytes_released keep the account of the payload held by
\* the queue and the writer; it may exceed the budget only through one payload
\* that is larger than the budget by itself.
BudgetHonoured ==
    LET held == Bytes(wfile \o queue)
    IN  queued_bytes = Total(held) /\ Within(held, Budget)

\* enqueue_file waits while the queue is full, so queue_enqueue never takes its
\* growing branch (queue_double_capacity) on the receiver.
QueueNeverGrows == Len(queue) <= Capacity

\* The receiver's memory: the byte account is exact and bounded, and so is the
\* number of queued files.
BoundedMemory == QueueNeverGrows /\ BudgetHonoured

\* The writer deals with the accepted files once each and in stream order, also
\* while a cancelled pipeline is drained.
NothingLost ==
    ~wfailing =>
      accepted = written \o (IF wpc = "save" THEN wfile ELSE <<>>) \o queue

\* Nothing is committed for a stream that failed: a deferred deletion, the
\* --delay-updates publication and a terminal verdict come after both threads
\* succeeded and every file of the stream was dealt with.
CompleteBeforeCommit ==
    ("commit" \in removals \/ published # "no" \/ reply \in {"OK", "ERROR", "DELETE_LIMIT"})
      => /\ rpc = "success" /\ wpc = "success"
         /\ written = accepted /\ Len(accepted) = nfiles

\* A --dry-run session removes, publishes and reports nothing as written, even
\* when data frames and manifests reach it.
DryRunHarmless ==
    config.dry_run =>
        removals = {} /\ published = "no" /\ outcomes = <<>> /\ ~delete_limit_reached

\* The outcome list sent to a --remove-source-files sender holds one entry per
\* written file it is told about, in the order of the stream.
OutcomesComplete ==
    config.remove_source_files /\ ~config.dry_run /\ ~wfailing =>
        /\ {outcomes[i].id : i \in DOMAIN outcomes} =
             {written[i].id : i \in {j \in DOMAIN written : Acknowledged(written[j])}}
        /\ \A i, j \in DOMAIN outcomes : i < j => outcomes[i].id < outcomes[j].id

\* What the sender learns of the files is what became of them.
OutcomesAreTrue == DryRunHarmless /\ OutcomesComplete

\* Every session ends, whichever thread fails or stops first: no wake-up of the
\* two condition variables is lost.
SessionEnds == <>(mpc = "done")

SessionStage ==
    IF mpc \in {"create_receiver", "create_writer", "join", "join_receiver"}
      THEN "streaming"
      ELSE IF ~transfer_ok THEN "failed"
      ELSE IF mpc = "done" THEN "answered" ELSE "sealed"

Session == INSTANCE TransferSession WITH
    FileRecord <- File,
    Verdicts <- {"OK", "ERROR", "DELETE_LIMIT"},
    stored <- written,
    removed <- "commit" \in removals,
    answer <- reply,
    stage <- SessionStage

\* The two threads and the main thread together implement the session that
\* TransferSession describes.
ImplementsSession == Session!Spec
=============================================================================
