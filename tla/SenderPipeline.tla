--------------------------- MODULE SenderPipeline ---------------------------
(***************************************************************************)
(* The multithreaded sender (-j): scan_directory_multithreaded finds the   *)
(* chunks of the source tree, load_files_multithreaded reads their data,   *)
(* send_chunks_multithreaded transmits them and runs the completion tail   *)
(* (late delete manifest, STATUS_FINISHED, verdict).  Two bounded queues   *)
(* connect them; pipeline_cancel stops all three; send_files_multithreaded *)
(* creates and joins them.                                                 *)
(*                                                                         *)
(* Critical sections are single actions; pipeline_cancel takes both        *)
(* mutexes and is one action.  Every condition variable has one possible   *)
(* waiter at one location of its code; a signal sends a thread that waits  *)
(* there back to the test of its loop.                                     *)
(***************************************************************************)
EXTENDS Integers, Sequences, Functions, Totals

CONSTANTS
    Weight,             \* payload each chunk of the source holds once loaded
    LateWeight,         \* payload send_append still loads: a streamed file is
                        \* not loaded by the loader thread
    Capacity,           \* qsize of both queues
    Budget,             \* SENDER_QUEUE_MAX_BYTES
    Modes,              \* the deletion timings tried
    PreScanMisses       \* the sets of chunks a pre-scan may find unreadable

ASSUME SenderAssumption ==
    /\ Weight \in Seq(Nat) /\ LateWeight \in [1..Len(Weight) -> Nat]
    /\ Capacity \in Nat \ {0} /\ Budget \in Nat \ {0}
    /\ Modes \subseteq {"none", "early", "per_dir", "late"}
    /\ PreScanMisses \subseteq (SUBSET (1..Len(Weight))) \ {1..Len(Weight)}

Chunks == 1..Len(Weight)
Threads == {"scanner", "loader", "sender"}
NoManifest == {0}

VARIABLES
    mode, ignore_errors,    \* Config: deletion timing, --ignore-errors
    pc,                     \* location of each thread
    hand,                   \* chunk each thread holds, 0 if none
    scanned, unread,        \* chunks the scan passed; those it could not read
    queue_scanner, scanner_done, manifest, scan_had_io_error,
    queue_loader, queued_bytes, loader_done,
    cancelled, scan_stopped_early,
    mpc, exit_code,         \* send_files_multithreaded
    stop, abort,            \* deadline passed; signal caught
    sent, sent_manifest, finished   \* what went over the connection

scanVars == <<scanned, unread, manifest, scan_had_io_error>>
flow     == <<queue_scanner, queue_loader, queued_bytes>>
done     == <<scanner_done, loader_done, cancelled>>
mainVars == <<mpc, exit_code>>
wire     == <<sent, sent_manifest, finished>>
outside  == <<mode, ignore_errors, stop, abort>>
vars == <<outside, pc, hand, scanVars, flow, done, scan_stopped_early, mainVars, wire>>

PreScanned == mode \in {"early", "per_dir"}
delete_suppressed == PreScanned /\ manifest # Chunks /\ ~ignore_errors

\* The state in which the threads are created.  --delete-before, -during and
\* -delay have pre-scanned the tree for the keep-set; an empty keep-set after
\* an I/O error has made the client return before this point.
Init ==
    /\ mode \in Modes /\ ignore_errors \in BOOLEAN
    /\ unread \in IF PreScanned THEN PreScanMisses ELSE {{}}
    /\ manifest = IF PreScanned THEN Chunks \ unread ELSE {}
    /\ scan_had_io_error = (unread # {}) /\ scanned = 0
    /\ pc = [t \in Threads |-> "none"] /\ hand = [t \in Threads |-> 0]
    /\ queue_scanner = <<>> /\ queue_loader = <<>> /\ queued_bytes = 0
    /\ scanner_done = FALSE /\ loader_done = FALSE /\ cancelled = FALSE
    /\ scan_stopped_early = FALSE
    /\ mpc = "scanner" /\ exit_code = -1 /\ stop = FALSE /\ abort = FALSE
    /\ sent = <<>> /\ sent_manifest = NoManifest /\ finished = FALSE

\* The condition variables, by the thread and the location that wait on them.
not_full_scanner  == <<"scanner", "wait_full">>
not_empty_scanner == <<"loader", "wait_empty">>
not_full_loader   == <<"loader", "wait_full">>
not_empty_loader  == <<"sender", "wait_empty">>

Retest(loc) == IF loc = "wait_full" THEN "enqueue" ELSE "dequeue"

\* Faulty variants, named Bad..., stand before the definition they are a
\* plausible slip of; the README says which property finds each of them.
BadWoken(t, signalled) == <<t, pc[t]>> \in signalled \ {not_full_scanner}

Woken(t, signalled) == <<t, pc[t]>> \in signalled

\* Thread t goes on at location next, having signalled the given conditions.
Go(self, next, signalled) ==
    pc' = [t \in Threads |->
             IF t = self THEN next
             ELSE IF Woken(t, signalled) THEN Retest(pc[t]) ELSE pc[t]]

\* pipeline_cancel, called by a thread that goes on at location next.
pipeline_cancel(self, next) ==
    /\ cancelled' = TRUE /\ scanner_done' = TRUE /\ loader_done' = TRUE
    /\ Go(self, next, {not_full_scanner, not_empty_scanner,
                       not_full_loader, not_empty_loader})

-----------------------------------------------------------------------------
(* scan_directory_multithreaded                                            *)

\* prepare_scanner, append_implied_dir_times or the scanner's creation may fail.
ScanPrepare ==
    /\ pc["scanner"] = "init"
    /\ \/ Go("scanner", "next", {}) /\ UNCHANGED done
       \/ mode # "early" /\ pipeline_cancel("scanner", "error")
    /\ UNCHANGED <<outside, hand, scanVars, flow, scan_stopped_early, mainVars, wire>>

\* The scan yields a chunk.  With --delete-after its paths join the keep-set;
\* with --delete-before the chunk is one of those the pre-scan retained.
ScanNext ==
    /\ pc["scanner"] = "next" /\ scanned < Len(Weight)
    /\ mode = "early" => scanned + 1 \notin unread
    /\ scanned' = scanned + 1
    /\ hand' = [hand EXCEPT !["scanner"] = scanned + 1]
    /\ manifest' = IF mode = "late" THEN manifest \cup {scanned + 1} ELSE manifest
    /\ Go("scanner", "enqueue", {})
    /\ UNCHANGED <<outside, unread, scan_had_io_error, flow, done,
                   scan_stopped_early, mainVars, wire>>

\* An unreadable directory is passed over; only had_io tells.
ScanSkips ==
    /\ pc["scanner"] = "next" /\ scanned < Len(Weight)
    /\ mode = "early" => scanned + 1 \in unread
    /\ scanned' = scanned + 1
    /\ unread' = unread \cup {scanned + 1}
    /\ UNCHANGED <<outside, pc, hand, manifest, scan_had_io_error, flow, done,
                   scan_stopped_early, mainVars, wire>>

\* The scanner ends: the tree is exhausted, or the stop deadline has passed (a
\* replayed pre-scan ignores the deadline).  It may also fail for good.
ScanEnds ==
    /\ pc["scanner"] = "next"
    /\ \/ /\ scanned = Len(Weight) \/ (stop /\ mode # "early")
          /\ Go("scanner", "finish", {})
       \/ /\ mode # "early"
          /\ Go("scanner", "fail", {})
    /\ UNCHANGED <<outside, hand, scanVars, flow, done, scan_stopped_early,
                   mainVars, wire>>

\* One pass of the wait loop of queue_enqueue_multithreaded_cancel.
ScanEnqueue ==
    /\ pc["scanner"] = "enqueue"
    /\ IF cancelled
         THEN Go("scanner", "fail", {}) /\ UNCHANGED <<queue_scanner, hand>>
         ELSE IF Len(queue_scanner) = Capacity
         THEN Go("scanner", "wait_full", {}) /\ UNCHANGED <<queue_scanner, hand>>
         ELSE /\ queue_scanner' = Append(queue_scanner, hand["scanner"])
              /\ hand' = [hand EXCEPT !["scanner"] = 0]
              /\ Go("scanner", "next", {not_empty_scanner})
    /\ UNCHANGED <<outside, scanVars, queue_loader, queued_bytes, done,
                   scan_stopped_early, mainVars, wire>>

\* Success epilogue: the I/O error flag, then scanner_done, in two critical
\* sections with nothing observable between them.
ScanFinish ==
    /\ pc["scanner"] = "finish"
    /\ scan_had_io_error' = (unread # {})
    /\ scanner_done' = TRUE
    /\ Go("scanner", "success", {not_empty_scanner})
    /\ UNCHANGED <<outside, hand, scanned, unread, manifest, flow, loader_done,
                   cancelled, scan_stopped_early, mainVars, wire>>

\* Failure epilogue: scanner_done under mutex_scanner, and after the unlock
\* pipeline_cancel, as a second critical section.
ScanFail ==
    /\ \/ /\ pc["scanner"] = "fail"
          /\ scanner_done' = TRUE
          /\ Go("scanner", "cancel", {not_empty_scanner, not_full_scanner})
          /\ UNCHANGED <<loader_done, cancelled>>
       \/ /\ pc["scanner"] = "cancel"
          /\ pipeline_cancel("scanner", "error")
    /\ UNCHANGED <<outside, hand, scanVars, flow, scan_stopped_early, mainVars, wire>>

Scanner ==
    \/ ScanPrepare \/ ScanNext \/ ScanSkips \/ ScanEnds \/ ScanEnqueue
    \/ ScanFinish \/ ScanFail

-----------------------------------------------------------------------------
(* load_files_multithreaded                                                *)

\* queue_dequeue_multithreaded: one pass of its wait loop over queue q, whose
\* producer has finished when producer_done holds.  The caller goes on at
\* location got with an item, at location null when there will be none.
Waits(q, producer_done) == q = <<>> /\ ~producer_done
Ended(q, producer_done) == q = <<>> /\ producer_done

\* queue_enqueue, below the capacity: the element goes to the tail of the ring.
Enqueued(q, c) == Append(q, c)

LoadDequeue ==
    /\ pc["loader"] = "dequeue"
    /\ \/ /\ Waits(queue_scanner, scanner_done)
          /\ Go("loader", "wait_empty", {}) /\ UNCHANGED <<queue_scanner, hand>>
       \/ /\ Ended(queue_scanner, scanner_done)
          /\ Go("loader", "finish", {}) /\ UNCHANGED <<queue_scanner, hand>>
       \/ /\ queue_scanner # <<>>
          /\ hand' = [hand EXCEPT !["loader"] = Head(queue_scanner)]
          /\ queue_scanner' = Tail(queue_scanner)
          /\ Go("loader", "load", {not_full_scanner})
    /\ UNCHANGED <<outside, scanVars, queue_loader, queued_bytes, done,
                   scan_stopped_early, mainVars, wire>>

LoadFinish ==
    /\ pc["loader"] = "finish"
    /\ loader_done' = TRUE
    /\ Go("loader", "success", {not_empty_loader})
    /\ UNCHANGED <<outside, hand, scanVars, flow, scanner_done, cancelled,
                   scan_stopped_early, mainVars, wire>>

\* file_load_data reads the files of the chunk; a file that cannot be read, or
\* a cancelled enqueue, ends the thread through pipeline_cancel.
LoadData ==
    /\ \/ pc["loader"] = "load" /\ Go("loader", "enqueue", {}) /\ UNCHANGED <<hand, done>>
       \/ /\ pc["loader"] \in {"load", "cancel"}
          /\ hand' = [hand EXCEPT !["loader"] = 0]
          /\ pipeline_cancel("loader", "error")
    /\ UNCHANGED <<outside, scanVars, flow, scan_stopped_early, mainVars, wire>>

BadBlockedByBudget(bytes) == queued_bytes >= Budget

BlockedByBudget(bytes) ==
    \/ queued_bytes >= Budget
    \/ bytes > Budget - queued_bytes /\ queued_bytes # 0

MayAdmit == ~cancelled

\* pipeline_context_sender_enqueue_chunk: one pass of its wait loop.
LoadEnqueue ==
    LET bytes == Weight[hand["loader"]] IN
    /\ pc["loader"] = "enqueue"
    /\ IF ~MayAdmit
         THEN Go("loader", "cancel", {}) /\ UNCHANGED <<queue_loader, queued_bytes, hand>>
         ELSE IF Len(queue_loader) = Capacity \/ BlockedByBudget(bytes)
         THEN Go("loader", "wait_full", {}) /\ UNCHANGED <<queue_loader, queued_bytes, hand>>
         ELSE /\ queue_loader' = Enqueued(queue_loader, hand["loader"])
              /\ queued_bytes' = queued_bytes + bytes
              /\ hand' = [hand EXCEPT !["loader"] = 0]
              /\ Go("loader", "dequeue", {not_empty_loader})
    /\ UNCHANGED <<outside, scanVars, queue_scanner, done, scan_stopped_early,
                   mainVars, wire>>

Loader == LoadDequeue \/ LoadFinish \/ LoadData \/ LoadEnqueue

-----------------------------------------------------------------------------
(* send_chunks_multithreaded                                               *)

\* Every failure of this thread cancels the pipeline, disconnects and returns.
SendFails == pipeline_cancel("sender", "error")

\* Connect, send the config and, when a pre-scan built it, the keep-set (one
\* manifest, or every per-directory plan) ahead of the data.
SendConnect ==
    /\ pc["sender"] = "connect"
    /\ \/ Go("sender", "loop", {}) /\ UNCHANGED done
       \/ SendFails
    /\ sent_manifest' \in
         IF PreScanned /\ ~delete_suppressed
           THEN IF pc'["sender"] = "loop" THEN {manifest} ELSE {NoManifest, manifest}
           ELSE {NoManifest}
    /\ UNCHANGED <<outside, hand, scanVars, flow, scan_stopped_early, mainVars,
                   sent, finished>>

\* Top of the loop: a pending abort, then a passed deadline, end it.
SendLoop ==
    /\ pc["sender"] = "loop"
    /\ \/ abort /\ SendFails /\ UNCHANGED scan_stopped_early
       \/ ~abort /\ stop /\ scan_stopped_early' = TRUE /\ pipeline_cancel("sender", "tail")
       \/ ~abort /\ ~stop /\ Go("sender", "dequeue", {}) /\ UNCHANGED <<done, scan_stopped_early>>
    /\ UNCHANGED <<outside, hand, scanVars, flow, mainVars, wire>>

BadReportsCancel == FALSE
ReportsCancel == cancelled

SendDequeue ==
    /\ pc["sender"] = "dequeue"
    /\ \/ /\ Waits(queue_loader, loader_done)
          /\ Go("sender", "wait_empty", {}) /\ UNCHANGED <<queue_loader, hand>>
       \/ /\ Ended(queue_loader, loader_done)
          /\ Go("sender", "null", {}) /\ UNCHANGED <<queue_loader, hand>>
       \/ /\ queue_loader # <<>>
          /\ hand' = [hand EXCEPT !["sender"] = Head(queue_loader)]
          /\ queue_loader' = Tail(queue_loader)
          /\ Go("sender", "send", {not_full_loader})
    /\ UNCHANGED <<outside, scanVars, queue_scanner, queued_bytes, done,
                   scan_stopped_early, mainVars, wire>>

\* No more chunks: a cancelled pipeline is a failure, an exhausted one is not.
SendNull ==
    /\ pc["sender"] = "null"
    /\ IF ReportsCancel THEN SendFails ELSE Go("sender", "tail", {}) /\ UNCHANGED done
    /\ UNCHANGED <<outside, hand, scanVars, flow, scan_stopped_early, mainVars, wire>>

\* send_chunk_with_removal; the chunk is destroyed whatever the outcome.
SendChunk ==
    /\ pc["sender"] = "send"
    /\ \/ /\ sent' = Append(sent, hand["sender"])
          /\ Go("sender", "release", {}) /\ UNCHANGED <<hand, done>>
       \/ /\ hand' = [hand EXCEPT !["sender"] = 0]
          /\ SendFails /\ UNCHANGED sent
    /\ UNCHANGED <<outside, scanVars, flow, scan_stopped_early, mainVars,
                   sent_manifest, finished>>

\* pipeline_context_sender_note_bytes_released, with the payload the chunk
\* holds after it was sent.
SendRelease ==
    LET chunk    == hand["sender"]
        released == Weight[chunk] + LateWeight[chunk] IN
    /\ pc["sender"] = "release"
    /\ hand' = [hand EXCEPT !["sender"] = 0]
    /\ queued_bytes' = IF released >= queued_bytes THEN 0 ELSE queued_bytes - released
    /\ Go("sender", "loop", IF released = 0 THEN {} ELSE {not_full_loader})
    /\ UNCHANGED <<outside, scanVars, queue_scanner, queue_loader, done,
                   scan_stopped_early, mainVars, wire>>

BadScanStopped == scan_stopped_early
ScanStopped == scan_stopped_early \/ stop

ignore_errors_allows_delete == ~scan_had_io_error \/ ignore_errors

\* Completion tail: the late keep-set, unless the deadline cut the scan short or
\* an I/O error forbids deletion, then the directory times.  An I/O error with
\* an empty keep-set is a failure.
SendTail ==
    /\ pc["sender"] = "tail"
    /\ scan_stopped_early' = ScanStopped
    /\ LET manifest_due == ~ScanStopped /\ mode = "late"
           refuses == manifest_due /\ scan_had_io_error /\ manifest = {}
           sends == manifest_due /\ ~refuses /\ ignore_errors_allows_delete
       IN \/ SendFails /\ UNCHANGED sent_manifest
          \/ /\ ~refuses
             /\ sent_manifest' = IF sends THEN manifest ELSE sent_manifest
             /\ Go("sender", "finalize", {}) /\ UNCHANGED done
    /\ UNCHANGED <<outside, hand, scanVars, flow, mainVars, sent, finished>>

\* finalize_transfer: STATUS_FINISHED, then the receiver's verdict.  A failure
\* here returns without pipeline_cancel.
SendFinalize ==
    /\ pc["sender"] = "finalize"
    /\ \/ finished' = TRUE /\ \E r \in {"success", "limit", "error"} : Go("sender", r, {})
       \/ finished' = FALSE /\ Go("sender", "error", {})
    /\ UNCHANGED <<outside, hand, scanVars, flow, done, scan_stopped_early, mainVars,
                   sent, sent_manifest>>

Sender ==
    \/ SendConnect \/ SendLoop \/ SendDequeue \/ SendNull \/ SendChunk
    \/ SendRelease \/ SendTail \/ SendFinalize

-----------------------------------------------------------------------------
(* send_files_multithreaded                                                *)

Entry == [scanner |-> "init", loader |-> "dequeue", sender |-> "connect"]
Following == [scanner |-> "loader", loader |-> "sender", sender |-> "join"]

CreateThread ==
    /\ mpc \in Threads
    /\ \/ Go(mpc, Entry[mpc], {}) /\ mpc' = Following[mpc] /\ UNCHANGED done
       \/ pipeline_cancel("main", "none") /\ mpc' = "join_created"
    /\ UNCHANGED <<outside, hand, scanVars, flow, scan_stopped_early, exit_code, wire>>

Returned(t) == pc[t] \in {"none", "success", "limit", "error"}

\* The thread results other than the sender's are not looked at.
ExitStatus ==
    IF pc["sender"] \notin {"success", "limit"} THEN 1
    ELSE IF scan_had_io_error THEN 23
    ELSE IF pc["sender"] = "limit" THEN 25 ELSE 0

Join ==
    /\ mpc \in {"join", "join_created"} /\ \A t \in Threads : Returned(t)
    /\ exit_code' = IF mpc = "join" THEN ExitStatus ELSE 1
    /\ mpc' = "returned"
    /\ UNCHANGED <<outside, pc, hand, scanVars, flow, done, scan_stopped_early, wire>>

Main == CreateThread \/ Join

-----------------------------------------------------------------------------
(* The outside world and the whole program                                 *)

Deadline ==
    /\ ~stop /\ mpc # "returned" /\ stop' = TRUE
    /\ UNCHANGED <<mode, ignore_errors, abort, pc, hand, scanVars, flow, done,
                   scan_stopped_early, mainVars, wire>>

Interrupt ==
    /\ ~abort /\ mpc # "returned" /\ abort' = TRUE
    /\ UNCHANGED <<mode, ignore_errors, stop, pc, hand, scanVars, flow, done,
                   scan_stopped_early, mainVars, wire>>

SpuriousWakeup ==
    /\ \E t \in Threads :
         /\ pc[t] \in {"wait_full", "wait_empty"}
         /\ pc' = [pc EXCEPT ![t] = Retest(pc[t])]
    /\ UNCHANGED <<outside, hand, scanVars, flow, done, scan_stopped_early, mainVars, wire>>

Over == mpc = "returned" /\ UNCHANGED vars

Next ==
    \/ Scanner \/ Loader \/ Sender \/ Main
    \/ Deadline \/ Interrupt \/ SpuriousWakeup \/ Over

Spec == Init /\ [][Next]_vars

\* Every created thread is scheduled, and file and socket calls return.
Fairness == WF_vars(Scanner) /\ WF_vars(Loader) /\ WF_vars(Sender) /\ WF_vars(Main)
FairSpec == Spec /\ Fairness

-----------------------------------------------------------------------------
(* Properties                                                              *)

Locations ==
    [scanner |-> {"none", "init", "next", "enqueue", "wait_full", "finish", "fail",
                  "cancel", "success", "error"},
     loader  |-> {"none", "dequeue", "wait_empty", "finish", "load", "enqueue",
                  "wait_full", "cancel", "success", "error"},
     sender  |-> {"none", "connect", "loop", "dequeue", "wait_empty", "null", "send",
                  "release", "tail", "finalize", "success", "limit", "error"}]

\* Every thread is at a location of its own code, the queues respect their
\* capacity and the counters their range.
TypeOK ==
    /\ mode \in Modes /\ ignore_errors \in BOOLEAN /\ stop \in BOOLEAN /\ abort \in BOOLEAN
    /\ \A t \in Threads : pc[t] \in Locations[t] /\ hand[t] \in Chunks \cup {0}
    /\ DOMAIN pc = Threads /\ DOMAIN hand = Threads
    /\ scanned \in 0..Len(Weight) /\ unread \subseteq Chunks /\ manifest \subseteq Chunks
    /\ queue_scanner \in Seq(Chunks) /\ Len(queue_scanner) <= Capacity
    /\ queue_loader \in Seq(Chunks) /\ Len(queue_loader) <= Capacity
    /\ queued_bytes \in Nat /\ sent \in Seq(Chunks)
    /\ scan_had_io_error \in BOOLEAN /\ scan_stopped_early \in BOOLEAN
    /\ scanner_done \in BOOLEAN /\ loader_done \in BOOLEAN /\ cancelled \in BOOLEAN
    /\ mpc \in Threads \cup {"join", "join_created", "returned"}
    /\ exit_code \in {-1, 0, 1, 23, 25}
    /\ sent_manifest \in SUBSET Chunks \cup {NoManifest} /\ finished \in BOOLEAN

InHand(t) == IF hand[t] = 0 \/ pc[t] = "release" THEN <<>> ELSE <<hand[t]>>

Weights(chunks) == [i \in DOMAIN chunks |-> Weight[chunks[i]]]

\* The loaded payload waiting in the loader queue and in flight stays within
\* SENDER_QUEUE_MAX_BYTES; only a chunk that exceeds it alone may pass, and then
\* no other payload is buffered (client_send.c, the comment on the constant).
\* A chunk that grew while it was sent voids the account: see LateWeight.
QueueWithinBudget ==
    (\A c \in Range(sent) : LateWeight[c] = 0) =>
        Within(Weights(InHand("sender") \o queue_loader), Budget)

\* A keep-set that goes to the receiver names every chunk of the source, except
\* unreadable ones under --ignore-errors, and is never empty: the receiver
\* deletes what it does not name (send_chunks_multithreaded, completion tail).
KeepSetComplete ==
    sent_manifest # NoManifest =>
        /\ sent_manifest # {}
        /\ Chunks \ sent_manifest \subseteq unread
        /\ sent_manifest # Chunks => ignore_errors

ScanFailed == pc["scanner"] \in {"fail", "cancel", "error"}

\* The same for every scan that did not fail for good: neither the deadline, nor
\* an I/O error, nor a cancellation lets a partial keep-set through.  (After a
\* failed scan it may pass: scanner_done is published before pipeline_cancel.)
KeepSetOfScan == ~ScanFailed => KeepSetComplete

\* Success is reported only for a transfer that sent every chunk, once and in
\* scan order, or was stopped by the deadline; what could not be read makes it a
\* partial transfer, exit 23 (send_files_multithreaded looks at the result of the
\* sender thread alone).  And once the loader failed, the transfer is not
\* declared finished, unless the deadline ended it: the receiver must not commit
\* deletions after a partial stream.
ExitReportsLoss ==
    LET missing == Chunks \ Range(sent) IN
    /\ \A i, j \in DOMAIN sent : i < j => sent[i] < sent[j]
    /\ exit_code \in {0, 23, 25} /\ ~ScanFailed =>
         \/ scan_stopped_early
         \/ missing \subseteq unread /\ (missing # {} => exit_code = 23)
    /\ finished /\ pc["loader"] = "error" => scan_stopped_early

\* Whatever fails or is cancelled, no thread is left waiting: the client returns.
PipelineEnds == <>(mpc = "returned")
=============================================================================
