----------------------- MODULE ReceiverPipeline_proofs -----------------------
(***************************************************************************)
(* Theorems about ReceiverPipeline, for every capacity, budget, set of     *)
(* payloads and configuration, and any number of frames and files.         *)
(***************************************************************************)
EXTENDS ReceiverPipeline, Totals_proofs

\* A leaf that names no prover is for the SMT solver, which has a minute for it.
USE SMTT(60)

(* A payload is some number of bytes. *)
LEMMA SizesNat == Sizes \subseteq Nat
BY PipelineAssumption, Zenon DEF Sizes

(* A file has a natural number of bytes and a natural identifier.          *)
LEMMA FileBytes == \A f \in File : f.bytes \in Nat /\ f.id \in Nat
BY SizesNat, ZenonT(60) DEF File

(* The file in the writer's hands is a file.                               *)
LEMMA FileInHand == \A w \in Seq(File) : Len(w) = 1 => w[1] \in File /\ w[1].bytes \in Nat
<1> TAKE w \in Seq(File)
<1> HAVE Len(w) = 1
<1>1. w[1] \in File
  BY ElementOfSeq
<1> QED
  BY <1>1, FileBytes, Zenon

(* The entries of a frame become the files handed to the sink. *)
LEMMA FramesCarryFiles ==
    ASSUME NEW n \in 1..MaxChunk, NEW entry \in [1..n -> Payloads], NEW k \in Nat,
           NEW files,
           files = [i \in 1..n |-> [id |-> k + i, bytes |-> entry[i].bytes,
                                    kind |-> entry[i].kind]]
    PROVE  files \in Seq(File) /\ files # <<>>
<1>1. n \in Nat /\ n >= 1
  BY PipelineAssumption
<1>2. \A i \in 1..n : files[i] \in File
  BY PipelineAssumption, <1>1 DEF File, Sizes
<1>3. files \in [1..n -> File]
  BY <1>2, Zenon
<1>4. files \in Seq(File)
  BY <1>1, <1>3, SeqDef, Zenon
<1>5. Len(files) = n
  BY <1>1, <1>3
<1>6. files # <<>>
  <2> SUFFICES ASSUME files = <<>> PROVE FALSE
    BY ZenonT(60)
  <2>1. Len(files) = 0
    BY ZenonT(60), EmptySeq
  <2> QED
    BY <1>1, <1>5, <2>1
<1> QED
  BY <1>4, <1>6, ZenonT(60)

(* A thread runs only after the main thread has created it.  TypeOK alone  *)
(* is not inductive: creating the writer must find no file in its hands.   *)
ThreadsStart ==
    /\ mpc = "create_receiver" => rpc = "none"
    /\ mpc \in {"create_receiver", "create_writer"} => wpc = "none"

(* No step of any thread breaks ThreadsStart.                              *)
LEMMA ThreadsStartStep == ThreadsStart /\ [Next]_vars => ThreadsStart'
<1> SUFFICES ASSUME ThreadsStart, [Next]_vars PROVE ThreadsStart'
  BY Zenon
<1> USE DEF ThreadsStart, stream, writer, main
<1>1. CASE ReceiveThread
  BY <1>1, Zenon DEF ReceiveThread, ReceiveFiles, ReceiveProbe, ReceiveEarlyManifest,
     ReceiveLateManifest, ReceiveIgnoredManifest, ReceiveDeletePlan, ReceiveFails,
     ReceiveFinished, EnqueueFile, ReceiverExits, Frame, WakeWriter
<1>2. CASE WriteThread
  BY <1>2, Zenon DEF WriteThread, WriterStarts, Dequeue, Save, ReleaseBytes, WriterCancels
<1>3. CASE MainThread
  BY <1>3, Zenon DEF MainThread, CreateReceiver, CreateWriter, Join, CommitDeletion,
     PublishUpdates, Answer
<1>4. CASE SpuriousWakeup
  BY <1>4, Zenon DEF SpuriousWakeup, WakeReceiver, WakeWriter
<1>5. CASE UNCHANGED vars
  BY <1>5, Zenon DEF vars
<1> QED
  BY <1>1, <1>2, <1>3, <1>4, <1>5, Zenon DEF Next, SessionOver

(* Init establishes the type invariant. *)
LEMMA TypeInit == Init => TypeOK
<1> SUFFICES ASSUME Init PROVE FlagsOK /\ ControlOK /\ DataOK
  BY Zenon DEF TypeOK
<1>1. FlagsOK
  BY ZenonT(60) DEF Init, FlagsOK
<1>2. ControlOK
  BY Zenon DEF Init, ControlOK
<1>3. DataOK
  BY PipelineAssumption DEF Init, DataOK
<1> QED
  BY <1>1, <1>2, <1>3, Zenon

(* Every step keeps it. *)
LEMMA TypeStep == TypeOK /\ ThreadsStart /\ [Next]_vars => TypeOK'
<1> SUFFICES ASSUME TypeOK, ThreadsStart, [Next]_vars PROVE FlagsOK' /\ ControlOK' /\ DataOK'
  BY Zenon DEF TypeOK
<1> FlagsOK /\ ControlOK /\ DataOK
  BY Zenon DEF TypeOK
<1> USE DEF stream, shared, results, handed, writer, main, disk, history
<1>1. CASE ReceiveFiles
  <2>1. FlagsOK'
    BY <1>1, Zenon DEF ReceiveFiles, Frame, FlagsOK
  <2>2. ControlOK'
    BY <1>1, Zenon DEF ReceiveFiles, Frame, ControlOK, FlagsOK
  <2>3. hold' \in Seq(File) /\ hold' # <<>> /\ nfiles' \in Nat
    <3> DEFINE Files(n, entry) ==
                 [i \in 1..n |-> [id |-> nfiles + i, bytes |-> entry[i].bytes,
                                  kind |-> entry[i].kind]]
    <3>1. PICK n \in 1..MaxChunk : \E entry \in [1..n -> Payloads] :
            hold' = Files(n, entry) /\ nfiles' = nfiles + n
      BY <1>1, Zenon DEF ReceiveFiles
    <3>2. PICK entry \in [1..n -> Payloads] :
            hold' = Files(n, entry) /\ nfiles' = nfiles + n
      BY <3>1, Zenon
    <3>3. n \in Nat /\ nfiles \in Nat
      BY PipelineAssumption DEF DataOK
    <3>4. Files(n, entry) \in Seq(File) /\ Files(n, entry) # <<>>
      BY <3>3, FramesCarryFiles, ZenonT(60)
    <3> HIDE DEF Files
    <3> QED
      BY <3>2, <3>3, <3>4
  <2>4. frames' \in Nat /\ rpc' = "store"
    BY <1>1 DEF ReceiveFiles, Frame, DataOK
  <2>5. DataOK'
    BY <1>1, <2>3, <2>4, ZenonT(60) DEF ReceiveFiles, DataOK
  <2> QED
    BY <2>1, <2>2, <2>5, Zenon
<1>2. CASE ReceiveProbe
  <2>1. FlagsOK'
    BY <1>2, Zenon DEF ReceiveProbe, Frame, FlagsOK
  <2>2. ControlOK'
    BY <1>2, Zenon DEF ReceiveProbe, Frame, ControlOK, FlagsOK
  <2>3. DataOK'
    BY <1>2 DEF ReceiveProbe, Frame, DataOK, ControlOK
  <2> QED
    BY <2>1, <2>2, <2>3, Zenon
<1>3. CASE ReceiveEarlyManifest
  <2>1. FlagsOK'
    BY <1>3, ZenonT(60) DEF ReceiveEarlyManifest, Frame, FailStream, receiver_drop_pending, FlagsOK
  <2>2. ControlOK'
    BY <1>3 DEF ReceiveEarlyManifest, Frame, FailStream, receiver_drop_pending, ControlOK, FlagsOK
  <2>3. rpc' \in {rpc, "fail"} /\ frames' \in Nat
    BY <1>3 DEF ReceiveEarlyManifest, Frame, FailStream, DataOK
  <2>4. DataOK'
    BY <1>3, <2>3, Zenon DEF ReceiveEarlyManifest, DataOK
  <2> QED
    BY <2>1, <2>2, <2>4, Zenon
<1>4. CASE ReceiveLateManifest
  <2>1. FlagsOK'
    BY <1>4, ZenonT(60) DEF ReceiveLateManifest, Frame, FailStream, receiver_drop_pending, FlagsOK
  <2>2. ControlOK'
    BY <1>4 DEF ReceiveLateManifest, Frame, FailStream, receiver_drop_pending, ControlOK, FlagsOK
  <2>3. DataOK'
    BY <1>4 DEF ReceiveLateManifest, Frame, FailStream, receiver_drop_pending, DataOK, ControlOK
  <2> QED
    BY <2>1, <2>2, <2>3, Zenon
<1>5. CASE ReceiveIgnoredManifest
  <2>1. FlagsOK'
    BY <1>5, Zenon DEF ReceiveIgnoredManifest, Frame, FlagsOK
  <2>2. ControlOK'
    BY <1>5, Zenon DEF ReceiveIgnoredManifest, Frame, ControlOK, FlagsOK
  <2>3. DataOK'
    BY <1>5 DEF ReceiveIgnoredManifest, Frame, DataOK, ControlOK
  <2> QED
    BY <2>1, <2>2, <2>3, Zenon
<1>6. CASE ReceiveDeletePlan
  <2>1. FlagsOK'
    BY <1>6, ZenonT(60) DEF ReceiveDeletePlan, Frame, FailStream, receiver_drop_pending, FlagsOK
  <2>2. ControlOK'
    BY <1>6 DEF ReceiveDeletePlan, Frame, FailStream, receiver_drop_pending, ControlOK, FlagsOK
  <2>3. DataOK'
    BY <1>6 DEF ReceiveDeletePlan, Frame, FailStream, receiver_drop_pending, DataOK, ControlOK
  <2> QED
    BY <2>1, <2>2, <2>3, Zenon
<1>7. CASE ReceiveFails
  <2>1. FlagsOK'
    BY <1>7, ZenonT(60) DEF ReceiveFails, FailStream, receiver_drop_pending, FlagsOK
  <2>2. ControlOK'
    BY <1>7, Zenon DEF ReceiveFails, FailStream, receiver_drop_pending, ControlOK, FlagsOK
  <2>3. DataOK'
    BY <1>7, Zenon DEF ReceiveFails, FailStream, receiver_drop_pending, DataOK, ControlOK
  <2> QED
    BY <2>1, <2>2, <2>3, Zenon
<1>8. CASE ReceiveFinished
  <2>1. FlagsOK'
    BY <1>8, ZenonT(60) DEF ReceiveFinished, receiver_drop_pending, FlagsOK
  <2>2. ControlOK'
    BY <1>8, Zenon DEF ReceiveFinished, receiver_drop_pending, ControlOK, FlagsOK
  <2>3. DataOK'
    BY <1>8, Zenon DEF ReceiveFinished, receiver_drop_pending, DataOK, ControlOK
  <2> QED
    BY <2>1, <2>2, <2>3, Zenon
<1>9. CASE EnqueueFile
  <2>1. FlagsOK'
    BY <1>9, ZenonT(60) DEF EnqueueFile, FailStream, receiver_drop_pending, WakeWriter, FlagsOK
  <2>2. ControlOK'
    BY <1>9 DEF EnqueueFile, FailStream, receiver_drop_pending, WakeWriter, ControlOK, FlagsOK
  <2>3. DataOK'
    <3> DEFINE f == Head(hold)
    <3>0. hold \in Seq(File) /\ hold # <<>>
      BY <1>9, Zenon DEF EnqueueFile, DataOK
    <3>1. f \in File /\ f.bytes \in Nat /\ Tail(hold) \in Seq(File)
      BY <3>0, FileBytes, HeadTailProperties, Zenon
    <3>2. /\ Append(queue, f) \in Seq(File) /\ Append(accepted, f) \in Seq(File)
          /\ queued_bytes + f.bytes \in Nat
      BY <3>1, AppendProperties DEF DataOK
    <3>3. /\ queue' \in Seq(File) /\ queued_bytes' \in Nat /\ accepted' \in Seq(File)
          /\ hold' \in Seq(File)
      <4>1. CASE UNCHANGED <<queue, queued_bytes, accepted>> /\ (hold' = hold \/ hold' = <<>>)
        BY <4>1, EmptySeq, ZenonT(60) DEF DataOK
      <4>2. CASE /\ queue' = Append(queue, f) /\ queued_bytes' = queued_bytes + f.bytes
                 /\ accepted' = Append(accepted, f) /\ hold' = Tail(hold)
        BY <4>2, <3>1, <3>2, Zenon
      <4> QED
        BY <1>9, <4>1, <4>2, Zenon DEF EnqueueFile
    <3>4. rpc' \in {"store", "wait"} => hold' # <<>>
      BY <1>9, Zenon DEF EnqueueFile, DataOK, FailStream
    <3>5. Len(wfile') = IF wpc' \in {"save", "release"} THEN 1 ELSE 0
      BY <1>9, ZenonT(60) DEF EnqueueFile, DataOK, WakeWriter
    <3> QED
      BY <1>9, <3>3, <3>4, <3>5, Zenon DEF EnqueueFile, DataOK
  <2> QED
    BY <2>1, <2>2, <2>3, Zenon
<1>10. CASE ReceiverExits
  <2>1. FlagsOK'
    BY <1>10, Zenon DEF ReceiverExits, WakeWriter, FlagsOK
  <2>2. ControlOK'
    BY <1>10, Zenon DEF ReceiverExits, WakeWriter, ControlOK, FlagsOK
  <2>3. DataOK'
    BY <1>10, Zenon DEF ReceiverExits, WakeWriter, DataOK, ControlOK
  <2> QED
    BY <2>1, <2>2, <2>3, Zenon
<1>11. CASE WriterStarts
  <2>1. FlagsOK'
    BY <1>11, ZenonT(60) DEF WriterStarts, WriterGivesUp, WakeReceiver, FlagsOK
  <2>2. ControlOK'
    BY <1>11 DEF WriterStarts, WriterGivesUp, WakeReceiver, ControlOK, FlagsOK
  <2>3. DataOK'
    BY <1>11, Zenon DEF WriterStarts, WriterGivesUp, WakeReceiver, DataOK, ControlOK
  <2> QED
    BY <2>1, <2>2, <2>3, Zenon
<1>12. CASE Dequeue
  <2>1. FlagsOK'
    BY <1>12, Zenon DEF Dequeue, WakeReceiver, NextFile, FlagsOK
  <2>2. ControlOK'
    BY <1>12 DEF Dequeue, WakeReceiver, NextFile, ControlOK, FlagsOK
  <2>3. DataOK'
    <3>1. CASE queue = <<>>
      BY <1>12, <3>1, Zenon DEF Dequeue, DataOK
    <3>2. CASE queue # <<>>
      <4>1. Head(queue) \in File /\ Tail(queue) \in Seq(File)
        BY <3>2, HeadTailProperties, Zenon DEF DataOK
      <4>2. <<Head(queue)>> \in Seq(File) /\ Len(<<Head(queue)>>) = 1
        BY <4>1
      <4>3. rpc' \in {"store", "wait"} => hold' # <<>>
        BY <1>12, <3>2, Zenon DEF Dequeue, WakeReceiver, DataOK
      <4> QED
        BY <1>12, <3>2, <4>1, <4>2, <4>3, ZenonT(60) DEF Dequeue, NextFile, DataOK
    <3> QED
      BY <3>1, <3>2, Zenon
  <2> QED
    BY <2>1, <2>2, <2>3, Zenon
<1>13. CASE Save
  <2>1. FlagsOK'
    BY <1>13, ZenonT(60) DEF Save, SaveResults, Recorded, Acknowledged, FlagsOK
  <2>2. ControlOK'
    BY <1>13, Zenon DEF Save, SaveResults, Recorded, Acknowledged, ControlOK, FlagsOK
  <2>3. DataOK'
    <3> DEFINE f == wfile[1]
               Outcome == [id : Nat, result : {"WRITTEN", "SKIPPED", "FAILED"}]
    <3>0. wfile \in Seq(File) /\ Len(wfile) = 1 /\ written \in Seq(File)
      BY <1>13, Zenon DEF Save, DataOK
    <3>1. f \in File
      BY <3>0, FileInHand, Zenon
    <3>2. PICK result \in SaveResults(f) :
            /\ failed_entries' \in {failed_entries, failed_entries + 1}
            /\ written' \in {written, Append(written, f)}
            /\ \/ outcomes' = outcomes
               \/ /\ result # "ERROR"
                  /\ outcomes' = Append(outcomes, [id |-> f.id, result |-> result])
      BY <1>13, Zenon DEF Save
    <3>3. written' \in Seq(File)
      <4>1. Append(written, f) \in Seq(File)
        BY <3>0, <3>1, AppendProperties, Zenon
      <4> QED
        BY <4>1, <3>0, <3>2, Zenon
    <3>4. result # "ERROR" => [id |-> f.id, result |-> result] \in Outcome
      BY <3>1, <3>2, FileBytes, Zenon DEF SaveResults
    <3>5. outcomes' \in Seq(Outcome)
      <4>1. outcomes \in Seq(Outcome)
        BY Zenon DEF DataOK
      <4>2. ASSUME NEW o \in Outcome PROVE Append(outcomes, o) \in Seq(Outcome)
        BY <4>1, AppendProperties, Zenon
      <4> QED
        BY <3>2, <3>4, <4>1, <4>2, ZenonT(60)
    <3>6. /\ UNCHANGED <<config, frames, nfiles, hold, rpc, queue, queued_bytes, wfile, accepted>>
          /\ wpc = "save" /\ wpc' = "release"
      BY <1>13, Zenon DEF Save, stream, shared
    <3>7. failed_entries' \in Nat
      BY <3>2 DEF DataOK
    <3> QED
      BY <3>3, <3>5, <3>6, <3>7, Zenon DEF DataOK
  <2> QED
    BY <2>1, <2>2, <2>3, Zenon
<1>14. CASE ReleaseBytes
  <2>1. FlagsOK'
    BY <1>14, Zenon DEF ReleaseBytes, WakeReceiver, FlagsOK
  <2>2. ControlOK'
    BY <1>14 DEF ReleaseBytes, WakeReceiver, ControlOK, FlagsOK
  <2>3. DataOK'
    <3>0. wfile \in Seq(File) /\ Len(wfile) = 1
      BY <1>14, Zenon DEF ReleaseBytes, DataOK
    <3>1. wfile[1] \in File /\ wfile[1].bytes \in Nat
      BY <3>0, FileInHand, Zenon
    <3>2. queued_bytes' \in Nat
      BY <1>14, <3>1 DEF ReleaseBytes, Remaining, DataOK
    <3>3. rpc' \in {"store", "wait"} => hold' # <<>>
      BY <1>14, Zenon DEF ReleaseBytes, WakeReceiver, DataOK
    <3> QED
      BY <1>14, <3>2, <3>3 DEF ReleaseBytes, DataOK
  <2> QED
    BY <2>1, <2>2, <2>3, Zenon
<1>15. CASE WriterCancels
  <2>1. FlagsOK'
    BY <1>15, Zenon DEF WriterCancels, WriterGivesUp, WakeReceiver, FlagsOK
  <2>2. ControlOK'
    BY <1>15, Zenon DEF WriterCancels, WriterGivesUp, WakeReceiver, ControlOK, FlagsOK
  <2>3. DataOK'
    BY <1>15, Zenon DEF WriterCancels, WriterGivesUp, WakeReceiver, DataOK, ControlOK
  <2> QED
    BY <2>1, <2>2, <2>3, Zenon
<1>16. CASE CreateReceiver
  <2>1. FlagsOK'
    BY <1>16, Zenon DEF CreateReceiver, FlagsOK
  <2>2. ControlOK'
    BY <1>16 DEF CreateReceiver, ControlOK, FlagsOK
  <2>3. DataOK'
    BY <1>16, Zenon DEF CreateReceiver, DataOK, ControlOK
  <2> QED
    BY <2>1, <2>2, <2>3, Zenon
<1>17. CASE CreateWriter
  <2>1. FlagsOK'
    BY <1>17, ZenonT(60) DEF CreateWriter, WakeReceiver, FlagsOK
  <2>2. ControlOK'
    BY <1>17 DEF CreateWriter, WakeReceiver, ControlOK, FlagsOK
  <2>3. DataOK'
    <3>1. rpc' \in {"store", "wait"} => hold' # <<>>
      BY <1>17, Zenon DEF CreateWriter, WakeReceiver, DataOK
    <3>2. Len(wfile') = IF wpc' \in {"save", "release"} THEN 1 ELSE 0
      BY <1>17, Zenon DEF CreateWriter, DataOK, ThreadsStart
    <3> QED
      BY <1>17, <3>1, <3>2, Zenon DEF CreateWriter, DataOK
  <2> QED
    BY <2>1, <2>2, <2>3, Zenon
<1>18. CASE Join
  <2>1. FlagsOK'
    BY <1>18, ZenonT(60) DEF Join, ThreadsSucceeded, FlagsOK
  <2>2. ControlOK'
    BY <1>18, Zenon DEF Join, ThreadsSucceeded, ControlOK, FlagsOK
  <2>3. DataOK'
    BY <1>18, Zenon DEF Join, ThreadsSucceeded, DataOK, ControlOK
  <2> QED
    BY <2>1, <2>2, <2>3, Zenon
<1>19. CASE CommitDeletion
  <2>1. FlagsOK'
    BY <1>19, ZenonT(60) DEF CommitDeletion, FlagsOK
  <2>2. ControlOK'
    BY <1>19 DEF CommitDeletion, ControlOK, FlagsOK
  <2>3. DataOK'
    BY <1>19, Zenon DEF CommitDeletion, DataOK, ControlOK
  <2> QED
    BY <2>1, <2>2, <2>3, Zenon
<1>20. CASE PublishUpdates
  <2>1. FlagsOK'
    BY <1>20, ZenonT(60) DEF PublishUpdates, PublishSucceeded, FlagsOK
  <2>2. ControlOK'
    BY <1>20, Zenon DEF PublishUpdates, ControlOK, FlagsOK
  <2>3. DataOK'
    BY <1>20, Zenon DEF PublishUpdates, DataOK, ControlOK
  <2> QED
    BY <2>1, <2>2, <2>3, Zenon
<1>21. CASE Answer
  <2>1. FlagsOK'
    BY <1>21, ZenonT(60) DEF Answer, FinalStatus, FlagsOK
  <2>2. ControlOK'
    BY <1>21 DEF Answer, FinalStatus, ControlOK, FlagsOK
  <2>3. DataOK'
    BY <1>21, Zenon DEF Answer, FinalStatus, DataOK, ControlOK
  <2> QED
    BY <2>1, <2>2, <2>3, Zenon
<1>22. CASE SpuriousWakeup
  <2>1. FlagsOK'
    BY <1>22, Zenon DEF SpuriousWakeup, WakeReceiver, WakeWriter, FlagsOK
  <2>2. ControlOK'
    BY <1>22 DEF SpuriousWakeup, WakeReceiver, WakeWriter, ControlOK, FlagsOK
  <2>3. DataOK'
    BY <1>22, Zenon DEF SpuriousWakeup, WakeReceiver, WakeWriter, DataOK, ControlOK
  <2> QED
    BY <2>1, <2>2, <2>3, Zenon
<1>23. CASE UNCHANGED vars
  <2>1. FlagsOK'
    BY <1>23, Zenon DEF vars, FlagsOK
  <2>2. ControlOK'
    BY <1>23 DEF vars, ControlOK
  <2>3. DataOK'
    BY <1>23, Zenon DEF vars, DataOK
  <2> QED
    BY <2>1, <2>2, <2>3, Zenon
<1> QED
  BY <1>1, <1>2, <1>3, <1>4, <1>5, <1>6, <1>7, <1>8, <1>9, <1>10, <1>11,
     <1>12, <1>13, <1>14, <1>15, <1>16, <1>17, <1>18, <1>19, <1>20, <1>21,
     <1>22, <1>23, Zenon DEF Next, ReceiveThread, WriteThread, MainThread,
     SessionOver

(* Every state of the receiver is well typed; in particular the writer     *)
(* holds a file exactly while it saves or releases it, and the receiver    *)
(* waits for the queue only with a file in hand.                           *)
THEOREM TypeCorrect == Spec => []TypeOK
<1>1. Init => TypeOK /\ ThreadsStart
  BY TypeInit, Zenon DEF Init, ThreadsStart
<1> QED
  BY <1>1, TypeStep, ThreadsStartStep, PTL DEF Spec

-----------------------------------------------------------------------------

(* Only three steps touch the queue or its byte count. *)
LEMMA QueueSteps ==
    [Next]_vars => \/ EnqueueFile \/ Dequeue \/ ReleaseBytes
                   \/ UNCHANGED <<queue, queued_bytes, accepted, wfile>>
<1> SUFFICES ASSUME [Next]_vars, ~EnqueueFile, ~Dequeue, ~ReleaseBytes
             PROVE  UNCHANGED <<queue, queued_bytes, accepted, wfile>>
  BY Zenon
<1> USE DEF shared, history, writer
<1>1. CASE ReceiveThread
  BY <1>1, Zenon DEF ReceiveThread, ReceiveFiles, ReceiveProbe, ReceiveEarlyManifest,
     ReceiveLateManifest, ReceiveIgnoredManifest, ReceiveDeletePlan, ReceiveFails,
     ReceiveFinished, ReceiverExits
<1>2. CASE WriteThread
  BY <1>2, ZenonT(60) DEF WriteThread, WriterStarts, Save, WriterCancels
<1>3. CASE MainThread
  BY <1>3, Zenon DEF MainThread, CreateReceiver, CreateWriter, Join, CommitDeletion,
     PublishUpdates, Answer
<1>4. CASE SpuriousWakeup
  BY <1>4, Zenon DEF SpuriousWakeup
<1>5. CASE UNCHANGED vars
  BY <1>5, Zenon DEF vars
<1> QED
  BY <1>1, <1>2, <1>3, <1>4, <1>5, Zenon DEF Next, SessionOver

(* The sizes of a sequence of files. *)
LEMMA BytesOf ==
    \A q \in Seq(File) :
        /\ Bytes(q) \in Nats /\ Len(Bytes(q)) = Len(q)
        /\ \A i \in 1..Len(q) : Bytes(q)[i] = q[i].bytes
<1> TAKE q \in Seq(File)
<1>1. Len(q) \in Nat /\ DOMAIN q = 1..Len(q) /\ \A i \in 1..Len(q) : q[i] \in File
  BY SMT
<1>2. Bytes(q) \in [1..Len(q) -> Nat]
  BY <1>1, FileBytes, Zenon DEF Bytes
<1>3. Bytes(q) \in Nats
  <2>1. [1..Len(q) -> Nat] \in {[1..n -> Nat] : n \in Nat}
    BY <1>1, Zenon
  <2>2. Bytes(q) \in UNION {[1..n -> Nat] : n \in Nat}
    BY <1>2, <2>1, Zenon
  <2>3. Seq(Nat) = UNION {[1..n -> Nat] : n \in Nat}
    BY SeqDef, Zenon
  <2> QED
    BY <2>2, <2>3, Zenon DEF Nats
<1>4. Len(Bytes(q)) = Len(q)
  BY <1>1, <1>2
<1>5. \A i \in 1..Len(q) : Bytes(q)[i] = q[i].bytes
  BY <1>1, Zenon DEF Bytes
<1> QED BY <1>3, <1>4, <1>5, Zenon

(* The sizes of no frames. *)
LEMMA BytesEmpty == Bytes(<<>>) = <<>>
<1>1. <<>> \in Seq(File)
  BY EmptySeq, Zenon
<1>2. Bytes(<<>>) \in Nats /\ Len(Bytes(<<>>)) = Len(<<>>)
  BY <1>1, BytesOf, Zenon
<1>3. Len(<<>>) = 0
  BY EmptySeq, Zenon
<1> QED BY <1>2, <1>3, EmptySeq DEF Nats

(* The sizes after an enqueue. *)
LEMMA BytesAppend ==
    \A q \in Seq(File), f \in File : Bytes(Append(q, f)) = Append(Bytes(q), f.bytes)
<1> TAKE q \in Seq(File), f \in File
<1> DEFINE a == Bytes(Append(q, f))
           b == Append(Bytes(q), f.bytes)
<1>1. f.bytes \in Nat /\ Len(q) \in Nat
  BY FileBytes, LenProperties, Zenon
<1>2. Append(q, f) \in Seq(File) /\ Len(Append(q, f)) = Len(q) + 1 /\ Append(q, f)[Len(q) + 1] = f
      /\ \A i \in 1..Len(q) : Append(q, f)[i] = q[i]
  BY AppendProperties
<1>3. Bytes(q) \in Nats /\ Len(Bytes(q)) = Len(q) /\ \A i \in 1..Len(q) : Bytes(q)[i] = q[i].bytes
  BY BytesOf, Zenon
<1>4. b \in Nats /\ Len(b) = Len(q) + 1 /\ b[Len(q) + 1] = f.bytes /\ \A i \in 1..Len(q) : b[i] = Bytes(q)[i]
  BY <1>1, <1>3, AppendProperties DEF Nats
<1>5. a \in Nats /\ Len(a) = Len(q) + 1 /\ \A i \in 1..(Len(q) + 1) : a[i] = Append(q, f)[i].bytes
  BY <1>2, BytesOf, Zenon
<1> HIDE DEF a, b
<1>6. \A i \in 1..(Len(q) + 1) : i = Len(q) + 1 \/ i \in 1..Len(q)
  BY <1>1
<1>7. \A i \in 1..(Len(q) + 1) : a[i] = b[i]
  BY <1>2, <1>3, <1>4, <1>5, <1>6, Zenon
<1>8. a = b
  BY <1>4, <1>5, <1>7, SeqEqual, Zenon DEF Nats
<1> QED BY <1>8, Zenon DEF a, b

(* The sizes after a dequeue. *)
LEMMA BytesTail ==
    \A q \in Seq(File) : q # <<>> =>
        /\ Bytes(q) # <<>> /\ Head(Bytes(q)) = Head(q).bytes
        /\ Tail(Bytes(q)) = Bytes(Tail(q))
<1> SUFFICES ASSUME NEW q \in Seq(File), q # <<>>
             PROVE  /\ Bytes(q) # <<>> /\ Head(Bytes(q)) = Head(q).bytes
                    /\ Tail(Bytes(q)) = Bytes(Tail(q))
  BY Zenon
<1>1. Len(q) \in Nat \ {0}
  BY EmptySeq, Zenon
<1>2. Bytes(q) \in Nats /\ Len(Bytes(q)) = Len(q) /\ \A i \in 1..Len(q) : Bytes(q)[i] = q[i].bytes
  BY BytesOf, Zenon
<1>3. Tail(q) \in Seq(File) /\ Len(Tail(q)) = Len(q) - 1 /\ Head(q) = q[1]
      /\ \A i \in 1..(Len(q) - 1) : Tail(q)[i] = q[i + 1]
  BY <1>1, SMT
<1>4. Bytes(Tail(q)) \in Nats /\ Len(Bytes(Tail(q))) = Len(q) - 1
      /\ \A i \in 1..(Len(q) - 1) : Bytes(Tail(q))[i] = Tail(q)[i].bytes
  BY <1>3, BytesOf, Zenon
<1> DEFINE a == Bytes(q)
           b == Bytes(Tail(q))
<1>5. a \in Seq(Nat) /\ Len(a) = Len(q)
  BY <1>2, Zenon DEF Nats
<1>6. b \in Seq(Nat) /\ Len(b) = Len(q) - 1
  BY <1>4, Zenon DEF Nats
<1> HIDE DEF a, b
<1>7. a # <<>> /\ Head(a) = a[1] /\ Tail(a) \in Seq(Nat) /\ Len(Tail(a)) = Len(q) - 1
      /\ \A i \in 1..(Len(q) - 1) : Tail(a)[i] = a[i + 1]
  BY <1>1, <1>5, SMT
<1>8. \A i \in 1..(Len(q) - 1) : i + 1 \in 1..Len(q)
  BY <1>1
<1>9. \A i \in 1..(Len(q) - 1) : Tail(a)[i] = b[i]
  BY <1>2, <1>3, <1>4, <1>7, <1>8, Zenon DEF a, b
<1>10. Tail(a) = b
  BY <1>6, <1>7, <1>9, SeqEqual, Zenon
<1>11. 1 \in 1..Len(q)
  BY <1>1
<1>12. Head(a) = Head(q).bytes
  BY <1>2, <1>3, <1>7, <1>11, Zenon DEF a
<1> QED
  BY <1>7, <1>10, <1>12, Zenon DEF a, b

(* enqueue_file admits a file only if it fits into what is left of the     *)
(* budget, or alone; note_bytes_released gives back what was charged.      *)
LEMMA BudgetStep == TypeOK /\ BudgetHonoured /\ [Next]_vars => BudgetHonoured'
<1> SUFFICES ASSUME TypeOK, BudgetHonoured, [Next]_vars PROVE BudgetHonoured'
  BY Zenon
<1> DEFINE held == wfile \o queue
<1>1. /\ queue \in Seq(File) /\ wfile \in Seq(File) /\ hold \in Seq(File) /\ queued_bytes \in Nat
      /\ Len(wfile) = (IF wpc \in {"save", "release"} THEN 1 ELSE 0)
      /\ (rpc \in {"store", "wait"} => hold # <<>>)
  BY Zenon DEF TypeOK, DataOK
<1>2. Budget \in Nat
  BY PipelineAssumption, Zenon
<1>3. held \in Seq(File)
  BY <1>1, ConcatProperties, Zenon
<1>4. Bytes(held) \in Nats
  BY <1>3, BytesOf, Zenon
<1>5. queued_bytes = Total(Bytes(held)) /\ Within(Bytes(held), Budget)
  BY Zenon DEF BudgetHonoured
<1>6. CASE UNCHANGED <<queue, queued_bytes, wfile>>
  BY <1>6, Zenon DEF BudgetHonoured
<1>7. CASE EnqueueFile
  <2> DEFINE f == Head(hold)
  <2>1. wfile' = wfile
    BY <1>7, Zenon DEF EnqueueFile
  <2>2. CASE MayAdmit(f) /\ queue' = Append(queue, f) /\ queued_bytes' = queued_bytes + f.bytes
    <3>1. f \in File
      BY <1>1, <1>7, HeadTailProperties, Zenon DEF EnqueueFile
    <3>2. f.bytes \in Nat
      BY <3>1, FileBytes, Zenon
    <3>3. wfile' \o queue' = Append(held, f)
      BY <1>1, <2>1, <2>2, <3>1
    <3>4. Bytes(wfile' \o queue') = Append(Bytes(held), f.bytes)
      BY <1>3, <3>1, <3>3, BytesAppend, Zenon
    <3>5. queued_bytes = 0 \/ queued_bytes + f.bytes <= Budget
      BY <1>1, <1>2, <2>2, <3>2 DEF MayAdmit, BlockedByBudget
    <3> HIDE DEF held, f
    <3>6. queued_bytes' = Total(Append(Bytes(held), f.bytes))
      BY <1>4, <1>5, <2>2, <3>2, TotalAppend, Zenon
    <3>7. Within(Append(Bytes(held), f.bytes), Budget)
      BY <1>2, <1>4, <1>5, <3>2, <3>5, WithinAppend, Zenon
    <3> QED
      BY <3>4, <3>6, <3>7, Zenon DEF BudgetHonoured
  <2>3. CASE UNCHANGED <<queue, queued_bytes>>
    BY <1>6, <2>1, <2>3, Zenon
  <2> QED
    BY <1>7, <2>2, <2>3, Zenon DEF EnqueueFile
<1>8. CASE Dequeue
  <2>1. queued_bytes' = queued_bytes
    BY <1>8, Zenon DEF Dequeue
  <2>2. CASE queue # <<>> /\ wfile' = <<Head(queue)>> /\ queue' = Tail(queue)
    <3>1. Len(wfile) = 0
      BY <1>1, <1>8, Zenon DEF Dequeue
    <3>2. held = queue
      BY <1>1, <3>1
    <3>3. wfile' \o queue' = queue
      BY <1>1, <2>2
    <3> QED
      BY <1>5, <2>1, <3>2, <3>3, Zenon DEF BudgetHonoured
  <2>3. CASE UNCHANGED <<queue, wfile>>
    BY <1>6, <2>1, <2>3, Zenon
  <2> QED
    BY <1>8, <2>2, <2>3, Zenon DEF Dequeue, NextFile
<1>9. CASE ReleaseBytes
  <2> DEFINE w == wfile[1]
  <2>1. Len(wfile) = 1
    BY <1>1, <1>9, Zenon DEF ReleaseBytes
  <2>2. w \in File /\ w.bytes \in Nat
    BY <1>1, <2>1, FileInHand, Zenon
  <2>3. held # <<>> /\ Head(held) = w /\ Tail(held) = queue
    <3>1. wfile = <<w>>
      BY <1>1, <2>1
    <3> HIDE DEF w
    <3>2. ASSUME NEW q \in Seq(File) PROVE <<w>> \o q # <<>> /\ Head(<<w>> \o q) = w /\ Tail(<<w>> \o q) = q
      BY <2>2
    <3> QED
      BY <1>1, <3>1, <3>2, Zenon
  <2>4. wfile' = <<>> /\ queue' = queue
    BY <1>9, Zenon DEF ReleaseBytes
  <2>5. wfile' \o queue' = queue
    BY <1>1, <2>4, ConcatEmptySeq, Zenon
  <2>6. Bytes(held) # <<>> /\ Head(Bytes(held)) = w.bytes /\ Tail(Bytes(held)) = Bytes(queue)
    BY <1>3, <2>3, BytesTail, Zenon
  <2>7. Total(Bytes(held)) = w.bytes + Total(Bytes(queue))
    BY <1>4, <2>6, TotalFront, Zenon
  <2>8. Within(Bytes(queue), Budget)
    BY <1>2, <1>4, <1>5, <2>6, WithinTail, Zenon
  <2>9. Total(Bytes(queue)) \in Nat
    BY <1>1, BytesOf, TotalNat, Zenon
  <2>10. queued_bytes' = IF w.bytes = 0 THEN queued_bytes ELSE Remaining(w.bytes)
    BY <1>9, Zenon DEF ReleaseBytes
  <2> HIDE DEF held, w
  <2>11. queued_bytes' = Total(Bytes(queue))
    BY <1>1, <1>5, <2>2, <2>7, <2>9, <2>10 DEF Remaining
  <2> QED
    BY <2>5, <2>8, <2>11, Zenon DEF BudgetHonoured
<1> QED
  BY <1>6, <1>7, <1>8, <1>9, QueueSteps, Zenon

(* The wait for room keeps queue_enqueue out of its growing branch.        *)
LEMMA QueueBounded == Spec => []QueueNeverGrows
<1>1. Init => QueueNeverGrows
  BY PipelineAssumption DEF Init, QueueNeverGrows
<1>2. TypeOK /\ QueueNeverGrows /\ [Next]_vars => QueueNeverGrows'
  <2> SUFFICES ASSUME TypeOK, QueueNeverGrows, [Next]_vars PROVE QueueNeverGrows'
    BY Zenon
  <2>1. queue \in Seq(File) /\ Capacity \in Nat
    BY PipelineAssumption, Zenon DEF TypeOK, DataOK
  <2>2. CASE EnqueueFile
    <3>1. CASE MayAdmit(Head(hold)) /\ queue' = Append(queue, Head(hold))
      BY <2>1, <3>1 DEF MayAdmit, BlockedByCount, QueueNeverGrows
    <3> QED
      BY <2>2, <3>1, Zenon DEF EnqueueFile, QueueNeverGrows
  <2>3. CASE Dequeue
    <3>1. CASE queue # <<>> /\ queue' = Tail(queue)
      BY <2>1, <3>1, HeadTailProperties DEF QueueNeverGrows
    <3> QED
      BY <2>3, <3>1, Zenon DEF Dequeue, QueueNeverGrows
  <2>4. CASE ReleaseBytes \/ UNCHANGED queue
    BY <2>4, Zenon DEF ReleaseBytes, QueueNeverGrows
  <2> QED
    BY <2>2, <2>3, <2>4, QueueSteps, Zenon
<1> QED
  BY <1>1, <1>2, TypeCorrect, PTL DEF Spec

(* What the receiver holds in memory is bounded: the byte account equals   *)
(* the payload in the queue and in the writer's hand, stays within the     *)
(* budget unless one payload exceeds it alone, and the queue never grows.  *)
THEOREM MemoryBounded == Spec => []BoundedMemory
<1>1. Init => BudgetHonoured
  <2> SUFFICES ASSUME Init PROVE BudgetHonoured
    BY Zenon
  <2>1. wfile = <<>> /\ queue = <<>> /\ queued_bytes = 0
    BY Zenon DEF Init
  <2>2. wfile \o queue = <<>>
    BY <2>1
  <2> QED
    BY <2>1, <2>2, BytesEmpty, TotalEmpty, WithinEmpty, PipelineAssumption, Zenon DEF BudgetHonoured
<1>2. QueueNeverGrows /\ BudgetHonoured => BoundedMemory
  BY Zenon DEF BoundedMemory
<1> QED
  BY <1>1, <1>2, BudgetStep, QueueBounded, TypeCorrect, PTL DEF Spec

-----------------------------------------------------------------------------
(* Appending to the last of three sequences appends to their concatenation.*)
LEMMA AppendLast ==
    \A s, t, u \in Seq(File), e \in File : s \o t \o Append(u, e) = Append(s \o t \o u, e)
<1> TAKE s, t, u \in Seq(File), e \in File
<1>1. s \o t \in Seq(File) /\ <<e>> \in Seq(File)
  BY ConcatProperties
<1>2. (s \o t) \o u \in Seq(File)
  BY <1>1, ConcatProperties, Zenon
<1>3. (s \o t) \o (u \o <<e>>) = ((s \o t) \o u) \o <<e>>
  <2> DEFINE st == s \o t
  <2> HIDE DEF st
  <2>1. st \in Seq(File)
    BY <1>1, Zenon DEF st
  <2>2. st \o (u \o <<e>>) = (st \o u) \o <<e>>
    BY <1>1, <2>1, ConcatAssociative
  <2> QED
    BY <2>2, Zenon DEF st
<1>4. Append(u, e) = u \o <<e>>
  BY AppendIsConcat, Zenon
<1>5. Append(s \o t \o u, e) = ((s \o t) \o u) \o <<e>>
  BY <1>2, AppendIsConcat, Zenon
<1> QED
  BY <1>3, <1>4, <1>5, Zenon

(* Taking the head of the queue in hand changes nothing of the whole.      *)
LEMMA TakeHead ==
    \A s, q \in Seq(File) : q # <<>> => s \o <<>> \o q = s \o <<Head(q)>> \o Tail(q)
<1> SUFFICES ASSUME NEW s \in Seq(File), NEW q \in Seq(File), q # <<>>
             PROVE  s \o <<>> \o q = s \o <<Head(q)>> \o Tail(q)
  BY ZenonT(60)
<1>1. Head(q) \in File /\ Tail(q) \in Seq(File)
  BY HeadTailProperties, Zenon
<1>2. <<Head(q)>> \in Seq(File)
  BY <1>1
<1>3. q = <<Head(q)>> \o Tail(q)
  BY <1>1
<1>4. s \o <<>> = s
  BY ConcatEmptySeq, Zenon
<1>5. s \o (<<Head(q)>> \o Tail(q)) = s \o <<Head(q)>> \o Tail(q)
  BY <1>1, <1>2, ConcatAssociative
<1> QED
  BY <1>3, <1>4, <1>5, Zenon

(* Moving the file in hand to the written ones changes nothing either.     *)
LEMMA PutDown ==
    \A s, w, u \in Seq(File) :
        Len(w) = 1 => s \o w \o u = Append(s, w[1]) \o <<>> \o u
<1> TAKE s, w, u \in Seq(File)
<1> HAVE Len(w) = 1
<1>1. w = <<w[1]>> /\ w[1] \in File
  BY SMT
<1>2. s \o w = Append(s, w[1])
  BY <1>1, AppendIsConcat, ZenonT(60)
<1>3. Append(s, w[1]) \in Seq(File)
  BY <1>1, AppendProperties, Zenon
<1> QED
  BY <1>2, <1>3, ConcatEmptySeq, Zenon

-----------------------------------------------------------------------------
(* The inductive invariant. *)

(* A save that failed makes the writer give up before it takes another     *)
(* file.                                                                   *)
FailureStopsWriter == wfailing => wpc \in {"release", "cancel", "error"}

(* Until the stream fails, the files received are those admitted and those *)
(* still in hand.                                                          *)
ReceivedCounted ==
    /\ rpc \in {"none", "receive", "finish", "success"} => hold = <<>>
    /\ rpc \notin {"fail", "error"} => Len(accepted) + Len(hold) = nfiles

(* receiver_done is set by the receiver at its end or by a writer giving   *)
(* up, so a writer that ended in success left an empty queue that nobody   *)
(* can fill any more.                                                      *)
WriterEndsLast ==
    /\ receiver_done => rpc \in {"success", "error"} \/ wpc = "error"
    /\ wpc = "success" => queue = <<>> /\ receiver_done

(* What the main thread does after the joins presupposes that both threads *)
(* succeeded.                                                              *)
Sealed ==
    \/ mpc \in {"commit", "publish"} \/ transfer_ok
    \/ "commit" \in removals \/ published # "no"
    \/ reply \in {"OK", "ERROR", "DELETE_LIMIT"}
    => rpc = "success" /\ wpc = "success"

IInv ==
    /\ TypeOK /\ ThreadsStart /\ FailureStopsWriter /\ ReceivedCounted
    /\ WriterEndsLast /\ Sealed /\ NothingLost

(* A fresh pipeline context satisfies the inductive invariant.             *)
LEMMA IInvInit == Init => IInv
<1> SUFFICES ASSUME Init PROVE IInv
  BY Zenon
<1>1. ThreadsStart /\ ReceivedCounted
  BY DEF Init, ThreadsStart, ReceivedCounted
<1>2. FailureStopsWriter /\ WriterEndsLast /\ Sealed
  BY Zenon DEF Init, FailureStopsWriter, WriterEndsLast, Sealed
<1>3. NothingLost
  BY DEF Init, NothingLost
<1> QED
  BY <1>1, <1>2, <1>3, TypeInit, Zenon DEF IInv

(* No step breaks FailureStopsWriter.                                      *)
LEMMA FailureStopsWriterStep ==
    TypeOK /\ ThreadsStart /\ FailureStopsWriter /\ [Next]_vars => FailureStopsWriter'
<1> SUFFICES ASSUME TypeOK, ThreadsStart, FailureStopsWriter, [Next]_vars
             PROVE  FailureStopsWriter'
  BY Zenon
<1> USE DEF FailureStopsWriter, stream, writer
<1>1. CASE ReceiveThread
  BY <1>1, ZenonT(60) DEF ReceiveThread, ReceiveFiles, ReceiveProbe, ReceiveEarlyManifest, ReceiveLateManifest,
     ReceiveIgnoredManifest, ReceiveDeletePlan, ReceiveFails, ReceiveFinished, EnqueueFile, ReceiverExits,
     WakeWriter
<1>2. CASE WriteThread
  BY <1>2, ZenonT(60) DEF WriteThread, WriterStarts, Dequeue, Save, ReleaseBytes, WriterCancels,
     WriterGivesUp
<1>3. CASE MainThread
  BY <1>3, ZenonT(60) DEF MainThread, CreateReceiver, CreateWriter, Join, CommitDeletion,
     PublishUpdates, Answer, ThreadsStart
<1>4. CASE SpuriousWakeup
  BY <1>4, Zenon DEF SpuriousWakeup, WakeWriter
<1>5. CASE UNCHANGED vars
  BY <1>5, Zenon DEF vars
<1> QED
  BY <1>1, <1>2, <1>3, <1>4, <1>5, Zenon DEF Next, SessionOver

(* No step breaks WriterEndsLast.                                          *)
LEMMA WriterEndsLastStep ==
    TypeOK /\ ThreadsStart /\ WriterEndsLast /\ [Next]_vars => WriterEndsLast'
<1> SUFFICES ASSUME TypeOK, ThreadsStart, WriterEndsLast, [Next]_vars
             PROVE  WriterEndsLast'
  BY Zenon
<1> USE DEF WriterEndsLast, stream, shared, writer
<1>1. CASE ReceiveFiles \/ ReceiveProbe \/ ReceiveFails \/ ReceiveFinished
  BY <1>1 DEF ReceiveFiles, ReceiveProbe, ReceiveFails, ReceiveFinished, FailStream, Frame
<1>8. CASE ReceiveEarlyManifest \/ ReceiveLateManifest \/ ReceiveIgnoredManifest \/ ReceiveDeletePlan
  BY <1>8 DEF ReceiveEarlyManifest, ReceiveLateManifest, ReceiveIgnoredManifest,
     ReceiveDeletePlan, FailStream, Frame
<1>2. CASE EnqueueFile
  BY <1>2, Zenon DEF EnqueueFile, FailStream, WakeWriter
<1>3. CASE ReceiverExits
  BY <1>3, Zenon DEF ReceiverExits, WakeWriter
<1>4. CASE WriteThread
  BY <1>4 DEF WriteThread, WriterStarts, Dequeue, Save, ReleaseBytes, WriterCancels,
     WriterGivesUp, WakeReceiver
<1>5. CASE MainThread
  <2>1. CASE CreateReceiver \/ CreateWriter
    BY <2>1 DEF CreateReceiver, CreateWriter, ThreadsStart, WakeReceiver
  <2>2. CASE Join \/ CommitDeletion \/ PublishUpdates \/ Answer
    BY <2>2 DEF Join, CommitDeletion, PublishUpdates, Answer
  <2> QED
    BY <1>5, <2>1, <2>2, Zenon DEF MainThread
<1>6. CASE SpuriousWakeup
  BY <1>6 DEF SpuriousWakeup, WakeReceiver, WakeWriter
<1>7. CASE UNCHANGED vars
  BY <1>7, Zenon DEF vars
<1> QED
  BY <1>1, <1>2, <1>3, <1>4, <1>5, <1>6, <1>7, <1>8, Zenon DEF Next, ReceiveThread, SessionOver

(* No step breaks Sealed.                                                  *)
LEMMA SealedStep ==
    TypeOK /\ ThreadsStart /\ Sealed /\ [Next]_vars => Sealed'
<1> SUFFICES ASSUME TypeOK, ThreadsStart, Sealed, [Next]_vars PROVE Sealed'
  BY Zenon
<1> USE DEF Sealed, stream, writer, main, disk
<1>1. CASE ReceiveFiles \/ ReceiveProbe \/ ReceiveFails \/ ReceiveFinished
  BY <1>1, Zenon DEF ReceiveFiles, ReceiveProbe, ReceiveFails, ReceiveFinished, Frame
<1>11. CASE ReceiveEarlyManifest \/ ReceiveLateManifest \/ ReceiveIgnoredManifest \/ ReceiveDeletePlan
  BY <1>11 DEF ReceiveEarlyManifest, ReceiveLateManifest, ReceiveIgnoredManifest,
     ReceiveDeletePlan, Frame
<1>2. CASE EnqueueFile
  BY <1>2, Zenon DEF EnqueueFile
<1>3. CASE ReceiverExits
  BY <1>3, Zenon DEF ReceiverExits
<1>4. CASE WriteThread
  BY <1>4, Zenon DEF WriteThread, WriterStarts, Dequeue, Save, ReleaseBytes, WriterCancels,
     WakeReceiver
<1>5. CASE CreateReceiver \/ CreateWriter
  BY <1>5, Zenon DEF CreateReceiver, CreateWriter, ThreadsStart
<1>6. CASE Join
  BY <1>6, ZenonT(60) DEF Join, ThreadsSucceeded
<1>7. CASE CommitDeletion
  BY <1>7, Zenon DEF CommitDeletion
<1>8. CASE PublishUpdates \/ Answer
  BY <1>8, Zenon DEF PublishUpdates, Answer
<1>9. CASE SpuriousWakeup
  BY <1>9, Zenon DEF SpuriousWakeup
<1>10. CASE UNCHANGED vars
  BY <1>10, Zenon DEF vars
<1> QED
  BY <1>1, <1>2, <1>3, <1>4, <1>5, <1>6, <1>7, <1>8, <1>9, <1>10, <1>11, Zenon
     DEF Next, ReceiveThread, MainThread, SessionOver

(* Only EnqueueFile admits a file and only ReceiveFiles takes files from   *)
(* the stream.                                                             *)
LEMMA ReceivedCountedStep ==
    TypeOK /\ ThreadsStart /\ ReceivedCounted /\ [Next]_vars => ReceivedCounted'
<1> SUFFICES ASSUME TypeOK, ThreadsStart, ReceivedCounted, [Next]_vars
             PROVE  ReceivedCounted'
  BY Zenon
<1>0. /\ hold \in Seq(File) /\ accepted \in Seq(File) /\ nfiles \in Nat
      /\ Len(hold) \in Nat /\ Len(accepted) \in Nat
  BY LenProperties, Zenon DEF TypeOK, DataOK
<1>1. CASE ReceiveFiles
  <2>1. hold = <<>> /\ Len(accepted) + Len(hold) = nfiles
    BY <1>1, Zenon DEF ReceiveFiles, Frame, ReceivedCounted
  <2>2. PICK n \in 1..MaxChunk : nfiles' = nfiles + n /\ Len(hold') = n
    <3> DEFINE Files(n, entry) ==
                 [i \in 1..n |-> [id |-> nfiles + i, bytes |-> entry[i].bytes,
                                  kind |-> entry[i].kind]]
    <3>1. PICK n \in 1..MaxChunk : \E entry \in [1..n -> Payloads] :
            hold' = Files(n, entry) /\ nfiles' = nfiles + n
      BY <1>1, Zenon DEF ReceiveFiles
    <3>2. ASSUME NEW entry \in [1..n -> Payloads] PROVE Len(Files(n, entry)) = n
      <4>1. DOMAIN Files(n, entry) = 1..n /\ n \in Nat
        BY PipelineAssumption
      <4>2. Files(n, entry) \in Seq(File)
        BY <1>0, FramesCarryFiles, ZenonT(60)
      <4> HIDE DEF Files
      <4> QED
        BY <4>1, <4>2, LenProperties
    <3> HIDE DEF Files
    <3> QED
      BY <3>1, <3>2, Zenon
  <2>3. n \in Nat /\ Len(hold) = 0
    BY <2>1, PipelineAssumption, EmptySeq
  <2>4. accepted' = accepted /\ rpc' = "store"
    BY <1>1, Zenon DEF ReceiveFiles, history
  <2> QED
    BY <1>0, <2>1, <2>2, <2>3, <2>4 DEF ReceivedCounted
<1>2. CASE EnqueueFile
  <2>0. hold # <<>> /\ rpc = "store"
    BY <1>2, Zenon DEF EnqueueFile, TypeOK, DataOK
  <2>1. CASE rpc' = "fail"
    BY <2>1, Zenon DEF ReceivedCounted
  <2>2. CASE rpc' = "wait" /\ UNCHANGED <<hold, accepted, nfiles>>
    BY <2>0, <2>2, Zenon DEF ReceivedCounted
  <2>3. CASE /\ accepted' = Append(accepted, Head(hold)) /\ hold' = Tail(hold)
             /\ rpc' = (IF Tail(hold) = <<>> THEN "receive" ELSE "store")
             /\ nfiles' = nfiles
    <3>1. Head(hold) \in File /\ Len(Tail(hold)) = Len(hold) - 1
      BY <1>0, <2>0, HeadTailProperties, Zenon
    <3>2. Len(accepted') = Len(accepted) + 1
      BY <1>0, <2>3, <3>1, AppendProperties
    <3>3. Len(accepted) + Len(hold) = nfiles
      BY <2>0, Zenon DEF ReceivedCounted
    <3>4. Len(hold') = Len(hold) - 1 /\ nfiles' = nfiles
      BY <2>3, <3>1, Zenon
    <3>5. Len(accepted') + Len(hold') = nfiles'
      BY <1>0, <3>2, <3>3, <3>4
    <3> QED
      BY <2>3, <3>5, ZenonT(60) DEF ReceivedCounted
  <2> QED
    BY <1>2, <2>1, <2>2, <2>3, Zenon DEF EnqueueFile, FailStream
<1>3. CASE ReceiveProbe \/ ReceiveEarlyManifest \/ ReceiveLateManifest
           \/ ReceiveIgnoredManifest \/ ReceiveDeletePlan \/ ReceiveFails \/ ReceiveFinished
  BY <1>3, Zenon DEF ReceiveProbe, ReceiveEarlyManifest, ReceiveLateManifest,
     ReceiveIgnoredManifest, ReceiveDeletePlan, ReceiveFails, ReceiveFinished, FailStream, Frame, ReceivedCounted, history
<1>4. CASE ReceiverExits \/ WriteThread
  BY <1>4, Zenon DEF ReceiverExits, WriteThread, WriterStarts, Dequeue, Save, ReleaseBytes,
     WriterCancels, WriterGivesUp, WakeReceiver, ReceivedCounted, stream, history
<1>5. CASE MainThread
  BY <1>5, Zenon DEF MainThread, CreateReceiver, CreateWriter, Join, CommitDeletion, PublishUpdates,
     Answer, WakeReceiver, ThreadsStart, ReceivedCounted, stream, history
<1>6. CASE SpuriousWakeup
  BY <1>6, Zenon DEF SpuriousWakeup, WakeReceiver, ReceivedCounted, history
<1>7. CASE UNCHANGED vars
  BY <1>7, Zenon DEF vars, ReceivedCounted, stream, history
<1> QED
  BY <1>1, <1>2, <1>3, <1>4, <1>5, <1>6, <1>7, Zenon DEF Next, ReceiveThread, SessionOver

(* What passes through the writer's hands is never dropped or reordered.   *)
LEMMA NothingLostStep ==
    TypeOK /\ ThreadsStart /\ FailureStopsWriter /\ NothingLost /\ [Next]_vars
        => NothingLost'
<1> SUFFICES ASSUME TypeOK, ThreadsStart, FailureStopsWriter, NothingLost, [Next]_vars,
                    ~wfailing'
             PROVE  accepted' = written' \o (IF wpc' = "save" THEN wfile' ELSE <<>>) \o queue'
  BY Zenon DEF NothingLost
<1> DEFINE inhand == IF wpc = "save" THEN wfile ELSE <<>>
<1>0. /\ written \in Seq(File) /\ queue \in Seq(File) /\ accepted \in Seq(File)
      /\ inhand \in Seq(File)
  BY EmptySeq, Zenon DEF TypeOK, DataOK
<1>1. ~wfailing => accepted = written \o inhand \o queue
  BY Zenon DEF NothingLost
<1>2. CASE EnqueueFile
  <2>1. wfailing' = wfailing /\ written' = written /\ wfile' = wfile
    BY <1>2, Zenon DEF EnqueueFile
  <2>2. (IF wpc' = "save" THEN wfile' ELSE <<>>) = inhand
    BY <1>2, Zenon DEF EnqueueFile, WakeWriter
  <2>3. CASE UNCHANGED <<queue, accepted>>
    BY <1>1, <2>1, <2>2, <2>3, ZenonT(60)
  <2>4. CASE queue' = Append(queue, Head(hold)) /\ accepted' = Append(accepted, Head(hold))
    <3>1. Head(hold) \in File
      <4>1. hold \in Seq(File) /\ hold # <<>>
        BY <1>2, Zenon DEF EnqueueFile, TypeOK, DataOK
      <4> QED
        BY <4>1, HeadTailProperties, Zenon
    <3> HIDE DEF inhand
    <3>2. written \o inhand \o Append(queue, Head(hold))
            = Append(written \o inhand \o queue, Head(hold))
      BY <1>0, <3>1, AppendLast, ZenonT(60)
    <3> QED
      BY <1>1, <2>1, <2>2, <2>4, <3>2, ZenonT(60)
  <2> QED
    BY <1>2, <2>3, <2>4, Zenon DEF EnqueueFile
<1>3. CASE Dequeue
  <2>1. wfailing' = wfailing /\ wpc = "dequeue" /\ UNCHANGED history
    BY <1>3, Zenon DEF Dequeue
  <2>2. accepted = written \o <<>> \o queue
    BY <1>1, <2>1, Zenon
  <2>3. CASE queue = <<>> /\ wpc' # "save" /\ queue' = queue
    BY <2>1, <2>2, <2>3, ZenonT(60) DEF history
  <2>4. CASE queue # <<>> /\ wpc' = "save" /\ wfile' = <<Head(queue)>> /\ queue' = Tail(queue)
    BY <1>0, <2>1, <2>2, <2>4, TakeHead, Zenon DEF history
  <2> QED
    BY <1>3, <2>3, <2>4, Zenon DEF Dequeue, NextFile
<1>4. CASE Save
  <2>1. wpc = "save" /\ wpc' = "release" /\ queue' = queue /\ accepted' = accepted
    BY <1>4, Zenon DEF Save, shared
  <2>2. ~wfailing /\ inhand = wfile
    BY <2>1, Zenon DEF FailureStopsWriter
  <2>3. written' = Append(written, wfile[1])
    BY <1>4, Zenon DEF Save
  <2>4. Len(wfile) = 1 /\ wfile \in Seq(File)
    BY <2>1, Zenon DEF TypeOK, DataOK
  <2>5. written \o wfile \o queue = Append(written, wfile[1]) \o <<>> \o queue
    BY <1>0, <2>4, PutDown, ZenonT(60)
  <2> QED
    BY <1>1, <2>1, <2>2, <2>3, <2>5, ZenonT(60)
<1>5. CASE UNCHANGED <<accepted, written, queue, wfailing>> /\ wpc # "save" /\ wpc' # "save"
  BY <1>1, <1>5, Zenon
<1>6. CASE UNCHANGED <<accepted, written, queue, writer>>
  BY <1>1, <1>6, Zenon DEF writer
<1>7. CASE ReleaseBytes \/ WriterStarts \/ WriterCancels
  BY <1>5, <1>7, Zenon DEF ReleaseBytes, WriterStarts, WriterCancels, WriterGivesUp, history
<1>8. CASE CreateWriter \/ ReceiverExits \/ SpuriousWakeup
  <2>1. UNCHANGED <<accepted, written, queue, wfailing, wfile>>
    BY <1>8, Zenon DEF CreateWriter, ReceiverExits, SpuriousWakeup, history, shared
  <2>2. (wpc' = "save") <=> (wpc = "save")
    BY <1>8, Zenon DEF CreateWriter, ReceiverExits, SpuriousWakeup, ThreadsStart, WakeWriter
  <2> QED
    BY <1>1, <2>1, <2>2, Zenon
<1>9. CASE ReceiveFiles \/ ReceiveProbe \/ ReceiveEarlyManifest \/ ReceiveLateManifest
           \/ ReceiveIgnoredManifest \/ ReceiveDeletePlan \/ ReceiveFails \/ ReceiveFinished
  BY <1>6, <1>9, Zenon DEF ReceiveFiles, ReceiveProbe, ReceiveEarlyManifest, ReceiveLateManifest,
     ReceiveIgnoredManifest, ReceiveDeletePlan, ReceiveFails, ReceiveFinished, shared, history
<1>10. CASE CreateReceiver \/ Join \/ CommitDeletion \/ PublishUpdates \/ Answer \/ UNCHANGED vars
  BY <1>6, <1>10, Zenon DEF CreateReceiver, Join, CommitDeletion, PublishUpdates, Answer, vars,
     shared, history
<1> QED
  BY <1>2, <1>3, <1>4, <1>7, <1>8, <1>9, <1>10, Zenon
     DEF Next, ReceiveThread, WriteThread, MainThread, SessionOver

(* The invariant is inductive: every step preserves all of it.             *)
LEMMA IInvStep == IInv /\ [Next]_vars => IInv'
BY TypeStep, ThreadsStartStep, FailureStopsWriterStep, ReceivedCountedStep,
   WriterEndsLastStep, SealedStep, NothingLostStep, Zenon DEF IInv

(* Hence it holds in every reachable state.                                *)
LEMMA IInvHolds == Spec => []IInv
BY IInvInit, IInvStep, PTL DEF Spec

(* The files admitted to the queue are, in order, those the writer has     *)
(* dealt with, the one it is saving and those still queued, at every       *)
(* moment of every session in which no save failed.                        *)
THEOREM NothingIsLost == Spec => []NothingLost
<1>1. IInv => NothingLost
  BY Zenon DEF IInv
<1> QED
  BY <1>1, IInvHolds, PTL

(* When both threads have succeeded, everything accepted is written.       *)
LEMMA AllStored == ASSUME IInv, rpc = "success", wpc = "success" PROVE written = accepted
<1>1. ~wfailing /\ queue = <<>>
  BY Zenon DEF IInv, FailureStopsWriter, WriterEndsLast
<1>2. written \in Seq(File)
  BY Zenon DEF IInv, TypeOK, DataOK
<1>3. accepted = written \o <<>> \o <<>>
  BY <1>1, Zenon DEF IInv, NothingLost
<1> QED
  BY <1>2, <1>3, ConcatEmptySeq, Zenon

(* A deferred deletion, a --delay-updates publication and a terminal       *)
(* verdict are given only when every file the stream carried was dealt     *)
(* with.                                                                   *)
THEOREM CommitsComplete == Spec => []CompleteBeforeCommit
<1>1. IInv => CompleteBeforeCommit
  <2> SUFFICES ASSUME IInv,
                      \/ "commit" \in removals \/ published # "no"
                      \/ reply \in {"OK", "ERROR", "DELETE_LIMIT"}
               PROVE  /\ rpc = "success" /\ wpc = "success"
                      /\ written = accepted /\ Len(accepted) = nfiles
    BY Zenon DEF CompleteBeforeCommit
  <2>1. rpc = "success" /\ wpc = "success"
    BY Zenon DEF IInv, Sealed
  <2>2. ~wfailing /\ queue = <<>> /\ hold = <<>>
    BY <2>1, Zenon DEF IInv, FailureStopsWriter, WriterEndsLast, ReceivedCounted
  <2>3. written \in Seq(File) /\ accepted \in Seq(File) /\ nfiles \in Nat
    BY Zenon DEF IInv, TypeOK, DataOK
  <2>4. accepted = written
    BY <2>1, AllStored, Zenon
  <2>5. Len(accepted) = nfiles
    BY <2>1, <2>2, <2>3 DEF IInv, ReceivedCounted
  <2> QED
    BY <2>1, <2>4, <2>5, Zenon
<1> QED
  BY <1>1, IInvHolds, PTL

-----------------------------------------------------------------------------
(* Outcomes *)

(* Files are numbered as they are received, so an admitted file bears its  *)
(* position in the stream, and so do those still in receive_thread's hand. *)
Numbered ==
    /\ \A i \in 1..Len(accepted) : accepted[i].id = i
    /\ rpc \in {"store", "wait"} => \A i \in 1..Len(hold) : hold[i].id = Len(accepted) + i

(* A dry run's main thread never reaches the commit or the publication.    *)
DryInv == DryRunHarmless /\ (config.dry_run => mpc \notin {"commit", "publish"})

(* The main thread commits and publishes only while the transfer is good,  *)
(* publishes and answers last, and goes on after the joins only when both  *)
(* threads have ended or were never created.                               *)
Staged ==
    /\ mpc \in {"create_receiver", "create_writer", "join", "join_receiver"} => transfer_ok = FALSE
    /\ mpc \in {"commit", "publish"} => transfer_ok = TRUE
    /\ mpc \notin {"answer", "done"} => published = "no"
    /\ mpc # "done" => reply = "none"
    /\ mpc = "join_receiver" => wpc = "none"
    /\ mpc \in {"commit", "publish", "answer", "done"} =>
         rpc \in {"none", "success", "error"} /\ wpc \in {"none", "success", "error"}

(* Admitting a file gives it the next position.                            *)
LEMMA NumberedStep == IInv /\ Numbered /\ [Next]_vars => Numbered'
<1> SUFFICES ASSUME IInv, Numbered, [Next]_vars PROVE Numbered'
  BY Zenon
<1>0. /\ hold \in Seq(File) /\ accepted \in Seq(File) /\ nfiles \in Nat
      /\ Len(hold) \in Nat /\ Len(accepted) \in Nat
  BY LenProperties, Zenon DEF IInv, TypeOK, DataOK
<1>1. CASE ReceiveFiles
  <2>1. hold = <<>> /\ Len(accepted) + Len(hold) = nfiles
    BY <1>1, Zenon DEF ReceiveFiles, Frame, IInv, ReceivedCounted
  <2>2. nfiles = Len(accepted)
    BY <1>0, <2>1, EmptySeq
  <2>3. PICK n \in 1..MaxChunk : \E entry \in [1..n -> Payloads] :
          hold' = [i \in 1..n |-> [id |-> nfiles + i, bytes |-> entry[i].bytes,
                                   kind |-> entry[i].kind]]
    BY <1>1, Zenon DEF ReceiveFiles
  <2>4. DOMAIN hold' = 1..n /\ \A i \in 1..n : hold'[i].id = nfiles + i
    BY <2>3
  <2>5. hold' \in Seq(File)
    BY <1>1, TypeStep, Zenon DEF IInv, TypeOK, DataOK
  <2>6. DOMAIN hold' = 1..Len(hold')
    BY <2>5, LenProperties, Zenon
  <2>7. \A i \in 1..Len(hold') : hold'[i].id = nfiles + i
    BY <2>4, <2>6, Zenon
  <2>8. accepted' = accepted
    BY <1>1, Zenon DEF ReceiveFiles, history
  <2> QED
    BY <2>2, <2>7, <2>8, Zenon DEF Numbered
<1>2. CASE EnqueueFile
  <2>0. hold # <<>> /\ rpc = "store"
    BY <1>2, Zenon DEF EnqueueFile, IInv, TypeOK, DataOK
  <2>1. CASE rpc' = "fail" /\ accepted' = accepted
    BY <2>1, Zenon DEF Numbered
  <2>2. CASE UNCHANGED <<hold, accepted>>
    BY <2>0, <2>2, Zenon DEF Numbered
  <2>3. CASE accepted' = Append(accepted, Head(hold)) /\ hold' = Tail(hold)
    <3>1. Head(hold) \in File /\ Head(hold) = hold[1] /\ Len(hold) >= 1 /\ Len(Tail(hold)) = Len(hold) - 1
          /\ \A i \in 1..(Len(hold) - 1) : Tail(hold)[i] = hold[i + 1]
      BY <1>0, <2>0
    <3>2. Len(accepted') = Len(accepted) + 1 /\ accepted'[Len(accepted) + 1] = Head(hold)
          /\ \A i \in 1..Len(accepted) : accepted'[i] = accepted[i]
      BY <1>0, <2>3, <3>1, AppendProperties
    <3>3. \A i \in 1..Len(hold) : hold[i].id = Len(accepted) + i
      BY <2>0, Zenon DEF Numbered
    <3>4. Head(hold).id = Len(accepted) + 1
      BY <1>0, <3>1, <3>3
    <3>5. \A i \in 1..(Len(accepted) + 1) : i = Len(accepted) + 1 \/ i \in 1..Len(accepted)
      BY <1>0
    <3>6. \A i \in 1..Len(accepted') : accepted'[i].id = i
      BY <3>2, <3>4, <3>5, Zenon DEF Numbered
    <3>7. \A i \in 1..(Len(hold) - 1) : i + 1 \in 1..Len(hold) /\ Len(accepted) + (i + 1) = (Len(accepted) + 1) + i
      BY <1>0
    <3>8. \A i \in 1..Len(hold') : hold'[i].id = Len(accepted') + i
      BY <2>3, <3>1, <3>2, <3>3, <3>7
    <3> QED
      BY <3>6, <3>8, Zenon DEF Numbered
  <2> QED
    BY <1>2, <2>1, <2>2, <2>3, Zenon DEF EnqueueFile, FailStream
<1>3. CASE accepted' = accepted /\ (rpc' \in {"store", "wait"} => rpc \in {"store", "wait"} /\ hold' = hold)
  BY <1>3, Zenon DEF Numbered
<1>4. CASE ReceiveProbe \/ ReceiveEarlyManifest \/ ReceiveLateManifest
           \/ ReceiveIgnoredManifest \/ ReceiveDeletePlan \/ ReceiveFails \/ ReceiveFinished
  BY <1>3, <1>4, Zenon DEF ReceiveProbe, ReceiveEarlyManifest, ReceiveLateManifest,
     ReceiveIgnoredManifest, ReceiveDeletePlan, ReceiveFails, ReceiveFinished, FailStream, Frame, history
<1>5. CASE ReceiverExits \/ WriteThread
  BY <1>3, <1>5, Zenon DEF ReceiverExits, WriteThread, WriterStarts, Dequeue, Save, ReleaseBytes,
     WriterCancels, WriterGivesUp, WakeReceiver, stream, history
<1>6. CASE MainThread
  BY <1>3, <1>6, Zenon DEF MainThread, CreateReceiver, CreateWriter, Join, CommitDeletion, PublishUpdates,
     Answer, WakeReceiver, stream, history
<1>7. CASE SpuriousWakeup
  BY <1>3, <1>7, Zenon DEF SpuriousWakeup, WakeReceiver, history
<1>8. CASE UNCHANGED vars
  BY <1>3, <1>8, Zenon DEF vars, stream, history
<1> QED
  BY <1>1, <1>2, <1>4, <1>5, <1>6, <1>7, <1>8, Zenon DEF Next, ReceiveThread, SessionOver

(* The configuration of a session is fixed, and only Save adds to what was *)
(* written and to the outcomes.                                            *)
LEMMA SaveSteps ==
    [Next]_vars => config' = config /\ (Save \/ UNCHANGED <<outcomes, written, wfailing>>)
<1> SUFFICES ASSUME [Next]_vars
             PROVE  config' = config /\ (Save \/ UNCHANGED <<outcomes, written, wfailing>>)
  BY Zenon
<1> USE DEF results, history, writer
<1>1. CASE ReceiveThread
  BY <1>1, Zenon DEF ReceiveThread, ReceiveFiles, ReceiveProbe, ReceiveEarlyManifest,
     ReceiveLateManifest, ReceiveIgnoredManifest, ReceiveDeletePlan, ReceiveFails,
     ReceiveFinished, EnqueueFile, ReceiverExits
<1>2. CASE WriteThread
  BY <1>2, Zenon DEF WriteThread, WriterStarts, Dequeue, Save, ReleaseBytes, WriterCancels
<1>3. CASE MainThread
  BY <1>3, Zenon DEF MainThread, CreateReceiver, CreateWriter, Join, CommitDeletion,
     PublishUpdates, Answer
<1>4. CASE SpuriousWakeup
  BY <1>4, Zenon DEF SpuriousWakeup
<1>5. CASE UNCHANGED vars
  BY <1>5, Zenon DEF vars
<1> QED
  BY <1>1, <1>2, <1>3, <1>4, <1>5, Zenon DEF Next, SessionOver

(* A dry run changes nothing: each removal, the publication and the        *)
(* outcomes are guarded by ~dry_run.                                       *)
LEMMA DryStep == IInv /\ DryInv /\ [Next]_vars => DryInv'
<1> SUFFICES ASSUME IInv, DryInv, [Next]_vars, config.dry_run
             PROVE  /\ removals' = {} /\ published' = "no" /\ outcomes' = <<>> /\ delete_limit_reached' = FALSE
                    /\ mpc' \notin {"commit", "publish"}
  BY SaveSteps, Zenon DEF DryInv, DryRunHarmless
<1>0. /\ removals = {} /\ published = "no" /\ outcomes = <<>> /\ delete_limit_reached = FALSE
      /\ mpc \notin {"commit", "publish"}
  BY Zenon DEF DryInv, DryRunHarmless, IInv, TypeOK, FlagsOK
<1> USE DEF disk, results, main
<1>1. CASE ReceiveThread
  BY <1>0, <1>1, ZenonT(60) DEF ReceiveThread, ReceiveFiles, ReceiveProbe, ReceiveEarlyManifest,
     ReceiveLateManifest, ReceiveIgnoredManifest, ReceiveDeletePlan, ReceiveFails,
     ReceiveFinished, EnqueueFile, ReceiverExits
<1>2. CASE WriteThread
  BY <1>0, <1>2, ZenonT(60) DEF WriteThread, WriterStarts, Dequeue, Save, ReleaseBytes, WriterCancels, Recorded
<1>3. CASE MainThread
  BY <1>0, <1>3, ZenonT(60) DEF MainThread, CreateReceiver, CreateWriter, Join, CommitDeletion,
     PublishUpdates, Answer
<1>4. CASE SpuriousWakeup
  BY <1>0, <1>4, Zenon DEF SpuriousWakeup
<1>5. CASE UNCHANGED vars
  BY <1>0, <1>5, Zenon DEF vars
<1> QED
  BY <1>1, <1>2, <1>3, <1>4, <1>5, Zenon DEF Next, SessionOver

(* A group of one file is that file. *)
LEMMA OneFile == \A g \in Seq(File) : Len(g) = 1 => g = <<g[1]>> /\ g[1] \in File
BY SMT

(* The file in the writer's hand is the next one of the accepted files.    *)
LEMMA NextStored ==
    ASSUME IInv, wpc = "save"
    PROVE  LET n == Len(written)
           IN  /\ n \in Nat /\ n + 1 \in 1..Len(accepted) /\ n < Len(accepted)
               /\ accepted[n + 1] = wfile[1]
               /\ \A i \in 1..n : i \in 1..Len(accepted) /\ accepted[i] = written[i]
<1> DEFINE f == wfile[1]
           t == Append(written, f)
           n == Len(written)
<1>1. written \in Seq(File) /\ wfile \in Seq(File) /\ queue \in Seq(File) /\ Len(wfile) = 1
  BY Zenon DEF IInv, TypeOK, DataOK
<1>2. accepted = written \o wfile \o queue
  BY Zenon DEF IInv, NothingLost, FailureStopsWriter
<1>3. wfile = <<f>> /\ f \in File
  BY <1>1, OneFile, Zenon
<1> HIDE DEF f
<1>4. accepted = t \o queue
  BY <1>1, <1>2, <1>3, AppendIsConcat, Zenon
<1>5. t \in Seq(File) /\ Len(t) = n + 1 /\ t[n + 1] = f /\ n \in Nat /\ \A i \in 1..n : t[i] = written[i]
  BY <1>1, <1>3
<1>6. Len(queue) \in Nat
  BY <1>1, LenProperties, Zenon
<1> HIDE DEF t, n
<1>7. /\ Len(accepted) = Len(t) + Len(queue)
      /\ \A i \in 1..(Len(t) + Len(queue)) : accepted[i] = IF i <= Len(t) THEN t[i] ELSE queue[i - Len(t)]
  <2>1. /\ Len(t \o queue) = Len(t) + Len(queue)
        /\ \A i \in 1..(Len(t) + Len(queue)) :
             (t \o queue)[i] = IF i <= Len(t) THEN t[i] ELSE queue[i - Len(t)]
    BY <1>1, <1>5, ConcatProperties, Zenon
  <2> QED
    BY <1>4, <2>1, Zenon
<1>8. /\ n + 1 \in 1..Len(accepted) /\ n < Len(accepted) /\ accepted[n + 1] = f
      /\ \A i \in 1..n : i \in 1..Len(accepted) /\ accepted[i] = written[i]
  BY <1>5, <1>6, <1>7
<1> QED
  BY <1>5, <1>8, Zenon DEF n, f

(* Recording a file: its number exceeds those of all files written before. *)
LEMMA OutcomesStep == IInv /\ Numbered /\ OutcomesComplete /\ [Next]_vars => OutcomesComplete'
<1> DEFINE Ids(o) == {o[i].id : i \in DOMAIN o}
           Told(w) == {w[i].id : i \in {j \in DOMAIN w : Acknowledged(w[j])}}
           Rising(o) == \A i, j \in DOMAIN o : i < j => o[i].id < o[j].id
           Outcome == [id : Nat, result : {"WRITTEN", "SKIPPED", "FAILED"}]
<1> SUFFICES ASSUME IInv, Numbered, OutcomesComplete, [Next]_vars,
                    config.remove_source_files, ~config.dry_run, ~wfailing'
             PROVE  Ids(outcomes') = Told(written') /\ Rising(outcomes')
  BY SaveSteps, Zenon DEF OutcomesComplete
<1>0. ~wfailing => Ids(outcomes) = Told(written) /\ Rising(outcomes)
  BY Zenon DEF OutcomesComplete
<1>1. CASE UNCHANGED <<outcomes, written, wfailing>>
  <2> HIDE DEF Ids, Told, Rising
  <2> QED
    BY <1>0, <1>1, Zenon
<1>2. CASE Save
  <2> DEFINE f == wfile[1]
             n == Len(written)
  <2>1. /\ wfile \in Seq(File) /\ Len(wfile) = 1 /\ queue \in Seq(File) /\ written \in Seq(File)
        /\ accepted \in Seq(File) /\ outcomes \in Seq(Outcome)
    BY <1>2, Zenon DEF Save, IInv, TypeOK, DataOK
  <2>2. ~wfailing /\ wpc = "save"
    BY <1>2, Zenon DEF Save, IInv, FailureStopsWriter
  <2>4. n \in Nat /\ f \in File
    BY <2>1, FileInHand, LenProperties, Zenon
  <2>5. n + 1 \in 1..Len(accepted) /\ accepted[n + 1] = f
        /\ \A i \in 1..n : i \in 1..Len(accepted) /\ accepted[i] = written[i]
    BY <2>2, NextStored, Zenon
  <2>6. f.id = n + 1 /\ \A i \in 1..n : written[i].id = i
    BY <2>5, Zenon DEF Numbered
  <2>7. Ids(outcomes) = Told(written) /\ Rising(outcomes)
    BY <1>0, <2>2, Zenon
  <2>8. written' = Append(written, f)
        /\ \E r : (~Recorded(f) /\ outcomes' = outcomes)
                  \/ (Recorded(f) /\ r \in {"WRITTEN", "SKIPPED", "FAILED"}
                        /\ outcomes' = Append(outcomes, [id |-> f.id, result |-> r]))
    <3>1. PICK r \in SaveResults(f) :
            /\ r = "ERROR" => wfailing'
            /\ r # "ERROR" => written' = Append(written, f) /\
                 (wfailing' \/ outcomes' = IF Recorded(f) THEN Append(outcomes, [id |-> f.id, result |-> r])
                                           ELSE outcomes)
      BY <1>2, Zenon DEF Save
    <3>2. r \in {"WRITTEN", "SKIPPED", "ERROR", "FAILED"}
      BY <3>1, Zenon DEF SaveResults
    <3> QED
      BY <3>1, <3>2, Zenon
  <2>9. DOMAIN written = 1..n /\ DOMAIN written' = 1..(n + 1) /\ written'[n + 1] = f
        /\ \A i \in 1..n : written'[i] = written[i]
    BY <2>1, <2>4, <2>8
  <2>10. \A i \in 1..(n + 1) : i = n + 1 \/ i \in 1..n
    BY <2>4
  <2>11. \A i \in 1..n : i \in 1..(n + 1)
    BY <2>4
  <2>12. n + 1 \in 1..(n + 1)
    BY <2>4
  <2> HIDE DEF n, f
  <2>13. Told(written') = Told(written) \cup (IF Acknowledged(f) THEN {f.id} ELSE {})
    BY <2>9, <2>10, <2>11, <2>12, ZenonT(60)
  <2>14. \A x \in Told(written) : x \in 1..n
    BY <2>6, <2>9, Zenon
  <2>15. Recorded(f) <=> Acknowledged(f)
    BY Zenon DEF Recorded
  <2>16. CASE ~Recorded(f) /\ outcomes' = outcomes
    BY <2>7, <2>13, <2>15, <2>16, Zenon
  <2>17. ASSUME NEW r \in {"WRITTEN", "SKIPPED", "FAILED"}, Recorded(f),
                outcomes' = Append(outcomes, [id |-> f.id, result |-> r])
         PROVE  Ids(outcomes') = Told(written') /\ Rising(outcomes')
    <3> DEFINE m == Len(outcomes)
               o == [id |-> f.id, result |-> r]
    <3>1. f.id \in Nat
      BY <2>4, FileBytes, Zenon
    <3>2. o \in Outcome /\ o.id = f.id
      BY <3>1, Zenon
    <3> HIDE DEF Outcome, o
    <3>3. m \in Nat /\ DOMAIN outcomes = 1..m
      BY <2>1, LenProperties, Zenon
    <3>4. DOMAIN outcomes' = 1..(m + 1) /\ outcomes'[m + 1] = o /\ \A i \in 1..m : outcomes'[i] = outcomes[i]
      BY <2>1, <2>17, <3>2, <3>3 DEF o
    <3>5. /\ \A i \in 1..(m + 1) : i = m + 1 \/ i \in 1..m
          /\ \A i \in 1..m : i \in 1..(m + 1)
          /\ m + 1 \in 1..(m + 1)
      BY <3>3
    <3>6. Ids(outcomes') = Ids(outcomes) \cup {f.id}
      BY <3>2, <3>3, <3>4, <3>5, ZenonT(60)
    <3>7. \A i \in 1..m : outcomes[i].id \in 1..n
      BY <2>7, <2>14, <3>3, Zenon
    <3>8. \A i \in 1..m : outcomes[i].id < f.id
      BY <2>4, <2>6, <3>7 DEF n
    <3> HIDE DEF m
    <3>9. \A i, j \in 1..(m + 1) : i < j => outcomes'[i].id < outcomes'[j].id
      <4> SUFFICES ASSUME NEW i \in 1..(m + 1), NEW j \in 1..(m + 1), i < j
                   PROVE  outcomes'[i].id < outcomes'[j].id
        BY Zenon
      <4>1. i \in 1..m
        BY <3>3
      <4>2. CASE j \in 1..m
        BY <2>7, <3>3, <3>4, <4>1, <4>2, Zenon
      <4>3. CASE j = m + 1
        BY <3>2, <3>4, <3>8, <4>1, <4>3, Zenon
      <4> QED
        BY <3>5, <4>2, <4>3, Zenon
    <3> QED
      BY <2>7, <2>13, <2>15, <2>17, <3>4, <3>6, <3>9, ZenonT(60)
  <2> QED
    BY <2>8, <2>16, <2>17, Zenon
<1> QED
  BY <1>1, <1>2, SaveSteps, Zenon

(* A --remove-source-files sender is told about each written file it asks  *)
(* for, once and in stream order, and a dry run leaves no trace.           *)
THEOREM OutcomesTrue == Spec => []OutcomesAreTrue
<1>1. Init => Numbered /\ DryInv /\ OutcomesComplete
  <2> SUFFICES ASSUME Init PROVE Numbered /\ DryInv /\ OutcomesComplete
    BY Zenon
  <2>1. accepted = <<>> /\ written = <<>> /\ outcomes = <<>> /\ rpc = "none"
    BY Zenon DEF Init
  <2>2. Len(accepted) = 0 /\ DOMAIN written = {} /\ DOMAIN outcomes = {} /\ 1..0 = {}
    BY <2>1
  <2>3. Numbered
    BY <2>1, <2>2, Zenon DEF Numbered
  <2>4. DryInv
    BY Zenon DEF Init, DryInv, DryRunHarmless
  <2>5. OutcomesComplete
    BY <2>2, Zenon DEF OutcomesComplete
  <2> QED
    BY <2>3, <2>4, <2>5, Zenon
<1>2. DryInv /\ OutcomesComplete => OutcomesAreTrue
  BY Zenon DEF DryInv, OutcomesAreTrue
<1> QED
  BY <1>1, <1>2, NumberedStep, DryStep, OutcomesStep, IInvHolds, PTL DEF Spec

-----------------------------------------------------------------------------
(* Refinement *)

(* The main thread keeps to the order of its stages.                       *)
LEMMA StagedStep == ThreadsStart /\ Staged /\ [Next]_vars => Staged'
<1> SUFFICES ASSUME ThreadsStart, Staged, [Next]_vars PROVE Staged'
  BY Zenon
<1> USE DEF Staged, stream, writer, main, disk
<1>1. CASE ReceiveThread
  BY <1>1, ZenonT(60) DEF ReceiveThread, ReceiveFiles, ReceiveProbe, ReceiveEarlyManifest,
     ReceiveLateManifest, ReceiveIgnoredManifest, ReceiveDeletePlan, ReceiveFails,
     ReceiveFinished, EnqueueFile, ReceiverExits, Frame, WakeWriter, FailStream
<1>2. CASE WriteThread
  BY <1>2, ZenonT(60) DEF WriteThread, WriterStarts, Dequeue, Save, ReleaseBytes, WriterCancels,
     WriterGivesUp, WakeReceiver
<1>3. CASE CreateReceiver \/ CreateWriter
  BY <1>3, ZenonT(60) DEF CreateReceiver, CreateWriter, ThreadsStart, WakeReceiver
<1>4. CASE Join
  BY <1>4, ZenonT(60) DEF Join
<1>5. CASE CommitDeletion
  BY <1>5, ZenonT(60) DEF CommitDeletion
<1>6. CASE PublishUpdates
  BY <1>6, ZenonT(60) DEF PublishUpdates
<1>7. CASE Answer
  BY <1>7, ZenonT(60) DEF Answer
<1>8. CASE SpuriousWakeup
  BY <1>8, Zenon DEF SpuriousWakeup, WakeReceiver, WakeWriter
<1>9. CASE UNCHANGED vars
  BY <1>9, Zenon DEF vars
<1> QED
  BY <1>1, <1>2, <1>3, <1>4, <1>5, <1>6, <1>7, <1>8, <1>9, Zenon DEF Next, MainThread, SessionOver

(* What the session of TransferSession is about. *)
Removed == "commit" \in removals

(* The steps of the two threads and the wake-ups leave the stage, the      *)
(* deferred deletion, the publication and the answer alone.                *)
LEMMA ThreadSteps ==
    ReceiveThread \/ WriteThread \/ SpuriousWakeup \/ UNCHANGED vars
        => /\ UNCHANGED <<mpc, transfer_ok, published, reply>> /\ (Removed' <=> Removed)
           /\ EnqueueFile \/ accepted' = accepted
           /\ Save \/ written' = written
<1> USE DEF main, disk, history, Removed
<1>1. CASE ReceiveThread
  <2>1. CASE ReceiveEarlyManifest \/ ReceiveDeletePlan
    <3>1. removals' \in {removals, removals \cup {"before"}, removals \cup {"during"}}
      BY <2>1, Zenon DEF ReceiveEarlyManifest, ReceiveDeletePlan
    <3>2. Removed' <=> Removed
      BY <3>1
    <3>3. UNCHANGED <<mpc, transfer_ok, published, reply, accepted, written>>
      BY <2>1, Zenon DEF ReceiveEarlyManifest, ReceiveDeletePlan
    <3> QED
      BY <3>2, <3>3, Zenon
  <2>2. CASE ReceiveThread /\ ~ReceiveEarlyManifest /\ ~ReceiveDeletePlan
    BY <2>2, ZenonT(60) DEF ReceiveThread, ReceiveFiles, ReceiveProbe, ReceiveLateManifest,
       ReceiveIgnoredManifest, ReceiveFails, ReceiveFinished, EnqueueFile, ReceiverExits
  <2> QED
    BY <1>1, <2>1, <2>2, Zenon
<1>2. CASE WriteThread
  BY <1>2, ZenonT(60) DEF WriteThread, WriterStarts, Dequeue, Save, ReleaseBytes, WriterCancels
<1>3. CASE SpuriousWakeup
  BY <1>3, Zenon DEF SpuriousWakeup
<1>4. CASE UNCHANGED vars
  BY <1>4, Zenon DEF vars
<1> QED
  BY <1>1, <1>2, <1>3, <1>4, Zenon

(* Every step of the three threads is a step of the session or a stutter.  *)
LEMMA SessionStep == IInv /\ Staged /\ [Next]_vars => [Session!Next]_(Session!vars)
<1> SUFFICES ASSUME IInv, Staged, [Next]_vars PROVE Session!Next \/ UNCHANGED Session!vars
  BY Zenon
<1>0. /\ written \in Seq(File) /\ accepted \in Seq(File) /\ hold \in Seq(File) /\ queue \in Seq(File)
      /\ wfile \in Seq(File) /\ transfer_ok \in BOOLEAN
      /\ mpc \in {"create_receiver", "create_writer", "join", "join_receiver",
                  "commit", "publish", "answer", "done"}
  BY Zenon DEF IInv, TypeOK, DataOK, ControlOK, FlagsOK
<1>1. CASE ReceiveThread \/ WriteThread \/ SpuriousWakeup \/ UNCHANGED vars
  <2>1. UNCHANGED <<published, reply, SessionStage>> /\ (Removed' <=> Removed)
        /\ (EnqueueFile \/ accepted' = accepted) /\ (Save \/ written' = written)
    <3>1. /\ UNCHANGED <<mpc, transfer_ok, published, reply>> /\ (Removed' <=> Removed)
          /\ EnqueueFile \/ accepted' = accepted
          /\ Save \/ written' = written
      BY <1>1, ThreadSteps, Zenon
    <3>2. SessionStage' = SessionStage
      BY <3>1 DEF SessionStage
    <3> QED
      BY <3>1, <3>2, Zenon
  <2>2. ("commit" \in removals') = ("commit" \in removals)
    BY <2>1 DEF Removed
  <2>3. CASE UNCHANGED <<accepted, written>>
    BY <2>1, <2>2, <2>3, Zenon DEF Session!vars
  <2>4. CASE EnqueueFile /\ accepted' # accepted
    <3>1. rpc = "store" /\ hold # <<>> /\ accepted' = Append(accepted, Head(hold)) /\ written' = written
      BY <2>4, Zenon DEF EnqueueFile, IInv, TypeOK, DataOK
    <3>2. SessionStage = "streaming"
      BY <1>0, <3>1, Zenon DEF Staged, SessionStage
    <3>3. Head(hold) \in File
      BY <1>0, <3>1, HeadTailProperties, Zenon
    <3> DEFINE h == Head(hold)
    <3> HIDE DEF h
    <3>4. accepted' = Append(accepted, h) /\ h \in File
      BY <3>1, <3>3, Zenon DEF h
    <3>5. Len(accepted') = Len(accepted) + 1 /\ accepted'[Len(accepted')] = h
      BY <1>0, <3>4
    <3>6. Session!Accept
      BY <2>1, <2>2, <3>1, <3>2, <3>4, <3>5, Zenon DEF Session!Accept
    <3> QED
      BY <3>6, Zenon DEF Session!Next
  <2>5. CASE Save /\ written' # written
    <3>1. wpc = "save" /\ written' = Append(written, wfile[1]) /\ accepted' = accepted
      BY <2>5, Zenon DEF Save
    <3>2. SessionStage = "streaming"
      BY <1>0, <3>1, Zenon DEF Staged, SessionStage
    <3>5. Len(written) < Len(accepted) /\ accepted[Len(written) + 1] = wfile[1]
      BY <3>1, NextStored, Zenon
    <3>6. Session!Store
      BY <2>1, <2>2, <3>1, <3>2, <3>5, Zenon DEF Session!Store
    <3> QED
      BY <3>6, Zenon DEF Session!Next
  <2> QED
    BY <2>1, <2>3, <2>4, <2>5, Zenon
<1>2. CASE CreateReceiver \/ CreateWriter
  <2>1. UNCHANGED <<accepted, written, removals, published, reply>>
    BY <1>2, Zenon DEF CreateReceiver, CreateWriter, disk, history
  <2>2. SessionStage = "streaming"
    BY <1>2, Zenon DEF CreateReceiver, CreateWriter, SessionStage
  <2>3. ~transfer_ok' \/ mpc' \in {"create_writer", "join", "join_receiver"}
    BY <1>2, Zenon DEF CreateReceiver, CreateWriter, Staged
  <2>4. SessionStage' \in {"streaming", "failed"}
    BY <2>3, Zenon DEF SessionStage
  <2> QED
    BY <2>1, <2>2, <2>4, Zenon DEF Session!vars, Session!Fail, Session!Next
<1>3. CASE Join
  <2>1. UNCHANGED <<accepted, written, removals, published, reply>>
    BY <1>3, Zenon DEF Join, disk, history
  <2>2. SessionStage = "streaming"
    BY <1>3, Zenon DEF Join, SessionStage
  <2>3. CASE rpc = "success" /\ wpc = "success" /\ mpc' \in {"commit", "answer"} /\ transfer_ok'
    <3>1. SessionStage' = "sealed"
      BY <2>3, Zenon DEF SessionStage
    <3>2. written = accepted
      BY <2>3, AllStored, Zenon
    <3> QED
      BY <2>1, <2>2, <3>1, <3>2, Zenon DEF Session!Seal, Session!Next
  <2>4. CASE mpc' \in {"answer", "done"} /\ ~transfer_ok'
    <3>1. SessionStage' = "failed"
      BY <2>4, Zenon DEF SessionStage
    <3> QED
      BY <2>1, <2>2, <3>1, Zenon DEF Session!Fail, Session!Next
  <2> QED
    <3>1. CASE mpc = "join_receiver" /\ mpc' = "done" /\ transfer_ok' = transfer_ok
      BY <2>4, <3>1 DEF Staged
    <3>2. CASE mpc' = (IF transfer_ok' /\ ~config.dry_run THEN "commit" ELSE "answer")
               /\ transfer_ok' = (rpc = "success" /\ wpc = "success")
      <4>1. CASE rpc = "success" /\ wpc = "success"
        <5>1. transfer_ok' /\ mpc' \in {"commit", "answer"}
          BY <3>2, <4>1, Zenon
        <5> QED
          BY <2>3, <4>1, <5>1, Zenon
      <4>2. CASE ~(rpc = "success" /\ wpc = "success")
        <5>1. ~transfer_ok' /\ mpc' = "answer"
          BY <3>2, <4>2, Zenon
        <5> QED
          BY <2>4, <5>1, Zenon
      <4> QED
        BY <4>1, <4>2, Zenon
    <3> QED
      BY <1>3, <3>1, <3>2, Zenon DEF Join, ThreadsSucceeded
<1>4. CASE CommitDeletion
  <2>1. UNCHANGED <<accepted, written, published, reply>> /\ published = "no"
    BY <1>4, Zenon DEF CommitDeletion, history, Staged
  <2>2. SessionStage = "sealed"
    BY <1>4, Zenon DEF CommitDeletion, SessionStage, Staged
  <2>3. mpc' = IF transfer_ok' THEN "publish" ELSE "answer"
    BY <1>4, Zenon DEF CommitDeletion
  <2>4. SessionStage' \in {"sealed", "failed"}
    BY <2>3, Zenon DEF SessionStage
  <2>5. CASE removals' = removals \cup {"commit"}
    <3>1. ("commit" \in removals') = TRUE
      BY <2>5
    <3> QED
      BY <2>1, <2>2, <2>4, <3>1, Zenon DEF Session!Remove, Session!Next
  <2>6. CASE removals' = removals
    BY <2>1, <2>2, <2>4, <2>6, Zenon DEF Session!Fail, Session!Next, Session!vars
  <2> QED
    BY <1>4, <2>5, <2>6, Zenon DEF CommitDeletion
<1>5. CASE PublishUpdates
  <2>1. UNCHANGED <<accepted, written, removals, reply>> /\ published = "no" /\ mpc' = "answer"
    BY <1>5, Zenon DEF PublishUpdates, history, Staged
  <2>2. SessionStage = "sealed" /\ transfer_ok
    BY <1>5, Zenon DEF PublishUpdates, SessionStage, Staged
  <2>3. CASE published' = published /\ transfer_ok' = transfer_ok
    <3>1. SessionStage' = "sealed"
      BY <2>1, <2>2, <2>3 DEF SessionStage
    <3> QED
      BY <2>1, <2>2, <2>3, <3>1, Zenon DEF Session!vars
  <2>4. CASE published' = "all" /\ transfer_ok'
    <3>1. SessionStage' = "sealed"
      BY <2>1, <2>4, Zenon DEF SessionStage
    <3> QED
      BY <2>1, <2>2, <2>4, <3>1, Zenon DEF Session!Publish, Session!Next
  <2>5. CASE published' = "partial" /\ ~transfer_ok'
    <3>1. SessionStage' = "failed"
      BY <2>1, <2>5, Zenon DEF SessionStage
    <3> QED
      BY <2>1, <2>2, <2>5, <3>1, Zenon DEF Session!Publish, Session!Next
  <2> QED
    BY <1>5, <2>3, <2>4, <2>5, Zenon DEF PublishUpdates, PublishSucceeded
<1>6. CASE Answer
  <2>1. UNCHANGED <<accepted, written, removals, published>> /\ mpc = "answer" /\ mpc' = "done" /\ reply = "none"
    BY <1>6, Zenon DEF Answer, disk, history, Staged
  <2>2. SessionStage = (IF transfer_ok THEN "sealed" ELSE "failed")
    BY <2>1, Zenon DEF SessionStage
  <2>3. SessionStage' = (IF transfer_ok' THEN "answered" ELSE "failed")
    BY <2>1, Zenon DEF SessionStage
  <2>4. CASE transfer_ok /\ transfer_ok' /\ reply' = FinalStatus
    <3>1. FinalStatus \in {"OK", "ERROR", "DELETE_LIMIT"}
      BY Zenon DEF FinalStatus
    <3> QED
      BY <2>1, <2>2, <2>3, <2>4, <3>1, Zenon DEF Session!Answer, Session!Next
  <2>5. CASE transfer_ok /\ ~transfer_ok' /\ reply' = reply
    BY <2>1, <2>2, <2>3, <2>5, Zenon DEF Session!Fail, Session!Next
  <2>6. CASE ~transfer_ok /\ ~transfer_ok' /\ reply' \in {"ERROR_DETAIL", "none"}
    BY <2>1, <2>2, <2>3, <2>6, Zenon DEF Session!Refuse, Session!Next, Session!vars
  <2> QED
    BY <1>0, <1>6, <2>4, <2>5, <2>6 DEF Answer
<1> QED
  BY <1>1, <1>2, <1>3, <1>4, <1>5, <1>6, Zenon DEF Next, MainThread, SessionOver

(* The two threads and the main thread implement the abstract session:     *)
(* every accepted file is stored in order, the session is sealed only when *)
(* all are, and only a sealed session deletes, publishes and answers.      *)
THEOREM SessionImplemented == Spec => ImplementsSession
<1>1. Init => Session!Init /\ Staged
  <2> SUFFICES ASSUME Init PROVE Session!Init /\ Staged
    BY Zenon
  <2>1. SessionStage = "streaming" /\ Staged
    BY Zenon DEF Init, SessionStage, Staged
  <2>2. ("commit" \in removals) = FALSE
    BY DEF Init
  <2> QED
    BY <2>1, <2>2, Zenon DEF Init, Session!Init
<1>2. IInv => ThreadsStart
  BY Zenon DEF IInv
<1> QED
  BY <1>1, <1>2, StagedStep, SessionStep, IInvHolds, PTL DEF Spec, ImplementsSession, Session!Spec

=============================================================================
