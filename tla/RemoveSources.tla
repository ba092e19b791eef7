---------------------------- MODULE RemoveSources ----------------------------
(***************************************************************************)
(* --remove-source-files end to end.  The sender remembers, per entry it   *)
(* transmitted, the path and inode of the regular source file; the         *)
(* receiver records one outcome per data file; at the end the outcomes are *)
(* matched with the remembered sources by position, and the sources that   *)
(* were written are unlinked if they still are the same inode.  The source *)
(* tree may be changed by other programs at any moment.                    *)
(***************************************************************************)
EXTENDS Integers, Sequences, FiniteSets

CONSTANTS
    N,              \* bound: entries of the transfer
    EntryKinds,     \* kinds that occur: "reg", "deref", "symlink", "hardlink",
                    \* "dir", "special"
    MaxInode,       \* bound: inodes one name may go through
    ChangeUnsent    \* whether other programs change files not sent yet

ASSUME RemoveSourcesAssumption ==
    /\ N \in Nat
    /\ EntryKinds \subseteq {"reg", "deref", "symlink", "hardlink", "dir", "special"}
    /\ MaxInode \in Nat \ {0}
    /\ ChangeUnsent \in BOOLEAN

Entries == 1..N
NoInode == 0

VARIABLES
    kind,           \* what the scanner found at each entry
    inode,          \* the inode now at the entry's source path, NoInode if gone
    loaded,         \* the inode whose content the loader read, per entry
    sent,           \* entries sent so far
    remembered,     \* remove_source_files list: [entry, inode, skipped]
    outcomes,       \* receiver: [entry, result]
    failed_entries, \* receiver: some device node could not be made
    installed,      \* receiver: <<entry, inode>> whose content is stored
    phase,          \* "sending", "replied", "removing", "done", "failed"
    reply,          \* statuses of the receiver's terminal frames
    examined,       \* remembered sources the removal pass has dealt with
    removed         \* <<entry, inode>> the sender unlinked

vars == <<kind, inode, loaded, sent, remembered, outcomes, failed_entries,
          installed, phase, reply, examined, removed>>

HasContent(k) == k \in {"reg", "deref"}

Init ==
    /\ kind \in [Entries -> EntryKinds]
    /\ inode = [e \in Entries |-> 1]
    /\ loaded = [e \in Entries |-> NoInode]
    /\ sent = 0
    /\ remembered = <<>> /\ outcomes = <<>> /\ failed_entries = FALSE
    /\ installed = {} /\ phase = "sending" /\ reply = <<>>
    /\ examined = 0 /\ removed = {}

\* Another program removes the source file or puts a new inode in its place.
SourceChanges(e) ==
    /\ ChangeUnsent \/ e <= sent
    /\ inode[e] # NoInode
    /\ inode' \in {[inode EXCEPT ![e] = NoInode]} \cup
                  (IF inode[e] < MaxInode
                     THEN {[inode EXCEPT ![e] = inode[e] + 1]} ELSE {})
    /\ UNCHANGED <<kind, loaded, sent, remembered, outcomes, failed_entries,
                   installed, phase, reply, examined, removed>>

\* The loader reads the content of the next entry that has any; an unreadable
\* file cancels the transfer.
LoadEntry(e) ==
    /\ phase = "sending"
    /\ e > sent /\ HasContent(kind[e]) /\ loaded[e] = NoInode
    /\ \A d \in Entries : d < e /\ HasContent(kind[d]) => loaded[d] # NoInode
    /\ IF inode[e] = NoInode
         THEN phase' = "failed" /\ UNCHANGED loaded
         ELSE loaded' = [loaded EXCEPT ![e] = inode[e]] /\ UNCHANGED phase
    /\ UNCHANGED <<kind, inode, sent, remembered, outcomes, failed_entries,
                   installed, reply, examined, removed>>

\* source_file_create: lstat must find a regular file; a dereferenced symlink or
\* a vanished path gives nothing to remember.
SourceFile(e) ==
    IF kind[e] = "reg" /\ inode[e] # NoInode
      THEN <<[entry |-> e, inode |-> inode[e], skipped |-> FALSE]>>
      ELSE <<>>

\* receiver_save_file and write_thread: an outcome for whatever is neither a
\* directory nor a device or special node.
ReceiverRecords(e) == kind[e] \notin {"dir", "special"}

\* send_chunk_with_removal for one entry, and the receiver's handling of the
\* frame it produces.  Only entries with content reach source_file_create, and
\* only they may be found up to date by the incremental check.
SendEntry ==
    /\ phase = "sending" /\ sent < N
    /\ LET e == sent + 1 IN
         /\ HasContent(kind[e]) => loaded[e] # NoInode
         /\ \/ /\ HasContent(kind[e])
               /\ UNCHANGED <<remembered, outcomes, failed_entries, installed, phase>>
            \/ \E result \in {"WRITTEN", "SKIPPED", "FAILED", "ERROR"} :
                 /\ result = "FAILED" => kind[e] = "special"
                 /\ IF result = "ERROR"
                      THEN /\ phase' = "failed"
                           /\ UNCHANGED <<remembered, outcomes, failed_entries,
                                          installed>>
                      ELSE /\ remembered' = IF HasContent(kind[e])
                                THEN remembered \o SourceFile(e) ELSE remembered
                           /\ outcomes' = IF ReceiverRecords(e)
                                THEN Append(outcomes, [entry |-> e, result |-> result])
                                ELSE outcomes
                           /\ failed_entries' = (failed_entries \/ result = "FAILED")
                           /\ installed' = IF result = "WRITTEN"
                                THEN installed \cup {<<e, loaded[e]>>} ELSE installed
                           /\ UNCHANGED phase
         /\ sent' = e
    /\ UNCHANGED <<kind, inode, loaded, reply, examined, removed>>

\* Faulty variants, named Bad..., stand before the definition they are a
\* plausible slip of; the README says which property finds each of them.
BadAck(result) == "NEXT"

\* receiver_send_final_success: the status that reports one outcome.
Ack(result) ==
    CASE result = "WRITTEN" -> "NEXT"
      [] result = "FAILED"  -> "ERROR"
      [] OTHER              -> "OK"

\* STATUS_FINISHED is answered by the acknowledgements and a final status.
Finish ==
    /\ phase = "sending" /\ sent = N
    /\ phase' = "replied"
    /\ \E limit \in BOOLEAN :
         LET final == IF limit THEN "DELETE_LIMIT"
                      ELSE IF failed_entries THEN "ERROR" ELSE "OK"
         IN  reply' = Append([i \in 1..Len(outcomes) |-> Ack(outcomes[i].result)], final)
    /\ UNCHANGED <<kind, inode, loaded, sent, remembered, outcomes,
                   failed_entries, installed, examined, removed>>

\* A capped --max-delete is a successful transfer.
FinalStatusOk(status) == status \in {"OK", "DELETE_LIMIT"}

\* finalize_transfer: one status per remembered source, then the verdict.  A
\* reply that is too short leaves the sender waiting until it times out.
FinalizeTransfer ==
    /\ phase = "replied"
    /\ LET n == Len(remembered) IN
         IF /\ Len(reply) > n
            /\ \A i \in 1..n : reply[i] \in {"OK", "NEXT"}
            /\ FinalStatusOk(reply[n + 1])
           THEN /\ remembered' = [i \in 1..n |->
                      [remembered[i] EXCEPT !.skipped = (reply[i] = "OK")]]
                /\ phase' = "removing"
           ELSE /\ phase' = "failed"
                /\ UNCHANGED remembered
    /\ UNCHANGED <<kind, inode, loaded, sent, outcomes, failed_entries,
                   installed, reply, examined, removed>>

BadMayUnlink(s) == ~s.skipped /\ inode[s.entry] # NoInode

\* The fstatat check of remove_transferred_sources.
MayUnlink(s) == ~s.skipped /\ inode[s.entry] = s.inode

\* remove_transferred_sources, one source at a time.
RemoveNext ==
    /\ phase = "removing"
    /\ IF examined = Len(remembered)
         THEN phase' = "done" /\ UNCHANGED <<examined, inode, removed>>
         ELSE LET s == remembered[examined + 1] IN
              /\ examined' = examined + 1
              /\ IF MayUnlink(s)
                   THEN \/ /\ removed' = removed \cup {<<s.entry, inode[s.entry]>>}
                           /\ inode' = [inode EXCEPT ![s.entry] = NoInode]
                        \/ UNCHANGED <<removed, inode>>     \* unlinkat failed
                   ELSE UNCHANGED <<removed, inode>>
              /\ UNCHANGED phase
    /\ UNCHANGED <<kind, loaded, sent, remembered, outcomes, failed_entries,
                   installed, reply>>

Over == phase \in {"done", "failed"} /\ UNCHANGED vars

Next ==
    \/ \E e \in Entries : SourceChanges(e) \/ LoadEntry(e)
    \/ SendEntry \/ Finish \/ FinalizeTransfer \/ RemoveNext \/ Over

Spec == Init /\ [][Next]_vars

-----------------------------------------------------------------------------
(* Properties                                                              *)

\* The type of every variable.
TypeOK ==
    /\ kind \in [Entries -> EntryKinds]
    /\ inode \in [Entries -> 0..MaxInode] /\ loaded \in [Entries -> 0..MaxInode]
    /\ sent \in 0..N
    /\ \A i \in 1..Len(remembered) :
         remembered[i] \in [entry : Entries, inode : 1..MaxInode, skipped : BOOLEAN]
    /\ \A i \in 1..Len(outcomes) :
         outcomes[i] \in [entry : Entries, result : {"WRITTEN", "SKIPPED", "FAILED"}]
    /\ failed_entries \in BOOLEAN
    /\ installed \subseteq Entries \X (0..MaxInode)
    /\ phase \in {"sending", "replied", "removing", "done", "failed"}
    /\ \A i \in 1..Len(reply) : reply[i] \in {"OK", "NEXT", "ERROR", "DELETE_LIMIT"}
    /\ examined \in 0..Len(remembered)
    /\ removed \subseteq Entries \X (1..MaxInode)

Outcome(e) == {outcomes[i].result : i \in {j \in 1..Len(outcomes) : outcomes[j].entry = e}}

\* No entry whose outcome the receiver records and whose source the sender does
\* not remember: finalize_transfer matches the two lists by position.
OneToOne == \A e \in Entries : kind[e] \notin {"symlink", "hardlink", "deref"}

\* receiver_send_final_success: the acknowledgements are there "so the sender
\* never removes a source the receiver did not actually store".
OnlyStoredRemoved == OneToOne => \A r \in removed : Outcome(r[1]) = {"WRITTEN"}

\* remove_transferred_sources: "Remove only the same regular source file that
\* was sent": the unlinked inode is the one whose content the receiver stored.
OnlySentRemoved == OneToOne => \A r \in removed : r \in installed
=============================================================================
