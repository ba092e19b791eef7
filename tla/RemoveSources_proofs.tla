------------------------ MODULE RemoveSources_proofs ------------------------
(***************************************************************************)
(* --remove-source-files for a transfer of any length: when no entry makes *)
(* the receiver record an outcome for which the sender remembers nothing,  *)
(* and other programs leave alone what is not sent yet, the matching by    *)
(* position pairs every remembered source with its own outcome, so only    *)
(* stored sources are unlinked.                                            *)
(***************************************************************************)
EXTENDS RemoveSources, TLAPS

\* A leaf that names no prover is for the SMT solver, which has a minute for it.
USE SMTT(60)

\* A remembered source, and an outcome.
Source == [entry : Entries, inode : Nat, skipped : BOOLEAN]
Record == [entry : Entries, result : {"WRITTEN", "SKIPPED", "FAILED"}]

\* The part of the type invariant that the argument needs.
Typed ==
    /\ kind \in [Entries -> EntryKinds]
    /\ inode \in [Entries -> Nat] /\ loaded \in [Entries -> Nat] /\ sent \in 0..N
    /\ remembered \in Seq(Source) /\ outcomes \in Seq(Record)
    /\ reply \in Seq({"OK", "NEXT", "ERROR", "DELETE_LIMIT"}) /\ examined \in 0..Len(remembered)

\* What is not sent yet is not remembered and has its first inode, and what was
\* read of it is that.
Untouched ==
    /\ \A e \in Entries : e > sent => inode[e] = 1 /\ loaded[e] \in {NoInode, 1}
    /\ \A i \in 1..Len(remembered) : remembered[i].entry <= sent

\* The i-th remembered source and the i-th outcome are of the same entry, which
\* no other position has; a stored entry was stored from the remembered inode.
Matched ==
    /\ Len(remembered) = Len(outcomes)
    /\ \A i \in 1..Len(outcomes) :
         /\ remembered[i].entry = outcomes[i].entry /\ remembered[i].inode = 1
         /\ outcomes[i].entry <= sent
         /\ outcomes[i].result = "WRITTEN" => <<outcomes[i].entry, 1>> \in installed
    /\ \A i, j \in 1..Len(outcomes) : outcomes[i].entry = outcomes[j].entry => i = j

\* The reply has one status per outcome; a source that is to be unlinked has the
\* outcome of a stored one; so has every source that was unlinked.
Acknowledged ==
    /\ phase = "replied" =>
         /\ Len(reply) = Len(outcomes) + 1
         /\ \A i \in 1..Len(outcomes) : reply[i] = Ack(outcomes[i].result)
    /\ phase = "removing" => \A i \in 1..Len(outcomes) :
         ~remembered[i].skipped => outcomes[i].result = "WRITTEN"
    /\ \A r \in removed : \E i \in 1..Len(outcomes) :
         r = <<outcomes[i].entry, 1>> /\ outcomes[i].result = "WRITTEN"

RemovalInv == Typed /\ Untouched /\ (OneToOne => Matched /\ Acknowledged)

\* The invariant of the initial state.
LEMMA RemovalInit == Init => RemovalInv
  BY RemoveSourcesAssumption
  DEF Init, RemovalInv, Typed, Untouched, Matched, Acknowledged, Source, Record, NoInode

\* The elements of the two lists.
LEMMA Elements ==
  ASSUME Typed
  PROVE  /\ Len(remembered) \in Nat /\ Len(outcomes) \in Nat /\ sent \in Nat
         /\ \A i \in 1..Len(remembered) :
              remembered[i] \in Source /\ remembered[i].entry \in Nat
         /\ \A i \in 1..Len(outcomes) :
              /\ outcomes[i].entry \in Nat
              /\ outcomes[i].result \in {"WRITTEN", "SKIPPED", "FAILED"}
<1>1. remembered \in Seq(Source) /\ outcomes \in Seq(Record) /\ sent \in Nat
  BY RemoveSourcesAssumption DEF Typed
<1>2. \A i \in 1..Len(remembered) : remembered[i] \in Source
  BY <1>1
<1>3. \A i \in 1..Len(outcomes) : outcomes[i] \in Record
  BY <1>1
<1>4. \A d \in Entries : d \in Nat
  BY RemoveSourcesAssumption DEF Entries
<1>5. \A r \in Source : r.entry \in Entries
  BY Zenon DEF Source
<1>6. \A r \in Record : r.entry \in Entries /\ r.result \in {"WRITTEN", "SKIPPED", "FAILED"}
  BY Zenon DEF Record
<1> QED BY <1>1, <1>2, <1>3, <1>4, <1>5, <1>6

\* Other programs, and the loader.
LEMMA OthersKeep ==
  ASSUME ChangeUnsent = FALSE, RemovalInv, NEW e \in Entries,
         SourceChanges(e) \/ LoadEntry(e)
  PROVE  RemovalInv'
<1> USE RemoveSourcesAssumption DEF NoInode, Entries
<1>1. CASE SourceChanges(e)
  <2>0. /\ e <= sent
        /\ inode' = [inode EXCEPT ![e] = 0] \/ inode' = [inode EXCEPT ![e] = inode[e] + 1]
    BY <1>1, Zenon DEF SourceChanges
  <2>1. Typed' /\ Untouched'
    <3>1. inode' \in [Entries -> Nat] /\ \A d \in Entries \ {e} : inode'[d] = inode[d]
      <4>1. inode \in [Entries -> Nat]
        BY Zenon DEF RemovalInv, Typed
      <4>2. CASE inode' = [inode EXCEPT ![e] = 0]
        BY <4>1, <4>2, Zenon
      <4>3. CASE inode' = [inode EXCEPT ![e] = inode[e] + 1]
        BY <4>1, <4>3
      <4> QED BY <2>0, <4>2, <4>3, Zenon
    <3>2. UNCHANGED <<kind, loaded, sent, remembered, outcomes, reply, examined>>
      BY <1>1, Zenon DEF SourceChanges
    <3>3. Typed'
      BY <3>1, <3>2, Zenon DEF RemovalInv, Typed
    <3>4. \A d \in Entries : d > sent => d # e
      BY <2>0, Elements DEF RemovalInv
    <3> QED BY <3>1, <3>2, <3>3, <3>4, Zenon DEF RemovalInv, Untouched
  <2>2. UNCHANGED <<kind, remembered, outcomes, sent, installed, phase, reply, removed>>
    BY <1>1, Zenon DEF SourceChanges
  <2> QED BY <2>1, <2>2 DEF RemovalInv, OneToOne, Matched, Acknowledged
<1>2. CASE LoadEntry(e)
  <2>1. Typed' /\ Untouched'
    BY <1>2, ZenonT(60) DEF RemovalInv, Typed, Untouched, LoadEntry
  <2>2. UNCHANGED <<kind, remembered, outcomes, sent, installed, reply, removed>>
    BY <1>2, Zenon DEF LoadEntry
  <2>3. phase' = phase \/ phase' = "failed"
    BY <1>2, Zenon DEF LoadEntry
  <2> QED BY <2>1, <2>2, <2>3 DEF RemovalInv, OneToOne, Matched, Acknowledged
<1> QED BY <1>1, <1>2, Zenon

\* One entry is sent: its source and its outcome take the same position.
LEMMA SendKeeps ==
  ASSUME RemovalInv, SendEntry PROVE RemovalInv'
<1> USE RemoveSourcesAssumption DEF NoInode, Entries
<1> DEFINE e == sent + 1
<1>1. /\ e \in Entries /\ sent' = e /\ phase = "sending"
      /\ UNCHANGED <<kind, inode, loaded, reply, examined, removed>>
  BY DEF SendEntry, RemovalInv, Typed
<1>2. \A d \in Entries : d > sent' => inode'[d] = 1 /\ loaded'[d] \in {NoInode, 1}
  BY <1>1 DEF RemovalInv, Typed, Untouched
<1>3. OneToOne => kind[e] \notin {"symlink", "hardlink", "deref"}
  BY <1>1, Zenon DEF OneToOne
<1>o. OneToOne => \A i \in 1..Len(outcomes) : outcomes[i].entry <= sent'
  <2>1. \A i \in 1..Len(outcomes) : outcomes[i].entry <= sent => outcomes[i].entry <= sent + 1
    BY Elements DEF RemovalInv
  <2> QED BY <1>1, <2>1, ZenonT(60) DEF RemovalInv, Matched
<1>4. CASE UNCHANGED <<remembered, outcomes, failed_entries, installed>>
           /\ phase' \in {phase, "failed"}
  <2>1. Typed' /\ Untouched'
    <3>1. Typed'
      BY <1>1, <1>4 DEF RemovalInv, Typed
    <3>2. \A i \in 1..Len(remembered) : remembered[i].entry <= sent + 1
      BY Elements DEF RemovalInv, Untouched
    <3> QED BY <1>1, <1>2, <1>4, <3>1, <3>2, Zenon DEF Untouched
  <2>3. OneToOne => Matched'
    BY <1>4, <1>o, ZenonT(60) DEF RemovalInv, Matched
  <2>4. OneToOne => Acknowledged'
    BY <1>1, <1>4, Zenon DEF RemovalInv, Acknowledged
  <2> QED BY <1>1, <2>1, <2>3, <2>4, Zenon DEF RemovalInv, OneToOne
<1>5. ASSUME NEW result \in {"WRITTEN", "SKIPPED", "FAILED"},
             result = "FAILED" => kind[e] = "special",
             HasContent(kind[e]) => loaded[e] # NoInode,
             remembered' = IF HasContent(kind[e])
                             THEN remembered \o SourceFile(e) ELSE remembered,
             outcomes' = IF ReceiverRecords(e)
                           THEN Append(outcomes, [entry |-> e, result |-> result])
                           ELSE outcomes,
             installed' = IF result = "WRITTEN"
                            THEN installed \cup {<<e, loaded[e]>>} ELSE installed,
             UNCHANGED phase
      PROVE  RemovalInv'
  <2>e. \A i \in 1..Len(outcomes) : outcomes[i].entry \in Nat
    BY Elements, Zenon DEF RemovalInv
  <2>r. remembered \in Seq(Source) /\ outcomes \in Seq(Record)
    BY Zenon DEF RemovalInv, Typed
  <2> DEFINE src == [entry |-> e, inode |-> inode[e], skipped |-> FALSE]
             rec == [entry |-> e, result |-> result]
  <2>0. src \in Source /\ rec \in Record
    BY <1>1, Zenon DEF Source, Record, RemovalInv, Typed
  <2>1. remembered' = remembered \/ remembered' = Append(remembered, src)
    <3>1. remembered \o <<>> = remembered /\ remembered \o <<src>> = Append(remembered, src)
      BY <2>0, <2>r
    <3> QED BY <1>5, <3>1, ZenonT(60) DEF SourceFile
  <2>2. outcomes' = outcomes \/ outcomes' = Append(outcomes, rec)
    BY <1>5, Zenon
  <2>3. Typed'
    <3> HIDE DEF src, rec
    <3>1. /\ remembered' \in Seq(Source) /\ outcomes' \in Seq(Record)
          /\ Len(remembered') \in {Len(remembered), Len(remembered) + 1}
      <4>1. /\ remembered' \in Seq(Source)
            /\ Len(remembered') \in {Len(remembered), Len(remembered) + 1}
        BY <2>r, <2>0, <2>1
      <4>2. outcomes' \in Seq(Record)
        BY <2>r, <2>0, <2>2, SMTT(60)
      <4> QED BY <4>1, <4>2, Zenon
    <3> QED BY <1>1, <3>1 DEF RemovalInv, Typed
  <2>4. Untouched'
    <3>1. \A i \in 1..Len(remembered') : remembered'[i].entry <= sent'
      <4>1. CASE remembered' = remembered
        BY <1>1, <4>1, Elements DEF RemovalInv, Untouched
      <4>2. CASE remembered' = Append(remembered, src)
        <5>1. Len(remembered') = Len(remembered) + 1 /\ remembered'[Len(remembered) + 1] = src
          BY <2>r, <2>0, <4>2
        <5>2. \A i \in 1..Len(remembered) : remembered'[i] = remembered[i]
          BY <2>r, <2>0, <4>2
        <5>3. \A i \in 1..Len(remembered) : remembered[i].entry <= sent'
          <6>1. \A i \in 1..Len(remembered) : remembered[i].entry <= sent + 1
            BY Elements DEF RemovalInv, Untouched
          <6> QED BY <1>1, <6>1, Zenon
        <5>4. src.entry <= sent'
          BY <1>1
        <5> QED BY <2>r, <5>1, <5>2, <5>3, <5>4
      <4> QED BY <2>1, <4>1, <4>2, Zenon
    <3> QED BY <1>2, <3>1, Zenon DEF Untouched
  <2>5. ASSUME OneToOne, kind[e] = "reg" PROVE Matched' /\ Acknowledged'
    <3>0. inode[e] = 1 /\ loaded[e] = 1
      BY <1>1, <1>5, <2>5 DEF HasContent, RemovalInv, Typed, Untouched
    <3>1. SourceFile(e) = <<src>>
      <4>1. inode[e] # NoInode
        BY <3>0
      <4> QED BY <2>5, <4>1, ZenonT(60) DEF SourceFile
    <3>2. remembered' = remembered \o <<src>> /\ outcomes' = Append(outcomes, rec)
      BY <1>5, <2>5, <3>1, ZenonT(60) DEF HasContent, ReceiverRecords
    <3>3. (result = "WRITTEN" => <<e, 1>> \in installed') /\ installed \subseteq installed'
      BY <1>5, <3>0, Zenon
    <3>4. src.entry = e /\ src.inode = 1 /\ rec.entry = e /\ rec.result = result
      BY <3>0, Zenon
    <3>5. Matched
      BY <2>5, Zenon DEF RemovalInv
    <3> HIDE DEF src, rec
    <3> DEFINE n == Len(outcomes)
    <3>6. /\ Len(remembered') = n + 1 /\ Len(outcomes') = n + 1 /\ n \in Nat
          /\ remembered'[n + 1] = src /\ outcomes'[n + 1] = rec
          /\ \A i \in 1..n : remembered'[i] = remembered[i] /\ outcomes'[i] = outcomes[i]
      BY <2>0, <2>r, <3>2, <3>5 DEF Matched
    <3> HIDE DEF n
    <3>7. \A i \in 1..n : outcomes[i].entry <= sent /\ outcomes[i].entry \in Nat
      BY <2>e, <3>5, ZenonT(60) DEF Matched, n
    <3>s. sent \in Nat
      BY Elements, Zenon DEF RemovalInv
    <3>8. Matched'
      <4>1. \A i \in 1..(n + 1) : i \in 1..n \/ i = n + 1
        BY <3>6
      <4>2. \A i \in 1..n : outcomes[i].entry # e
        BY <3>7, <3>s
      <4>3. \A i \in 1..(n + 1) : outcomes'[i].entry <= sent'
        BY <1>1, <3>4, <3>6, <3>7, <3>s, <4>1
      <4>4. \A i \in 1..(n + 1) :
              /\ remembered'[i].entry = outcomes'[i].entry /\ remembered'[i].inode = 1
              /\ outcomes'[i].result = "WRITTEN" => <<outcomes'[i].entry, 1>> \in installed'
        BY <3>3, <3>4, <3>5, <3>6, <4>1 DEF Matched, n
      <4>5. \A i, j \in 1..(n + 1) : outcomes'[i].entry = outcomes'[j].entry => i = j
        BY <3>4, <3>5, <3>6, <4>1, <4>2 DEF Matched, n
      <4> QED BY <3>6, <4>3, <4>4, <4>5, ZenonT(60) DEF Matched
    <3>9. Acknowledged'
      BY <1>1, <1>5, <2>5, <3>6 DEF RemovalInv, Acknowledged, n
    <3> QED BY <3>8, <3>9, Zenon
  <2>6. ASSUME OneToOne, kind[e] # "reg" PROVE Matched' /\ Acknowledged'
    <3>1. kind[e] \in {"dir", "special"}
      BY <1>1, <1>3, <2>6, ZenonT(60) DEF RemovalInv, Typed
    <3>2. UNCHANGED <<remembered, outcomes>> /\ installed \subseteq installed'
      BY <1>5, <3>1, Zenon DEF HasContent, ReceiverRecords
    <3>3. Matched'
      BY <1>o, <2>6, <3>2, ZenonT(60) DEF RemovalInv, Matched
    <3>4. Acknowledged'
      BY <1>1, <1>5, <2>6, <3>2 DEF RemovalInv, Acknowledged
    <3> QED BY <3>3, <3>4, Zenon
  <2> QED BY <1>1, <2>3, <2>4, <2>5, <2>6, Zenon DEF RemovalInv, OneToOne
<1> QED BY <1>4, <1>5, Zenon DEF SendEntry

\* The end of the transfer, on both sides.
LEMMA FinishKeeps ==
  ASSUME RemovalInv, Finish \/ FinalizeTransfer PROVE RemovalInv'
<1> USE RemoveSourcesAssumption DEF NoInode, Entries
<1>1. CASE Finish
  <2> DEFINE acks == [i \in 1..Len(outcomes) |-> Ack(outcomes[i].result)]
  <2>1. acks \in Seq({"OK", "NEXT", "ERROR", "DELETE_LIMIT"}) /\ Len(acks) = Len(outcomes)
    BY DEF RemovalInv, Typed, Ack
  <2>2. \E final \in {"OK", "ERROR", "DELETE_LIMIT"} : reply' = Append(acks, final)
    BY <1>1, Zenon DEF Finish
  <2>3. /\ UNCHANGED <<kind, inode, loaded, sent, remembered, outcomes, installed,
                       examined, removed>>
        /\ phase' = "replied"
    BY <1>1, Zenon DEF Finish
  <2>4. Typed' /\ Untouched'
    <3> HIDE DEF acks
    <3>1. reply' \in Seq({"OK", "NEXT", "ERROR", "DELETE_LIMIT"})
      BY <2>1, <2>2
    <3> QED BY <2>3, <3>1, Zenon DEF RemovalInv, Typed, Untouched
  <2>5. /\ Len(reply') = Len(outcomes) + 1
        /\ \A i \in 1..Len(outcomes) : reply'[i] = Ack(outcomes[i].result)
    BY <2>1, <2>2
  <2> QED BY <2>3, <2>4, <2>5 DEF RemovalInv, OneToOne, Matched, Acknowledged
<1>2. CASE FinalizeTransfer
  <2>1. /\ UNCHANGED <<kind, inode, loaded, sent, outcomes, installed, reply, examined,
                       removed>>
        /\ phase = "replied"
    BY <1>2, Zenon DEF FinalizeTransfer
  <2>2. CASE phase' = "failed" /\ UNCHANGED remembered
    BY <2>1, <2>2, SMTT(60) DEF RemovalInv, Typed, Untouched, OneToOne, Matched, Acknowledged
  <2>3. CASE /\ remembered' = [i \in 1..Len(remembered) |->
                   [remembered[i] EXCEPT !.skipped = (reply[i] = "OK")]]
             /\ phase' = "removing" 
             /\ \A i \in 1..Len(remembered) : reply[i] \in {"OK", "NEXT"}
    <3>1. /\ remembered' \in Seq(Source) /\ Len(remembered') = Len(remembered)
          /\ \A i \in 1..Len(remembered) :
               /\ remembered'[i].entry = remembered[i].entry
               /\ remembered'[i].inode = remembered[i].inode
               /\ ~remembered'[i].skipped => reply[i] = "NEXT"
      <4>1. \A i \in 1..Len(remembered) : remembered[i] \in Source
        BY DEF RemovalInv, Typed
      <4>2. \A i \in 1..Len(remembered) :
              /\ [remembered[i] EXCEPT !.skipped = (reply[i] = "OK")] \in Source
              /\ [remembered[i] EXCEPT !.skipped = (reply[i] = "OK")].entry = remembered[i].entry
              /\ [remembered[i] EXCEPT !.skipped = (reply[i] = "OK")].inode = remembered[i].inode
              /\ [remembered[i] EXCEPT !.skipped = (reply[i] = "OK")].skipped = (reply[i] = "OK")
        BY <4>1, ZenonT(60) DEF Source
      <4>3. Len(remembered) \in Nat /\ remembered \in Seq(Source)
        BY DEF RemovalInv, Typed
      <4>4. \A i \in 1..Len(remembered) :
              remembered'[i] = [remembered[i] EXCEPT !.skipped = (reply[i] = "OK")]
        BY <2>3, Zenon
      <4>5. remembered' \in Seq(Source) /\ Len(remembered') = Len(remembered)
        BY <2>3, <4>2, <4>3
      <4> QED BY <2>3, <4>2, <4>4, <4>5, ZenonT(60)
    <3>2. \A r \in {"WRITTEN", "SKIPPED", "FAILED"} : Ack(r) = "NEXT" => r = "WRITTEN"
      BY Zenon DEF Ack
    <3>3. Typed' /\ Untouched'
      BY <2>1, <3>1, ZenonT(60) DEF RemovalInv, Typed, Untouched
    <3>4. OneToOne => Matched'
      BY <2>1, <3>1 DEF RemovalInv, Matched
    <3>5. OneToOne => \A i \in 1..Len(outcomes) :
              ~remembered'[i].skipped => outcomes[i].result = "WRITTEN"
      <4>1. \A i \in 1..Len(outcomes) : outcomes[i].result \in {"WRITTEN", "SKIPPED", "FAILED"}
        BY Elements, Zenon DEF RemovalInv
      <4> QED BY <2>1, <3>1, <3>2, <4>1 DEF RemovalInv, Matched, Acknowledged
    <3> QED BY <2>1, <2>3, <3>3, <3>4, <3>5, ZenonT(60) DEF RemovalInv, OneToOne, Acknowledged
  <2> QED BY <1>2, <2>2, <2>3, Zenon DEF FinalizeTransfer
<1> QED BY <1>1, <1>2, Zenon

\* One source is dealt with.
LEMMA RemoveKeeps ==
  ASSUME RemovalInv, RemoveNext PROVE RemovalInv'
<1> USE RemoveSourcesAssumption DEF NoInode, Entries
<1>1. /\ UNCHANGED <<kind, loaded, sent, remembered, outcomes, installed, reply>>
      /\ phase = "removing" /\ phase' \in {"removing", "done"}
  BY Zenon DEF RemoveNext
<1>2. CASE UNCHANGED <<inode, removed>> /\ examined' \in 0..Len(remembered)
  <2>1. Typed' /\ Untouched'
    BY <1>1, <1>2, Zenon DEF RemovalInv, Typed, Untouched
  <2>2. OneToOne => Matched' /\ Acknowledged'
    BY <1>1, <1>2 DEF RemovalInv, Matched, Acknowledged
  <2> QED BY <1>1, <2>1, <2>2, Zenon DEF RemovalInv, OneToOne
<1>3. ASSUME NEW k \in 1..Len(remembered), examined' = k, MayUnlink(remembered[k]),
             removed' = removed \cup {<<remembered[k].entry, inode[remembered[k].entry]>>},
             inode' = [inode EXCEPT ![remembered[k].entry] = NoInode]
      PROVE  RemovalInv'
  <2>0. remembered[k] \in Source
    BY DEF RemovalInv, Typed
  <2>1. /\ remembered[k].entry \in Entries /\ remembered[k].entry <= sent
        /\ ~remembered[k].skipped
        /\ inode[remembered[k].entry] = remembered[k].inode
    BY <1>3, <2>0, Zenon DEF RemovalInv, Untouched, Source, MayUnlink
  <2>2. Typed' /\ Untouched'
    <3>1. /\ inode' \in [Entries -> Nat]
          /\ \A d \in Entries : d # remembered[k].entry => inode'[d] = inode[d]
      BY <1>3, <2>1, Zenon DEF RemovalInv, Typed
    <3>2. examined' \in 0..Len(remembered)
      BY <1>3, Elements DEF RemovalInv
    <3>3. Typed'
      BY <1>1, <3>1, <3>2, ZenonT(60) DEF RemovalInv, Typed
    <3>4. \A d \in Entries : d > sent => d # remembered[k].entry
      BY <2>1, Elements DEF RemovalInv
    <3> QED BY <1>1, <3>1, <3>3, <3>4, Zenon DEF RemovalInv, Untouched
  <2>3. OneToOne => Matched'
    BY <1>1, Zenon DEF RemovalInv, Matched
  <2>4. ASSUME OneToOne PROVE Acknowledged'
    <3>1. Matched /\ Acknowledged
      BY <2>4, Zenon DEF RemovalInv
    <3>2. /\ k \in 1..Len(outcomes) /\ outcomes[k].result = "WRITTEN"
          /\ removed' = removed \cup {<<outcomes[k].entry, 1>>}
      BY <1>1, <1>3, <2>1, <3>1, ZenonT(60) DEF Matched, Acknowledged
    <3> QED BY <1>1, <3>1, <3>2 DEF Acknowledged
  <2> QED BY <1>1, <2>2, <2>3, <2>4, Zenon DEF RemovalInv, OneToOne
<1>4. CASE examined = Len(remembered)
  BY <1>2, <1>4, Zenon DEF RemoveNext, RemovalInv, Typed
<1>5. CASE examined # Len(remembered)
  <2>1. examined + 1 \in 1..Len(remembered) /\ examined + 1 \in 0..Len(remembered)
    BY <1>5 DEF RemovalInv, Typed
  <2>2. \/ /\ MayUnlink(remembered[examined + 1]) /\ examined' = examined + 1
           /\ removed' = removed \cup {<<remembered[examined + 1].entry,
                                         inode[remembered[examined + 1].entry]>>}
           /\ inode' = [inode EXCEPT ![remembered[examined + 1].entry] = NoInode]
        \/ UNCHANGED <<inode, removed>> /\ examined' = examined + 1
    BY <1>5, Zenon DEF RemoveNext
  <2> QED BY <1>2, <1>3, <2>1, <2>2, Zenon
<1> QED BY <1>4, <1>5, Zenon

\* Every step keeps the invariant.
LEMMA RemovalStep == ASSUME ChangeUnsent = FALSE, RemovalInv, [Next]_vars PROVE RemovalInv'
<1>1. CASE UNCHANGED vars
  BY <1>1 DEF vars, RemovalInv, Typed, Untouched, OneToOne, Matched, Acknowledged
<1>2. CASE ~UNCHANGED vars
  BY <1>2, OthersKeep, SendKeeps, FinishKeeps, RemoveKeeps, ZenonT(60) DEF Next, Over
<1> QED BY <1>1, <1>2, Zenon

\* receiver_send_final_success and finalize_transfer: whatever the number of
\* entries, a source is unlinked only if the receiver reported it stored.
THEOREM StoredRemoved == ASSUME ChangeUnsent = FALSE PROVE Spec => []OnlyStoredRemoved
<1>1. ASSUME RemovalInv, OneToOne, NEW r \in removed PROVE Outcome(r[1]) = {"WRITTEN"}
  <2>1. PICK i \in 1..Len(outcomes) :
          r = <<outcomes[i].entry, 1>> /\ outcomes[i].result = "WRITTEN"
    BY <1>1, Zenon DEF RemovalInv, Acknowledged
  <2>2. {j \in 1..Len(outcomes) : outcomes[j].entry = r[1]} = {i}
    BY <1>1, <2>1, Zenon DEF RemovalInv, Matched
  <2> QED BY <2>1, <2>2 DEF Outcome
<1>2. RemovalInv => OnlyStoredRemoved
  BY <1>1, Zenon DEF OnlyStoredRemoved
<1> QED BY RemovalInit, RemovalStep, <1>2, PTL DEF Spec

\* remove_transferred_sources: the inode that goes is the one whose content the
\* receiver stored.
THEOREM SentRemoved == ASSUME ChangeUnsent = FALSE PROVE Spec => []OnlySentRemoved
<1>1. RemovalInv => OnlySentRemoved
  BY DEF RemovalInv, Matched, Acknowledged, OnlySentRemoved
<1> QED BY RemovalInit, RemovalStep, <1>1, PTL DEF Spec
=============================================================================
