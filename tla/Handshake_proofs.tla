-------------------------- MODULE Handshake_proofs --------------------------
(***************************************************************************)
(* What is proved of ClientConfig and Handshake, for every set of options, *)
(* every server and every number of connections: that the verdict the      *)
(* client reads is the one the daemon's child gave (VerdictInv), that the  *)
(* receiver finds valid what the client sends (ConfigInv), and that a      *)
(* source that fails to authenticate is locked out (RegistryOK).           *)
(***************************************************************************)
EXTENDS Handshake, TLAPS

\* A leaf that names no prover is for Zenon.
USE ZenonT(60)

(* The members of a configuration. *)
LEMMA Members ==
    DOMAIN Defaults = {"on", "compress_choice", "compression_algo", "compression_level",
                       "checksum_algo", "super_mode", "transport", "module", "chunk_size",
                       "delta_block_size", "delta_max_file_size", "max_alloc", "max_delete", "exit"}
BY DEF Defaults

---------------------------------------------------------------------------
(* The verdicts of the two ends, for every server, every command line and  *)
(* every number of connections.                                            *)

(* Where the child of a connection stands: it has said nothing yet, asked  *)
(* for the proof, answered it, accepted the connection, or is serving.     *)
Before == {"gate", "locked", "clear_fail", "clear_until", "policy"}
Failing == {"failed", "lock", "terminated"}
Resetting == {"reset_fail", "reset_until"}
Admitting == {"root", "accept"}
ChildPcs == {"none", "config", "response", "gates", "prepare", "serve", "closed"}
            \cup Before \cup Failing \cup Resetting \cup Admitting
Unconnected == {"absent", "parse", "connect"}
ClientPcs == {"absent", "parse", "connect", "prove", "send", "done", "stalled"} \cup Reading
Frames == {"OK", "ERROR", "AUTH_CHALLENGE", "AUTH_FAILED", "AUTH_OK", "MOTD", "SUCCESS"}

(* What a client that still follows an unbroken connection has to read, by *)
(* what the child has done: pc is where the client is, u and d the frames  *)
(* in flight from it and to it.                                            *)
Silent(pc, d) == pc = "verdict" /\ d = <<>>
Asked(pc, u, d) ==
    \/ pc = "verdict" /\ d = <<"AUTH_CHALLENGE">> /\ u = <<>>
    \/ pc = "prove" /\ d = <<>> /\ u = <<>>
    \/ pc = "proof" /\ d = <<>>
Failed(pc, d) == pc \in {"verdict", "proof"} /\ d = <<"AUTH_FAILED">>
Proved(pc, d) == (pc = "proof" /\ d = <<"AUTH_OK">>) \/ (pc = "accept" /\ d = <<>>)
Welcomed(pc, u, d) == d = <<>> /\ ((pc = "send" /\ u = <<>>) \/ pc = "outcome")
Accepted(pc, u, d, greets) ==
    \/ pc \in {"verdict", "accept"} /\ d = <<"OK">> /\ u = <<>>
    \/ pc = "proof" /\ d = <<"AUTH_OK", "OK">> /\ u = <<>>
    \/ greets /\ pc = "motd" /\ d = <<>> /\ u = <<>>
    \/ ~greets /\ Welcomed(pc, u, d)
Greeted(pc, u, d) ==
    \/ pc \in {"verdict", "accept"} /\ d = <<"OK", "MOTD">> /\ u = <<>>
    \/ pc = "proof" /\ d = <<"AUTH_OK", "OK", "MOTD">> /\ u = <<>>
    \/ pc = "motd" /\ d = <<"MOTD">> /\ u = <<>>
    \/ Welcomed(pc, u, d)
Closed(pc, d) ==
    \/ pc = "verdict" /\ d \in {<<"OK">>, <<"ERROR">>, <<"AUTH_FAILED">>}
    \/ pc = "proof" /\ d \in {<<"AUTH_FAILED">>, <<"AUTH_OK", "ERROR">>, <<"AUTH_OK", "OK">>}
    \/ pc = "accept" /\ d \in {<<"OK">>, <<"ERROR">>}
    \/ pc \in {"motd", "send"} /\ d = <<>>
    \/ pc = "outcome" /\ d \in {<<>>, <<"SUCCESS">>, <<"ERROR">>}

(* The child's position tells which of them holds; greets and auth are the *)
(* server's: it is a daemon, its module has users.                         *)
Following(greets, auth, pc, q, u, d) ==
    /\ q = "config" \/ q \in Before => Silent(pc, d)
    /\ q = "response" => Asked(pc, u, d)
    /\ q \in Failing => Failed(pc, d)
    /\ q \in Resetting => Proved(pc, d)
    /\ q \in Admitting => IF auth THEN Proved(pc, d) ELSE Silent(pc, d)
    /\ q \in {"gates", "prepare"} => Accepted(pc, u, d, greets)
    /\ q = "serve" => IF greets THEN Greeted(pc, u, d) ELSE Accepted(pc, u, d, FALSE)
    /\ q = "closed" => Closed(pc, d)

(* The two ends of one connection, and the link l between them. *)
Gone == {"done", "stalled"}
LinkOK(l) == DOMAIN l = {"up", "down", "broken"} /\ l.down \in Seq(Frames) /\ l.broken \in BOOLEAN
Ends(pc, q, l) ==
    /\ pc \in ClientPcs /\ q \in ChildPcs
    /\ IF q = "none" THEN pc \in Unconnected \cup {"done"} /\ l.up = <<>> /\ l.broken = FALSE
       ELSE pc \notin Unconnected
    /\ l.broken = TRUE \/ q = "none" => l.down = <<>>
    /\ l.broken = FALSE /\ pc = "done" =>
         q \in {"none", "response", "closed"} \cup Failing /\ (q = "response" => l.up = <<>>)
Upward(secret, q, u) ==
    /\ q \in Before \cup Failing \cup Resetting \cup Admitting => u = <<>>
    /\ q = "config" => u \in {<<>>, <<"config">>}
    /\ q = "response" => u \in {<<>>, <<secret>>}
LoneTerminal(d) == \A i, j \in DOMAIN d : {d[i], d[j]} \subseteq Terminal => i = j
NoTerminal(d) == \A i \in DOMAIN d : d[i] \notin Terminal
Terminals(q, d) == LoneTerminal(d) /\ (q \notin Failing \cup {"closed"} => NoTerminal(d))
Wire(greets, auth, secret, pc, q, l) ==
    /\ LinkOK(l) /\ Ends(pc, q, l) /\ Upward(secret, q, l.up) /\ Terminals(q, l.down)
    /\ l.broken = FALSE /\ q # "none" /\ pc \notin Gone => Following(greets, auth, pc, q, l.up, l.down)

(* The exit code n and what became of the transfer, s; local and batch are *)
(* the client's: it opens no connection, it writes a batch.                *)
Codes(local, batch, pc, q, l, n, s) ==
    /\ s \in {"no", "stored", "failed"} /\ (s # "no" => q = "closed")
    /\ n = 0 => pc = "done" /\ (local \/ s = "stored")
    /\ \A i \in DOMAIN l.down : l.down[i] = "SUCCESS" => s = "stored"
    /\ s = "stored" /\ l.broken = FALSE =>
         \/ pc = "stalled" \/ (pc = "outcome" /\ l.down = <<"SUCCESS">>)
         \/ pc = "done" /\ (n = 0 \/ batch)

(* The configuration r that the child works with, once its gate has let cf *)
(* pass; sv is the server, peer what it sees of the client.                *)
Gated(sv, peer, cf, r) ==
    /\ r.super_mode # "OFF" =>
         ~sv.no_super /\ (IF sv.kind = "daemon" THEN sv.module.client_owner
                          ELSE ~sv.root \/ sv.allow_super)
    /\ "copy_as_set" \in r.on => sv.root /\ r.super_mode # "OFF"
    /\ IF sv.kind = "daemon"
       THEN /\ cf.module # "none"
            /\ sv.module.read_only => "dry_run" \in cf.on
            /\ peer.source \notin sv.acl.deny \cup sv.module.acl.deny
       ELSE cf.module = "none"
    /\ r.on \cup Deletions = Received(cf).on \cup Deletions /\ r.on \subseteq Received(cf).on
Authenticates(sv) == sv.kind = "daemon" /\ sv.module.auth
Proven(peer, cf) == peer.secret = "right" /\ "auth_user" \in cf.on
LoggingIn == {"response"} \cup (Before \ {"gate"}) \cup Failing \cup Resetting
LoggedIn == Resetting \cup Admitting \cup {"gates", "prepare", "serve"}
Policy(sv, peer, pc, q, cf, r) ==
    /\ pc = "connect" \/ q # "none" => DOMAIN cf = DOMAIN Defaults
    /\ q \in LoggingIn \cup LoggedIn \cup {"gate"} => DOMAIN r = DOMAIN Defaults
    /\ q = "gate" => r = Received(cf)
    /\ q \in LoggingIn \cup LoggedIn => Gated(sv, peer, cf, r)
    /\ q \in LoggingIn => Authenticates(sv)
    /\ q = "root" => sv.kind = "daemon"
    /\ q = "response" => "auth_user" \in cf.on
    /\ q \in LoggedIn /\ Authenticates(sv) => Proven(peer, cf)
    /\ q \in {"prepare", "serve"} /\ ~sv.allow_delete => r.on \cap {"use_delete", "force_delete"} = {}
    /\ q = "serve" /\ ~sv.allow_delete => r.on \cap Deletions = {}

(* The inductive invariant. *)
WireOK(c) ==
    Wire(server.kind = "daemon", Authenticates(server), Peer(c).secret, client[c], child[c], link[c])
CodeOK(c) ==
    Codes(LocalRun(conf[c]), "write_batch" \in conf[c].on, client[c], child[c], link[c], code[c], served[c])
PolicyOK(c) == Policy(server, Peer(c), client[c], child[c], conf[c], sconf[c])
Tables ==
    /\ DOMAIN client = Conns /\ DOMAIN conf = Conns /\ DOMAIN code = Conns /\ DOMAIN child = Conns
    /\ DOMAIN sconf = Conns /\ DOMAIN link = Conns /\ DOMAIN served = Conns
VerdictInv ==
    /\ scene \in Scenes /\ Tables
    /\ \A c \in Conns :
          WireOK(c) /\ CodeOK(c) /\ PolicyOK(c) /\ (served[c] # "no" => WithinPolicy(c))

(* Sequences are equal when their elements are. *)
LEMMA SameFrames ==
    ASSUME NEW S, NEW s \in Seq(S), NEW t \in Seq(S), Len(s) = Len(t), \A i \in 1..Len(s) : s[i] = t[i]
    PROVE  s = t
BY SMTT(60)

(* Sequences of a few frames. *)
LEMMA TwoFrames ==
    ASSUME NEW a, NEW f
    PROVE  Append(<<a>>, f) = <<a, f>>
<1> DEFINE S == {a, f}
<1>1. <<a>> \in Seq(S) /\ <<a, f>> \in Seq(S) /\ f \in S
  BY SMTT(60)
<1>2. /\ Append(<<a>>, f) \in Seq(S) /\ Len(Append(<<a>>, f)) = 2
      /\ Append(<<a>>, f)[1] = a /\ Append(<<a>>, f)[2] = f
  BY <1>1, SMTT(60)
<1>   Len(<<a, f>>) = 2 /\ <<a, f>>[1] = a /\ <<a, f>>[2] = f /\ \A i \in 1..2 : i = 1 \/ i = 2
  BY SMTT(60)
<1>   \A i \in 1..2 : Append(<<a>>, f)[i] = <<a, f>>[i]
  BY <1>2
<1> HIDE DEF S
<1> QED
  BY <1>1, <1>2, SameFrames
(* A third frame. *)
LEMMA ThreeFrames ==
    ASSUME NEW a, NEW b, NEW f
    PROVE  Append(<<a, b>>, f) = <<a, b, f>>
<1> DEFINE S == {a, b, f}
<1>1. <<a, b>> \in Seq(S) /\ <<a, b, f>> \in Seq(S) /\ f \in S
  BY SMTT(60)
<1>2. /\ Append(<<a, b>>, f) \in Seq(S) /\ Len(Append(<<a, b>>, f)) = 3
      /\ Append(<<a, b>>, f)[1] = a /\ Append(<<a, b>>, f)[2] = b /\ Append(<<a, b>>, f)[3] = f
  BY <1>1, SMTT(60)
<1>   /\ Len(<<a, b, f>>) = 3 /\ <<a, b, f>>[1] = a /\ <<a, b, f>>[2] = b /\ <<a, b, f>>[3] = f
      /\ \A i \in 1..3 : i = 1 \/ i = 2 \/ i = 3
  BY SMTT(60)
<1>   \A i \in 1..3 : Append(<<a, b>>, f)[i] = <<a, b, f>>[i]
  BY <1>2
<1> HIDE DEF S
<1> QED
  BY <1>1, <1>2, SameFrames
(* Reading the first of three. *)
LEMMA ThreeRead ==
    ASSUME NEW a, NEW b, NEW f
    PROVE  Head(<<a, b, f>>) = a /\ Tail(<<a, b, f>>) = <<b, f>>
BY SMTT(60)
(* Writing and reading up to two. *)
LEMMA FewFrames ==
    ASSUME NEW a, NEW f
    PROVE  /\ Append(<<>>, f) = <<f>> /\ Append(<<a>>, f) = <<a, f>>
           /\ Head(<<f>>) = f /\ Head(<<a, f>>) = a
           /\ Tail(<<f>>) = <<>> /\ Tail(<<a, f>>) = <<f>>
           /\ <<f>> # <<>>
<1>1. Append(<<>>, f) = <<f>>
  BY SMTT(60)
<1>2. Append(<<a>>, f) = <<a, f>>
  BY TwoFrames
<1>3. Head(<<f>>) = f /\ Head(<<a, f>>) = a
  BY SMTT(60)
<1>4. Tail(<<f>>) = <<>> /\ Tail(<<a, f>>) = <<f>>
  BY SMTT(60)
<1>   <<f>> # <<>>
  BY SMTT(60)
<1> QED
  BY <1>1, <1>2, <1>3, <1>4

(* What a frame from the child does to what the client has to read: the    *)
(* refusals, the challenge, the two answers to the proof, the acceptance,  *)
(* the greeting and the status of the transfer.                            *)
LEMMA Refusals ==
    ASSUME NEW pc, NEW d, Silent(pc, d) \/ Proved(pc, d)
    PROVE  Closed(pc, Append(d, "ERROR"))
<1>1. CASE d = <<>> /\ pc \in {"verdict", "accept"}
  BY <1>1, FewFrames DEF Closed
<1>2. CASE d = <<"AUTH_OK">> /\ pc = "proof"
  <2>   Append(d, "ERROR") = <<"AUTH_OK", "ERROR">>
    BY <1>2, FewFrames
  <2> QED
    BY <1>2 DEF Closed
<1> QED
  BY <1>1, <1>2 DEF Silent, Proved
(* An authentication that fails at once, or asks. *)
LEMMA Challenges ==
    ASSUME NEW pc, NEW d, Silent(pc, d)
    PROVE  Failed(pc, Append(d, "AUTH_FAILED")) /\ Asked(pc, <<>>, Append(d, "AUTH_CHALLENGE"))
BY FewFrames DEF Silent, Failed, Asked
(* The answer to a proof. *)
LEMMA Answers ==
    ASSUME NEW pc, NEW u, NEW d, Asked(pc, u, d), u # <<>>
    PROVE  Failed(pc, Append(d, "AUTH_FAILED")) /\ Proved(pc, Append(d, "AUTH_OK"))
BY FewFrames DEF Asked, Failed, Proved
(* The acceptance. *)
LEMMA Acceptance ==
    ASSUME NEW pc, NEW d, NEW greets, Silent(pc, d) \/ Proved(pc, d)
    PROVE  Accepted(pc, <<>>, Append(d, "OK"), greets)
<1>1. CASE d = <<>> /\ pc \in {"verdict", "accept"}
  BY <1>1, FewFrames DEF Accepted
<1>2. CASE d = <<"AUTH_OK">> /\ pc = "proof"
  <2>   Append(d, "OK") = <<"AUTH_OK", "OK">>
    BY <1>2, FewFrames
  <2> QED
    BY <1>2 DEF Accepted
<1> QED
  BY <1>1, <1>2 DEF Silent, Proved
(* The greeting. *)
LEMMA Greeting ==
    ASSUME NEW pc, NEW u, NEW d, Accepted(pc, u, d, TRUE)
    PROVE  Greeted(pc, u, Append(d, "MOTD"))
<1>1. CASE pc \in {"verdict", "accept"} /\ d = <<"OK">> /\ u = <<>>
  <2>   Append(d, "MOTD") = <<"OK", "MOTD">>
    BY <1>1, FewFrames
  <2> QED
    BY <1>1 DEF Greeted
<1>2. CASE pc = "proof" /\ d = <<"AUTH_OK", "OK">> /\ u = <<>>
  <2>   Append(<<"AUTH_OK", "OK">>, "MOTD") = <<"AUTH_OK", "OK", "MOTD">>
    BY ThreeFrames
  <2> QED
    BY <1>2 DEF Greeted
<1>3. CASE pc = "motd" /\ d = <<>> /\ u = <<>>
  BY <1>3, FewFrames DEF Greeted
<1> QED
  BY <1>1, <1>2, <1>3 DEF Accepted
(* The status of a transfer. *)
LEMMA Statuses ==
    ASSUME NEW pc, NEW u, NEW d, Accepted(pc, u, d, FALSE) \/ Greeted(pc, u, d), u # <<>>
    PROVE  /\ pc = "outcome" /\ d = <<>>
           /\ Closed(pc, Append(d, "SUCCESS")) /\ Closed(pc, Append(d, "ERROR"))
           /\ Append(d, "SUCCESS") = <<"SUCCESS">>
BY FewFrames DEF Accepted, Greeted, Welcomed, Closed

(* A child that closes the connection without a word. *)
LEMMA Closings ==
    ASSUME NEW pc, NEW u, NEW d, NEW greets, Accepted(pc, u, d, greets) \/ Failed(pc, d)
    PROVE  Closed(pc, d)
BY DEF Accepted, Failed, Closed, Welcomed

(* One frame more, one frame less. *)
LEMMA FrameAppended ==
    ASSUME NEW d \in Seq(Frames), NEW f \in Frames
    PROVE  /\ Append(d, f) \in Seq(Frames)
           /\ NoTerminal(d) => LoneTerminal(Append(d, f)) /\ (f \notin Terminal => NoTerminal(Append(d, f)))
           /\ \A i \in DOMAIN Append(d, f) : Append(d, f)[i] = f \/ \E j \in DOMAIN d : Append(d, f)[i] = d[j]
<1>   /\ Append(d, f) \in Seq(Frames) /\ Len(Append(d, f)) = Len(d) + 1 /\ Len(d) \in Nat
      /\ Append(d, f)[Len(d) + 1] = f /\ \A i \in 1..Len(d) : Append(d, f)[i] = d[i]
  BY SMTT(60)
<1>2. DOMAIN Append(d, f) = 1..(Len(d) + 1) /\ DOMAIN d = 1..Len(d)
  BY SMTT(60)
<1>3. \A i \in DOMAIN Append(d, f) : i = Len(d) + 1 \/ i \in DOMAIN d
  BY <1>2, SMTT(60)
<1>   \A i \in DOMAIN d : Append(d, f)[i] = d[i]
  BY <1>2
<1> QED
  BY <1>3 DEF NoTerminal, LoneTerminal
Extends(d2, d, f) == \A i \in DOMAIN d2 : d2[i] = f \/ \E j \in DOMAIN d : d2[i] = d[j]
(* A written frame is the new one or was there. *)
LEMMA FrameOrigins ==
    ASSUME NEW d \in Seq(Frames), NEW f \in Frames
    PROVE  Extends(Append(d, f), d, f)
BY FrameAppended DEF Extends
(* Reading takes nothing but the first frame. *)
LEMMA FrameRead ==
    ASSUME NEW d \in Seq(Frames), d # <<>>
    PROVE  /\ Tail(d) \in Seq(Frames) /\ Head(d) \in Frames
           /\ LoneTerminal(d) => LoneTerminal(Tail(d))
           /\ NoTerminal(d) => NoTerminal(Tail(d))
           /\ \A i \in DOMAIN Tail(d) : \E j \in DOMAIN d : Tail(d)[i] = d[j]
<1>   /\ Tail(d) \in Seq(Frames) /\ Head(d) \in Frames
      /\ \A i \in DOMAIN Tail(d) : i \in Nat /\ i + 1 \in DOMAIN d /\ Tail(d)[i] = d[i + 1]
  BY SMTT(60)
<1>2. ASSUME LoneTerminal(d), NEW i \in DOMAIN Tail(d), NEW j \in DOMAIN Tail(d),
             {Tail(d)[i], Tail(d)[j]} \subseteq Terminal
      PROVE  i = j
  <2>   i + 1 = j + 1
    BY <1>2 DEF LoneTerminal
  <2> QED
    BY SMTT(60)
<1> QED
  BY <1>2 DEF NoTerminal, LoneTerminal

Remains(d2, d) == \A i \in DOMAIN d2 : \E j \in DOMAIN d : d2[i] = d[j]
(* What is left to read was there. *)
LEMMA FrameRemains ==
    ASSUME NEW d \in Seq(Frames), d # <<>>
    PROVE  Remains(Tail(d), d)
BY FrameRead DEF Remains
---------------------------------------------------------------------------
(* The child's steps on the wire.  The link after it took a frame, after   *)
(* it sent one, and after both.                                            *)
Took(l) == [l EXCEPT !.up = Tail(@)]
Sent(l, f) == [l EXCEPT !.down = Wired(l, Append(@, f))]
Replied(l, f) == [l EXCEPT !.up = Tail(@), !.down = Wired(l, Append(@, f))]

(* The three of them, by members. *)
Delivered(l2, l, f) ==
    /\ LinkOK(l2) /\ l2.broken = l.broken /\ (l.broken = TRUE => l2.down = <<>>)
    /\ l.broken = FALSE => l2.down = Append(l.down, f)
(* The child has read a frame. *)
LEMMA LinkTook ==
    ASSUME NEW l, LinkOK(l)
    PROVE  /\ LinkOK(Took(l)) /\ Took(l).broken = l.broken
           /\ Took(l).down = l.down /\ Took(l).up = Tail(l.up)
BY DEF Took, LinkOK
(* The child has sent one. *)
LEMMA LinkSent ==
    ASSUME NEW l, LinkOK(l), NEW f \in Frames
    PROVE  Delivered(Sent(l, f), l, f) /\ Sent(l, f).up = l.up
<1>   <<>> \in Seq(Frames) /\ Append(l.down, f) \in Seq(Frames)
  BY FrameAppended, SMTT(60) DEF LinkOK
<1> QED
  BY DEF Sent, LinkOK, Wired, Delivered
(* The child has read one and sent one. *)
LEMMA LinkReplied ==
    ASSUME NEW l, LinkOK(l), NEW f \in Frames
    PROVE  Delivered(Replied(l, f), l, f) /\ Replied(l, f).up = Tail(l.up)
<1>   <<>> \in Seq(Frames) /\ Append(l.down, f) \in Seq(Frames)
  BY FrameAppended, SMTT(60) DEF LinkOK
<1> QED
  BY DEF Replied, LinkOK, Wired, Delivered

(* A child's step from q to q2 keeps the wire in order when it keeps the   *)
(* client in step, and the client, if it has gone, had reason to.          *)
InOrder(greets, auth, secret, pc, q2, l2) ==
    /\ q2 \in ChildPcs \ {"none"} /\ LinkOK(l2) /\ Upward(secret, q2, l2.up) /\ Terminals(q2, l2.down)
    /\ l2.broken = TRUE => l2.down = <<>>
    /\ l2.broken = FALSE /\ pc = "done" =>
         q2 \in {"response", "closed"} \cup Failing /\ (q2 = "response" => l2.up = <<>>)
    /\ l2.broken = FALSE /\ pc \notin Gone => Following(greets, auth, pc, q2, l2.up, l2.down)
(* The wire is in order after such a step. *)
LEMMA ChildTurns ==
    ASSUME NEW greets, NEW auth, NEW secret, NEW pc, NEW q, NEW l,
           Wire(greets, auth, secret, pc, q, l), q # "none",
           NEW q2, NEW l2, InOrder(greets, auth, secret, pc, q2, l2)
    PROVE  Wire(greets, auth, secret, pc, q2, l2)
BY DEF Wire, Ends, InOrder

(* The terminal frames after a child has sent one. *)
LEMMA TerminalsSent ==
    ASSUME NEW l, LinkOK(l), NoTerminal(l.down), NEW f \in Frames, NEW q2,
           f \in Terminal => q2 \in Failing \cup {"closed"},
           NEW l2, Delivered(l2, l, f)
    PROVE  Terminals(q2, l2.down)
<1>1. CASE l.broken = TRUE
  <2>   l2.down = <<>> /\ DOMAIN <<>> = {}
    BY <1>1, SMTT(60) DEF Delivered
  <2> QED
    BY DEF Terminals, LoneTerminal, NoTerminal
<1>2. CASE l.broken = FALSE
  <2>1. l2.down = Append(l.down, f) /\ l.down \in Seq(Frames)
    BY <1>2 DEF Delivered, LinkOK
  <2>   LoneTerminal(l2.down) /\ (f \notin Terminal => NoTerminal(l2.down))
    BY <2>1, FrameAppended
  <2> QED
    BY DEF Terminals
<1> QED
  BY <1>1, <1>2 DEF LinkOK

(* The steps that send and take nothing. *)
Onward(greets, auth, pc, l, q, q2) ==
    \/ q \in Before /\ q2 \in Before
    \/ q \in Before /\ q2 \in Admitting /\ auth = FALSE
    \/ q \in Resetting /\ q2 \in Resetting
    \/ q \in Resetting /\ q2 \in Admitting /\ auth = TRUE
    \/ q \in Admitting /\ q2 \in Admitting
    \/ q \in {"gates", "prepare"} /\ q2 \in {"prepare", "closed"}
    \/ q = "prepare" /\ q2 = "serve" /\ greets = FALSE
    \/ q \in {"config", "serve"} /\ q2 = "closed" /\ (pc \in Gone \/ l.broken = TRUE)
(* A child that moves on in silence. *)
LEMMA MoveKeeps ==
    ASSUME NEW greets, NEW auth, NEW secret, NEW pc, NEW q, NEW l,
           Wire(greets, auth, secret, pc, q, l), NEW q2,
           Onward(greets, auth, pc, l, q, q2)
    PROVE  Wire(greets, auth, secret, pc, q2, l)
<1>1. /\ q \notin {"none", "closed"} \cup Failing /\ q2 \in ChildPcs \ {"none"}
      /\ q # "response" /\ q2 \notin {"response", "config"} \cup Failing
  BY DEF Onward, Before, Failing, Resetting, Admitting, ChildPcs
<1>2. /\ LinkOK(l) /\ NoTerminal(l.down) /\ Upward(secret, q, l.up)
      /\ l.broken = TRUE => l.down = <<>>
      /\ l.broken = FALSE => pc # "done"
      /\ l.broken = FALSE /\ pc \notin Gone => Following(greets, auth, pc, q, l.up, l.down)
  BY <1>1 DEF Wire, Ends, Terminals
<1>3. Terminals(q2, l.down)
  BY <1>2 DEF Wire, Terminals
<1>4. Upward(secret, q2, l.up)
  <2>   q2 \in Before \cup Resetting \cup Admitting => q \in Before \cup Resetting \cup Admitting
    BY DEF Onward, Before, Resetting, Admitting
  <2> QED
    BY <1>1, <1>2 DEF Upward
<1>5. ASSUME l.broken = FALSE, pc \notin Gone
      PROVE  Following(greets, auth, pc, q2, l.up, l.down)
  <2>1. Following(greets, auth, pc, q, l.up, l.down)
    BY <1>2, <1>5
  <2>2. CASE q \in Before /\ (q2 \in Before \/ (q2 \in Admitting /\ auth = FALSE))
    <3>1. Silent(pc, l.down)
      BY <2>1, <2>2 DEF Following
    <3>   /\ q2 \notin {"response", "gates", "prepare", "serve", "closed"} \cup Failing \cup Resetting
          /\ q2 \in Admitting => auth = FALSE
      BY <2>2 DEF Before, Admitting, Failing, Resetting
    <3> QED
      BY <2>2, <3>1 DEF Following
  <2>3. CASE q \in Resetting /\ (q2 \in Resetting \/ (q2 \in Admitting /\ auth = TRUE))
    <3>1. Proved(pc, l.down)
      BY <2>1, <2>3 DEF Following
    <3>   /\ q2 \notin {"config", "response", "gates", "prepare", "serve", "closed"} \cup Failing \cup Before
          /\ q2 \in Admitting => auth = TRUE
      BY <2>3 DEF Before, Admitting, Failing, Resetting
    <3> QED
      BY <2>3, <3>1 DEF Following
  <2>4. CASE q \in Admitting /\ q2 \in Admitting
    <3>1. IF auth THEN Proved(pc, l.down) ELSE Silent(pc, l.down)
      BY <2>1, <2>4 DEF Following
    <3>   q2 \notin {"config", "response", "gates", "prepare", "serve", "closed"}
                    \cup Failing \cup Before \cup Resetting
      BY <2>4 DEF Before, Admitting, Failing, Resetting
    <3> QED
      BY <2>4, <3>1 DEF Following
  <2>5. CASE q \in {"gates", "prepare"} /\ q2 \in {"prepare", "closed"}
    <3>1. Accepted(pc, l.up, l.down, greets)
      BY <2>1, <2>5 DEF Following
    <3>2. Closed(pc, l.down)
      BY <3>1, Closings
    <3>   q2 \notin {"config", "response", "gates", "serve"} \cup Failing \cup Before \cup Resetting \cup Admitting
      BY <2>5 DEF Before, Admitting, Failing, Resetting
    <3> QED
      BY <2>5, <3>1, <3>2 DEF Following
  <2>6. CASE q = "prepare" /\ q2 = "serve" /\ greets = FALSE
    <3>1. Accepted(pc, l.up, l.down, FALSE)
      BY <2>1, <2>6 DEF Following
    <3>   q2 \notin {"config", "response", "gates", "prepare", "closed"}
                    \cup Failing \cup Before \cup Resetting \cup Admitting
      BY <2>6 DEF Before, Admitting, Failing, Resetting
    <3> QED
      BY <2>6, <3>1 DEF Following
  <2> QED
    BY <1>5, <2>2, <2>3, <2>4, <2>5, <2>6 DEF Onward
<1>6. InOrder(greets, auth, secret, pc, q2, l)
  BY <1>1, <1>2, <1>3, <1>4, <1>5 DEF InOrder
<1>   q # "none"
  BY <1>1
<1> QED
  BY <1>6, ChildTurns

(* The steps of a child whose authentication has failed. *)
LEMMA FailingKeeps ==
    ASSUME NEW greets, NEW auth, NEW secret, NEW pc, NEW q \in Failing, NEW l,
           Wire(greets, auth, secret, pc, q, l), NEW q2 \in Failing \cup {"closed"}
    PROVE  Wire(greets, auth, secret, pc, q2, l)
<1>1. /\ q # "none" /\ q2 \in ChildPcs \ {"none"}
      /\ q2 \notin {"config", "response", "gates", "prepare", "serve"} \cup Before \cup Resetting \cup Admitting
      /\ q \notin {"config", "response", "gates", "prepare", "serve", "closed"} \cup Before
                  \cup Resetting \cup Admitting
      /\ q2 = "closed" => q2 \notin Failing
  BY DEF Before, Failing, Resetting, Admitting, ChildPcs
<1>2. ASSUME l.broken = FALSE, pc \notin Gone
      PROVE  Following(greets, auth, pc, q2, l.up, l.down)
  <2>   Failed(pc, l.down)
    BY <1>1, <1>2 DEF Wire, Following
  <2>   Closed(pc, l.down)
    BY Closings
  <2> QED
    BY <1>1 DEF Following
<1>   InOrder(greets, auth, secret, pc, q2, l)
  BY <1>1, <1>2 DEF InOrder, Wire, Ends, Upward, Terminals
<1> QED
  BY <1>1, ChildTurns

(* A refusal that is sent: ERROR, and the connection closed. *)
LEMMA RefuseKeeps ==
    ASSUME NEW greets, NEW auth, NEW secret, NEW pc, NEW q \in Before \cup Admitting, NEW l,
           Wire(greets, auth, secret, pc, q, l)
    PROVE  Wire(greets, auth, secret, pc, "closed", Sent(l, "ERROR"))
<1>1. /\ q \notin {"none", "closed", "response", "config"} \cup Failing
      /\ "closed" \notin {"none", "response", "config"} \cup Before \cup Failing \cup Resetting \cup Admitting
      /\ "closed" \in ChildPcs /\ "ERROR" \in Frames /\ "closed" \notin {"gates", "prepare"}
  BY DEF Before, Failing, Resetting, Admitting, ChildPcs, Frames
<1>2. /\ LinkOK(l) /\ NoTerminal(l.down)
      /\ l.broken = FALSE => pc # "done"
      /\ l.broken = FALSE /\ pc \notin Gone => Following(greets, auth, pc, q, l.up, l.down)
  BY <1>1 DEF Wire, Ends, Terminals
<1>3. Delivered(Sent(l, "ERROR"), l, "ERROR")
  BY <1>1, <1>2, LinkSent
<1>4. Terminals("closed", Sent(l, "ERROR").down)
  BY <1>1, <1>2, <1>3, TerminalsSent
<1>5. ASSUME l.broken = FALSE, pc \notin Gone
      PROVE  Following(greets, auth, pc, "closed", Sent(l, "ERROR").up, Sent(l, "ERROR").down)
  <2>1. Silent(pc, l.down) \/ Proved(pc, l.down)
    BY <1>2, <1>5 DEF Following
  <2>   Closed(pc, Sent(l, "ERROR").down)
    BY <1>3, <1>5, <2>1, Refusals DEF Delivered
  <2> QED
    BY <1>1 DEF Following
<1>   InOrder(greets, auth, secret, pc, "closed", Sent(l, "ERROR"))
  BY <1>1, <1>2, <1>3, <1>4, <1>5 DEF InOrder, Delivered, Upward
<1> QED
  BY <1>1, ChildTurns

(* The configuration arrives: it is taken, or answered with ERROR. *)
LEMMA ReceiveKeeps ==
    ASSUME NEW greets, NEW auth, NEW secret, NEW pc, NEW l,
           Wire(greets, auth, secret, pc, "config", l), l.up # <<>>
    PROVE  /\ Wire(greets, auth, secret, pc, "gate", Took(l))
           /\ Wire(greets, auth, secret, pc, "closed", Replied(l, "ERROR"))
<1>1. /\ "config" \notin {"none", "closed", "response", "gates", "prepare", "serve"}
                         \cup Failing \cup Before \cup Resetting \cup Admitting
      /\ "gate" \notin {"none", "closed", "response", "config", "gates", "prepare", "serve"}
                       \cup Failing \cup Resetting \cup Admitting
      /\ "closed" \notin {"none", "response", "config", "gates", "prepare", "serve"}
                         \cup Before \cup Failing \cup Resetting \cup Admitting
      /\ "closed" \in ChildPcs /\ "gate" \in ChildPcs /\ "gate" \in Before /\ "ERROR" \in Frames
  BY DEF Before, Failing, Resetting, Admitting, ChildPcs, Frames
<1>2. /\ LinkOK(l) /\ NoTerminal(l.down) /\ (l.broken = TRUE => l.down = <<>>)
      /\ l.broken = FALSE => pc # "done"
      /\ l.broken = FALSE /\ pc \notin Gone => Silent(pc, l.down)
  BY <1>1 DEF Wire, Ends, Terminals, Following
<1>3. Tail(l.up) = <<>>
  BY FewFrames DEF Wire, Upward
<1>4. Wire(greets, auth, secret, pc, "gate", Took(l))
  <2>1. /\ LinkOK(Took(l)) /\ Took(l).broken = l.broken
        /\ Took(l).down = l.down /\ Took(l).up = <<>>
    BY <1>2, <1>3, LinkTook
  <2>2. l.broken = FALSE /\ pc \notin Gone => Following(greets, auth, pc, "gate", Took(l).up, Took(l).down)
    BY <1>1, <1>2, <2>1 DEF Following
  <2>3. Terminals("gate", Took(l).down)
    BY <1>2, <2>1 DEF Wire, Terminals
  <2>   InOrder(greets, auth, secret, pc, "gate", Took(l))
    BY <1>1, <1>2, <2>1, <2>2, <2>3 DEF InOrder, Upward
  <2> QED
    BY <1>1, ChildTurns
<1>   Wire(greets, auth, secret, pc, "closed", Replied(l, "ERROR"))
  <2>1. Delivered(Replied(l, "ERROR"), l, "ERROR")
    BY <1>1, <1>2, LinkReplied
  <2>2. Terminals("closed", Replied(l, "ERROR").down)
    BY <1>1, <1>2, <2>1, TerminalsSent
  <2>3. l.broken = FALSE /\ pc \notin Gone
           => Following(greets, auth, pc, "closed", Replied(l, "ERROR").up, Replied(l, "ERROR").down)
    BY <1>1, <1>2, <2>1, Refusals DEF Following, Delivered
  <2>   InOrder(greets, auth, secret, pc, "closed", Replied(l, "ERROR"))
    BY <1>1, <1>2, <2>1, <2>2, <2>3 DEF InOrder, Upward, Delivered
  <2> QED
    BY <1>1, ChildTurns
<1> QED
  BY <1>4

(* The challenge, or the failure of a client that names no user. *)
LEMMA ChallengeKeeps ==
    ASSUME NEW greets, NEW auth, NEW secret, NEW pc, NEW l,
           Wire(greets, auth, secret, pc, "policy", l)
    PROVE  /\ Wire(greets, auth, secret, pc, "failed", Sent(l, "AUTH_FAILED"))
           /\ Wire(greets, auth, secret, pc, "response", Sent(l, "AUTH_CHALLENGE"))
<1>1. /\ "policy" \notin {"none", "closed", "config", "response", "gates", "prepare", "serve"}
                         \cup Failing \cup Resetting \cup Admitting
      /\ "policy" \in Before
      /\ "response" \notin {"none", "closed", "config", "gates", "prepare", "serve"}
                       \cup Before \cup Failing \cup Resetting \cup Admitting
      /\ "failed" \notin {"none", "closed", "response", "config", "gates", "prepare", "serve"}
                         \cup Before \cup Resetting \cup Admitting
      /\ "failed" \in ChildPcs /\ "response" \in ChildPcs /\ "failed" \in Failing
      /\ "AUTH_FAILED" \in Frames /\ "AUTH_CHALLENGE" \in Frames /\ "AUTH_CHALLENGE" \notin Terminal
  BY DEF Before, Failing, Resetting, Admitting, ChildPcs, Frames, Terminal
<1>2. /\ LinkOK(l) /\ NoTerminal(l.down) /\ l.up = <<>>
      /\ l.broken = FALSE => pc # "done"
      /\ l.broken = FALSE /\ pc \notin Gone => Silent(pc, l.down)
  BY <1>1 DEF Wire, Ends, Terminals, Following, Upward
<1>3. Wire(greets, auth, secret, pc, "failed", Sent(l, "AUTH_FAILED"))
  <2>1. Delivered(Sent(l, "AUTH_FAILED"), l, "AUTH_FAILED") /\ Sent(l, "AUTH_FAILED").up = <<>>
    BY <1>1, <1>2, LinkSent
  <2>2. Terminals("failed", Sent(l, "AUTH_FAILED").down)
    BY <1>1, <1>2, <2>1, TerminalsSent
  <2>3. l.broken = FALSE /\ pc \notin Gone
           => Following(greets, auth, pc, "failed", Sent(l, "AUTH_FAILED").up, Sent(l, "AUTH_FAILED").down)
    BY <1>1, <1>2, <2>1, Challenges DEF Following, Delivered
  <2>   InOrder(greets, auth, secret, pc, "failed", Sent(l, "AUTH_FAILED"))
    BY <1>1, <1>2, <2>1, <2>2, <2>3 DEF InOrder, Upward, Delivered
  <2> QED
    BY <1>1, ChildTurns
<1>   Wire(greets, auth, secret, pc, "response", Sent(l, "AUTH_CHALLENGE"))
  <2>1. Delivered(Sent(l, "AUTH_CHALLENGE"), l, "AUTH_CHALLENGE") /\ Sent(l, "AUTH_CHALLENGE").up = <<>>
    BY <1>1, <1>2, LinkSent
  <2>2. Terminals("response", Sent(l, "AUTH_CHALLENGE").down)
    BY <1>1, <1>2, <2>1, TerminalsSent
  <2>3. l.broken = FALSE /\ pc \notin Gone
           => Following(greets, auth, pc, "response", Sent(l, "AUTH_CHALLENGE").up, Sent(l, "AUTH_CHALLENGE").down)
    BY <1>1, <1>2, <2>1, Challenges DEF Following, Delivered
  <2>   InOrder(greets, auth, secret, pc, "response", Sent(l, "AUTH_CHALLENGE"))
    BY <1>1, <1>2, <2>1, <2>2, <2>3 DEF InOrder, Upward, Delivered
  <2> QED
    BY <1>1, ChildTurns
<1> QED
  BY <1>3

(* The proof: accepted, rejected, unanswered because the connection is     *)
(* gone, or missing.                                                       *)
LEMMA ResponseKeeps ==
    ASSUME NEW greets, NEW auth, NEW secret, NEW pc, NEW l,
           Wire(greets, auth, secret, pc, "response", l)
    PROVE  /\ l.up # <<>> => /\ Wire(greets, auth, secret, pc, "reset_fail", Replied(l, "AUTH_OK"))
                             /\ Wire(greets, auth, secret, pc, "failed", Replied(l, "AUTH_FAILED"))
           /\ l.up # <<>> /\ l.broken = TRUE => Wire(greets, auth, secret, pc, "failed", Took(l))
           /\ l.up = <<>> /\ (pc \in Gone \/ l.broken = TRUE)
                => Wire(greets, auth, secret, pc, "failed", Sent(l, "AUTH_FAILED"))
<1>1. /\ "response" \notin {"none", "closed", "config", "gates", "prepare", "serve"}
                       \cup Before \cup Failing \cup Resetting \cup Admitting
      /\ "failed" \notin {"none", "closed", "response", "config", "gates", "prepare", "serve"}
                         \cup Before \cup Resetting \cup Admitting
      /\ "reset_fail" \notin {"none", "closed", "response", "config", "gates", "prepare", "serve"}
                         \cup Before \cup Failing \cup Admitting
      /\ "failed" \in ChildPcs /\ "failed" \in Failing /\ "reset_fail" \in ChildPcs /\ "reset_fail" \in Resetting
      /\ "AUTH_FAILED" \in Frames /\ "AUTH_OK" \in Frames /\ "AUTH_OK" \notin Terminal
  BY DEF Before, Failing, Resetting, Admitting, ChildPcs, Frames, Terminal
<1>2. /\ LinkOK(l) /\ NoTerminal(l.down) /\ (l.broken = TRUE => l.down = <<>>)
      /\ l.broken = FALSE /\ pc = "done" => l.up = <<>>
      /\ l.broken = FALSE /\ pc \notin Gone => Asked(pc, l.up, l.down)
      /\ l.up # <<>> => l.up = <<secret>>
  BY <1>1 DEF Wire, Ends, Terminals, Following, Upward
<1>3. l.up # <<>> => Tail(l.up) = <<>>
  BY <1>2, FewFrames
<1>4. ASSUME l.up # <<>> PROVE Wire(greets, auth, secret, pc, "reset_fail", Replied(l, "AUTH_OK"))
  <2>1. Delivered(Replied(l, "AUTH_OK"), l, "AUTH_OK") /\ Replied(l, "AUTH_OK").up = <<>>
    BY <1>1, <1>2, <1>3, <1>4, LinkReplied
  <2>2. Terminals("reset_fail", Replied(l, "AUTH_OK").down)
    BY <1>1, <1>2, <2>1, TerminalsSent
  <2>3. l.broken = FALSE /\ pc \notin Gone
           => Following(greets, auth, pc, "reset_fail", Replied(l, "AUTH_OK").up, Replied(l, "AUTH_OK").down)
    BY <1>1, <1>2, <1>4, <2>1, Answers DEF Following, Delivered
  <2>   InOrder(greets, auth, secret, pc, "reset_fail", Replied(l, "AUTH_OK"))
    BY <1>1, <1>2, <1>4, <2>1, <2>2, <2>3 DEF InOrder, Upward, Delivered
  <2> QED
    BY <1>1, ChildTurns
<1>5. ASSUME l.up # <<>> PROVE Wire(greets, auth, secret, pc, "failed", Replied(l, "AUTH_FAILED"))
  <2>1. Delivered(Replied(l, "AUTH_FAILED"), l, "AUTH_FAILED") /\ Replied(l, "AUTH_FAILED").up = <<>>
    BY <1>1, <1>2, <1>3, <1>5, LinkReplied
  <2>2. Terminals("failed", Replied(l, "AUTH_FAILED").down)
    BY <1>1, <1>2, <2>1, TerminalsSent
  <2>3. l.broken = FALSE /\ pc \notin Gone
           => Following(greets, auth, pc, "failed", Replied(l, "AUTH_FAILED").up, Replied(l, "AUTH_FAILED").down)
    BY <1>1, <1>2, <1>5, <2>1, Answers DEF Following, Delivered
  <2>   InOrder(greets, auth, secret, pc, "failed", Replied(l, "AUTH_FAILED"))
    BY <1>1, <1>2, <1>5, <2>1, <2>2, <2>3 DEF InOrder, Upward, Delivered
  <2> QED
    BY <1>1, ChildTurns
<1>6. ASSUME l.up # <<>>, l.broken = TRUE PROVE Wire(greets, auth, secret, pc, "failed", Took(l))
  <2>1. /\ LinkOK(Took(l)) /\ Took(l).broken = TRUE
        /\ Took(l).down = <<>> /\ Took(l).up = <<>>
    BY <1>2, <1>3, <1>6, LinkTook
  <2>2. Terminals("failed", Took(l).down)
    BY <1>2, <1>6, <2>1 DEF Wire, Terminals
  <2>3. TRUE # FALSE
    OBVIOUS
  <2>   InOrder(greets, auth, secret, pc, "failed", Took(l))
    BY <1>1, <2>1, <2>2, <2>3 DEF InOrder, Upward
  <2> QED
    BY <1>1, ChildTurns
<1>7. ASSUME l.up = <<>>, pc \in Gone \/ l.broken = TRUE
      PROVE  Wire(greets, auth, secret, pc, "failed", Sent(l, "AUTH_FAILED"))
  <2>1. Delivered(Sent(l, "AUTH_FAILED"), l, "AUTH_FAILED") /\ Sent(l, "AUTH_FAILED").up = <<>>
    BY <1>1, <1>2, <1>7, LinkSent
  <2>2. Terminals("failed", Sent(l, "AUTH_FAILED").down)
    BY <1>1, <1>2, <2>1, TerminalsSent
  <2>3. l.broken = FALSE => pc \in Gone
    BY <1>7
  <2>   InOrder(greets, auth, secret, pc, "failed", Sent(l, "AUTH_FAILED"))
    BY <1>1, <2>1, <2>2, <2>3 DEF InOrder, Upward, Delivered
  <2> QED
    BY <1>1, ChildTurns
<1> QED
  BY <1>4, <1>5, <1>6, <1>7

(* The status that accepts the connection. *)
LEMMA AcceptKeeps ==
    ASSUME NEW greets, NEW auth, NEW secret, NEW pc, NEW l,
           Wire(greets, auth, secret, pc, "accept", l)
    PROVE  Wire(greets, auth, secret, pc, "gates", Sent(l, "OK"))
<1>1. /\ "accept" \notin {"none", "closed", "config", "response", "gates", "prepare", "serve"}
                         \cup Before \cup Failing \cup Resetting
      /\ "accept" \in Admitting
      /\ "gates" \notin {"none", "closed", "response", "config", "serve"}
                       \cup Before \cup Failing \cup Resetting \cup Admitting
      /\ "gates" \in ChildPcs /\ "OK" \in Frames /\ "OK" \notin Terminal
  BY DEF Before, Failing, Resetting, Admitting, ChildPcs, Frames, Terminal
<1>2. /\ LinkOK(l) /\ NoTerminal(l.down) /\ l.up = <<>>
      /\ l.broken = FALSE => pc # "done"
      /\ l.broken = FALSE /\ pc \notin Gone => Silent(pc, l.down) \/ Proved(pc, l.down)
  BY <1>1 DEF Wire, Ends, Terminals, Following, Upward
<1>3. Delivered(Sent(l, "OK"), l, "OK") /\ Sent(l, "OK").up = <<>>
  BY <1>1, <1>2, LinkSent
<1>4. Terminals("gates", Sent(l, "OK").down)
  BY <1>1, <1>2, <1>3, TerminalsSent
<1>5. ASSUME l.broken = FALSE, pc \notin Gone
      PROVE  Following(greets, auth, pc, "gates", Sent(l, "OK").up, Sent(l, "OK").down)
  <2>1. Accepted(pc, <<>>, Append(l.down, "OK"), greets)
    BY <1>2, <1>5, Acceptance
  <2>   Accepted(pc, Sent(l, "OK").up, Sent(l, "OK").down, greets)
    BY <1>3, <1>5, <2>1 DEF Delivered
  <2> QED
    BY <1>1 DEF Following
<1>   InOrder(greets, auth, secret, pc, "gates", Sent(l, "OK"))
  BY <1>1, <1>2, <1>3, <1>4, <1>5 DEF InOrder, Upward, Delivered
<1> QED
  BY <1>1, ChildTurns

(* The greeting of a daemon. *)
LEMMA GreetKeeps ==
    ASSUME NEW auth, NEW secret, NEW pc, NEW l, Wire(TRUE, auth, secret, pc, "prepare", l)
    PROVE  Wire(TRUE, auth, secret, pc, "serve", Sent(l, "MOTD"))
<1>   /\ "prepare" \notin {"none", "closed", "config", "response", "serve"}
                          \cup Before \cup Failing \cup Resetting \cup Admitting
      /\ "serve" \notin {"none", "closed", "response", "config", "gates", "prepare"}
                        \cup Before \cup Failing \cup Resetting \cup Admitting
      /\ "serve" \in ChildPcs /\ "MOTD" \in Frames /\ "MOTD" \notin Terminal
  BY DEF Before, Failing, Resetting, Admitting, ChildPcs, Frames, Terminal
<1>2. /\ LinkOK(l) /\ NoTerminal(l.down)
      /\ l.broken = FALSE => pc # "done"
      /\ l.broken = FALSE /\ pc \notin Gone => Accepted(pc, l.up, l.down, TRUE)
  BY DEF Wire, Ends, Terminals, Following, Upward
<1>3. Delivered(Sent(l, "MOTD"), l, "MOTD") /\ Sent(l, "MOTD").up = l.up
  BY <1>2, LinkSent
<1>4. Terminals("serve", Sent(l, "MOTD").down)
  BY <1>2, <1>3, TerminalsSent
<1>5. l.broken = FALSE /\ pc \notin Gone
         => Following(TRUE, auth, pc, "serve", Sent(l, "MOTD").up, Sent(l, "MOTD").down)
  BY <1>2, <1>3, Greeting DEF Following, Delivered
<1>   InOrder(TRUE, auth, secret, pc, "serve", Sent(l, "MOTD"))
  BY <1>2, <1>3, <1>4, <1>5 DEF InOrder, Upward, Delivered
<1> QED
  BY ChildTurns

(* The status of the transfer.  The client has sent its files: it waits    *)
(* for this status and for nothing before it.                              *)
AwaitsStatus(pc, l, l2, f) ==
    l.broken = FALSE => pc = "stalled" \/ (pc = "outcome" /\ (f = "SUCCESS" => l2.down = <<"SUCCESS">>))
(* The wire after the status. *)
LEMMA ServeKeeps ==
    ASSUME NEW greets \in BOOLEAN, NEW auth, NEW secret, NEW pc, NEW l,
           Wire(greets, auth, secret, pc, "serve", l), l.up # <<>>, NEW f \in {"SUCCESS", "ERROR"}
    PROVE  /\ Wire(greets, auth, secret, pc, "closed", Replied(l, f))
           /\ AwaitsStatus(pc, l, Replied(l, f), f)
<1>1. /\ "serve" \notin {"none", "closed", "response", "config", "gates", "prepare"}
                        \cup Before \cup Failing \cup Resetting \cup Admitting
      /\ "closed" \notin {"none", "response", "config", "gates", "prepare", "serve"}
                         \cup Before \cup Failing \cup Resetting \cup Admitting
      /\ "closed" \in ChildPcs /\ f \in Frames
  BY DEF Before, Failing, Resetting, Admitting, ChildPcs, Frames
<1>2. /\ LinkOK(l) /\ NoTerminal(l.down)
      /\ l.broken = FALSE => pc # "done"
      /\ l.broken = FALSE /\ pc \notin Gone => Accepted(pc, l.up, l.down, FALSE) \/ Greeted(pc, l.up, l.down)
  BY <1>1 DEF Wire, Ends, Terminals, Following, Upward
<1>3. Delivered(Replied(l, f), l, f)
  BY <1>1, <1>2, LinkReplied
<1>4. Terminals("closed", Replied(l, f).down)
  BY <1>1, <1>2, <1>3, TerminalsSent
<1>5. ASSUME l.broken = FALSE, pc \notin Gone
      PROVE  /\ Closed(pc, Replied(l, f).down) /\ pc = "outcome"
             /\ f = "SUCCESS" => Replied(l, f).down = <<"SUCCESS">>
  <2>   /\ pc = "outcome" /\ Closed(pc, Append(l.down, "SUCCESS")) /\ Closed(pc, Append(l.down, "ERROR"))
        /\ Append(l.down, "SUCCESS") = <<"SUCCESS">>
    BY <1>2, <1>5, Statuses
  <2> QED
    BY <1>3, <1>5 DEF Delivered
<1>6. InOrder(greets, auth, secret, pc, "closed", Replied(l, f))
  BY <1>1, <1>2, <1>3, <1>4, <1>5 DEF InOrder, Upward, Delivered, Following
<1>   Wire(greets, auth, secret, pc, "closed", Replied(l, f))
  BY <1>1, <1>6, ChildTurns
<1> QED
  BY <1>2, <1>5 DEF Gone, AwaitsStatus
---------------------------------------------------------------------------
(* The client's steps on the wire.                                         *)

(* A client's step from pc to pc2 keeps the wire in order when it stays in *)
(* step with the child.                                                    *)
Kept(greets, auth, secret, q, pc2, l2) ==
    /\ pc2 \in ClientPcs \ Unconnected /\ LinkOK(l2) /\ Upward(secret, q, l2.up) /\ Terminals(q, l2.down)
    /\ l2.broken = TRUE => l2.down = <<>>
    /\ l2.broken = FALSE /\ pc2 = "done" =>
         q \in {"response", "closed"} \cup Failing /\ (q = "response" => l2.up = <<>>)
    /\ l2.broken = FALSE /\ pc2 \notin Gone => Following(greets, auth, pc2, q, l2.up, l2.down)
(* The wire is in order after such a step. *)
LEMMA ClientTurns ==
    ASSUME NEW greets, NEW auth, NEW secret, NEW pc, NEW q, NEW l,
           Wire(greets, auth, secret, pc, q, l), q # "none",
           NEW pc2, NEW l2, Kept(greets, auth, secret, q, pc2, l2)
    PROVE  Wire(greets, auth, secret, pc2, q, l2)
BY DEF Wire, Ends, Kept

(* The client gives up on its peer, or the network on both. *)
LEMMA StallKeeps ==
    ASSUME NEW greets, NEW auth, NEW secret, NEW pc \in Reading, NEW q, NEW l,
           Wire(greets, auth, secret, pc, q, l)
    PROVE  Wire(greets, auth, secret, "stalled", q, l)
<1>1. "stalled" \in ClientPcs \ Unconnected /\ pc \notin Unconnected \cup {"done"} /\ "stalled" # "done"
  BY DEF ClientPcs, Unconnected, Reading
<1>   q # "none" /\ (l.broken = TRUE => l.down = <<>>)
  BY <1>1 DEF Wire, Ends
<1>   Kept(greets, auth, secret, q, "stalled", l)
  BY <1>1 DEF Kept, Wire, Gone
<1> QED
  BY ClientTurns
Lost(u) == [up |-> u, down |-> <<>>, broken |-> TRUE]
(* The wire after the connection is lost. *)
LEMMA BreakKeeps ==
    ASSUME NEW greets, NEW auth, NEW secret, NEW pc, NEW q, NEW l,
           Wire(greets, auth, secret, pc, q, l), q # "none", NEW u, u = l.up \/ u = <<>>
    PROVE  Wire(greets, auth, secret, pc, q, Lost(u))
<1> DEFINE l2 == Lost(u)
<1>1. /\ DOMAIN l2 = {"up", "down", "broken"} /\ l2.up = u /\ l2.down = <<>> /\ l2.broken = TRUE
  BY DEF Lost
<1>2. <<>> \in Seq(Frames) /\ DOMAIN <<>> = {}
  BY SMTT(60)
<1> HIDE DEF l2
<1>3. LinkOK(l2) /\ Terminals(q, l2.down)
  BY <1>1, <1>2 DEF LinkOK, Terminals, LoneTerminal, NoTerminal
<1>4. Upward(secret, q, l2.up) /\ pc \in ClientPcs \ Unconnected
  BY <1>1 DEF Wire, Ends, Upward
<1>5. Kept(greets, auth, secret, q, pc, l2)
  BY <1>1, <1>3, <1>4 DEF Kept
<1>   Wire(greets, auth, secret, pc, q, l2)
  BY <1>5, ClientTurns
<1> QED
  BY DEF l2

(* What a client at pc that reads f does next; w is what follows its       *)
(* acceptance, the greeting or the files.                                  *)
Reads(w, pc, f, pc2) ==
    \/ pc \in {"verdict", "accept"} /\ f = "OK" /\ pc2 = w
    \/ pc = "verdict" /\ f = "AUTH_CHALLENGE" /\ pc2 \in {"prove", "done"}
    \/ pc = "proof" /\ f = "AUTH_OK" /\ pc2 = "accept"
    \/ pc = "motd" /\ pc2 = "send"
    \/ /\ pc2 = "done" /\ pc # "motd"
       /\ ~(pc \in {"verdict", "accept"} /\ f = "OK") /\ ~(pc = "proof" /\ f = "AUTH_OK")

(* The client reads its next frame: it stays in step with what the child   *)
(* has done, or ends where the child's answer allows it to.                *)
LEMMA AskedRead ==
    ASSUME NEW w, NEW pc, NEW u, NEW d, Asked(pc, u, d), d # <<>>, NEW pc2, Reads(w, pc, Head(d), pc2)
    PROVE  u = <<>> /\ (pc2 = "done" \/ Asked(pc2, u, Tail(d)))
<1>   pc = "verdict" /\ u = <<>> /\ d = <<"AUTH_CHALLENGE">>
  BY DEF Asked
<1>   Head(d) = "AUTH_CHALLENGE" /\ Tail(d) = <<>>
  BY FewFrames
<1> QED
  BY DEF Reads, Asked
(* The client reads that its proof was right. *)
LEMMA ProvedRead ==
    ASSUME NEW w, NEW pc, NEW d, Proved(pc, d), d # <<>>, NEW pc2, Reads(w, pc, Head(d), pc2)
    PROVE  pc2 # "done" /\ Proved(pc2, Tail(d))
<1>   pc = "proof" /\ d = <<"AUTH_OK">>
  BY DEF Proved
<1>   Head(d) = "AUTH_OK" /\ Tail(d) = <<>>
  BY FewFrames
<1> QED
  BY DEF Reads, Proved
(* The client reads that it is accepted. *)
LEMMA AcceptedRead ==
    ASSUME NEW w, NEW greets, (greets /\ w = "motd") \/ (~greets /\ w = "send"),
           NEW pc, NEW u, NEW d, Accepted(pc, u, d, greets), d # <<>>,
           NEW pc2, Reads(w, pc, Head(d), pc2)
    PROVE  pc2 # "done" /\ Accepted(pc2, u, Tail(d), greets)
<1>1. CASE pc \in {"verdict", "accept"} /\ d = <<"OK">> /\ u = <<>>
  <2>   Head(d) = "OK" /\ Tail(d) = <<>>
    BY <1>1, FewFrames
  <2>   pc2 = w
    BY <1>1 DEF Reads
  <2> QED
    BY <1>1 DEF Accepted, Welcomed
<1>2. CASE pc = "proof" /\ d = <<"AUTH_OK", "OK">> /\ u = <<>>
  <2>   Head(d) = "AUTH_OK" /\ Tail(d) = <<"OK">>
    BY <1>2, FewFrames
  <2>   pc2 = "accept"
    BY <1>2 DEF Reads
  <2> QED
    BY <1>2 DEF Accepted
<1> QED
  BY <1>1, <1>2 DEF Accepted, Welcomed
(* The client reads on to the greeting. *)
LEMMA GreetedRead ==
    ASSUME NEW pc, NEW u, NEW d, Greeted(pc, u, d), d # <<>>,
           NEW pc2, Reads("motd", pc, Head(d), pc2)
    PROVE  pc2 # "done" /\ Greeted(pc2, u, Tail(d))
<1>1. CASE pc \in {"verdict", "accept"} /\ d = <<"OK", "MOTD">> /\ u = <<>>
  <2>   Head(d) = "OK" /\ Tail(d) = <<"MOTD">>
    BY <1>1, FewFrames
  <2>   pc2 = "motd"
    BY <1>1 DEF Reads
  <2> QED
    BY <1>1 DEF Greeted
<1>2. CASE pc = "proof" /\ d = <<"AUTH_OK", "OK", "MOTD">> /\ u = <<>>
  <2>   Head(d) = "AUTH_OK" /\ Tail(d) = <<"OK", "MOTD">>
    BY <1>2, ThreeRead
  <2>   pc2 = "accept"
    BY <1>2 DEF Reads
  <2> QED
    BY <1>2 DEF Greeted
<1>3. CASE pc = "motd" /\ d = <<"MOTD">> /\ u = <<>>
  <2>1. Tail(d) = <<>>
    BY <1>3, FewFrames
  <2>   pc2 = "send"
    BY <1>3 DEF Reads
  <2> QED
    BY <1>3, <2>1 DEF Greeted, Welcomed
<1> QED
  BY <1>1, <1>2, <1>3 DEF Greeted, Welcomed
(* The client reads what a closed connection left. *)
LEMMA ClosedRead ==
    ASSUME NEW w \in {"motd", "send"}, NEW pc, NEW d, Closed(pc, d), d # <<>>,
           NEW pc2, Reads(w, pc, Head(d), pc2)
    PROVE  pc2 = "done" \/ Closed(pc2, Tail(d))
<1>1. CASE pc \in {"verdict", "accept"} /\ d = <<"OK">>
  <2>   Head(d) = "OK" /\ Tail(d) = <<>>
    BY <1>1, FewFrames
  <2>   pc2 = w
    BY <1>1 DEF Reads
  <2> QED
    BY <1>1 DEF Closed
<1>2. CASE pc = "proof" /\ \E f \in {"OK", "ERROR"} : d = <<"AUTH_OK", f>>
  <2>1. PICK f \in {"OK", "ERROR"} : d = <<"AUTH_OK", f>>
    BY <1>2
  <2>   Head(d) = "AUTH_OK" /\ Tail(d) = <<f>>
    BY <2>1, FewFrames
  <2>   pc2 = "accept"
    BY <1>2 DEF Reads
  <2> QED
    BY <2>1 DEF Closed
<1>3. CASE pc \in {"verdict", "accept", "proof", "outcome"}
           /\ \E f \in {"ERROR", "AUTH_FAILED", "SUCCESS"} : d = <<f>>
  <2>1. PICK f \in {"ERROR", "AUTH_FAILED", "SUCCESS"} : d = <<f>>
    BY <1>3
  <2>   Head(d) = f
    BY <2>1, FewFrames
  <2> QED
    BY <1>3, <2>1 DEF Reads
<1> QED
  BY <1>1, <1>2, <1>3 DEF Closed

(* The link after the client read a frame, and after it sent one. *)
Fetched(l) == [l EXCEPT !.down = Tail(@)]
Posted(l, f) == [l EXCEPT !.up = Wired(l, Append(@, f))]
(* The client has read a frame. *)
LEMMA LinkFetched ==
    ASSUME NEW l, LinkOK(l), l.down # <<>>
    PROVE  /\ LinkOK(Fetched(l)) /\ Fetched(l).broken = l.broken
           /\ Fetched(l).down = Tail(l.down) /\ Fetched(l).up = l.up
<1>   Tail(l.down) \in Seq(Frames)
  BY FrameRead DEF LinkOK
<1> QED
  BY DEF Fetched, LinkOK
(* The client has sent one. *)
LEMMA LinkPosted ==
    ASSUME NEW l, LinkOK(l), NEW f
    PROVE  /\ LinkOK(Posted(l, f)) /\ Posted(l, f).broken = l.broken /\ Posted(l, f).down = l.down
           /\ l.broken = TRUE => Posted(l, f).up = <<>>
           /\ l.broken = FALSE => Posted(l, f).up = Append(l.up, f)
BY DEF Posted, LinkOK, Wired

(* The positions of a connected child. *)
LEMMA Positions ==
    ASSUME NEW q \in ChildPcs, q # "none"
    PROVE  \/ q = "config" \/ q \in Before \/ q = "response" \/ q \in Failing \/ q \in Resetting
           \/ q \in Admitting \/ q \in {"gates", "prepare"} \/ q = "serve" \/ q = "closed"
BY DEF ChildPcs

(* A child with a frame for its client has done one of these. *)
LEMMA FollowingRead ==
    ASSUME NEW greets, NEW auth, NEW pc, NEW q \in ChildPcs, q # "none", NEW u, NEW d,
           Following(greets, auth, pc, q, u, d), d # <<>>,
           NEW w \in {"motd", "send"},
           q \in {"gates", "prepare", "serve"} => (greets /\ w = "motd") \/ (~greets /\ w = "send"),
           NEW pc2, Reads(w, pc, Head(d), pc2)
    PROVE  \/ Following(greets, auth, pc2, q, u, Tail(d))
           \/ pc2 = "done" /\ q \in {"response", "closed"} \cup Failing /\ (q = "response" => u = <<>>)
<1>1. CASE q = "config" \/ q \in Before
  BY <1>1 DEF Following, Silent
<1>2. CASE q = "response"
  <2>1. "response" \notin {"none", "closed", "config", "gates", "prepare", "serve"}
                       \cup Before \cup Failing \cup Resetting \cup Admitting
    BY DEF Before, Failing, Resetting, Admitting
  <2>   u = <<>> /\ (pc2 = "done" \/ Asked(pc2, u, Tail(d)))
    BY <1>2, AskedRead DEF Following
  <2> QED
    BY <1>2, <2>1 DEF Following
<1>3. CASE q \in Failing
  <2>1. d = <<"AUTH_FAILED">> /\ pc \in {"verdict", "proof"}
    BY <1>3 DEF Following, Failed
  <2>2. Head(d) = "AUTH_FAILED"
    BY <2>1, FewFrames
  <2>3. pc2 = "done"
    BY <2>1, <2>2 DEF Reads
  <2>   q # "response"
    BY <1>3 DEF Failing
  <2> QED
    BY <1>3, <2>3
<1>4. CASE q \in Resetting \/ (q \in Admitting /\ auth)
  <2>1. q \notin {"closed", "config", "response", "gates", "prepare", "serve"} \cup Before \cup Failing
    BY <1>4 DEF Before, Failing, Resetting, Admitting
  <2>2. Proved(pc2, Tail(d))
    BY <1>4, ProvedRead DEF Following
  <2>   q \in Admitting => auth
    BY <1>4 DEF Resetting, Admitting
  <2> QED
    BY <2>1, <2>2 DEF Following
<1>5. CASE q \in Admitting /\ ~auth
  BY <1>5 DEF Following, Silent
<1>6. CASE q \in {"gates", "prepare"} \/ (q = "serve" /\ ~greets)
  <2>1. q \notin {"closed", "config", "response"} \cup Before \cup Failing \cup Resetting \cup Admitting
    BY <1>6 DEF Before, Failing, Resetting, Admitting
  <2>2. (greets /\ w = "motd") \/ (~greets /\ w = "send")
    BY <1>6
  <2>3. CASE q \in {"gates", "prepare"}
    <3>   Accepted(pc2, u, Tail(d), greets)
      BY <2>2, <2>3, AcceptedRead DEF Following
    <3> QED
      BY <2>1, <2>3 DEF Following
  <2>4. CASE q = "serve" /\ ~greets
    <3>1. Accepted(pc, u, d, FALSE) /\ w = "send"
      BY <2>2, <2>4 DEF Following
    <3>   Accepted(pc2, u, Tail(d), FALSE)
      BY <3>1, AcceptedRead
    <3> QED
      BY <2>1, <2>4 DEF Following
  <2> QED
    BY <1>6, <2>3, <2>4
<1>7. CASE q = "serve" /\ greets
  <2>1. q \notin {"closed", "config", "response", "gates", "prepare"}
                 \cup Before \cup Failing \cup Resetting \cup Admitting
    BY <1>7 DEF Before, Failing, Resetting, Admitting
  <2>   Greeted(pc2, u, Tail(d))
    BY <1>7, GreetedRead DEF Following
  <2> QED
    BY <1>7, <2>1 DEF Following
<1>8. CASE q = "closed"
  <2>1. q \notin {"config", "response", "gates", "prepare", "serve"}
                 \cup Before \cup Failing \cup Resetting \cup Admitting
    BY <1>8 DEF Before, Failing, Resetting, Admitting
  <2>   pc2 = "done" \/ Closed(pc2, Tail(d))
    BY <1>8, ClosedRead DEF Following
  <2> QED
    BY <1>8, <2>1 DEF Following
<1> QED
  BY <1>1, <1>2, <1>3, <1>4, <1>5, <1>6, <1>7, <1>8, Positions

(* Reading a frame, or the end of the connection. *)
LEMMA FrameReadKeeps ==
    ASSUME NEW greets, NEW auth, NEW secret, NEW pc \in Reading, NEW q, NEW l,
           Wire(greets, auth, secret, pc, q, l), l.down # <<>>,
           NEW w \in {"motd", "send"},
           q \in {"gates", "prepare", "serve"} => (greets /\ w = "motd") \/ (~greets /\ w = "send"),
           NEW pc2, Reads(w, pc, Head(l.down), pc2)
    PROVE  Wire(greets, auth, secret, pc2, q, Fetched(l))
<1>1. pc \notin Gone /\ pc2 \in ClientPcs \ Unconnected
  <2>   pc2 \in {"motd", "send", "prove", "done", "accept"}
    BY DEF Reads
  <2> QED
    BY DEF Reading, Gone, ClientPcs, Unconnected
<1>2. /\ LinkOK(l) /\ q \in ChildPcs /\ q # "none" /\ l.broken = FALSE
      /\ Following(greets, auth, pc, q, l.up, l.down)
  BY <1>1 DEF Wire, Ends, LinkOK
<1>3. /\ LinkOK(Fetched(l)) /\ Fetched(l).broken = FALSE
      /\ Fetched(l).down = Tail(l.down) /\ Fetched(l).up = l.up
  BY <1>2, LinkFetched
<1>4. Terminals(q, Fetched(l).down)
  BY <1>2, <1>3, FrameRead DEF Wire, Terminals, LinkOK
<1>5. \/ Following(greets, auth, pc2, q, Fetched(l).up, Fetched(l).down)
      \/ pc2 = "done" /\ q \in {"response", "closed"} \cup Failing /\ (q = "response" => Fetched(l).up = <<>>)
  <2>   \/ Following(greets, auth, pc2, q, l.up, Tail(l.down))
        \/ pc2 = "done" /\ q \in {"response", "closed"} \cup Failing /\ (q = "response" => l.up = <<>>)
    BY <1>2, FollowingRead
  <2> QED
    BY <1>3
<1>6. pc2 = "done" => pc2 \in Gone
  BY DEF Gone
<1>7. CASE pc2 = "done" /\ ~(q \in {"response", "closed"} \cup Failing /\ (q = "response" => Fetched(l).up = <<>>))
  <2>1. Following(greets, auth, "done", q, Fetched(l).up, Fetched(l).down)
    BY <1>5, <1>7
  <2>   FALSE
    BY <1>2, <2>1, Positions DEF Following, Silent, Asked, Failed, Proved, Accepted, Greeted,
       Closed, Welcomed
  <2> QED
    OBVIOUS
<1>8. CASE pc2 # "done" \/ (q \in {"response", "closed"} \cup Failing /\ (q = "response" => Fetched(l).up = <<>>))
  <2>   Kept(greets, auth, secret, q, pc2, Fetched(l))
    BY <1>1, <1>2, <1>3, <1>4, <1>5, <1>6, <1>8 DEF Kept, Wire
  <2> QED
    BY <1>2, ClientTurns
<1> QED
  BY <1>7, <1>8
(* The client finds the connection closed. *)
LEMMA EofKeeps ==
    ASSUME NEW greets, NEW auth, NEW secret, NEW pc \in Reading, NEW q, NEW l,
           Wire(greets, auth, secret, pc, q, l), l.down = <<>>, q = "closed" \/ l.broken = TRUE,
           NEW pc2, pc2 = IF pc = "motd" THEN "send" ELSE "done"
    PROVE  Wire(greets, auth, secret, pc2, q, l)
<1>1. pc \notin Gone /\ pc2 \in ClientPcs \ Unconnected /\ pc \notin Unconnected \cup {"done"}
  BY DEF Reading, Gone, ClientPcs, Unconnected
<1>2. q # "none"
  BY <1>1 DEF Wire, Ends
<1>3. ASSUME q = "closed", pc2 = "send" PROVE Following(greets, auth, pc2, q, l.up, l.down)
  <2>   q \notin {"config", "response", "gates", "prepare", "serve"}
                 \cup Before \cup Failing \cup Resetting \cup Admitting
    BY <1>3 DEF Before, Failing, Resetting, Admitting
  <2> QED
    BY <1>3 DEF Following, Closed
<1>4. l.broken = FALSE => q = "closed"
  BY DEF Wire, LinkOK
<1>5. pc2 \in Gone \/ pc2 = "send"
  BY DEF Gone
<1>   Kept(greets, auth, secret, q, pc2, l)
  BY <1>1, <1>3, <1>4, <1>5 DEF Kept, Wire
<1> QED
  BY <1>2, ClientTurns

(* The proof, the files, and the configuration that opens a connection. *)
LEMMA ProofKeeps ==
    ASSUME NEW greets, NEW auth, NEW secret, NEW q, NEW l, Wire(greets, auth, secret, "prove", q, l)
    PROVE  Wire(greets, auth, secret, "proof", q, Posted(l, secret))
<1>1. /\ "proof" \in ClientPcs \ Unconnected /\ "prove" \notin Gone /\ "prove" \notin Unconnected \cup {"done"}
      /\ "proof" # "done"
      /\ "response" \notin {"none", "closed", "config", "gates", "prepare", "serve"}
                       \cup Before \cup Failing \cup Resetting \cup Admitting
  BY DEF Reading, Gone, ClientPcs, Unconnected, Before, Failing, Resetting, Admitting
<1>2. q # "none" /\ q \in ChildPcs /\ LinkOK(l) /\ (l.broken = TRUE => l.down = <<>>)
  BY <1>1 DEF Wire, Ends
<1>3. /\ LinkOK(Posted(l, secret)) /\ Posted(l, secret).broken = l.broken /\ Posted(l, secret).down = l.down
      /\ l.broken = TRUE => Posted(l, secret).up = <<>>
      /\ l.broken = FALSE => Posted(l, secret).up = Append(l.up, secret)
  BY <1>2, LinkPosted
<1>4. ASSUME l.broken = FALSE
      PROVE  /\ Upward(secret, q, Posted(l, secret).up)
             /\ Following(greets, auth, "proof", q, Posted(l, secret).up, Posted(l, secret).down)
  <2>1. Following(greets, auth, "prove", q, l.up, l.down)
    BY <1>1, <1>2, <1>4 DEF Wire
  <2>2. q = "response"
    BY <1>2, <2>1, Positions DEF Following, Silent, Failed, Proved, Accepted, Greeted,
       Closed, Welcomed
  <2>   l.up = <<>> /\ l.down = <<>>
    BY <2>1, <2>2 DEF Following, Asked
  <2>   Posted(l, secret).up = <<secret>>
    BY <1>3, <1>4, FewFrames
  <2> QED
    BY <1>1, <1>3, <2>2 DEF Upward, Following, Asked
<1>5. l.broken = TRUE => Upward(secret, q, Posted(l, secret).up)
  BY <1>3 DEF Upward
<1>   Kept(greets, auth, secret, q, "proof", Posted(l, secret))
  BY <1>1, <1>2, <1>3, <1>4, <1>5 DEF Kept, Wire, LinkOK
<1> QED
  BY <1>2, ClientTurns
(* The client sends its files. *)
LEMMA FilesKeep ==
    ASSUME NEW greets, NEW auth, NEW secret, NEW q, NEW l, Wire(greets, auth, secret, "send", q, l)
    PROVE  Wire(greets, auth, secret, "outcome", q, Posted(l, "files"))
<1>1. /\ "outcome" \in ClientPcs \ Unconnected /\ "send" \notin Gone /\ "send" \notin Unconnected \cup {"done"}
      /\ "outcome" # "done"
  BY DEF Reading, Gone, ClientPcs, Unconnected
<1>2. q # "none" /\ q \in ChildPcs /\ LinkOK(l) /\ (l.broken = TRUE => l.down = <<>>)
  BY <1>1 DEF Wire, Ends
<1>3. /\ LinkOK(Posted(l, "files")) /\ Posted(l, "files").broken = l.broken /\ Posted(l, "files").down = l.down
      /\ l.broken = TRUE => Posted(l, "files").up = <<>>
  BY <1>2, LinkPosted
<1>4. ASSUME l.broken = FALSE
      PROVE  /\ Upward(secret, q, Posted(l, "files").up)
             /\ Following(greets, auth, "outcome", q, Posted(l, "files").up, Posted(l, "files").down)
  <2>1. Following(greets, auth, "send", q, l.up, l.down)
    BY <1>1, <1>2, <1>4 DEF Wire
  <2>2. q \in {"gates", "prepare"} \/ q = "serve" \/ q = "closed"
    BY <1>2, <2>1, Positions DEF Following, Silent, Asked, Failed, Proved
  <2>3. q \notin {"config", "response"} \cup Before \cup Failing \cup Resetting \cup Admitting
    BY <2>2 DEF Before, Failing, Resetting, Admitting
  <2>   /\ q \in {"gates", "prepare"} => Accepted("outcome", Posted(l, "files").up, l.down, greets)
        /\ q = "serve" => IF greets THEN Greeted("outcome", Posted(l, "files").up, l.down)
                          ELSE Accepted("outcome", Posted(l, "files").up, l.down, FALSE)
        /\ q = "closed" => Closed("outcome", l.down)
    BY <2>1 DEF Following, Accepted, Greeted, Closed, Welcomed
  <2> QED
    BY <1>3, <2>3 DEF Upward, Following
<1>5. l.broken = TRUE => Upward(secret, q, Posted(l, "files").up)
  BY <1>3 DEF Upward
<1>   Kept(greets, auth, secret, q, "outcome", Posted(l, "files"))
  BY <1>1, <1>2, <1>3, <1>4, <1>5 DEF Kept, Wire, LinkOK
<1> QED
  BY <1>2, ClientTurns

(* The client connects and sends its configuration. *)
LEMMA ConnectKeeps ==
    ASSUME NEW greets, NEW auth, NEW secret, NEW l, Wire(greets, auth, secret, "connect", "none", l)
    PROVE  Wire(greets, auth, secret, "verdict", "config", Posted(l, "config"))
<1>1. /\ "verdict" \in ClientPcs \ Unconnected /\ "verdict" # "done"
      /\ "config" \notin {"none", "closed", "response", "gates", "prepare", "serve"}
                         \cup Failing \cup Before \cup Resetting \cup Admitting
      /\ "config" \in ChildPcs /\ "none" \notin Failing \cup {"closed"}
  BY DEF Reading, ClientPcs, Unconnected, Before, Failing, Resetting, Admitting, ChildPcs
<1>2. LinkOK(l) /\ l.up = <<>> /\ l.down = <<>> /\ l.broken = FALSE
  BY DEF Wire, Ends
<1>   /\ LinkOK(Posted(l, "config")) /\ Posted(l, "config").broken = FALSE /\ Posted(l, "config").down = <<>>
      /\ Posted(l, "config").up = <<"config">>
  BY <1>2, LinkPosted, FewFrames
<1>4. Following(greets, auth, "verdict", "config", Posted(l, "config").up, Posted(l, "config").down)
  BY <1>1 DEF Following, Silent
<1>5. Terminals("config", Posted(l, "config").down)
  BY <1>1, <1>2 DEF Wire, Terminals
<1>6. Upward(secret, "config", Posted(l, "config").up)
  BY <1>1 DEF Upward
<1>   Ends("verdict", "config", Posted(l, "config"))
  BY <1>1 DEF Ends
<1> QED
  BY <1>4, <1>5, <1>6 DEF Wire

(* A client before its connection, or that never opens one. *)
LEMMA ParseKeeps ==
    ASSUME NEW greets, NEW auth, NEW secret, NEW pc, NEW l, Wire(greets, auth, secret, pc, "none", l),
           NEW pc2 \in Unconnected \cup {"done"}
    PROVE  Wire(greets, auth, secret, pc2, "none", l)
<1>1. pc2 \in ClientPcs
  BY DEF ClientPcs, Unconnected
<1>   Ends(pc2, "none", l)
  BY <1>1 DEF Wire, Ends
<1> QED
  BY DEF Wire
---------------------------------------------------------------------------
(* The exit code and the transfer.                                         *)

(* A child's step, but the last one, sends no SUCCESS. *)
LEMMA CodesSent ==
    ASSUME NEW local, NEW batch, NEW pc, NEW q, NEW l, NEW n, NEW s,
           Codes(local, batch, pc, q, l, n, s), q # "closed", LinkOK(l),
           NEW q2, NEW l2,
           \/ l2.down = l.down
           \/ \E f \in Frames \ {"SUCCESS"} : Delivered(l2, l, f)
    PROVE  Codes(local, batch, pc, q2, l2, n, s)
<1>1. s = "no"
  BY DEF Codes
<1>   \A i \in DOMAIN l2.down : l2.down[i] = "SUCCESS" => s = "stored"
  <2>1. CASE l2.down = l.down
    BY <2>1 DEF Codes
  <2>2. ASSUME NEW f \in Frames \ {"SUCCESS"}, Delivered(l2, l, f)
        PROVE  \A i \in DOMAIN l2.down : l2.down[i] = "SUCCESS" => s = "stored"
    <3>1. CASE l.broken = TRUE
      <4>   l2.down = <<>> /\ DOMAIN <<>> = {}
        BY <2>2, <3>1, SMTT(60) DEF Delivered
      <4> QED
        OBVIOUS
    <3>2. CASE l.broken = FALSE
      <4>1. l2.down = Append(l.down, f) /\ l.down \in Seq(Frames)
        BY <2>2, <3>2 DEF Delivered, LinkOK
      <4>   Extends(l2.down, l.down, f)
        BY <2>2, <4>1, FrameOrigins
      <4> QED
        BY <2>2 DEF Codes, Extends
    <3> QED
      BY <3>1, <3>2 DEF LinkOK
  <2> QED
    BY <2>1, <2>2
<1> QED
  BY <1>1 DEF Codes

(* The last one decides. *)
LEMMA CodesServed ==
    ASSUME NEW local, NEW batch, NEW pc, NEW l, NEW n, NEW s, LinkOK(l),
           Codes(local, batch, pc, "serve", l, n, s),
           NEW s2 \in {"stored", "failed"}, NEW l2, NEW f \in Frames,
           (s2 = "stored" /\ f = "SUCCESS") \/ (s2 = "failed" /\ f = "ERROR"),
           Delivered(l2, l, f),
           AwaitsStatus(pc, l, l2, f)
    PROVE  Codes(local, batch, pc, "closed", l2, n, s2)
<1>1. s = "no"
  BY DEF Codes
<1>2. \A i \in DOMAIN l2.down : l2.down[i] = "SUCCESS" => s2 = "stored"
  <2>1. CASE l.broken = TRUE
    <3>   l2.down = <<>> /\ DOMAIN <<>> = {}
      BY <2>1, SMTT(60) DEF Delivered
    <3> QED
      OBVIOUS
  <2>2. CASE l.broken = FALSE
    <3>1. l2.down = Append(l.down, f) /\ l.down \in Seq(Frames)
      BY <2>2 DEF Delivered, LinkOK
    <3>   Extends(l2.down, l.down, f)
      BY <3>1, FrameOrigins
    <3> QED
      BY <1>1 DEF Codes, Extends
  <2> QED
    BY <2>1, <2>2 DEF LinkOK
<1>   l2.broken = l.broken
  BY DEF Delivered
<1> QED
  BY <1>1, <1>2 DEF Codes, AwaitsStatus

(* How a client that reads f leaves, or goes on. *)
Leaves(batch, pc, f, pc2, n, n2) ==
    /\ \/ pc2 = "done" /\ (n2 = 1 \/ (n2 = 0 /\ pc = "outcome" /\ f = "SUCCESS"))
       \/ pc2 # "done" /\ n2 = n
    /\ pc = "outcome" /\ f = "SUCCESS" => pc2 = "done" /\ (n2 = 0 \/ batch)

(* Reading the status of the transfer, or another frame. *)
LEMMA CodesRead ==
    ASSUME NEW local, NEW batch, NEW pc \in Reading, NEW q, NEW l, NEW n, NEW s,
           Codes(local, batch, pc, q, l, n, s), LinkOK(l), l.down # <<>>,
           NEW pc2, NEW n2, Leaves(batch, pc, Head(l.down), pc2, n, n2)
    PROVE  Codes(local, batch, pc2, q, Fetched(l), n2, s)
<1>1. pc # "done" /\ pc # "stalled" /\ n # 0 /\ 1 # 0
  <2>1. pc # "done" /\ pc # "stalled"
    BY DEF Reading
  <2>   1 # 0
    BY SMTT(60)
  <2> QED
    BY <2>1 DEF Codes
<1>2. /\ Fetched(l).broken = l.broken /\ Fetched(l).down = Tail(l.down) /\ l.down \in Seq(Frames)
  BY LinkFetched DEF LinkOK
<1>3. Head(l.down) = "SUCCESS" => s = "stored"
  <2>   1 \in DOMAIN l.down /\ Head(l.down) = l.down[1]
    BY <1>2, SMTT(60)
  <2> QED
    BY DEF Codes
<1>4. \A i \in DOMAIN Fetched(l).down : Fetched(l).down[i] = "SUCCESS" => s = "stored"
  <2>   Remains(Fetched(l).down, l.down)
    BY <1>2, FrameRemains
  <2> QED
    BY DEF Codes, Remains
<1>   s = "stored" /\ l.broken = FALSE => pc = "outcome" /\ Head(l.down) = "SUCCESS"
  BY <1>1, FewFrames DEF Codes
<1> QED
  BY <1>1, <1>2, <1>3, <1>4 DEF Codes, Leaves

(* The end of the connection, read where a status was due. *)
LEMMA CodesEof ==
    ASSUME NEW local, NEW batch, NEW pc \in Reading, NEW q, NEW l, NEW n, NEW s,
           Codes(local, batch, pc, q, l, n, s), l.down = <<>>,
           NEW pc2, NEW n2, Leaves(batch, pc, "EOF", pc2, n, n2)
    PROVE  Codes(local, batch, pc2, q, l, n2, s)
<1>1. pc # "done" /\ pc # "stalled" /\ n # 0 /\ 1 # 0
  <2>1. pc # "done" /\ pc # "stalled"
    BY DEF Reading
  <2>   1 # 0
    BY SMTT(60)
  <2> QED
    BY <2>1 DEF Codes
<1>   <<"SUCCESS">> # <<>> /\ "EOF" # "SUCCESS"
  BY FewFrames
<1> QED
  BY <1>1 DEF Codes, Leaves

(* A client that is neither reading a status nor leaving. *)
LEMMA CodesOnward ==
    ASSUME NEW local, NEW batch, NEW pc, NEW q, NEW l, NEW n, NEW s, pc # "done",
           Codes(local, batch, pc, q, l, n, s), NEW l2, NEW pc2,
           \/ pc2 = "stalled" /\ l2 = l
           \/ pc \notin Gone \cup {"outcome"} /\ l2.down = l.down /\ l2.broken = l.broken
    PROVE  Codes(local, batch, pc2, q, l2, n, s)
BY DEF Codes, Gone

---------------------------------------------------------------------------
(* The configuration on the server's side.                                 *)

(* What config_receive keeps of a configuration. *)
LEMMA ReceivedMembers ==
    ASSUME NEW cf, DOMAIN cf = DOMAIN Defaults
    PROVE  /\ DOMAIN Received(cf) = DOMAIN Defaults
           /\ Received(cf).module = cf.module
           /\ \A f \in Received(cf).on : f \in cf.on \/ f = "use_xattrs"
<1> DEFINE X == When(cf.on \cap {"preserve_acls", "preserve_xattrs"} # {}, {"use_xattrs"})
           A == IF cf.max_alloc \in 1..MaxServerAlloc THEN cf.max_alloc ELSE MaxServerAlloc
<1>1. Received(cf) = [cf EXCEPT !.on = OnWire(cf.on) \cup X, !.max_alloc = A, !.transport = "tcp", !.exit = 0]
  BY DEF Received
<1>2. X \subseteq {"use_xattrs"}
  BY DEF When
<1> HIDE DEF X, A
<1>3. /\ Received(cf).on = OnWire(cf.on) \cup X /\ Received(cf).module = cf.module
      /\ DOMAIN Received(cf) = DOMAIN Defaults
  BY <1>1, Members
<1>   \A f \in OnWire(cf.on) : f \in cf.on
  BY DEF OnWire, When
<1> QED
  BY <1>2, <1>3

(* The veto takes the super-user activities and nothing else. *)
LEMMA OverriddenMembers ==
    ASSUME NEW r, DOMAIN r = DOMAIN Defaults, NEW veto
    PROVE  /\ DOMAIN Overridden(r, veto) = DOMAIN Defaults /\ Overridden(r, veto).on = r.on
           /\ Overridden(r, veto).super_mode # "OFF" => ~veto
           /\ ~veto => Overridden(r, veto).super_mode = r.super_mode
BY Members DEF Overridden

(* What the gate of a daemon has made sure of, and that of a listener. *)
LEMMA DaemonGate ==
    ASSUME NEW c, DOMAIN conf[c] = DOMAIN Defaults, sconf[c] = Received(conf[c]),
           server.kind = "daemon", server.module.name # "none",
           ~CannotHonour(c), LookupModule(c), CheckHosts(c), CheckOwnership(c)
    PROVE  Gated(server, Peer(c), conf[c],
                 Overridden(sconf[c], SuperVetoed \/ ~server.module.client_owner))
<1> DEFINE r == Received(conf[c])
           veto == SuperVetoed \/ ~server.module.client_owner
           r2 == Overridden(r, veto)
<1>1. /\ DOMAIN r = DOMAIN Defaults /\ r.module = conf[c].module
      /\ \A f \in r.on : f \in conf[c].on \/ f = "use_xattrs"
  BY ReceivedMembers
<1>2. /\ r2.on = r.on /\ (r2.super_mode # "OFF" => ~veto) /\ (~veto => r2.super_mode = r.super_mode)
  BY <1>1, OverriddenMembers
<1>3. "copy_as_set" \in r.on => server.root /\ ~SuperVetoed /\ r.super_mode # "OFF" /\ server.module.client_owner
  BY DEF CannotHonour, CheckOwnership, ExplicitOwnership
<1>4. conf[c].module # "none" /\ (server.module.read_only => "dry_run" \in conf[c].on)
  BY <1>1 DEF LookupModule
<1>5. Peer(c).source \notin server.acl.deny \cup server.module.acl.deny
  <2>1. ASSUME NEW acl \in {server.acl, server.module.acl} PROVE Peer(c).source \notin acl.deny
    BY DEF CheckHosts, HostsAllowed
  <2> QED
    BY <2>1
<1>6. r2.super_mode # "OFF" => ~server.no_super /\ server.module.client_owner
  BY <1>2 DEF SuperVetoed
<1>7. "copy_as_set" \in r2.on => server.root /\ r2.super_mode # "OFF"
  BY <1>2, <1>3
<1>8. r2.on \cup Deletions = r.on \cup Deletions /\ r2.on \subseteq r.on
  BY <1>2
<1>   Gated(server, Peer(c), conf[c], r2)
  BY <1>4, <1>5, <1>6, <1>7, <1>8 DEF Gated
<1> QED
  OBVIOUS
(* What the gate of a server without modules lets pass. *)
LEMMA ListenerGate ==
    ASSUME NEW c, DOMAIN conf[c] = DOMAIN Defaults, sconf[c] = Received(conf[c]),
           server.kind # "daemon", ~CannotHonour(c), sconf[c].module = "none"
    PROVE  Gated(server, Peer(c), conf[c], Overridden(sconf[c], SuperVetoed))
<1> DEFINE r == Received(conf[c])
           r2 == Overridden(r, SuperVetoed)
<1>1. DOMAIN r = DOMAIN Defaults /\ r.module = conf[c].module
  BY ReceivedMembers
<1>2. r2.on = r.on /\ (r2.super_mode # "OFF" => ~SuperVetoed) /\ (~SuperVetoed => r2.super_mode = r.super_mode)
  BY <1>1, OverriddenMembers
<1>3. "copy_as_set" \in r.on => server.root /\ ~SuperVetoed /\ r.super_mode # "OFF"
  BY DEF CannotHonour
<1>4. r2.super_mode # "OFF" => ~server.no_super /\ (~server.root \/ server.allow_super)
  BY <1>2 DEF SuperVetoed
<1>5. "copy_as_set" \in r2.on => server.root /\ r2.super_mode # "OFF"
  BY <1>2, <1>3
<1>6. r2.on \cup Deletions = r.on \cup Deletions /\ r2.on \subseteq r.on
  BY <1>2
<1>   Gated(server, Peer(c), conf[c], r2)
  BY <1>1, <1>4, <1>5, <1>6 DEF Gated
<1> QED
  OBVIOUS

(* The deletion policies take deletions and nothing else. *)
Without(r, X) == [r EXCEPT !.on = @ \ X]
Lessened(sv, peer, cf, r2, on) ==
    Gated(sv, peer, cf, r2) /\ DOMAIN r2 = DOMAIN Defaults /\ r2.on = on
(* Taking deletion options away keeps what the gate checked. *)
LEMMA GatedWithout ==
    ASSUME NEW sv, NEW peer, NEW cf, NEW r, DOMAIN r = DOMAIN Defaults, Gated(sv, peer, cf, r),
           NEW X \in SUBSET Deletions
    PROVE  Lessened(sv, peer, cf, Without(r, X), r.on \ X)
<1> DEFINE r2 == Without(r, X)
<1>1. /\ DOMAIN r2 = DOMAIN Defaults /\ r2.on = r.on \ X /\ r2.super_mode = r.super_mode
  BY Members DEF Without
<1> HIDE DEF r2
<1>2. r2.on \cup Deletions = r.on \cup Deletions /\ r2.on \subseteq r.on
  BY <1>1
<1>3. r2.on \cup Deletions = Received(cf).on \cup Deletions /\ r2.on \subseteq Received(cf).on
  BY <1>2 DEF Gated
<1>4. "copy_as_set" \in r2.on => "copy_as_set" \in r.on
  BY <1>1
<1>   Gated(sv, peer, cf, r2)
  BY <1>1, <1>3, <1>4 DEF Gated
<1> QED
  BY <1>1 DEF r2, Lessened

(* The child's steps from the gate to the transfer. *)
Advances(peer, r, q, q2) ==
    \/ q \in LoggingIn /\ q2 \in LoggingIn \ ({"response"} \cup Resetting)
    \/ q = "policy" /\ q2 = "response" /\ "auth_user" \in r.on
    \/ q = "response" /\ q2 = "reset_fail" /\ peer.secret = "right"
    \/ q \in Resetting /\ q2 \in Resetting \cup {"root"}
    \/ q = "root" /\ q2 = "accept"
    \/ q = "accept" /\ q2 = "gates"
(* Such a move keeps the policy. *)
LEMMA PolicyAdvances ==
    ASSUME NEW sv, NEW peer, NEW pc, NEW q, NEW cf, NEW r, Policy(sv, peer, pc, q, cf, r),
           NEW q2, Advances(peer, r, q, q2)
    PROVE  Policy(sv, peer, pc, q2, cf, r)
<1>1. /\ q \in LoggingIn \cup LoggedIn /\ q2 \in LoggingIn \cup LoggedIn
      /\ q # "none" /\ q2 # "gate" /\ q2 \notin {"prepare", "serve"}
      /\ q2 = "response" => q = "policy" /\ "auth_user" \in r.on
  BY DEF Advances, LoggingIn, LoggedIn, Before, Failing, Resetting, Admitting
<1>2. /\ q2 \in LoggingIn => q \in LoggingIn
      /\ q2 = "root" => q \in LoggingIn
      /\ q2 \in LoggedIn => q \in LoggedIn \/ (q = "response" /\ peer.secret = "right")
  BY DEF Advances, LoggingIn, LoggedIn, Before, Failing, Resetting, Admitting
<1>3. DOMAIN cf = DOMAIN Defaults /\ DOMAIN r = DOMAIN Defaults /\ Gated(sv, peer, cf, r)
  BY <1>1 DEF Policy
<1>4. "auth_user" \in r.on => "auth_user" \in cf.on
  BY <1>3, ReceivedMembers DEF Gated
<1>5. q2 \in LoggedIn /\ Authenticates(sv) => Proven(peer, cf)
  BY <1>2 DEF Policy, Proven
<1>   (q2 \in LoggingIn => Authenticates(sv)) /\ (q2 = "root" => sv.kind = "daemon")
  BY <1>2 DEF Policy, Authenticates
<1> QED
  BY <1>1, <1>3, <1>4, <1>5 DEF Policy

(* The two deletion policies. *)
LEMMA PolicyGates ==
    ASSUME NEW sv, NEW peer, NEW pc, NEW cf, NEW r, Policy(sv, peer, pc, "gates", cf, r)
    PROVE  Policy(sv, peer, pc, "prepare", cf,
                  [r EXCEPT !.on = @ \ When(~sv.allow_delete, {"use_delete", "force_delete"})])
<1> DEFINE X == When(~sv.allow_delete, {"use_delete", "force_delete"})
           r2 == Without(r, X)
<1>1. /\ "gates" \in LoggedIn /\ "prepare" \in LoggedIn /\ "prepare" \notin LoggingIn
      /\ "prepare" # "none" /\ "prepare" # "gate" /\ "prepare" # "root" /\ "prepare" # "response"
      /\ "prepare" # "serve"
  BY DEF LoggingIn, LoggedIn, Before, Failing, Resetting, Admitting
<1>2. DOMAIN cf = DOMAIN Defaults /\ DOMAIN r = DOMAIN Defaults /\ Gated(sv, peer, cf, r)
      /\ (Authenticates(sv) => Proven(peer, cf))
  BY <1>1 DEF Policy
<1>3. X \subseteq Deletions /\ (~sv.allow_delete => X = {"use_delete", "force_delete"})
  BY DEF When, Deletions
<1> HIDE DEF X
<1>4. Gated(sv, peer, cf, r2) /\ DOMAIN r2 = DOMAIN Defaults /\ r2.on = r.on \ X
  <2>1. DOMAIN r = DOMAIN Defaults /\ Gated(sv, peer, cf, r)
    BY <1>2
  <2>2. X \in SUBSET Deletions
    BY <1>3
  <2>   Lessened(sv, peer, cf, r2, r.on \ X)
    BY <2>1, <2>2, GatedWithout
  <2> QED
    BY DEF Lessened
<1> HIDE DEF r2
<1>   Policy(sv, peer, pc, "prepare", cf, r2)
  BY <1>1, <1>2, <1>3, <1>4 DEF Policy
<1> QED
  BY DEF r2, X, Without
(* The last deletion option goes with the preparation. *)
LEMMA PolicyPrepared ==
    ASSUME NEW sv, NEW peer, NEW pc, NEW cf, NEW r, Policy(sv, peer, pc, "prepare", cf, r)
    PROVE  Policy(sv, peer, pc, "serve", cf,
                  [r EXCEPT !.on = @ \ When(~sv.allow_delete, {"delete_missing_args"})])
<1> DEFINE X == When(~sv.allow_delete, {"delete_missing_args"})
           r2 == Without(r, X)
<1>1. /\ "prepare" \in LoggedIn /\ "serve" \in LoggedIn /\ "serve" \notin LoggingIn
      /\ "prepare" # "none" /\ "serve" # "gate" /\ "serve" # "root" /\ "serve" # "response"
  BY DEF LoggingIn, LoggedIn, Before, Failing, Resetting, Admitting
<1>2. /\ DOMAIN cf = DOMAIN Defaults /\ DOMAIN r = DOMAIN Defaults /\ Gated(sv, peer, cf, r)
      /\ Authenticates(sv) => Proven(peer, cf)
      /\ ~sv.allow_delete => r.on \cap {"use_delete", "force_delete"} = {}
  BY <1>1 DEF Policy
<1>3. X \subseteq Deletions /\ (~sv.allow_delete => X = {"delete_missing_args"})
  BY DEF When, Deletions
<1> HIDE DEF X
<1>4. Gated(sv, peer, cf, r2) /\ DOMAIN r2 = DOMAIN Defaults /\ r2.on = r.on \ X
  <2>1. DOMAIN r = DOMAIN Defaults /\ Gated(sv, peer, cf, r)
    BY <1>2
  <2>2. X \in SUBSET Deletions
    BY <1>3
  <2>   Lessened(sv, peer, cf, r2, r.on \ X)
    BY <2>1, <2>2, GatedWithout
  <2> QED
    BY DEF Lessened
<1> HIDE DEF r2
<1>5. ~sv.allow_delete => r2.on \cap {"use_delete", "force_delete"} = {} /\ r2.on \cap Deletions = {}
  BY <1>2, <1>3, <1>4 DEF Deletions
<1>   Policy(sv, peer, pc, "serve", cf, r2)
  BY <1>1, <1>2, <1>4, <1>5 DEF Policy
<1> QED
  BY DEF r2, X, Without

(* What is served is within the policy. *)
LEMMA ServedWithin ==
    ASSUME NEW c, PolicyOK(c), child[c] = "serve"
    PROVE  WithinPolicy(c)
<1>1. "serve" \in LoggedIn
  BY DEF LoggedIn
<1>   /\ Gated(server, Peer(c), conf[c], sconf[c])
      /\ Authenticates(server) => Proven(Peer(c), conf[c])
      /\ ~server.allow_delete => sconf[c].on \cap Deletions = {}
  BY <1>1 DEF PolicyOK, Policy
<1> QED
  BY DEF WithinPolicy, Gated, Authenticates, Proven

---------------------------------------------------------------------------
(* The steps of the two ends.                                              *)

(* What a step of connection c leaves of the others, and of c's own state. *)
Same(d) ==
    /\ client'[d] = client[d] /\ conf'[d] = conf[d] /\ code'[d] = code[d] /\ child'[d] = child[d]
    /\ sconf'[d] = sconf[d] /\ link'[d] = link[d] /\ served'[d] = served[d]
Elsewhere(c) == scene' = scene /\ Tables' /\ \A d \in Conns \ {c} : Same(d)
Sound(c) == WireOK(c) /\ CodeOK(c) /\ PolicyOK(c) /\ (served[c] # "no" => WithinPolicy(c))

(* The invariant of one connection after a step, with the server and the   *)
(* client of the scene, which no step changes.                             *)
NextWire(c) ==
    Wire(server.kind = "daemon", Authenticates(server), Peer(c).secret, client'[c], child'[c], link'[c])
NextCode(c) ==
    Codes(LocalRun(conf'[c]), "write_batch" \in conf'[c].on, client'[c], child'[c], link'[c], code'[c], served'[c])
NextPolicy(c) == Policy(server, Peer(c), client'[c], child'[c], conf'[c], sconf'[c])
(* These are the invariant after the step. *)
LEMMA NextSound ==
    ASSUME NEW c, scene' = scene, NextWire(c), NextCode(c), NextPolicy(c)
    PROVE  WireOK(c)' /\ CodeOK(c)' /\ PolicyOK(c)'
<1>1. server' = server /\ Peer(c)' = Peer(c)
  BY DEF server, Peer
<1>2. WireOK(c)'
  BY <1>1 DEF WireOK, NextWire, Authenticates
<1>3. CodeOK(c)'
  BY DEF CodeOK, NextCode
<1>   PolicyOK(c)'
  BY <1>1 DEF PolicyOK, NextPolicy
<1> QED
  BY <1>2, <1>3
(* What was within the policy stays within it. *)
LEMMA PolicyStays ==
    ASSUME NEW c, scene' = scene, conf'[c] = conf[c], sconf'[c] = sconf[c], WithinPolicy(c)
    PROVE  WithinPolicy(c)'
<1>   server' = server /\ Peer(c)' = Peer(c)
  BY DEF server, Peer
<1> QED
  BY DEF WithinPolicy
(* A connection that the step does not touch. *)
LEMMA SameSound ==
    ASSUME NEW d, scene' = scene, Same(d), Sound(d)
    PROVE  Sound(d)'
<1>1. NextWire(d) /\ NextCode(d) /\ NextPolicy(d)
  BY DEF Same, Sound, NextWire, NextCode, NextPolicy, WireOK, CodeOK, PolicyOK
<1>2. WireOK(d)' /\ CodeOK(d)' /\ PolicyOK(d)'
  BY <1>1, NextSound
<1>   served'[d] # "no" => WithinPolicy(d)'
  BY PolicyStays DEF Same, Sound
<1> QED
  BY <1>2 DEF Sound
(* The invariant, for one connection. *)
LEMMA EachSound ==
    ASSUME VerdictInv, NEW c \in Conns
    PROVE  Sound(c) /\ Tables
<1>1. WireOK(c) /\ CodeOK(c) /\ PolicyOK(c) /\ Tables
  BY DEF VerdictInv
<1>   served[c] # "no" => WithinPolicy(c)
  BY DEF VerdictInv
<1> QED
  BY <1>1 DEF Sound
(* A step of one connection keeps the invariant when it does there. *)
LEMMA OneMoves ==
    ASSUME VerdictInv, NEW c \in Conns, Elsewhere(c), Sound(c)'
    PROVE  VerdictInv'
<1>1. ASSUME NEW d \in Conns PROVE Sound(d)'
  <2>1. CASE d = c
    BY <2>1
  <2>2. CASE d # c
    <3>1. Sound(d)
      BY EachSound
    <3>   Same(d) /\ scene' = scene
      BY <2>2 DEF Elsewhere
    <3> QED
      BY <3>1, SameSound
  <2> QED
    BY <2>1, <2>2
<1>   scene' \in Scenes /\ Tables'
  BY DEF Elsewhere, VerdictInv
<1> QED
  BY <1>1 DEF VerdictInv, Sound

(* The link after each use of it. *)
LEMMA LinkMoves ==
    ASSUME DOMAIN link = Conns, NEW c \in Conns, NEW f
    PROVE  /\ ToClient(c, f) => link'[c] = Sent(link[c], f)
           /\ ToChild(c, f) => link'[c] = Posted(link[c], f)
           /\ Consume(c) => link'[c] = Took(link[c])
           /\ Reply(c, f) => link'[c] = Replied(link[c], f)
<1>1. ToClient(c, f) => link'[c] = Sent(link[c], f)
  BY DEF ToClient, Sent
<1>2. ToChild(c, f) => link'[c] = Posted(link[c], f)
  BY DEF ToChild, Posted
<1>3. Consume(c) => link'[c] = Took(link[c])
  BY DEF Consume, Took
<1>   Reply(c, f) => link'[c] = Replied(link[c], f)
  BY DEF Reply, Replied
<1> QED
  BY <1>1, <1>2, <1>3

(* A table of which a step changes one entry. *)
Alike(f, g, c) == DOMAIN g = DOMAIN f /\ \A d \in DOMAIN f : d # c => g[d] = f[d]
(* A frame touches one link. *)
LEMMA LinkAlike ==
    ASSUME NEW c, NEW f, ToClient(c, f) \/ ToChild(c, f) \/ Consume(c) \/ Reply(c, f)
    PROVE  Alike(link, link', c)
BY DEF ToClient, ToChild, Consume, Reply, Alike

(* A child's step: it moves to q2, and touches its own entries only. *)
ChildOnly(c, q2) ==
    /\ UNCHANGED <<scene, client, conf, code>> /\ child' = [child EXCEPT ![c] = q2]
    /\ Alike(link, link', c) /\ Alike(sconf, sconf', c) /\ Alike(served, served', c)
(* It leaves the other connections alone. *)
LEMMA ChildElsewhere ==
    ASSUME Tables, NEW c \in Conns, NEW q2, ChildOnly(c, q2)
    PROVE  Elsewhere(c) /\ child'[c] = q2
<1>1. Tables' /\ child'[c] = q2
  BY DEF Tables, ChildOnly, Alike
<1>2. ASSUME NEW d \in Conns, d # c PROVE Same(d)
  BY <1>2 DEF Same, Tables, ChildOnly, Alike
<1> QED
  BY <1>1, <1>2 DEF Elsewhere, ChildOnly

(* What a child's step before the end of the transfer has to keep. *)
OnWireOK(c, q2) == Wire(server.kind = "daemon", Authenticates(server), Peer(c).secret, client[c], q2, link'[c])
Carries(c) ==
    link'[c].down = link[c].down \/ \E f \in Frames \ {"SUCCESS"} : Delivered(link'[c], link[c], f)
WithPolicy(c, q2) == Policy(server, Peer(c), client[c], q2, conf[c], sconf'[c])
(* Such a step keeps the invariant. *)
LEMMA ChildSound ==
    ASSUME VerdictInv, NEW c \in Conns, NEW q2, ChildOnly(c, q2), served' = served,
           child[c] # "closed", OnWireOK(c, q2), Carries(c), WithPolicy(c, q2)
    PROVE  VerdictInv'
<1>1. Sound(c) /\ Tables
  BY EachSound
<1>2. Elsewhere(c) /\ child'[c] = q2 /\ scene' = scene
  BY <1>1, ChildElsewhere DEF Elsewhere
<1>3. client'[c] = client[c] /\ conf'[c] = conf[c] /\ code'[c] = code[c] /\ served'[c] = served[c]
  BY DEF ChildOnly
<1>4. NextWire(c) /\ NextPolicy(c)
  BY <1>2, <1>3 DEF NextWire, OnWireOK, NextPolicy, WithPolicy
<1>5. LinkOK(link[c])
  BY <1>1 DEF Sound, WireOK, Wire
<1>6. Codes(LocalRun(conf[c]), "write_batch" \in conf[c].on, client[c], q2, link'[c], code[c], served[c])
  BY <1>1, <1>5, CodesSent DEF Sound, CodeOK, Carries
<1>7. NextCode(c)
  BY <1>2, <1>3, <1>6 DEF NextCode
<1>8. served'[c] = "no"
  BY <1>1, <1>3 DEF Sound, CodeOK, Codes
<1>   Sound(c)'
  <2>   WireOK(c)' /\ CodeOK(c)' /\ PolicyOK(c)'
    BY <1>2, <1>4, <1>7, NextSound
  <2> QED
    BY <1>8 DEF Sound
<1> QED
  BY <1>2, OneMoves

(* A turn of the child: it moves to q2 and leaves l2 of its link. *)
Held(c, q, l) == Wire(server.kind = "daemon", Authenticates(server), Peer(c).secret, client[c], q, l)
Ruled(c, q, r) == Policy(server, Peer(c), client[c], q, conf[c], r)
ChildTurn(c, q2, f, l2) ==
    /\ At(c, q2) /\ UNCHANGED <<scene, client, conf, code, served>>
    /\ \/ UNCHANGED link /\ l2 = link[c]
       \/ Consume(c) /\ l2 = Took(link[c])
       \/ ToClient(c, f) /\ l2 = Sent(link[c], f)
       \/ Reply(c, f) /\ l2 = Replied(link[c], f)
(* What such a turn does to the link. *)
LEMMA TurnLinks ==
    ASSUME Tables, NEW c \in Conns, LinkOK(link[c]), NEW q2, NEW f \in Frames \ {"SUCCESS"}, NEW l2,
           ChildTurn(c, q2, f, l2)
    PROVE  link'[c] = l2 /\ Alike(link, link', c) /\ Carries(c)
<1>1. DOMAIN link = Conns /\ f \in Frames
  BY DEF Tables
<1>2. CASE UNCHANGED link /\ l2 = link[c]
  BY <1>2 DEF Alike, Carries
<1>3. CASE Consume(c) /\ l2 = Took(link[c])
  <2>1. link'[c] = Took(link[c])
    BY <1>1, <1>3, LinkMoves
  <2>   Took(link[c]).down = link[c].down
    BY LinkTook
  <2> QED
    BY <1>3, <2>1, LinkAlike DEF Carries
<1>4. CASE ToClient(c, f) /\ l2 = Sent(link[c], f)
  <2>1. link'[c] = Sent(link[c], f)
    BY <1>1, <1>4, LinkMoves
  <2>   Delivered(Sent(link[c], f), link[c], f)
    BY <1>1, LinkSent
  <2> QED
    BY <1>4, <2>1, LinkAlike DEF Carries
<1>5. CASE Reply(c, f) /\ l2 = Replied(link[c], f)
  <2>1. link'[c] = Replied(link[c], f)
    BY <1>1, <1>5, LinkMoves
  <2>   Delivered(Replied(link[c], f), link[c], f)
    BY <1>1, LinkReplied
  <2> QED
    BY <1>5, <2>1, LinkAlike DEF Carries
<1> QED
  BY <1>2, <1>3, <1>4, <1>5 DEF ChildTurn
(* Such a turn keeps the invariant. *)
LEMMA TurnSound ==
    ASSUME VerdictInv, NEW c \in Conns, NEW q2, NEW f \in Frames \ {"SUCCESS"}, NEW l2,
           ChildTurn(c, q2, f, l2), Alike(sconf, sconf', c), child[c] # "closed",
           Held(c, q2, l2), Ruled(c, q2, sconf'[c])
    PROVE  VerdictInv'
<1>1. Tables /\ LinkOK(link[c])
  BY EachSound DEF Sound, WireOK, Wire
<1>2. link'[c] = l2 /\ Alike(link, link', c) /\ Carries(c)
  BY <1>1, TurnLinks
<1>3. served' = served /\ UNCHANGED <<scene, client, conf, code>> /\ child' = [child EXCEPT ![c] = q2]
  BY DEF ChildTurn, At
<1>4. ChildOnly(c, q2)
  BY <1>2, <1>3 DEF ChildOnly, Alike
<1>   OnWireOK(c, q2) /\ WithPolicy(c, q2)
  BY <1>2 DEF OnWireOK, Held, WithPolicy, Ruled
<1> QED
  BY <1>2, <1>3, <1>4, ChildSound

(* A turn that leaves the configuration alone. *)
LEMMA PolicyCloses ==
    ASSUME NEW sv, NEW peer, NEW pc, NEW q, NEW cf, NEW r, Policy(sv, peer, pc, q, cf, r), q # "none", NEW r2
    PROVE  Policy(sv, peer, pc, "closed", cf, r2)
<1>1. "closed" \notin LoggingIn \cup LoggedIn \cup {"gate", "none", "prepare", "serve", "root", "response"}
  BY DEF LoggingIn, LoggedIn, Before, Failing, Resetting, Admitting
<1>   DOMAIN cf = DOMAIN Defaults
  BY DEF Policy
<1> QED
  BY <1>1 DEF Policy
(* It keeps the invariant when the policy lets it move. *)
LEMMA PlainTurn ==
    ASSUME VerdictInv, NEW c \in Conns, NEW q2, NEW f \in Frames \ {"SUCCESS"}, NEW l2,
           ChildTurn(c, q2, f, l2), UNCHANGED sconf, child[c] \notin {"none", "closed"},
           Held(c, q2, l2), q2 = "closed" \/ Advances(Peer(c), sconf[c], child[c], q2)
    PROVE  VerdictInv'
<1>1. Policy(server, Peer(c), client[c], child[c], conf[c], sconf[c])
  BY EachSound DEF Sound, PolicyOK
<1>2. CASE q2 = "closed"
  <2>   Ruled(c, q2, sconf'[c])
    BY <1>1, <1>2, PolicyCloses DEF Ruled
  <2> QED
    BY TurnSound DEF Alike
<1>3. CASE Advances(Peer(c), sconf[c], child[c], q2)
  <2>1. Policy(server, Peer(c), client[c], q2, conf[c], sconf[c])
    BY <1>1, <1>3, PolicyAdvances
  <2>   Ruled(c, q2, sconf'[c])
    BY <2>1 DEF Ruled
  <2> QED
    BY TurnSound DEF Alike
<1> QED
  BY <1>2, <1>3

(* A turn in silence. *)
LEMMA QuietTurn ==
    ASSUME VerdictInv, NEW c \in Conns, NEW q2, At(c, q2), UNCHANGED <<clientside, link, sconf, served>>,
           \/ Onward(server.kind = "daemon", Authenticates(server), client[c], link[c], child[c], q2)
           \/ child[c] \in Failing /\ q2 \in Failing \cup {"closed"},
           child[c] \notin {"none", "closed"},
           q2 = "closed" \/ Advances(Peer(c), sconf[c], child[c], q2)
    PROVE  VerdictInv'
<1>1. Wire(server.kind = "daemon", Authenticates(server), Peer(c).secret, client[c], child[c], link[c])
  BY EachSound DEF Sound, WireOK
<1>2. Held(c, q2, link[c])
  BY <1>1, MoveKeeps, FailingKeeps DEF Held
<1>3. ChildTurn(c, q2, "ERROR", link[c]) /\ UNCHANGED sconf
  BY DEF ChildTurn, clientside
<1>   "ERROR" \in Frames \ {"SUCCESS"}
  BY DEF Frames
<1> QED
  BY <1>2, <1>3, PlainTurn
(* A refusal. *)
LEMMA RefuseTurn ==
    ASSUME VerdictInv, NEW c \in Conns, Refuse(c), UNCHANGED <<clientside, sconf, served>>,
           child[c] \in Before \cup Admitting
    PROVE  VerdictInv'
<1>1. Wire(server.kind = "daemon", Authenticates(server), Peer(c).secret, client[c], child[c], link[c])
  BY EachSound DEF Sound, WireOK
<1>2. Held(c, "closed", Sent(link[c], "ERROR"))
  BY <1>1, RefuseKeeps DEF Held
<1>3. ChildTurn(c, "closed", "ERROR", Sent(link[c], "ERROR")) /\ UNCHANGED sconf
  BY DEF ChildTurn, clientside, Refuse
<1>4. "ERROR" \in Frames \ {"SUCCESS"}
  BY DEF Frames
<1>   child[c] \notin {"none", "closed"}
  BY DEF Before, Admitting
<1> QED
  BY <1>2, <1>3, <1>4, PlainTurn

(* config_receive_with_validate and the module gate. *)
LEMMA ReceiveStep ==
    ASSUME VerdictInv, NEW c \in Conns, ReceiveConfig(c)
    PROVE  VerdictInv'
<1>1. child[c] = "config" /\ link[c].up # <<>>
  BY DEF ReceiveConfig
<1>2. Wire(server.kind = "daemon", Authenticates(server), Peer(c).secret, client[c], "config", link[c])
  BY <1>1, EachSound DEF Sound, WireOK
<1>3. /\ Held(c, "gate", Took(link[c]))
      /\ Held(c, "closed", Replied(link[c], "ERROR"))
  BY <1>1, <1>2, ReceiveKeeps DEF Held
<1>4. Policy(server, Peer(c), client[c], "config", conf[c], sconf[c]) /\ DOMAIN sconf = Conns
  BY <1>1, EachSound DEF Sound, PolicyOK, Tables
<1>5. sconf'[c] = Received(conf[c]) /\ Alike(sconf, sconf', c)
  BY <1>4 DEF ReceiveConfig, Alike
<1>6. "ERROR" \in Frames \ {"SUCCESS"}
  BY DEF Frames
<1>7. CASE ValidReceived(sconf'[c])
  <2>1. ChildTurn(c, "gate", "ERROR", Took(link[c]))
    BY <1>7 DEF ReceiveConfig, ChildTurn, clientside, history
  <2>2. DOMAIN conf[c] = DOMAIN Defaults
    BY <1>4 DEF Policy
  <2>3. DOMAIN Received(conf[c]) = DOMAIN Defaults
    BY <2>2, ReceivedMembers
  <2>4. "gate" \notin LoggingIn \cup LoggedIn \cup {"prepare", "serve", "root", "response"}
    BY DEF LoggingIn, LoggedIn, Before, Failing, Resetting, Admitting
  <2>   Ruled(c, "gate", sconf'[c])
    BY <1>5, <2>2, <2>3, <2>4 DEF Ruled, Policy
  <2> QED
    BY <1>1, <1>3, <1>5, <1>6, <2>1, TurnSound
<1>8. CASE ~ValidReceived(sconf'[c])
  <2>1. ChildTurn(c, "closed", "ERROR", Replied(link[c], "ERROR"))
    BY <1>8 DEF ReceiveConfig, ChildTurn, clientside, history
  <2>   Ruled(c, "closed", sconf'[c])
    BY <1>4, PolicyCloses DEF Ruled
  <2> QED
    BY <1>1, <1>3, <1>5, <1>6, <2>1, TurnSound
<1> QED
  BY <1>7, <1>8

(* The gate lets the configuration pass. *)
LEMMA GatePasses ==
    ASSUME VerdictInv, NEW c \in Conns, child[c] = "gate", NEW q2, NEW r,
           At(c, q2), UNCHANGED <<clientside, link, served>>, sconf' = [sconf EXCEPT ![c] = r],
           DOMAIN r = DOMAIN Defaults, Gated(server, Peer(c), conf[c], r),
           \/ q2 = "locked" /\ Authenticates(server)
           \/ q2 = "root" /\ server.kind = "daemon" /\ ~Authenticates(server)
           \/ q2 = "accept" /\ ~Authenticates(server)
    PROVE  VerdictInv'
<1>1. Wire(server.kind = "daemon", Authenticates(server), Peer(c).secret, client[c], "gate", link[c])
  BY EachSound DEF Sound, WireOK
<1>2. Policy(server, Peer(c), client[c], "gate", conf[c], sconf[c]) /\ DOMAIN sconf = Conns
  BY EachSound DEF Sound, PolicyOK, Tables
<1>3. ~Authenticates(server) => Authenticates(server) = FALSE
  BY SMT DEF Authenticates
<1>4. Onward(server.kind = "daemon", Authenticates(server), client[c], link[c], "gate", q2)
  BY <1>3 DEF Onward, Before, Admitting
<1>5. Held(c, q2, link[c])
  BY <1>1, <1>4, MoveKeeps DEF Held
<1>6. sconf'[c] = r /\ Alike(sconf, sconf', c)
  BY <1>2 DEF Alike
<1>7. DOMAIN conf[c] = DOMAIN Defaults
  BY <1>2 DEF Policy
<1>8. Ruled(c, q2, r)
  <2>1. "locked" \notin LoggedIn \cup {"gate", "root", "response", "prepare", "serve"}
    BY DEF LoggedIn, Resetting, Admitting
  <2>2. /\ "root" \notin LoggingIn \cup {"gate", "response", "prepare", "serve"}
        /\ "accept" \notin LoggingIn \cup {"gate", "root", "response", "prepare", "serve"}
    BY DEF LoggingIn, Before, Failing, Resetting
  <2>3. CASE q2 = "locked" /\ Authenticates(server)
    BY <1>7, <2>1, <2>3 DEF Ruled, Policy
  <2>4. CASE q2 = "root" /\ server.kind = "daemon" /\ ~Authenticates(server)
    BY <1>7, <2>2, <2>4 DEF Ruled, Policy
  <2>5. CASE q2 = "accept" /\ ~Authenticates(server)
    BY <1>7, <2>2, <2>5 DEF Ruled, Policy
  <2> QED
    BY <2>3, <2>4, <2>5
<1>9. ChildTurn(c, q2, "ERROR", link[c])
  BY DEF ChildTurn, clientside
<1>    "ERROR" \in Frames \ {"SUCCESS"}
  BY DEF Frames
<1> QED
  BY <1>5, <1>6, <1>8, <1>9, TurnSound
(* server_module_gate down to the authentication. *)
LEMMA GateStep ==
    ASSUME VerdictInv, NEW c \in Conns, ModuleGate(c)
    PROVE  VerdictInv'
<1>1. /\ child[c] = "gate" /\ UNCHANGED <<clientside, served>>
      /\ "gate" \in Before \cup Admitting
  BY DEF ModuleGate, history, Before
<1>2. Policy(server, Peer(c), client[c], "gate", conf[c], sconf[c]) /\ DOMAIN sconf = Conns
  BY <1>1, EachSound DEF Sound, PolicyOK, Tables
<1>3. /\ DOMAIN conf[c] = DOMAIN Defaults /\ sconf[c] = Received(conf[c])
      /\ DOMAIN sconf[c] = DOMAIN Defaults
  BY <1>2 DEF Policy
<1>4. CASE Refuse(c) /\ UNCHANGED sconf
  BY <1>1, <1>4, RefuseTurn
<1>5. CASE /\ server.kind = "daemon" /\ ~CannotHonour(c) /\ LookupModule(c)
           /\ CheckHosts(c) /\ CheckOwnership(c)
           /\ At(c, IF server.module.auth THEN "locked" ELSE "root") /\ UNCHANGED link
           /\ sconf' = [sconf EXCEPT ![c] = Overridden(@, SuperVetoed \/ ~server.module.client_owner)]
  <2> DEFINE r == Overridden(sconf[c], SuperVetoed \/ ~server.module.client_owner)
             q2 == IF server.module.auth THEN "locked" ELSE "root"
  <2>1. server.module.name # "none"
    BY HandshakeAssumption DEF VerdictInv, server
  <2>2. Gated(server, Peer(c), conf[c], r)
    BY <1>3, <1>5, <2>1, DaemonGate
  <2>3. DOMAIN r = DOMAIN Defaults
    BY <1>3, OverriddenMembers
  <2>4. sconf' = [sconf EXCEPT ![c] = r] /\ At(c, q2)
    BY <1>5
  <2>   (q2 = "locked" /\ Authenticates(server)) \/ (q2 = "root" /\ ~Authenticates(server))
    <3>1. CASE server.module.auth
      <4>1. Authenticates(server)
        BY <1>5, <3>1, SMT DEF Authenticates
      <4>   q2 = "locked"
        BY <3>1, SMT
      <4> QED
        BY <4>1, SMT
    <3>2. CASE ~server.module.auth
      BY <1>5, <3>2 DEF Authenticates
    <3> QED
      BY <3>1, <3>2
  <2> HIDE DEF r, q2
  <2> QED
    BY <1>1, <1>5, <2>2, <2>3, <2>4, GatePasses
<1>6. CASE /\ server.kind # "daemon" /\ ~CannotHonour(c) /\ sconf[c].module = "none"
           /\ At(c, "accept") /\ UNCHANGED link
           /\ sconf' = [sconf EXCEPT ![c] = Overridden(@, SuperVetoed)]
  <2> DEFINE r == Overridden(sconf[c], SuperVetoed)
  <2>1. Gated(server, Peer(c), conf[c], r)
    BY <1>3, <1>6, ListenerGate
  <2>2. DOMAIN r = DOMAIN Defaults
    BY <1>3, OverriddenMembers
  <2>   sconf' = [sconf EXCEPT ![c] = r] /\ ~Authenticates(server)
    BY <1>6 DEF Authenticates
  <2> HIDE DEF r
  <2> QED
    BY <1>1, <1>6, <2>1, <2>2, GatePasses
<1> QED
  BY <1>4, <1>5, <1>6 DEF ModuleGate
(* A cap turns the connection away. *)
LEMMA CapStep ==
    ASSUME VerdictInv, NEW c \in Conns, CapReached(c)
    PROVE  VerdictInv'
<1>   Refuse(c) /\ UNCHANGED <<clientside, sconf, served>> /\ child[c] \in Before \cup Admitting
  BY DEF CapReached, history, Before
<1> QED
  BY RefuseTurn

(* module_gate_authenticate and what follows it. *)
LEMMA LockedStep ==
    ASSUME VerdictInv, NEW c \in Conns, AuthLocked(c)
    PROVE  VerdictInv'
<1>1. child[c] = "locked" /\ UNCHANGED <<clientside, sconf, served>>
  BY DEF AuthLocked, history
<1>2. CASE Refuse(c)
  BY <1>1, <1>2, RefuseTurn DEF Before
<1>3. ASSUME NEW q2 \in {"clear_fail", "policy"}, At(c, q2), UNCHANGED link
      PROVE  VerdictInv'
  <2>1. Onward(server.kind = "daemon", Authenticates(server), client[c], link[c], "locked", q2)
    BY DEF Onward, Before
  <2>   Advances(Peer(c), sconf[c], "locked", q2)
    BY DEF Advances, LoggingIn, Before, Resetting
  <2> QED
    BY <1>1, <1>3, <2>1, QuietTurn
<1> QED
  BY <1>2, <1>3 DEF AuthLocked

(* The moves that change the registry and the histories only. *)
LEMMA RecordStep ==
    ASSUME VerdictInv, NEW c \in Conns,
           \/ ClearFail(c) \/ ClearUntil(c) \/ ResetFail(c) \/ ResetUntil(c)
           \/ RecordFailure(c) \/ Lock(c) \/ Terminated(c)
    PROVE  VerdictInv'
<1>2. CASE ClearFail(c) \/ ClearUntil(c)
  <2>0. UNCHANGED <<clientside, link, sconf, served>>
    BY <1>2 DEF ClearFail, ClearUntil, history
  <2>1. PICK q2 \in {"clear_until", "policy"} : At(c, q2)
    BY <1>2 DEF ClearFail, ClearUntil
  <2>   child[c] \in {"clear_fail", "clear_until"}
    BY <1>2 DEF ClearFail, ClearUntil
  <2>3. Onward(server.kind = "daemon", Authenticates(server), client[c], link[c], child[c], q2)
    BY DEF Onward, Before
  <2>   Advances(Peer(c), sconf[c], child[c], q2)
    BY DEF Advances, LoggingIn, Before, Resetting
  <2> QED
    BY <2>0, <2>1, <2>3, QuietTurn
<1>3. CASE ResetFail(c) \/ ResetUntil(c)
  <2>0. UNCHANGED <<clientside, link, sconf, served>>
    BY <1>3 DEF ResetFail, ResetUntil, history
  <2>1. PICK q2 \in {"reset_until", "root"} : At(c, q2)
    BY <1>3 DEF ResetFail, ResetUntil
  <2>2. child[c] \in Resetting /\ child[c] \notin {"none", "closed"}
    BY <1>3 DEF ResetFail, ResetUntil, Resetting
  <2>3. Authenticates(server)
    BY <2>2, EachSound DEF Sound, PolicyOK, Policy, LoggingIn
  <2>4. Authenticates(server) = TRUE
    BY <2>3, SMT DEF Authenticates
  <2>5. Onward(server.kind = "daemon", Authenticates(server), client[c], link[c], child[c], q2)
    BY <2>2, <2>4 DEF Onward, Resetting, Admitting
  <2>   Advances(Peer(c), sconf[c], child[c], q2)
    BY <2>2 DEF Advances, Resetting
  <2> QED
    BY <2>0, <2>1, <2>2, <2>5, QuietTurn
<1>4. CASE RecordFailure(c) \/ Lock(c) \/ Terminated(c)
  <2>0. UNCHANGED <<clientside, link, sconf, served>>
    BY <1>4 DEF RecordFailure, Lock, Terminated, history
  <2>1. PICK q2 \in {"lock", "terminated", "closed"} : At(c, q2)
    BY <1>4 DEF RecordFailure, Lock, Terminated
  <2>2. child[c] \in Failing /\ child[c] \notin {"none", "closed"}
    BY <1>4 DEF RecordFailure, Lock, Terminated, Failing
  <2>3. q2 \in Failing \cup {"closed"}
    BY DEF Failing
  <2>   q2 = "closed" \/ Advances(Peer(c), sconf[c], child[c], q2)
    BY <2>2 DEF Advances, LoggingIn, Failing, Resetting
  <2> QED
    BY <2>0, <2>1, <2>2, <2>3, QuietTurn
<1> QED
  BY <1>2, <1>3, <1>4

(* server_auth_handshake. *)
LEMMA ChallengeStep ==
    ASSUME VerdictInv, NEW c \in Conns, Challenge(c)
    PROVE  VerdictInv'
<1>1. child[c] = "policy" /\ UNCHANGED <<clientside, sconf, served>>
  BY DEF Challenge, history
<1>2. CASE Refuse(c)
  BY <1>1, <1>2, RefuseTurn DEF Before
<1>3. Wire(server.kind = "daemon", Authenticates(server), Peer(c).secret, client[c], "policy", link[c])
  BY <1>1, EachSound DEF Sound, WireOK
<1>4. /\ Held(c, "failed", Sent(link[c], "AUTH_FAILED"))
      /\ Held(c, "response", Sent(link[c], "AUTH_CHALLENGE"))
  BY <1>3, ChallengeKeeps DEF Held
<1>5. {"AUTH_FAILED", "AUTH_CHALLENGE"} \subseteq Frames \ {"SUCCESS"}
  BY DEF Frames
<1>6. CASE At(c, "failed") /\ ToClient(c, "AUTH_FAILED")
  <2>1. ChildTurn(c, "failed", "AUTH_FAILED", Sent(link[c], "AUTH_FAILED")) /\ UNCHANGED sconf
    BY <1>1, <1>6 DEF ChildTurn, clientside
  <2>   Advances(Peer(c), sconf[c], "policy", "failed")
    BY DEF Advances, LoggingIn, Before, Failing, Resetting
  <2> QED
    BY <1>1, <1>4, <1>5, <2>1, PlainTurn
<1>7. CASE /\ "auth_user" \in sconf[c].on
           /\ At(c, "response") /\ ToClient(c, "AUTH_CHALLENGE")
  <2>1. ChildTurn(c, "response", "AUTH_CHALLENGE", Sent(link[c], "AUTH_CHALLENGE")) /\ UNCHANGED sconf
    BY <1>1, <1>7 DEF ChildTurn, clientside
  <2>   Advances(Peer(c), sconf[c], "policy", "response")
    BY <1>7 DEF Advances
  <2> QED
    BY <1>1, <1>4, <1>5, <2>1, PlainTurn
<1> QED
  BY <1>2, <1>6, <1>7 DEF Challenge

(* The proof arrives, or does not. *)
LEMMA ResponseStep ==
    ASSUME VerdictInv, NEW c \in Conns, CheckResponse(c) \/ SuccessUnsent(c) \/ ResponseMissing(c)
    PROVE  VerdictInv'
<1>1. child[c] = "response" /\ UNCHANGED <<clientside, sconf, served>>
  BY DEF CheckResponse, SuccessUnsent, ResponseMissing, history
<1>2. Wire(server.kind = "daemon", Authenticates(server), Peer(c).secret, client[c], "response", link[c])
  BY <1>1, EachSound DEF Sound, WireOK
<1>3. LinkOK(link[c]) /\ link[c].up \in {<<>>, <<Peer(c).secret>>}
  BY <1>2 DEF Wire, Upward
<1>4. {"AUTH_FAILED", "AUTH_OK", "ERROR"} \subseteq Frames \ {"SUCCESS"}
  BY DEF Frames
<1>5. Advances(Peer(c), sconf[c], "response", "failed")
  BY DEF Advances, LoggingIn, Failing, Resetting
<1>6. ASSUME NEW f \in Frames \ {"SUCCESS"}, NEW l2, ChildTurn(c, "failed", f, l2), Held(c, "failed", l2)
      PROVE  VerdictInv'
  BY <1>1, <1>5, <1>6, PlainTurn
<1>7. CASE CheckResponse(c) /\ Head(link[c].up) = "right"
  <2>1. link[c].up # <<>> /\ At(c, "reset_fail") /\ Reply(c, "AUTH_OK")
    BY <1>7 DEF CheckResponse
  <2>2. ChildTurn(c, "reset_fail", "AUTH_OK", Replied(link[c], "AUTH_OK")) /\ UNCHANGED sconf
    BY <1>1, <2>1 DEF ChildTurn, clientside
  <2>3. Held(c, "reset_fail", Replied(link[c], "AUTH_OK"))
    BY <1>2, <2>1, ResponseKeeps DEF Held
  <2>4. link[c].up = <<Peer(c).secret>>
    BY <1>3, <2>1
  <2>5. Head(<<Peer(c).secret>>) = Peer(c).secret
    BY FewFrames
  <2>6. Peer(c).secret = "right"
    BY <1>7, <2>4, <2>5
  <2>   Advances(Peer(c), sconf[c], "response", "reset_fail")
    BY <2>6 DEF Advances
  <2> QED
    BY <1>1, <1>4, <2>2, <2>3, PlainTurn
<1>8. CASE CheckResponse(c) /\ Head(link[c].up) # "right"
  <2>1. link[c].up # <<>> /\ At(c, "failed") /\ Reply(c, "AUTH_FAILED")
    BY <1>8 DEF CheckResponse
  <2>2. ChildTurn(c, "failed", "AUTH_FAILED", Replied(link[c], "AUTH_FAILED"))
    BY <1>1, <2>1 DEF ChildTurn, clientside
  <2>   Held(c, "failed", Replied(link[c], "AUTH_FAILED"))
    BY <1>2, <2>1, ResponseKeeps DEF Held
  <2> QED
    BY <1>4, <1>6, <2>2
<1>9. CASE SuccessUnsent(c)
  <2>1. link[c].up # <<>> /\ link[c].broken /\ At(c, "failed") /\ Consume(c)
    BY <1>9 DEF SuccessUnsent
  <2>2. ChildTurn(c, "failed", "ERROR", Took(link[c]))
    BY <1>1, <2>1 DEF ChildTurn, clientside
  <2>3. link[c].broken = TRUE
    BY <1>3, <2>1 DEF LinkOK
  <2>   Held(c, "failed", Took(link[c]))
    BY <1>2, <2>1, <2>3, ResponseKeeps DEF Held
  <2> QED
    BY <1>4, <1>6, <2>2
<1>10. CASE ResponseMissing(c)
  <2>1. ChildAtEof(c) /\ At(c, "failed") /\ ToClient(c, "AUTH_FAILED")
    BY <1>10 DEF ResponseMissing
  <2>2. ChildTurn(c, "failed", "AUTH_FAILED", Sent(link[c], "AUTH_FAILED"))
    BY <1>1, <2>1 DEF ChildTurn, clientside
  <2>3. link[c].up = <<>> /\ (client[c] \in Gone \/ link[c].broken = TRUE)
    BY <1>3, <2>1 DEF ChildAtEof, LinkOK, Gone
  <2>   Held(c, "failed", Sent(link[c], "AUTH_FAILED"))
    BY <1>2, <2>3, ResponseKeeps DEF Held
  <2> QED
    BY <1>4, <1>6, <2>2
<1> QED
  BY <1>7, <1>8, <1>9, <1>10

(* The acceptance and the phases after it. *)
LEMMA AcceptStep ==
    ASSUME VerdictInv, NEW c \in Conns, InstallRoot(c) \/ Accept(c)
    PROVE  VerdictInv'
<1>1. UNCHANGED <<clientside, sconf, served>>
  BY DEF InstallRoot, Accept, history
<1>2. CASE InstallRoot(c) /\ server.module.path_ok
  <2>1. child[c] = "root" /\ At(c, "accept") /\ UNCHANGED link
    BY <1>2 DEF InstallRoot
  <2>2. Onward(server.kind = "daemon", Authenticates(server), client[c], link[c], "root", "accept")
    BY DEF Onward, Admitting
  <2>   Advances(Peer(c), sconf[c], "root", "accept")
    BY DEF Advances
  <2> QED
    BY <1>1, <2>1, <2>2, QuietTurn
<1>3. CASE InstallRoot(c) /\ ~server.module.path_ok
  <2>   child[c] \in Before \cup Admitting /\ Refuse(c)
    BY <1>3 DEF InstallRoot, Admitting
  <2> QED
    BY <1>1, RefuseTurn
<1>4. CASE Accept(c)
  <2>1. child[c] = "accept" /\ At(c, "gates") /\ ToClient(c, "OK")
    BY <1>4 DEF Accept
  <2>2. Wire(server.kind = "daemon", Authenticates(server), Peer(c).secret, client[c], "accept", link[c])
    BY <2>1, EachSound DEF Sound, WireOK
  <2>3. Held(c, "gates", Sent(link[c], "OK"))
    BY <2>2, AcceptKeeps DEF Held
  <2>4. ChildTurn(c, "gates", "OK", Sent(link[c], "OK")) /\ UNCHANGED sconf
    BY <1>1, <2>1 DEF ChildTurn, clientside
  <2>5. "OK" \in Frames \ {"SUCCESS"}
    BY DEF Frames
  <2>   Advances(Peer(c), sconf[c], "accept", "gates")
    BY DEF Advances
  <2> QED
    BY <2>1, <2>3, <2>4, <2>5, PlainTurn
<1> QED
  BY <1>2, <1>3, <1>4

(* server_apply_security_gates. *)
LEMMA GatesStep ==
    ASSUME VerdictInv, NEW c \in Conns, SecurityGates(c)
    PROVE  VerdictInv'
<1>1. child[c] = "gates" /\ UNCHANGED <<clientside, link, served>>
  BY DEF SecurityGates, history
<1>2. Wire(server.kind = "daemon", Authenticates(server), Peer(c).secret, client[c], "gates", link[c])
  BY <1>1, EachSound DEF Sound, WireOK
<1>3. Policy(server, Peer(c), client[c], "gates", conf[c], sconf[c]) /\ DOMAIN sconf = Conns
  BY <1>1, EachSound DEF Sound, PolicyOK, Tables
<1>4. \A q2 \in {"prepare", "closed"} :
         Onward(server.kind = "daemon", Authenticates(server), client[c], link[c], "gates", q2)
  BY DEF Onward
<1>5. CASE At(c, "closed") /\ UNCHANGED sconf
  BY <1>1, <1>4, <1>5, QuietTurn
<1>6. CASE /\ At(c, "prepare")
           /\ sconf' = [sconf EXCEPT ![c].on = @ \ When(~server.allow_delete, {"use_delete", "force_delete"})]
  <2> DEFINE r == [sconf[c] EXCEPT !.on = @ \ When(~server.allow_delete, {"use_delete", "force_delete"})]
  <2>1. sconf'[c] = r /\ Alike(sconf, sconf', c)
    BY <1>3, <1>6 DEF Alike
  <2>2. Ruled(c, "prepare", r)
    BY <1>3, PolicyGates DEF Ruled
  <2> HIDE DEF r
  <2>3. Held(c, "prepare", link[c])
    BY <1>2, <1>4, MoveKeeps DEF Held
  <2>4. ChildTurn(c, "prepare", "ERROR", link[c])
    BY <1>1, <1>6 DEF ChildTurn, clientside
  <2>   "ERROR" \in Frames \ {"SUCCESS"}
    BY DEF Frames
  <2> QED
    BY <1>1, <2>1, <2>2, <2>3, <2>4, TurnSound
<1> QED
  BY <1>5, <1>6 DEF SecurityGates
(* server_prepare_session. *)
LEMMA PrepareStep ==
    ASSUME VerdictInv, NEW c \in Conns, PrepareSession(c) \/ PrepareFails(c)
    PROVE  VerdictInv'
<1> DEFINE r == [sconf[c] EXCEPT !.on = @ \ When(~server.allow_delete, {"delete_missing_args"})]
<1>1. child[c] = "prepare" /\ UNCHANGED <<clientside, served>>
  BY DEF PrepareSession, PrepareFails, history
<1>2. Wire(server.kind = "daemon", Authenticates(server), Peer(c).secret, client[c], "prepare", link[c])
  BY <1>1, EachSound DEF Sound, WireOK
<1>3. Policy(server, Peer(c), client[c], "prepare", conf[c], sconf[c]) /\ DOMAIN sconf = Conns
  BY <1>1, EachSound DEF Sound, PolicyOK, Tables
<1>4. Onward(server.kind = "daemon", Authenticates(server), client[c], link[c], "prepare", "closed")
  BY DEF Onward
<1>5. Held(c, "closed", link[c])
  BY <1>2, <1>4, MoveKeeps DEF Held
<1>6. {"ERROR", "MOTD"} \subseteq Frames \ {"SUCCESS"}
  BY DEF Frames
<1>7. CASE PrepareFails(c)
  <2>   At(c, "closed") /\ UNCHANGED <<clientside, link, sconf, served>>
    BY <1>7 DEF PrepareFails, history
  <2> QED
    BY <1>1, <1>4, QuietTurn
<1>8. CASE PrepareSession(c)
  <2>1. sconf'[c] = r /\ Alike(sconf, sconf', c)
    BY <1>3, <1>8 DEF PrepareSession, Alike
  <2>2. Ruled(c, "serve", r) /\ Ruled(c, "closed", r)
    BY <1>3, PolicyPrepared, PolicyCloses DEF Ruled
  <2> HIDE DEF r
  <2>3. CASE ~RootReady(c)
    <3>   ChildTurn(c, "closed", "ERROR", link[c])
      BY <1>1, <1>8, <2>3 DEF PrepareSession, ChildTurn, clientside
    <3> QED
      BY <1>1, <1>5, <1>6, <2>1, <2>2, TurnSound
  <2>4. CASE RootReady(c) /\ server.kind = "daemon"
    <3>1. At(c, "serve") /\ ToClient(c, "MOTD")
      BY <1>8, <2>4 DEF PrepareSession, Greet
    <3>2. ChildTurn(c, "serve", "MOTD", Sent(link[c], "MOTD"))
      BY <1>1, <3>1 DEF ChildTurn, clientside
    <3>3. (server.kind = "daemon") = TRUE
      BY <2>4
    <3>   Held(c, "serve", Sent(link[c], "MOTD"))
      BY <1>2, <3>3, GreetKeeps DEF Held
    <3> QED
      BY <1>1, <1>6, <2>1, <2>2, <3>2, TurnSound
  <2>5. CASE RootReady(c) /\ server.kind # "daemon"
    <3>1. At(c, "serve") /\ UNCHANGED link
      BY <1>8, <2>5 DEF PrepareSession, Greet
    <3>2. ChildTurn(c, "serve", "ERROR", link[c])
      BY <1>1, <3>1 DEF ChildTurn, clientside
    <3>3. (server.kind = "daemon") = FALSE
      BY <2>5
    <3>4. Onward(server.kind = "daemon", Authenticates(server), client[c], link[c], "prepare", "serve")
      BY <3>3 DEF Onward
    <3>   Held(c, "serve", link[c])
      BY <1>2, <3>4, MoveKeeps DEF Held
    <3> QED
      BY <1>1, <1>6, <2>1, <2>2, <3>2, TurnSound
  <2> QED
    BY <2>3, <2>4, <2>5
<1> QED
  BY <1>7, <1>8
(* The child finds its client gone. *)
LEMMA LostStep ==
    ASSUME VerdictInv, NEW c \in Conns, PeerLost(c)
    PROVE  VerdictInv'
<1>1. /\ child[c] \in {"config", "serve"} /\ ChildAtEof(c) /\ At(c, "closed")
      /\ UNCHANGED <<clientside, link, sconf, served>>
  BY DEF PeerLost, history
<1>2. link[c].broken \in BOOLEAN
  BY EachSound DEF Sound, WireOK, Wire, LinkOK
<1>3. client[c] \in Gone \/ link[c].broken = TRUE
  BY <1>1, <1>2 DEF ChildAtEof, Gone
<1>   Onward(server.kind = "daemon", Authenticates(server), client[c], link[c], child[c], "closed")
  BY <1>1, <1>3 DEF Onward
<1> QED
  BY <1>1, QuietTurn

(* server_run_transfer. *)
LEMMA ServeStep ==
    ASSUME VerdictInv, NEW c \in Conns, Serve(c)
    PROVE  VerdictInv'
<1>1. /\ child[c] = "serve" /\ link[c].up # <<>> /\ At(c, "closed")
      /\ UNCHANGED <<scene, client, conf, code, sconf>>
  BY DEF Serve, clientside
<1>2. PICK s2 \in {"stored", "failed"}, f \in {"SUCCESS", "ERROR"} :
         /\ served' = [served EXCEPT ![c] = s2] /\ Reply(c, f)
         /\ (s2 = "stored" /\ f = "SUCCESS") \/ (s2 = "failed" /\ f = "ERROR")
  BY DEF Serve
<1>3. Sound(c) /\ Tables
  BY EachSound
<1>4. Wire(server.kind = "daemon", Authenticates(server), Peer(c).secret, client[c], "serve", link[c])
  BY <1>1, <1>3 DEF Sound, WireOK
<1>5. LinkOK(link[c]) /\ f \in Frames
  BY <1>4 DEF Wire, Frames
<1>6. link'[c] = Replied(link[c], f) /\ Delivered(Replied(link[c], f), link[c], f)
  BY <1>2, <1>3, <1>5, LinkMoves, LinkReplied DEF Tables
<1>7. (server.kind = "daemon") \in BOOLEAN
  OBVIOUS
<1>8. /\ Wire(server.kind = "daemon", Authenticates(server), Peer(c).secret, client[c], "closed", link'[c])
      /\ AwaitsStatus(client[c], link[c], link'[c], f)
  <2>   /\ Wire(server.kind = "daemon", Authenticates(server), Peer(c).secret, client[c],
                "closed", Replied(link[c], f))
        /\ AwaitsStatus(client[c], link[c], Replied(link[c], f), f)
    BY <1>1, <1>4, <1>7, ServeKeeps
  <2> QED
    BY <1>6
<1>9. ChildOnly(c, "closed")
  <2>1. Alike(link, link', c)
    BY <1>2, LinkAlike
  <2>   Alike(sconf, sconf', c) /\ Alike(served, served', c)
    BY <1>1, <1>2 DEF Alike
  <2> QED
    BY <1>1, <2>1 DEF ChildOnly, At
<1>10. Elsewhere(c) /\ child'[c] = "closed" /\ scene' = scene
  BY <1>3, <1>9, ChildElsewhere DEF Elsewhere
<1>11. /\ served'[c] = s2 /\ client'[c] = client[c] /\ conf'[c] = conf[c]
       /\ code'[c] = code[c] /\ sconf'[c] = sconf[c]
  BY <1>1, <1>2, <1>3 DEF Tables
<1>12. NextWire(c)
  BY <1>8, <1>10, <1>11 DEF NextWire
<1>13. Codes(LocalRun(conf[c]), "write_batch" \in conf[c].on, client[c], "closed", link'[c], code[c], s2)
  <2>1. Codes(LocalRun(conf[c]), "write_batch" \in conf[c].on, client[c], "serve", link[c], code[c], served[c])
    BY <1>1, <1>3 DEF Sound, CodeOK
  <2>   Delivered(link'[c], link[c], f)
    BY <1>6
  <2> QED
    BY <1>2, <1>5, <1>8, <2>1, CodesServed
<1>14. NextCode(c)
  BY <1>10, <1>11, <1>13 DEF NextCode
<1>15. PolicyOK(c)
  BY <1>3 DEF Sound
<1>16. NextPolicy(c)
  <2>1. Policy(server, Peer(c), client[c], "serve", conf[c], sconf[c])
    BY <1>1, <1>15 DEF PolicyOK
  <2>   Policy(server, Peer(c), client[c], "closed", conf[c], sconf[c])
    BY <2>1, PolicyCloses
  <2> QED
    BY <1>10, <1>11 DEF NextPolicy
<1>17. WithinPolicy(c)'
  <2>   WithinPolicy(c)
    BY <1>1, <1>15, ServedWithin
  <2> QED
    BY <1>10, <1>11, PolicyStays
<1>    Sound(c)'
  <2>   WireOK(c)' /\ CodeOK(c)' /\ PolicyOK(c)'
    BY <1>10, <1>12, <1>14, <1>16, NextSound
  <2> QED
    BY <1>17 DEF Sound
<1> QED
  BY <1>10, OneMoves
(* Every step of a child keeps the invariant. *)
LEMMA ChildSteps ==
    ASSUME VerdictInv, NEW c \in Conns, ChildStep(c)
    PROVE  VerdictInv'
<1>1. CASE Authenticate(c)
  BY <1>1, LockedStep, RecordStep, ChallengeStep, ResponseStep DEF Authenticate
<1>2. CASE ReceiveConfig(c) \/ ModuleGate(c) \/ CapReached(c)
  BY <1>2, ReceiveStep, GateStep, CapStep
<1>3. CASE InstallRoot(c) \/ Accept(c) \/ SecurityGates(c)
  BY <1>3, AcceptStep, GatesStep
<1>4. CASE PrepareSession(c) \/ PrepareFails(c) \/ Serve(c) \/ PeerLost(c)
  BY <1>4, PrepareStep, ServeStep, LostStep
<1> QED
  BY <1>1, <1>2, <1>3, <1>4 DEF ChildStep

(* A step of the client's, or of its connection's. *)
ClientOnly(c) ==
    /\ UNCHANGED <<scene, sconf, served>> /\ Alike(child, child', c)
    /\ Alike(client, client', c) /\ Alike(conf, conf', c) /\ Alike(code, code', c) /\ Alike(link, link', c)
(* Such a step keeps the invariant. *)
LEMMA ClientSound ==
    ASSUME VerdictInv, NEW c \in Conns, ClientOnly(c), NextWire(c), NextCode(c), NextPolicy(c),
           conf'[c] = conf[c] \/ child[c] # "closed"
    PROVE  VerdictInv'
<1>1. Sound(c) /\ Tables
  BY EachSound
<1>2. Tables'
  BY <1>1 DEF Tables, ClientOnly, Alike
<1>3. ASSUME NEW d \in Conns, d # c PROVE Same(d)
  BY <1>1, <1>3 DEF Same, Tables, ClientOnly, Alike
<1>4. Elsewhere(c) /\ scene' = scene /\ served'[c] = served[c] /\ sconf'[c] = sconf[c]
  BY <1>2, <1>3 DEF Elsewhere, ClientOnly
<1>5. WireOK(c)' /\ CodeOK(c)' /\ PolicyOK(c)'
  BY <1>4, NextSound
<1>6. served'[c] # "no" => WithinPolicy(c)'
  <2>1. CASE conf'[c] = conf[c]
    BY <1>1, <1>4, <2>1, PolicyStays DEF Sound
  <2>2. CASE child[c] # "closed"
    BY <1>1, <1>4, <2>2 DEF Sound, CodeOK, Codes
  <2> QED
    BY <2>1, <2>2
<1>   Sound(c)'
  BY <1>5, <1>6 DEF Sound
<1> QED
  BY <1>4, OneMoves

(* Before the connection. *)
LEMMA CodesParsing ==
    ASSUME NEW local, NEW batch, NEW pc, NEW l, NEW n, NEW s, Codes(local, batch, pc, "none", l, n, s),
           NEW local2, NEW batch2, NEW pc2, NEW n2, n2 = 0 => pc2 = "done" /\ local2
    PROVE  Codes(local2, batch2, pc2, "none", l, n2, s)
<1>   s = "no"
  BY DEF Codes
<1> QED
  BY DEF Codes
(* The client's position hardly matters to the policy. *)
LEMMA PolicyClient ==
    ASSUME NEW sv, NEW peer, NEW pc, NEW q, NEW cf, NEW r, Policy(sv, peer, pc, q, cf, r),
           NEW pc2, q # "none" \/ pc2 # "connect"
    PROVE  Policy(sv, peer, pc2, q, cf, r)
BY DEF Policy
(* There is no policy without a connection. *)
LEMMA PolicyUnconnected ==
    ASSUME NEW sv, NEW peer, NEW pc, NEW cf, NEW r, pc = "connect" => DOMAIN cf = DOMAIN Defaults
    PROVE  Policy(sv, peer, pc, "none", cf, r)
<1>   "none" \notin LoggingIn \cup LoggedIn \cup {"gate", "prepare", "serve", "root", "response"}
  BY DEF LoggingIn, LoggedIn, Before, Failing, Resetting, Admitting
<1> QED
  BY DEF Policy
(* A client without a connection has no child. *)
LEMMA NoChildYet ==
    ASSUME VerdictInv, NEW c \in Conns, client[c] \in Unconnected
    PROVE  child[c] = "none"
BY EachSound DEF Sound, WireOK, Wire, Ends
(* A client that reads has one. *)
LEMMA ChildThere ==
    ASSUME VerdictInv, NEW c \in Conns, client[c] \in Reading \cup {"prove", "send"}
    PROVE  child[c] # "none"
<1>   client[c] \notin Unconnected \cup {"done"}
  BY DEF Reading, Unconnected
<1> QED
  BY EachSound DEF Sound, WireOK, Wire, Ends

(* A client that has no connection yet stays without, or leaves. *)
LEMMA ParseSound ==
    ASSUME VerdictInv, NEW c \in Conns, client[c] \in Unconnected,
           UNCHANGED <<scene, link, serverside>>, Alike(client, client', c), Alike(conf, conf', c),
           Alike(code, code', c), client'[c] \in Unconnected \cup {"done"},
           code'[c] = 0 => client'[c] = "done" /\ LocalRun(conf'[c]),
           client'[c] = "connect" => DOMAIN conf'[c] = DOMAIN Defaults
    PROVE  VerdictInv'
<1>1. Sound(c) /\ child[c] = "none" /\ child' = child /\ sconf' = sconf /\ served' = served
  BY EachSound, NoChildYet DEF serverside
<1>2. ClientOnly(c)
  BY <1>1 DEF ClientOnly, Alike
<1>3. Wire(server.kind = "daemon", Authenticates(server), Peer(c).secret, client[c], "none", link[c])
  BY <1>1 DEF Sound, WireOK
<1>4. Wire(server.kind = "daemon", Authenticates(server), Peer(c).secret, client'[c], "none", link[c])
  BY <1>3, ParseKeeps
<1>5. NextWire(c)
  BY <1>1, <1>4 DEF NextWire
<1>6. Codes(LocalRun(conf[c]), "write_batch" \in conf[c].on, client[c], "none", link[c], code[c], served[c])
  BY <1>1 DEF Sound, CodeOK
<1>7. Codes(LocalRun(conf'[c]), "write_batch" \in conf'[c].on, client'[c], "none", link[c], code'[c], served[c])
  <2> DEFINE local2 == LocalRun(conf'[c])
             batch2 == "write_batch" \in conf'[c].on
  <2>1. code'[c] = 0 => client'[c] = "done" /\ local2
    OBVIOUS
  <2> HIDE DEF local2, batch2
  <2>   Codes(local2, batch2, client'[c], "none", link[c], code'[c], served[c])
    BY <1>6, <2>1, CodesParsing
  <2> QED
    BY DEF local2, batch2
<1>8. NextCode(c)
  BY <1>1, <1>7 DEF NextCode
<1>   NextPolicy(c)
  BY <1>1, PolicyUnconnected DEF NextPolicy
<1> QED
  BY <1>1, <1>2, <1>5, <1>8, ClientSound
(* A client that has not left has not exited with 0. *)
LEMMA CodeUnset ==
    ASSUME VerdictInv, NEW c \in Conns, client[c] # "done"
    PROVE  code[c] # 0
BY EachSound DEF Sound, CodeOK, Codes
(* One argument of parse_args. *)
LEMMA ArgumentStep ==
    ASSUME VerdictInv, NEW c \in Conns, ReadArgument(c)
    PROVE  VerdictInv'
<1>1. client[c] = "parse" /\ "parse" \in Unconnected /\ UNCHANGED <<scene, link, serverside>>
  BY DEF ReadArgument, Unconnected
<1>2. Tables /\ code[c] # 0
  BY <1>1, EachSound, CodeUnset
<1>3. Alike(conf, conf', c)
  BY DEF ReadArgument, Alike
<1>4. CASE Refused(conf'[c])
  <2>1. client' = [client EXCEPT ![c] = "done"] /\ code' = [code EXCEPT ![c] = conf'[c].exit]
    BY <1>4 DEF ReadArgument, Exit
  <2>   Alike(client, client', c) /\ Alike(code, code', c) /\ client'[c] = "done" /\ code'[c] # 0
    BY <1>2, <1>4, <2>1 DEF Alike, Tables, Refused
  <2> QED
    BY <1>1, <1>3, ParseSound
<1>5. CASE ~Refused(conf'[c])
  <2>   Alike(client, client', c) /\ Alike(code, code', c) /\ client'[c] = "parse" /\ code'[c] # 0
    BY <1>1, <1>2, <1>5 DEF ReadArgument, Alike
  <2> QED
    BY <1>1, <1>3, ParseSound
<1> QED
  BY <1>4, <1>5

(* What main makes of a command line it does not refuse is a whole         *)
(* configuration.  ConfigInv will imply it.                                *)
PreparedWhole ==
    \A c \in Conns : client[c] = "parse" /\ ~Refused(Prepared(conf[c], Line(c)))
                      => DOMAIN Prepared(conf[c], Line(c)) = DOMAIN Defaults

(* main between parse_args and the transfer. *)
LEMMA PreparingStep ==
    ASSUME PreparedWhole, VerdictInv, NEW c \in Conns, Prepare(c)
    PROVE  VerdictInv'
<1>1. client[c] = "parse" /\ "parse" \in Unconnected /\ UNCHANGED <<scene, link, serverside>>
  BY DEF Prepare, Unconnected
<1>2. Tables /\ code[c] # 0
  BY <1>1, EachSound, CodeUnset
<1>3. Alike(conf, conf', c) /\ conf'[c] = Prepared(conf[c], Line(c))
  BY <1>2 DEF Prepare, Alike, Tables
<1>5. CASE Refused(conf'[c])
  <2>1. client' = [client EXCEPT ![c] = "done"] /\ code' = [code EXCEPT ![c] = conf'[c].exit]
    BY <1>5 DEF Prepare, Exit
  <2>   Alike(client, client', c) /\ Alike(code, code', c) /\ client'[c] = "done" /\ code'[c] # 0
    BY <1>2, <1>5, <2>1 DEF Alike, Tables, Refused
  <2> QED
    BY <1>1, <1>3, ParseSound
<1>6. CASE ~Refused(conf'[c]) /\ LocalRun(conf'[c])
  <2>1. client' = [client EXCEPT ![c] = "done"] /\ code' = [code EXCEPT ![c] = 0]
    BY <1>6 DEF Prepare, Exit
  <2>   Alike(client, client', c) /\ Alike(code, code', c) /\ client'[c] = "done"
    BY <1>2, <2>1 DEF Alike, Tables
  <2> QED
    BY <1>1, <1>3, <1>6, ParseSound
<1>7. CASE ~Refused(conf'[c]) /\ ~LocalRun(conf'[c])
  <2>1. client' = [client EXCEPT ![c] = "connect"] /\ code' = code
    BY <1>7 DEF Prepare, Go
  <2>2. Alike(client, client', c) /\ Alike(code, code', c) /\ client'[c] = "connect" /\ code'[c] # 0
    BY <1>2, <2>1 DEF Alike, Tables
  <2>4. DOMAIN conf'[c] = DOMAIN Defaults
    BY <1>1, <1>3, <1>7 DEF PreparedWhole
  <2>   "connect" \in Unconnected
    BY DEF Unconnected
  <2> QED
    BY <1>1, <1>3, <2>2, <2>4, ParseSound
<1> QED
  BY <1>5, <1>6, <1>7
(* The connection fails. *)
LEMMA ConnectFailsStep ==
    ASSUME VerdictInv, NEW c \in Conns, ConnectFails(c)
    PROVE  VerdictInv'
<1>1. /\ client[c] = "connect" /\ "connect" \in Unconnected /\ UNCHANGED <<scene, link, serverside>>
      /\ client' = [client EXCEPT ![c] = "done"] /\ code' = [code EXCEPT ![c] = 1] /\ conf' = conf
  BY DEF ConnectFails, Exit, Unconnected
<1>2. Tables
  BY EachSound
<1>3. 1 # 0
  BY SMT
<1>   /\ Alike(client, client', c) /\ Alike(code, code', c) /\ Alike(conf, conf', c)
      /\ client'[c] = "done" /\ code'[c] # 0
  BY <1>1, <1>2, <1>3 DEF Alike, Tables
<1> QED
  BY <1>1, ParseSound
(* connect_transfer_client and config_send_wire_block. *)
LEMMA ConnectStep ==
    ASSUME VerdictInv, NEW c \in Conns, Connect(c)
    PROVE  VerdictInv'
<1>1. /\ client[c] = "connect" /\ "connect" \in Unconnected /\ ToChild(c, "config")
      /\ client' = [client EXCEPT ![c] = "verdict"] /\ child' = [child EXCEPT ![c] = "config"]
      /\ UNCHANGED <<scene, conf, code, sconf, served>>
  BY DEF Connect, Go, history, Unconnected
<1>2. Sound(c) /\ Tables /\ child[c] = "none" /\ code[c] # 0
  BY <1>1, EachSound, NoChildYet, CodeUnset
<1>3. /\ client'[c] = "verdict" /\ child'[c] = "config" /\ conf'[c] = conf[c] /\ code'[c] = code[c]
      /\ sconf'[c] = sconf[c] /\ served'[c] = served[c]
  BY <1>1, <1>2 DEF Tables
<1>4. link'[c] = Posted(link[c], "config") /\ Alike(link, link', c)
  BY <1>1, <1>2, LinkMoves, LinkAlike DEF Tables
<1>5. ClientOnly(c)
  <2>   /\ Alike(client, client', c) /\ Alike(child, child', c) /\ Alike(conf, conf', c)
        /\ Alike(code, code', c)
    BY <1>1 DEF Alike
  <2> QED
    BY <1>1, <1>4 DEF ClientOnly
<1>6. Wire(server.kind = "daemon", Authenticates(server), Peer(c).secret, "connect", "none", link[c])
  BY <1>1, <1>2 DEF Sound, WireOK
<1>7. Wire(server.kind = "daemon", Authenticates(server), Peer(c).secret, "verdict", "config", link'[c])
  <2>   Wire(server.kind = "daemon", Authenticates(server), Peer(c).secret, "verdict", "config",
             Posted(link[c], "config"))
    BY <1>6, ConnectKeeps
  <2> QED
    BY <1>4
<1>8. NextWire(c)
  BY <1>3, <1>7 DEF NextWire
<1>9. link'[c].down = link[c].down
  <2>1. LinkOK(link[c])
    BY <1>6 DEF Wire
  <2>   Posted(link[c], "config").down = link[c].down
    BY <2>1, LinkPosted
  <2> QED
    BY <1>4
<1>10. NextCode(c)
  BY <1>2, <1>3, <1>9 DEF NextCode, Sound, CodeOK, Codes
<1>11. DOMAIN conf[c] = DOMAIN Defaults
  BY <1>1, <1>2 DEF Sound, PolicyOK, Policy
<1>12. "config" \notin LoggingIn \cup LoggedIn \cup {"gate", "prepare", "serve", "root", "response"}
  BY DEF LoggingIn, LoggedIn, Before, Failing, Resetting, Admitting
<1>    NextPolicy(c)
  BY <1>3, <1>11, <1>12 DEF NextPolicy, Policy
<1> QED
  BY <1>3, <1>5, <1>8, <1>10, ClientSound

(* How the client follows a frame, or the end of the connection. *)
LEMMA Followed ==
    ASSUME Tables, NEW c \in Conns, client[c] \in Reading, NEW f, Follow(c, f)
    PROVE  /\ Alike(client, client', c) /\ Alike(code, code', c) /\ Welcome(c) \in {"motd", "send"}
           /\ Reads(Welcome(c), client[c], f, client'[c])
           /\ Leaves("write_batch" \in conf[c].on, client[c], f, client'[c], code[c], code'[c])
<1> DEFINE pc == client[c]
           w == Welcome(c)
           batch == "write_batch" \in conf[c].on
           X == When(batch, {"failure"})
<1>1. w \in {"motd", "send"}
  BY DEF Welcome
<1>2. X \subseteq {"failure"} /\ (X # {} => batch)
  BY DEF When
<1>3. PICK x \in Reaction(c, f) :
         CASE x = "success" -> Exit(c, 0)
           [] x = "failure" -> Exit(c, 1)
           [] OTHER -> Go(c, x) /\ UNCHANGED code
  BY DEF Follow
<1>4. \/ pc \in {"verdict", "accept"} /\ f = "OK" /\ x = w
      \/ pc = "verdict" /\ f = "AUTH_CHALLENGE" /\ x = "prove"
      \/ pc = "proof" /\ f = "AUTH_OK" /\ x = "accept"
      \/ pc = "motd" /\ x = "send"
      \/ pc = "outcome" /\ f = "SUCCESS" /\ (x = "success" \/ (x = "failure" /\ x \in X))
      \/ /\ x = "failure" /\ pc # "motd" /\ ~(pc = "outcome" /\ f = "SUCCESS")
         /\ ~(pc \in {"verdict", "accept"} /\ f = "OK") /\ ~(pc = "proof" /\ f = "AUTH_OK")
  BY <1>2 DEF Reaction
<1> HIDE DEF X
<1>5. CASE x = "success" /\ pc = "outcome" /\ f = "SUCCESS"
  <2>1. client' = [client EXCEPT ![c] = "done"] /\ code' = [code EXCEPT ![c] = 0]
    BY <1>3, <1>5 DEF Exit
  <2>   Alike(client, client', c) /\ Alike(code, code', c) /\ client'[c] = "done" /\ code'[c] = 0
    BY <2>1 DEF Alike, Tables
  <2>3. Reads(w, pc, f, client'[c])
    BY <1>5 DEF Reads
  <2>   Leaves(batch, pc, f, client'[c], code[c], code'[c])
    BY <1>5 DEF Leaves
  <2> QED
    BY <1>1, <2>3
<1>6. CASE /\ x = "failure" /\ pc # "motd" /\ (pc = "outcome" /\ f = "SUCCESS" => batch)
           /\ ~(pc \in {"verdict", "accept"} /\ f = "OK") /\ ~(pc = "proof" /\ f = "AUTH_OK")
  <2>1. client' = [client EXCEPT ![c] = "done"] /\ code' = [code EXCEPT ![c] = 1]
    BY <1>3, <1>6 DEF Exit
  <2>   Alike(client, client', c) /\ Alike(code, code', c) /\ client'[c] = "done" /\ code'[c] = 1
    BY <2>1 DEF Alike, Tables
  <2>3. Reads(w, pc, f, client'[c])
    BY <1>6 DEF Reads
  <2>   Leaves(batch, pc, f, client'[c], code[c], code'[c])
    BY <1>6 DEF Leaves
  <2> QED
    BY <1>1, <2>3
<1>7. CASE \/ pc \in {"verdict", "accept"} /\ f = "OK" /\ x = w
           \/ pc = "verdict" /\ f = "AUTH_CHALLENGE" /\ x = "prove"
           \/ pc = "proof" /\ f = "AUTH_OK" /\ x = "accept"
           \/ pc = "motd" /\ x = "send"
  <2>1. x \notin {"success", "failure", "done"} /\ pc # "outcome"
    BY <1>1, <1>7
  <2>2. client' = [client EXCEPT ![c] = x] /\ code' = code
    BY <1>3, <2>1 DEF Go
  <2>   Alike(client, client', c) /\ Alike(code, code', c) /\ client'[c] = x /\ code'[c] = code[c]
    BY <2>2 DEF Alike, Tables
  <2>4. Reads(w, pc, f, client'[c])
    BY <1>7 DEF Reads
  <2>   Leaves(batch, pc, f, client'[c], code[c], code'[c])
    BY <2>1 DEF Leaves
  <2> QED
    BY <1>1, <2>4
<1> QED
  BY <1>2, <1>4, <1>5, <1>6, <1>7

(* A step of a connected client that does not change its configuration. *)
LEMMA ConnectedSound ==
    ASSUME VerdictInv, NEW c \in Conns, child[c] # "none", UNCHANGED <<scene, conf, serverside>>,
           Alike(client, client', c), Alike(code, code', c), Alike(link, link', c),
           Wire(server.kind = "daemon", Authenticates(server), Peer(c).secret, client'[c], child[c], link'[c]),
           Codes(LocalRun(conf[c]), "write_batch" \in conf[c].on, client'[c], child[c], link'[c],
                 code'[c], served[c])
    PROVE  VerdictInv'
<1>1. conf'[c] = conf[c] /\ child'[c] = child[c] /\ sconf'[c] = sconf[c] /\ served'[c] = served[c]
  BY DEF serverside
<1>2. ClientOnly(c)
  <2>   scene' = scene /\ conf' = conf /\ child' = child /\ sconf' = sconf /\ served' = served
    BY DEF serverside
  <2>   Alike(conf, conf', c) /\ Alike(child, child', c)
    BY DEF Alike
  <2> QED
    BY DEF ClientOnly
<1>3. NextWire(c) /\ NextCode(c)
  BY <1>1 DEF NextWire, NextCode
<1>4. Policy(server, Peer(c), client[c], child[c], conf[c], sconf[c])
  BY EachSound DEF Sound, PolicyOK
<1>   NextPolicy(c)
  BY <1>1, <1>4, PolicyClient DEF NextPolicy
<1> QED
  BY <1>1, <1>2, <1>3, ClientSound

(* The client reads a frame. *)
LEMMA FrameStep ==
    ASSUME VerdictInv, NEW c \in Conns, ReadFrame(c)
    PROVE  VerdictInv'
<1> DEFINE w == Welcome(c)
           greets == server.kind = "daemon"
           l2 == Fetched(link[c])
<1>1. /\ client[c] \in Reading /\ link[c].down # <<>> /\ Follow(c, Head(link[c].down))
      /\ link' = [link EXCEPT ![c].down = Tail(@)] /\ UNCHANGED <<scene, conf, serverside>>
  BY DEF ReadFrame
<1>2. Sound(c) /\ Tables /\ child[c] # "none"
  BY <1>1, EachSound, ChildThere
<1>3. link'[c] = l2 /\ Alike(link, link', c)
  BY <1>1, <1>2 DEF Fetched, Alike, Tables
<1>4. /\ Alike(client, client', c) /\ Alike(code, code', c) /\ w \in {"motd", "send"}
      /\ Reads(w, client[c], Head(link[c].down), client'[c])
      /\ Leaves("write_batch" \in conf[c].on, client[c], Head(link[c].down), client'[c], code[c], code'[c])
  BY <1>1, <1>2, Followed
<1>5. child[c] \in {"gates", "prepare", "serve"} => (greets /\ w = "motd") \/ (~greets /\ w = "send")
  <2>1. ASSUME child[c] \in {"gates", "prepare", "serve"}
        PROVE  Gated(server, Peer(c), conf[c], sconf[c])
    BY <1>2, <2>1 DEF Sound, PolicyOK, Policy, LoggedIn
  <2>2. ASSUME child[c] \in {"gates", "prepare", "serve"}
        PROVE  greets <=> conf[c].module # "none"
    BY <2>1, <2>2 DEF Gated
  <2> QED
    BY <2>2 DEF Welcome
<1>6. Wire(greets, Authenticates(server), Peer(c).secret, client[c], child[c], link[c])
  BY <1>2 DEF Sound, WireOK
<1>7. LinkOK(link[c])
  BY <1>6 DEF Wire
<1> HIDE DEF w, greets
<1>8. Wire(greets, Authenticates(server), Peer(c).secret, client'[c], child[c], Fetched(link[c]))
  BY <1>1, <1>4, <1>5, <1>6, FrameReadKeeps
<1>9. Codes(LocalRun(conf[c]), "write_batch" \in conf[c].on, client[c], child[c], link[c], code[c], served[c])
  BY <1>2 DEF Sound, CodeOK
<1>    Codes(LocalRun(conf[c]), "write_batch" \in conf[c].on, client'[c], child[c], Fetched(link[c]),
             code'[c], served[c])
  BY <1>1, <1>4, <1>7, <1>9, CodesRead
<1> QED
  BY <1>1, <1>2, <1>3, <1>4, <1>8, ConnectedSound DEF greets
(* The client finds the connection closed. *)
LEMMA EofStep ==
    ASSUME VerdictInv, NEW c \in Conns, ReadFails(c)
    PROVE  VerdictInv'
<1>1. /\ client[c] \in Reading /\ ClientAtEof(c) /\ Follow(c, "EOF") /\ link' = link
      /\ UNCHANGED <<scene, conf, serverside>>
  BY DEF ReadFails
<1>2. Sound(c) /\ Tables /\ child[c] # "none"
  BY <1>1, EachSound, ChildThere
<1>3. /\ Alike(client, client', c) /\ Alike(code, code', c)
      /\ Reads(Welcome(c), client[c], "EOF", client'[c])
      /\ Leaves("write_batch" \in conf[c].on, client[c], "EOF", client'[c], code[c], code'[c])
  BY <1>1, <1>2, Followed
<1>4. client'[c] = IF client[c] = "motd" THEN "send" ELSE "done"
  BY <1>3 DEF Reads
<1>5. Wire(server.kind = "daemon", Authenticates(server), Peer(c).secret, client[c], child[c], link[c])
  BY <1>2 DEF Sound, WireOK
<1>6. link[c].broken \in BOOLEAN
  BY <1>5 DEF Wire, LinkOK
<1>7. link[c].down = <<>> /\ (child[c] = "closed" \/ link[c].broken = TRUE)
  BY <1>1, <1>6 DEF ClientAtEof
<1>8. Wire(server.kind = "daemon", Authenticates(server), Peer(c).secret, client'[c], child[c], link[c])
  BY <1>1, <1>4, <1>5, <1>7, EofKeeps
<1>9. Codes(LocalRun(conf[c]), "write_batch" \in conf[c].on, client[c], child[c], link[c], code[c], served[c])
  BY <1>2 DEF Sound, CodeOK
<1>10. Codes(LocalRun(conf[c]), "write_batch" \in conf[c].on, client'[c], child[c], link[c],
             code'[c], served[c])
  BY <1>1, <1>3, <1>7, <1>9, CodesEof
<1>    Alike(link, link', c) /\ link'[c] = link[c]
  BY <1>1 DEF Alike
<1> QED
  BY <1>1, <1>2, <1>3, <1>8, <1>10, ConnectedSound
(* The client sends its proof, or its files. *)
LEMMA AnswerStep ==
    ASSUME VerdictInv, NEW c \in Conns, Answer(c)
    PROVE  VerdictInv'
<1> DEFINE pc2 == IF client[c] = "prove" THEN "proof" ELSE "outcome"
           f == IF client[c] = "prove" THEN Peer(c).secret ELSE "files"
<1>1. /\ client[c] \in {"prove", "send"} /\ client' = [client EXCEPT ![c] = pc2] /\ ToChild(c, f)
      /\ UNCHANGED <<scene, conf, code, serverside>>
  BY DEF Answer, Go
<1>2. Sound(c) /\ Tables /\ child[c] # "none"
  BY <1>1, EachSound, ChildThere
<1>3. Wire(server.kind = "daemon", Authenticates(server), Peer(c).secret, client[c], child[c], link[c])
  BY <1>2 DEF Sound, WireOK
<1>4. Wire(server.kind = "daemon", Authenticates(server), Peer(c).secret, pc2, child[c], Posted(link[c], f))
  <2>1. CASE client[c] = "prove"
    <3>1. Wire(server.kind = "daemon", Authenticates(server), Peer(c).secret, "proof", child[c],
               Posted(link[c], Peer(c).secret))
      BY <1>3, <2>1, ProofKeeps
    <3>   pc2 = "proof" /\ f = Peer(c).secret
      BY <2>1
    <3> HIDE DEF pc2, f
    <3> QED
      BY <3>1
  <2>2. CASE client[c] = "send"
    <3>1. Wire(server.kind = "daemon", Authenticates(server), Peer(c).secret, "outcome", child[c],
               Posted(link[c], "files"))
      BY <1>3, <2>2, FilesKeep
    <3>   pc2 = "outcome" /\ f = "files"
      BY <2>2
    <3> HIDE DEF pc2, f
    <3> QED
      BY <3>1
  <2> QED
    BY <1>1, <2>1, <2>2
<1> HIDE DEF pc2, f
<1>5. LinkOK(link[c]) /\ client[c] # "done" /\ client[c] \notin Gone \cup {"outcome"}
  BY <1>1, <1>3 DEF Wire, Gone
<1>6. link'[c] = Posted(link[c], f)
  BY <1>1, <1>2, LinkMoves DEF Tables
<1>7. Alike(link, link', c)
  BY <1>1, LinkAlike
<1>8. /\ Alike(client, client', c) /\ Alike(code, code', c) /\ client'[c] = pc2 /\ code'[c] = code[c]
  BY <1>1, <1>2 DEF Alike, Tables
<1>9. Posted(link[c], f).down = link[c].down /\ Posted(link[c], f).broken = link[c].broken
  BY <1>5, LinkPosted
<1>10. Codes(LocalRun(conf[c]), "write_batch" \in conf[c].on, client[c], child[c], link[c], code[c], served[c])
  BY <1>2 DEF Sound, CodeOK
<1>    Codes(LocalRun(conf[c]), "write_batch" \in conf[c].on, pc2, child[c], Posted(link[c], f),
             code[c], served[c])
  BY <1>5, <1>9, <1>10, CodesOnward
<1> QED
  BY <1>1, <1>2, <1>4, <1>6, <1>7, <1>8, ConnectedSound

(* The client falls silent. *)
LEMMA StallStep ==
    ASSUME VerdictInv, NEW c \in Conns, Stall(c)
    PROVE  VerdictInv'
<1>1. /\ client[c] \in Reading /\ client' = [client EXCEPT ![c] = "stalled"]
      /\ UNCHANGED <<scene, conf, code, link, serverside>>
  BY DEF Stall, Go
<1>2. Sound(c) /\ Tables /\ child[c] # "none"
  BY <1>1, EachSound, ChildThere
<1>3. Wire(server.kind = "daemon", Authenticates(server), Peer(c).secret, client[c], child[c], link[c])
  BY <1>2 DEF Sound, WireOK
<1>4. Wire(server.kind = "daemon", Authenticates(server), Peer(c).secret, "stalled", child[c], link[c])
  BY <1>1, <1>3, StallKeeps
<1>5. Codes(LocalRun(conf[c]), "write_batch" \in conf[c].on, client[c], child[c], link[c], code[c], served[c])
  BY <1>2 DEF Sound, CodeOK
<1>6. client[c] # "done"
  BY <1>1 DEF Reading
<1>7. Codes(LocalRun(conf[c]), "write_batch" \in conf[c].on, "stalled", child[c], link[c], code[c], served[c])
  BY <1>5, <1>6, CodesOnward
<1>   /\ Alike(client, client', c) /\ Alike(code, code', c) /\ Alike(link, link', c)
      /\ client'[c] = "stalled" /\ code'[c] = code[c] /\ link'[c] = link[c]
  BY <1>1, <1>2 DEF Alike, Tables
<1> QED
  BY <1>1, <1>2, <1>4, <1>7, ConnectedSound
(* The connection is lost. *)
LEMMA BreakStep ==
    ASSUME VerdictInv, NEW c \in Conns, Break(c)
    PROVE  VerdictInv'
<1>1. /\ child[c] \notin {"none", "closed"} /\ UNCHANGED <<scene, client, conf, code, serverside>>
  BY DEF Break, clientside
<1>2. PICK u \in {link[c].up, <<>>} :
         link' = [link EXCEPT ![c] = [up |-> u, down |-> <<>>, broken |-> TRUE]]
  BY DEF Break
<1> DEFINE l2 == Lost(u)
<1>3. Sound(c) /\ Tables
  BY EachSound
<1>4. Wire(server.kind = "daemon", Authenticates(server), Peer(c).secret, client[c], child[c], link[c])
  BY <1>3 DEF Sound, WireOK
<1>5. Wire(server.kind = "daemon", Authenticates(server), Peer(c).secret, client[c], child[c], l2)
  <2>1. child[c] # "none" /\ (u = link[c].up \/ u = <<>>)
    BY <1>1
  <2> HIDE DEF l2
  <2>   Wire(server.kind = "daemon", Authenticates(server), Peer(c).secret, client[c], child[c], Lost(u))
    BY <1>4, <2>1, BreakKeeps
  <2> QED
    BY DEF l2
<1>6. link'[c] = l2 /\ Alike(link, link', c)
  BY <1>2, <1>3 DEF Alike, Tables, Lost
<1>7. l2.down = <<>> /\ DOMAIN <<>> = {}
  BY SMTT(60) DEF Lost
<1> HIDE DEF l2
<1>8. Codes(LocalRun(conf[c]), "write_batch" \in conf[c].on, client[c], child[c], l2, code[c], served[c])
  <2>   /\ Codes(LocalRun(conf[c]), "write_batch" \in conf[c].on, client[c], child[c], link[c],
                 code[c], served[c])
        /\ served[c] = "no"
    BY <1>1, <1>3 DEF Sound, CodeOK, Codes
  <2> QED
    BY <1>7 DEF Codes
<1>   /\ Alike(client, client', c) /\ Alike(code, code', c)
      /\ client'[c] = client[c] /\ code'[c] = code[c]
  BY <1>1 DEF Alike
<1>    /\ Wire(server.kind = "daemon", Authenticates(server), Peer(c).secret, client'[c], child[c], link'[c])
       /\ Codes(LocalRun(conf[c]), "write_batch" \in conf[c].on, client'[c], child[c], link'[c],
                code'[c], served[c])
  BY <1>5, <1>6, <1>8
<1> QED
  BY <1>1, <1>6, ConnectedSound

(* The invariant of the initial states, and of every step. *)
LEMMA VerdictInit == Init => VerdictInv
<1> SUFFICES ASSUME Init PROVE VerdictInv
  OBVIOUS
<1>1. scene \in Scenes /\ Tables
  BY DEF Init, Tables
<1>2. ASSUME NEW c \in Conns PROVE WireOK(c) /\ CodeOK(c) /\ PolicyOK(c) /\ served[c] = "no"
  <2> DEFINE l == [up |-> <<>>, down |-> <<>>, broken |-> FALSE]
  <2>1. /\ client[c] \in {"parse", "absent"} /\ code[c] = -1 /\ child[c] = "none"
        /\ link[c] = l /\ served[c] = "no"
    BY DEF Init
  <2>2. /\ LinkOK(l) /\ l.up = <<>> /\ l.down = <<>> /\ l.broken = FALSE
        /\ DOMAIN <<>> = {} /\ -1 # 0
    BY SMTT(60) DEF LinkOK
  <2> HIDE DEF l
  <2>3. "none" \notin Before \cup Failing \cup Resetting \cup Admitting \cup {"config", "response", "closed"}
    BY DEF Before, Failing, Resetting, Admitting
  <2>4. {"parse", "absent"} \subseteq ClientPcs \cap Unconnected /\ "none" \in ChildPcs
    BY DEF ClientPcs, Unconnected, ChildPcs
  <2>5. LoneTerminal(<<>>) /\ NoTerminal(<<>>)
    BY <2>2 DEF LoneTerminal, NoTerminal
  <2>6. Ends(client[c], "none", l) /\ client[c] # "done"
    BY <2>1, <2>2, <2>4 DEF Ends
  <2>7. WireOK(c)
    BY <2>1, <2>2, <2>3, <2>5, <2>6 DEF WireOK, Wire, Upward, Terminals
  <2>8. CodeOK(c)
    BY <2>1, <2>2 DEF CodeOK, Codes
  <2>   PolicyOK(c)
    BY <2>1, PolicyUnconnected DEF PolicyOK
  <2> QED
    BY <2>1, <2>7, <2>8
<1> QED
  BY <1>1, <1>2 DEF VerdictInv

(* Every step keeps the invariant. *)
LEMMA VerdictStep ==
    ASSUME PreparedWhole, VerdictInv, [Next]_vars
    PROVE  VerdictInv'
<1>1. ASSUME UNCHANGED <<scene, client, conf, code, child, sconf, link, served>>
      PROVE  VerdictInv'
  <2>1. Tables' /\ scene' \in Scenes
    BY <1>1 DEF VerdictInv, Tables
  <2>2. ASSUME NEW c \in Conns PROVE Sound(c)'
    <3>   Sound(c) /\ Same(c) /\ scene' = scene
      BY <1>1, EachSound DEF Same
    <3> QED
      BY SameSound
  <2> QED
    BY <2>1, <2>2 DEF VerdictInv, Sound
<1>2. CASE UNCHANGED vars
  BY <1>1, <1>2 DEF vars, history
<1>3. CASE Tick \/ Over
  <2>1. CASE Over
    BY <1>2, <2>1 DEF Over
  <2>2. CASE Tick
    BY <1>1, <2>2 DEF Tick, clientside, serverside
  <2> QED
    BY <1>3, <2>1, <2>2
<1>4. ASSUME NEW c \in Conns, ParseStep(c)
      PROVE  VerdictInv'
  BY <1>4, ArgumentStep, PreparingStep DEF ParseStep
<1>5. ASSUME NEW c \in Conns, ClientStep(c) \/ Stall(c) \/ Break(c)
      PROVE  VerdictInv'
  BY <1>5, ConnectStep, ConnectFailsStep, FrameStep, EofStep, AnswerStep, StallStep, BreakStep
  DEF ClientStep
<1>6. ASSUME NEW c \in Conns, ChildStep(c)
      PROVE  VerdictInv'
  BY <1>6, ChildSteps
<1> QED
  BY <1>2, <1>3, <1>4, <1>5, <1>6 DEF Next

(* What a client that still follows finds first is what it waits for. *)
LEMMA HeadExpected ==
    ASSUME NEW greets, NEW auth, NEW pc, NEW q \in ChildPcs, q # "none", NEW u, NEW d,
           Following(greets, auth, pc, q, u, d), d # <<>>
    PROVE  Head(d) \in Expected(pc)
<1>1. /\ {"OK", "ERROR", "AUTH_CHALLENGE", "AUTH_FAILED"} \subseteq Expected("verdict")
      /\ {"AUTH_OK", "AUTH_FAILED"} \subseteq Expected("proof")
      /\ {"OK", "ERROR"} \subseteq Expected("accept") /\ "MOTD" \in Expected("motd")
      /\ {"SUCCESS", "ERROR"} \subseteq Expected("outcome")
  BY DEF Expected
<1>2. ~Silent(pc, d) /\ ~Welcomed(pc, u, d)
  BY DEF Silent, Welcomed
<1>3. CASE Asked(pc, u, d) \/ Failed(pc, d) \/ Proved(pc, d)
  BY <1>1, <1>3, FewFrames DEF Asked, Failed, Proved
<1>4. CASE Closed(pc, d)
  <2>1. CASE pc = "verdict"
    BY <1>1, <1>4, <2>1, FewFrames DEF Closed
  <2>2. CASE pc = "proof"
    <3>   /\ Head(<<"AUTH_OK", "ERROR">>) = "AUTH_OK" /\ Head(<<"AUTH_OK", "OK">>) = "AUTH_OK"
          /\ Head(<<"AUTH_FAILED">>) = "AUTH_FAILED"
      BY FewFrames
    <3> QED
      BY <1>1, <1>4, <2>2 DEF Closed
  <2>3. CASE pc = "accept"
    BY <1>1, <1>4, <2>3, FewFrames DEF Closed
  <2>4. CASE pc = "outcome"
    BY <1>1, <1>4, <2>4, FewFrames DEF Closed
  <2> QED
    BY <1>4, <2>1, <2>2, <2>3, <2>4 DEF Closed
<1>5. ASSUME NEW g, Accepted(pc, u, d, g)
      PROVE  Head(d) \in Expected(pc)
  <2>1. CASE pc \in {"verdict", "accept"} /\ d = <<"OK">>
    BY <1>1, <2>1, FewFrames
  <2>2. CASE pc = "proof" /\ d = <<"AUTH_OK", "OK">>
    BY <1>1, <2>2, FewFrames
  <2> QED
    BY <1>2, <1>5, <2>1, <2>2 DEF Accepted
<1>6. CASE Greeted(pc, u, d)
  <2>1. CASE pc = "proof" /\ d = <<"AUTH_OK", "OK", "MOTD">>
    BY <1>1, <2>1, ThreeRead
  <2>2. CASE pc # "proof"
    <3>   Head(<<"OK", "MOTD">>) = "OK" /\ Head(<<"MOTD">>) = "MOTD"
      BY FewFrames
    <3> QED
      BY <1>1, <1>2, <1>6, <2>2 DEF Greeted
  <2> QED
    BY <1>2, <1>6, <2>1, <2>2 DEF Greeted
<1>   \/ Asked(pc, u, d) \/ Failed(pc, d) \/ Proved(pc, d) \/ Closed(pc, d) \/ Greeted(pc, u, d)
      \/ \E g : Accepted(pc, u, d, g)
  BY <1>2, Positions DEF Following
<1> QED
  BY <1>3, <1>4, <1>5, <1>6
(* The invariant implies the property. *)
LEMMA VerdictsFollow == VerdictInv => VerdictsMatch
<1> SUFFICES ASSUME VerdictInv, NEW c \in Conns
             PROVE  /\ code[c] = 0 => LocalRun(conf[c]) \/ served[c] = "stored"
                    /\ served[c] = "stored" /\ client[c] = "done" /\ ~link[c].broken
                          => code[c] = 0 \/ "write_batch" \in conf[c].on
                    /\ client[c] \in Reading /\ link[c].down # <<>>
                          => Head(link[c].down) \in Expected(client[c])
                    /\ \A i, j \in DOMAIN link[c].down :
                          {link[c].down[i], link[c].down[j]} \subseteq Terminal => i = j
                    /\ child[c] = "serve" \/ served[c] # "no" => WithinPolicy(c)
  BY DEF VerdictsMatch
<1>1. Sound(c)
  BY EachSound
<1>2. Wire(server.kind = "daemon", Authenticates(server), Peer(c).secret, client[c], child[c], link[c])
  BY <1>1 DEF Sound, WireOK
<1>3. /\ link[c].broken \in BOOLEAN /\ LoneTerminal(link[c].down)
      /\ link[c].broken = TRUE => link[c].down = <<>>
      /\ child[c] \in ChildPcs
  BY <1>2 DEF Wire, LinkOK, Terminals, Ends
<1>4. code[c] = 0 => LocalRun(conf[c]) \/ served[c] = "stored"
  BY <1>1 DEF Sound, CodeOK, Codes
<1>5. ASSUME served[c] = "stored", client[c] = "done", ~link[c].broken
      PROVE  code[c] = 0 \/ "write_batch" \in conf[c].on
  <2>   link[c].broken = FALSE
    BY <1>3, <1>5
  <2> QED
    BY <1>1, <1>5 DEF Sound, CodeOK, Codes
<1>6. ASSUME client[c] \in Reading, link[c].down # <<>>
      PROVE  Head(link[c].down) \in Expected(client[c])
  <2>   link[c].broken = FALSE /\ child[c] # "none" /\ client[c] \notin Gone
    BY <1>3, <1>6, ChildThere DEF Reading, Gone
  <2>   Following(server.kind = "daemon", Authenticates(server), client[c], child[c], link[c].up, link[c].down)
    BY <1>2 DEF Wire
  <2> QED
    BY <1>3, <1>6, HeadExpected
<1>   child[c] = "serve" \/ served[c] # "no" => WithinPolicy(c)
  BY <1>1, ServedWithin DEF Sound
<1> QED
  BY <1>3, <1>4, <1>5, <1>6 DEF LoneTerminal

---------------------------------------------------------------------------
(* The parser, option by option.                                           *)

(* An argument whose value the parser does not check itself has one of the *)
(* values its spelling allows.                                             *)
Spelled(a) ==
    /\ a[1] = "super" => a[2] \in {"AUTO", "ON", "OFF"}
    /\ a[1] = "max_del" => a[2] \in Int

(* Turning members on, and failing, disturb no value. *)
LEMMA TurnKeeps ==
    ASSUME NEW c, Parsed(c), NEW F
    PROVE  Parsed(Turn(c, F)) /\ Parsed([c EXCEPT !.on = F])
BY Members DEF Parsed, Turn

(* A refusal records the exit status and nothing else. *)
LEMMA FailKeeps ==
    ASSUME NEW c, Parsed(c), NEW n
    PROVE  Parsed(Fail(c, n)) /\ Fail(c, n).exit = n
BY Members DEF Parsed, Fail

(* The boolean options. *)
LEMMA FlagKeeps ==
    ASSUME NEW c, Parsed(c), NEW kind, NEW f
    PROVE  Parsed(HandleFlag(c, kind, f))
<1>   Parsed(Negation(c, f))
  BY TurnKeeps DEF Negation
<1> QED
  BY TurnKeeps, FailKeeps DEF HandleFlag

(* The options that choose a codec, its level or a checksum. *)
LEMMA ChoicesKeep ==
    ASSUME NEW c, Parsed(c), NEW x, NEW y
    PROVE  /\ Parsed(Compress(c)) /\ Parsed(CompressChoice(c, x)) /\ Parsed(CompressLevel(c, x))
           /\ Parsed(ChecksumChoice(c, x, y))
<1>1. Parsed(Compress(c))
  BY TurnKeeps DEF Compress
<1>2. Parsed(CompressChoice(c, x))
  BY FailKeeps, Members, SMTT(60) DEF CompressChoice, Parsed
<1>3. Parsed(CompressLevel(c, x))
  BY FailKeeps, Members, SMTT(60) DEF CompressLevel, Parsed, Turn
<1>   Parsed(ChecksumChoice(c, x, y))
  BY FailKeeps, Members, SMTT(60) DEF ChecksumChoice, Parsed, Turn
<1> QED
  BY <1>1, <1>2, <1>3

(* The ownership options. *)
LEMMA MapsKeep ==
    ASSUME NEW c, Parsed(c), NEW x, NEW y
    PROVE  Parsed(UserMap(c)) /\ Parsed(GroupMap(c)) /\ Parsed(Chown(c, x, y))
BY TurnKeeps, FailKeeps DEF UserMap, GroupMap, Chown

(* The sizes: what is out of range is refused. *)
LEMMA NumbersKeep ==
    ASSUME NEW c, Parsed(c), NEW n
    PROVE  /\ Parsed(ChunkSize(c, n)) /\ Parsed(BlockSize(c, n)) /\ Parsed(DeltaMax(c, n))
           /\ Parsed(MaxAlloc(c, n)) /\ (n \in Int => Parsed(MaxDelete(c, n)))
<1>1. Parsed(ChunkSize(c, n))
  BY FailKeeps, Members, SMTT(60) DEF ChunkSize, Parsed
<1>2. Parsed(BlockSize(c, n))
  BY Members DEF BlockSize, Parsed
<1>3. Parsed(DeltaMax(c, n))
  BY FailKeeps, Members, SMTT(60) DEF DeltaMax, Parsed
<1>4. Parsed(MaxAlloc(c, n))
  BY Members DEF MaxAlloc, Parsed
<1>   n \in Int => Parsed(MaxDelete(c, n))
  BY Members, SMTT(60) DEF MaxDelete, Parsed
<1> QED
  BY <1>1, <1>2, <1>3, <1>4

(* parse_args keeps every value in its range, whatever the argument. *)
LEMMA ReadKeeps ==
    ASSUME NEW c, Parsed(c), NEW a, Spelled(a)
    PROVE  Parsed(ReadArg(c, a))
<1>1. a[1] = "super" => Parsed([c EXCEPT !.super_mode = a[2]])
  BY Members DEF Parsed, Spelled
<1>   Parsed(HandleArg(c, a))
  BY <1>1, FlagKeeps, ChoicesKeep, MapsKeep, NumbersKeep, FailKeeps DEF HandleArg, Spelled
<1> QED
  BY DEF ReadArg
---------------------------------------------------------------------------
(* What cli_finalize_config settles, besides the flags: the two choices    *)
(* name the algorithms in effect, and what is in use is not "none".        *)
CodecSettled(c) ==
    /\ c.compress_choice # "unset" => c.compress_choice = c.compression_algo
    /\ "use_compression" \in c.on => c.compression_algo # "none" /\ c.compression_level \in 1..22
ChecksumSettled(c) == "checksum" \in c.on => c.checksum_algo # "none"
Ranges(c) ==
    /\ DOMAIN c = DOMAIN Defaults
    /\ c.compression_algo \in Codecs /\ c.checksum_algo \in Checksums
    /\ c.chunk_size \in 1..MaxChunkSize /\ c.delta_block_size \in BlockSizeMin..BlockSizeMax
    /\ c.delta_max_file_size \in DeltaFileMin..DeltaFileMax
    /\ c.max_delete \in Int /\ c.max_delete >= -1
    /\ c.super_mode \in {"AUTO", "ON", "OFF"}
Settled(c) == Ranges(c) /\ CodecSettled(c) /\ ChecksumSettled(c)

(* The environment's preferences. *)
Preferences(env) == env.codec \in Codecs \cup {"bad"} /\ env.checksum \in Checksums \cup {"bad"}

(* The codec that cli_finalize_config settles on is one that exists. *)
LEMMA CodecResolved ==
    ASSUME NEW c, Parsed(c), NEW env, Preferences(env), ~Refused(ResolveCodec(c, env))
    PROVE  /\ Parsed(ResolveCodec(c, env)) /\ CodecSettled(ResolveCodec(c, env))
<1> DEFINE d == ResolveCodec(c, env)
<1>1. CASE c.compress_choice # "unset"
  <2>   d = [c EXCEPT !.compression_algo = c.compress_choice,
                      !.on = (c.on \ {"use_compression"})
                             \cup When(c.compress_choice # "none", {"use_compression"})]
    BY <1>1 DEF ResolveCodec
  <2>   "use_compression" \in d.on => c.compress_choice # "none"
    BY Members, SMTT(60) DEF Parsed, When
  <2> QED
    BY <1>1, Members, SMTT(60) DEF Parsed, CodecSettled
<1>2. CASE c.compress_choice = "unset" /\ "use_compression" \in c.on
  <2>1. env.codec # "bad"
    BY <1>2, Members, SMTT(60) DEF ResolveCodec, Parsed, Fail, Refused
  <2>   d = [c EXCEPT !.compression_algo = env.codec,
                      !.on = c.on \ When(env.codec = "none", {"use_compression"})]
    BY <1>2, <2>1 DEF ResolveCodec
  <2>   "use_compression" \in d.on => env.codec # "none"
    BY Members, SMTT(60) DEF Parsed, When
  <2> QED
    BY <1>2, <2>1, Members, SMTT(60) DEF Parsed, CodecSettled, Preferences
<1>3. CASE c.compress_choice = "unset" /\ "use_compression" \notin c.on
  BY <1>3 DEF ResolveCodec, CodecSettled
<1> QED
  BY <1>1, <1>2, <1>3

(* The level is brought into the range of the codec. *)
LEMMA LevelResolved ==
    ASSUME NEW c, Parsed(c), CodecSettled(c)
    PROVE  /\ Parsed(ResolveLevel(c)) /\ CodecSettled(ResolveLevel(c))
           /\ ResolveLevel(c).on = c.on /\ ResolveLevel(c).exit = c.exit
<1>1. CASE "use_compression" \notin c.on
  BY <1>1 DEF ResolveLevel
<1>2. CASE "use_compression" \in c.on
  <2> DEFINE n == IF "compression_level_set" \in c.on
                  THEN ClampLevel(c.compression_algo, c.compression_level)
                  ELSE DefaultLevel(c.compression_algo)
  <2>1. c.compression_algo \in {"zstd", "lz4", "zlib", "zlibx"} /\ c.compression_level \in 1..22
    BY <1>2 DEF Parsed, CodecSettled, Codecs
  <2>2. ClampLevel(c.compression_algo, c.compression_level) \in 1..22
    BY <2>1, SMTT(60) DEF ClampLevel
  <2>3. DefaultLevel(c.compression_algo) \in 1..22
    BY <2>1, SMTT(60) DEF DefaultLevel
  <2>4. n \in 1..22
    BY <2>2, <2>3
  <2>   ResolveLevel(c) = [c EXCEPT !.compression_level = n]
    BY <1>2 DEF ResolveLevel
  <2> HIDE DEF n
  <2> QED
    BY <2>4, Members, SMTT(60) DEF Parsed, CodecSettled
<1> QED
  BY <1>1, <1>2

(* The checksum that is settled on is one that exists. *)
LEMMA ChecksumResolved ==
    ASSUME NEW c, Parsed(c), CodecSettled(c), NEW env, Preferences(env),
           ~Refused(ResolveChecksum(c, env))
    PROVE  Settled(ResolveChecksum(c, env))
<1> DEFINE algo == IF "checksum_choice_set" \in c.on THEN c.checksum_algo ELSE env.checksum
<1>1. ~Refused(c)
  BY DEF ResolveChecksum
<1>   algo # "bad" /\ ~(algo = "none" /\ "checksum" \in c.on)
  BY <1>1, Members, SMTT(60) DEF ResolveChecksum, Fail, Refused, Parsed
<1>3. ResolveChecksum(c, env) = [c EXCEPT !.checksum_algo = algo]
  BY <1>1 DEF ResolveChecksum
<1>   algo \in Checksums
  BY DEF Parsed, Preferences
<1> HIDE DEF algo
<1> QED
  BY <1>3, Members, SMTT(60) DEF Parsed, Settled, Ranges, CodecSettled, ChecksumSettled

(* Turning on anything but the two members the choices govern.             *)
LEMMA TurnSettled ==
    ASSUME NEW c, Settled(c), NEW F, "use_compression" \notin F, "checksum" \notin F
    PROVE  Settled(Turn(c, F)) /\ Turn(c, F).exit = c.exit
BY Members DEF Settled, Ranges, CodecSettled, ChecksumSettled, Turn

(* No stage adds or drops a member. *)
LEMMA SameMembers ==
    /\ \A c, F : DOMAIN Turn(c, F) = DOMAIN c
    /\ \A c, n : DOMAIN Fail(c, n) = DOMAIN c
    /\ \A c, env : DOMAIN ResolveCodec(c, env) = DOMAIN c
    /\ \A c : DOMAIN ResolveLevel(c) = DOMAIN c
    /\ \A c, env : DOMAIN ResolveChecksum(c, env) = DOMAIN c
    /\ \A c : DOMAIN Derive(c) = DOMAIN c
<1>1. \A c, F : DOMAIN Turn(c, F) = DOMAIN c
  BY DEF Turn
<1>2. \A c, n : DOMAIN Fail(c, n) = DOMAIN c
  BY DEF Fail
<1>3. \A c, env : DOMAIN ResolveCodec(c, env) = DOMAIN c
  BY DEF ResolveCodec, Fail
<1>4. \A c : DOMAIN ResolveLevel(c) = DOMAIN c
  BY DEF ResolveLevel
<1>5. \A c, env : DOMAIN ResolveChecksum(c, env) = DOMAIN c
  BY DEF ResolveChecksum, Fail
<1>6. \A c : DOMAIN Implied(c) = DOMAIN c
  BY DEF Implied, Turn
<1>7. \A c : DOMAIN Derived(c) = DOMAIN c
  BY DEF Derived, Turn
<1>   \A c : DOMAIN Derive(c) = DOMAIN c
  BY <1>2, <1>6, <1>7 DEF Derive
<1> QED
  BY <1>1, <1>2, <1>3, <1>4, <1>5

(* A refusal is a refusal. *)
LEMMA FailRefuses ==
    ASSUME NEW c, DOMAIN c = DOMAIN Defaults, NEW n \in {1, 4}
    PROVE  Refused(Fail(c, n))
BY Members, SMTT(60) DEF Fail, Refused

(* cli_finalize_config, which goes on to the level after a refusal. *)
LEMMA FinalizeSettles ==
    ASSUME NEW c, Parsed(c), NEW env, Preferences(env)
    PROVE  /\ DOMAIN Finalize(c, env) = DOMAIN Defaults
           /\ ~Refused(Finalize(c, env)) => Settled(Finalize(c, env))
<1> DEFINE d1 == DefaultTiming(c)
           d2 == ResolveCodec(d1, env)
           d3 == ResolveLevel(d2)
           d4 == ResolveChecksum(d3, env)
<1>1. DOMAIN c = DOMAIN Defaults
  BY DEF Parsed
<1>2. Parsed(d1)
  BY TurnKeeps DEF DefaultTiming
<1>3. /\ DOMAIN d2 = DOMAIN Defaults /\ DOMAIN d3 = DOMAIN Defaults
      /\ DOMAIN d4 = DOMAIN Defaults
  BY <1>2, SameMembers, SMTT(60) DEF Parsed
<1>4. DOMAIN Derive(d4) = DOMAIN Defaults
  BY <1>3, SameMembers
<1>5. ASSUME ~Refused(c), ~Refused(Derive(d4)) PROVE Settled(Derive(d4))
  <2>1. ~Refused(d4) /\ "bad_files_from" \notin d4.on
    BY <1>3, <1>5, FailRefuses DEF Derive
  <2>2. ~Refused(d3)
    BY <2>1 DEF ResolveChecksum
  <2>3. ~Refused(d2)
    BY <1>3, <2>2, Members DEF ResolveLevel, Refused
  <2>4. Parsed(d2) /\ CodecSettled(d2)
    BY <1>2, <2>3, CodecResolved
  <2>5. Parsed(d3) /\ CodecSettled(d3)
    BY <2>4, LevelResolved
  <2>6. Settled(d4)
    BY <2>1, <2>5, ChecksumResolved
  <2> HIDE DEF d4
  <2>7. Settled(Implied(d4))
    BY <2>6, TurnSettled DEF Implied, When
  <2>   Settled(Derived(Implied(d4)))
    BY <2>7, TurnSettled DEF Derived, When
  <2> QED
    BY <2>1 DEF Derive
<1>   Finalize(c, env) = IF Refused(c) THEN c ELSE Derive(d4)
  BY DEF Finalize
<1> HIDE DEF d4
<1> QED
  BY <1>1, <1>4, <1>5

(* The rest of main: the directories, the destination, the credentials.    *)
LEMMA PositionalSettled ==
    ASSUME NEW c, DOMAIN c = DOMAIN Defaults, ~Refused(c) => Settled(c), NEW line
    PROVE  /\ DOMAIN Positional(c, line) = DOMAIN Defaults
           /\ ~Refused(Positional(c, line)) => Settled(Positional(c, line))
<1>1. DOMAIN Positional(c, line) = DOMAIN Defaults
  BY SameMembers, SMTT(60) DEF Positional
<1>2. ASSUME ~Refused(Positional(c, line)) PROVE Settled(Positional(c, line))
  <2>1. ~Refused(c) /\ Settled(c)
    BY <1>2 DEF Positional
  <2>2. \E F : /\ Positional(c, line) = Turn(c, F) \/ Positional(c, line) = Fail(c, 1)
               /\ "use_compression" \notin F /\ "checksum" \notin F
    <3> DEFINE F == IF line.positional = 2 THEN Directories \cup {"save_to_disk"}
                    ELSE IF line.positional = 1
                         THEN IF "read_batch" \in c.on
                              THEN {"receive_root_directory", "save_to_disk"}
                              ELSE {"send_directory"}
                         ELSE When(line.env_dirs, Directories)
    <3>1. "use_compression" \notin F /\ "checksum" \notin F
      BY DEF Directories, When
    <3>   Positional(c, line) = Turn(c, F) \/ Positional(c, line) = Fail(c, 1)
      BY <2>1, SMTT(60) DEF Positional
    <3> QED
      BY <3>1
  <2>   Refused(Fail(c, 1))
    BY FailRefuses
  <2> QED
    BY <1>2, <2>1, <2>2, TurnSettled
<1> QED
  BY <1>1, <1>2

(* parse_transport_dest. *)
LEMMA DestinationSettled ==
    ASSUME NEW c, DOMAIN c = DOMAIN Defaults, ~Refused(c) => Settled(c), NEW dest
    PROVE  /\ DOMAIN ParseTransportDest(c, dest) = DOMAIN Defaults
           /\ ~Refused(ParseTransportDest(c, dest)) => Settled(ParseTransportDest(c, dest))
<1> DEFINE d == ParseTransportDest(c, dest)
<1>1. DOMAIN d = DOMAIN Defaults
  BY SameMembers, SMTT(60) DEF ParseTransportDest
<1>2. ASSUME ~Refused(d) PROVE Settled(d)
  <2>1. CASE d = c
    BY <1>2, <2>1
  <2>2. CASE d = Fail(c, 1)
    BY <1>2, <2>2, FailRefuses
  <2>3. CASE d = [c EXCEPT !.transport = "ssh"]
    BY <1>2, <2>3, Members, SMTT(60) DEF Refused, Settled, Ranges, CodecSettled, ChecksumSettled
  <2>4. CASE d = [c EXCEPT !.module = dest.module,
                           !.on = c.on \cup When(dest.loopback, {"host_is_loopback"})]
    <3>1. "use_compression" \notin When(dest.loopback, {"host_is_loopback"})
      BY DEF When
    <3>   "checksum" \notin When(dest.loopback, {"host_is_loopback"})
      BY DEF When
    <3> QED
      BY <1>2, <2>4, <3>1, Members, SMTT(60)
      DEF Refused, Settled, Ranges, CodecSettled, ChecksumSettled
  <2> QED
    BY <2>1, <2>2, <2>3, <2>4 DEF ParseTransportDest
<1> QED
  BY <1>1, <1>2

(* load_daemon_credentials. *)
LEMMA CredentialsSettled ==
    ASSUME NEW c, DOMAIN c = DOMAIN Defaults, ~Refused(c) => Settled(c), NEW line
    PROVE  /\ DOMAIN LoadDaemonCredentials(c, line) = DOMAIN Defaults
           /\ ~Refused(LoadDaemonCredentials(c, line)) => Settled(LoadDaemonCredentials(c, line))
<1> DEFINE d == LoadDaemonCredentials(c, line)
<1>1. d = c \/ d = Fail(c, 1) \/ (~Refused(c) /\ d = Turn(c, {"auth_user"}))
  BY DEF LoadDaemonCredentials
<1>2. Refused(Fail(c, 1))
  BY FailRefuses
<1>   Settled(c) => Settled(Turn(c, {"auth_user"}))
  BY TurnSettled
<1> QED
  BY <1>1, <1>2, SameMembers, SMTT(60)

(* main, down to the transfer: a command line that is not refused is       *)
(* settled and has passed validate_config.                                 *)
LEMMA PreparedSettled ==
    ASSUME NEW c, Parsed(c), NEW line, Preferences(line.env), ~Refused(Prepared(c, line))
    PROVE  Settled(Prepared(c, line)) /\ ValidateConfig(Prepared(c, line))
<1> DEFINE d1 == Finalize(c, line.env)
           d2 == Positional(d1, line)
           d3 == ParseTransportDest(d2, line.dest)
           d4 == LoadDaemonCredentials(d3, line)
<1>1. DOMAIN d1 = DOMAIN Defaults /\ (~Refused(d1) => Settled(d1))
  BY FinalizeSettles
<1>2. DOMAIN d2 = DOMAIN Defaults /\ (~Refused(d2) => Settled(d2))
  BY <1>1, PositionalSettled
<1>3. DOMAIN d3 = DOMAIN Defaults /\ (~Refused(d3) => Settled(d3))
  BY <1>2, DestinationSettled
<1>4. DOMAIN d4 = DOMAIN Defaults /\ (~Refused(d4) => Settled(d4))
  BY <1>3, CredentialsSettled
<1>5. Prepared(c, line) = Validated(d4)
  BY DEF Prepared
<1> HIDE DEF d4
<1>   Refused(Fail(d4, 1))
  BY <1>4, FailRefuses
<1> QED
  BY <1>4, <1>5 DEF Validated
---------------------------------------------------------------------------
(* The frame.  What config_send_wire_block leaves out, and what            *)
(* config_receive derives, breaks no invariant the client checked: the     *)
(* delta it sends is the one --whole-file leaves, and every member an      *)
(* invariant requires goes with those that require it.                     *)
LEMMA FrameKeepsInvariants ==
    ASSUME NEW on, InvariantsHold(on), NEW X, X \subseteq {"use_xattrs"}
    PROVE  InvariantsHold(OnWire(on) \cup X)
<1> DEFINE w == OnWire(on) \cup X
<1>1. \A f \in w : f \in on \/ f = "use_xattrs"
  BY DEF OnWire, When
<1>2. \A f \in WireFields : f \in on => f \in w
  BY DEF OnWire
<1>3. "whole_file" \notin w /\ ("use_delta" \in w => "use_delta" \in on /\ "whole_file" \notin on)
  BY SMTT(60) DEF OnWire, When, WireFields, Attributes, DeleteTimings, Directories
<1>4. {"use_incremental", "use_delete", "use_metadata"} \subseteq WireFields
  BY SMTT(60) DEF WireFields
<1>5. "use_incremental" \in on => "use_incremental" \in w
  BY <1>2, <1>4
<1>6. "use_delete" \in on => "use_delete" \in w
  BY <1>2, <1>4
<1>7. "use_metadata" \in on => "use_metadata" \in w
  BY <1>2, <1>4
<1> HIDE DEF w
<1>8. ValidDeleteTiming(w)
  <2>1. ValidDeleteTiming(on)
    BY DEF InvariantsHold
  <2>   w \cap DeleteTimings \subseteq on \cap DeleteTimings
    BY <1>1 DEF DeleteTimings
  <2> QED
    BY <1>1, <1>6, <2>1 DEF ValidDeleteTiming
<1>   InvariantsHold(w)
  BY <1>1, <1>3, <1>5, <1>7, <1>8 DEF InvariantsHold, Attributes
<1> QED
  BY DEF w

(* What validate_config accepts, config_receive accepts. *)
LEMMA SentIsValid ==
    ASSUME NEW c, Settled(c), ValidateConfig(c)
    PROVE  ValidReceived(Received(c))
<1> DEFINE X == When(c.on \cap {"preserve_acls", "preserve_xattrs"} # {}, {"use_xattrs"})
           r == Received(c)
<1>1. X \subseteq {"use_xattrs"}
  BY DEF When
<1>2. r = [c EXCEPT !.on = OnWire(c.on) \cup X,
                    !.max_alloc = IF c.max_alloc \in 1..MaxServerAlloc THEN c.max_alloc
                                  ELSE MaxServerAlloc,
                    !.transport = "tcp", !.exit = 0]
  BY DEF Received
<1>3. InvariantsHold(c.on) /\ "many_filters" \notin c.on /\ "bad_version" \notin c.on
  BY DEF ValidateConfig
<1> HIDE DEF X, r
<1>4. DOMAIN c = DOMAIN Defaults
  BY DEF Settled, Ranges
<1>5. /\ r.on = OnWire(c.on) \cup X
      /\ r.compress_choice = c.compress_choice /\ r.compression_algo = c.compression_algo
      /\ r.compression_level = c.compression_level /\ r.checksum_algo = c.checksum_algo
      /\ r.chunk_size = c.chunk_size /\ r.delta_block_size = c.delta_block_size
      /\ r.delta_max_file_size = c.delta_max_file_size /\ r.max_delete = c.max_delete
      /\ r.super_mode = c.super_mode
  BY <1>2, <1>4, Members
<1>6. r.max_alloc \in Nat /\ r.max_alloc <= MaxServerAlloc
  BY <1>2, <1>4, Members, SizesAssumption, SMTT(60)
<1>7. \A f \in r.on : f \in c.on \/ f = "use_xattrs"
  BY <1>1, <1>5 DEF OnWire, When
<1>   InvariantsHold(r.on)
  BY <1>1, <1>3, <1>5, FrameKeepsInvariants
<1> QED
  BY <1>3, <1>5, <1>6, <1>7, SizesAssumption, SMTT(60)
  DEF ValidReceived, Settled, Ranges, CodecSettled, ChecksumSettled, r
---------------------------------------------------------------------------
(* The inductive invariant: a client that is still parsing has every value *)
(* in its range; one that is past it was refused, or sends a configuration *)
(* the receiver finds valid.                                               *)
Parsing == {"absent", "parse"}
ConfigInv ==
    /\ scene \in Scenes
    /\ DOMAIN client = Conns /\ DOMAIN conf = Conns
    /\ \A c \in Conns : IF client[c] \in Parsing THEN Parsed(conf[c])
                        ELSE Refused(conf[c]) \/ ValidReceived(Received(conf[c]))

(* The invariant of the initial state. *)
LEMMA ConfigInit == Init => ConfigInv
BY HandshakeAssumption, SMTT(60) DEF Init, ConfigInv, Parsing

(* Only the parsing steps touch a configuration, and no step goes back to  *)
(* parsing.                                                                *)
LEMMA ParsingSteps ==
    ASSUME Next, DOMAIN client = Conns
    PROVE  \/ \E c \in Conns : ParseStep(c)
           \/ /\ UNCHANGED <<scene, conf>> /\ DOMAIN client' = Conns
              /\ \A c \in Conns : client'[c] = client[c]
                                  \/ (client[c] \notin Parsing /\ client'[c] \notin Parsing)
<1> DEFINE Later == /\ UNCHANGED <<scene, conf>> /\ DOMAIN client' = Conns
                    /\ \A c \in Conns : client'[c] = client[c]
                                        \/ (client[c] \notin Parsing /\ client'[c] \notin Parsing)
<1>1. ASSUME NEW c \in Conns, Connect(c) \/ ConnectFails(c) \/ Answer(c) \/ Stall(c) PROVE Later
  BY <1>1 DEF Connect, ConnectFails, Answer, Stall, Go, Exit, Parsing, Reading
<1>2. ASSUME NEW c \in Conns, ReadFrame(c) \/ ReadFails(c) PROVE Later
  <2>1. UNCHANGED <<scene, conf>> /\ client[c] \in Reading /\ \E f : Follow(c, f)
    BY <1>2 DEF ReadFrame, ReadFails
  <2>2. PICK f : Follow(c, f)
    BY <2>1
  <2>   \E pc \in {"done", "motd", "send", "prove", "accept"} : client' = [client EXCEPT ![c] = pc]
    BY <2>2 DEF Follow, Reaction, Welcome, Exit, Go, When
  <2> QED
    BY <2>1 DEF Parsing, Reading
<1>3. ASSUME NEW c \in Conns, ChildStep(c) \/ Break(c) PROVE UNCHANGED clientside
  BY <1>3 DEF ChildStep, Break, Authenticate, ReceiveConfig, ModuleGate, CapReached, AuthLocked,
     ClearFail, ClearUntil, Challenge, CheckResponse, SuccessUnsent, ResponseMissing,
     RecordFailure, Lock, Terminated, ResetFail, ResetUntil, InstallRoot, Accept, SecurityGates,
     PrepareSession, PrepareFails, Serve, PeerLost
<1>4. ASSUME Tick \/ Over PROVE UNCHANGED clientside
  BY <1>4 DEF Tick, Over, vars, clientside
<1> QED
  BY <1>1, <1>2, <1>3, <1>4 DEF Next, ClientStep, clientside

(* Every step keeps the invariant. *)
LEMMA ConfigStep == ConfigInv /\ [Next]_vars => ConfigInv'
<1> SUFFICES ASSUME ConfigInv, [Next]_vars PROVE ConfigInv'
  OBVIOUS
<1>1. CASE UNCHANGED vars
  BY <1>1 DEF ConfigInv, vars
<1>2. ASSUME NEW c \in Conns, ReadArgument(c) PROVE ConfigInv'
  <2>1. PICK a \in Args : conf' = [conf EXCEPT ![c] = ReadArg(conf[c], a)]
    BY <1>2 DEF ReadArgument
  <2>2. client[c] \in Parsing /\ Parsed(conf[c]) /\ Spelled(a)
    BY <1>2, HandshakeAssumption DEF ReadArgument, ConfigInv, Parsing, Spelled
  <2>3. Parsed(ReadArg(conf[c], a))
    BY <2>2, ReadKeeps
  <2>4. conf'[c] = ReadArg(conf[c], a)
    BY <2>1 DEF ConfigInv
  <2>5. CASE Refused(conf'[c])
    BY <1>2, <2>1, <2>4, <2>5 DEF ConfigInv, ReadArgument, Exit, Parsing
  <2>6. CASE ~Refused(conf'[c])
    BY <1>2, <2>1, <2>2, <2>3, <2>4, <2>6 DEF ConfigInv, ReadArgument
  <2> QED
    BY <2>5, <2>6
<1>3. ASSUME NEW c \in Conns, Prepare(c) PROVE ConfigInv'
  <2>1. conf' = [conf EXCEPT ![c] = Prepared(conf[c], Line(c))] /\ UNCHANGED scene
    BY <1>3 DEF Prepare
  <2>2. Parsed(conf[c]) /\ Preferences(Line(c).env)
    BY <1>3, HandshakeAssumption DEF Prepare, ConfigInv, Parsing, Preferences, Line
  <2>3. Refused(conf'[c]) \/ ValidReceived(Received(conf'[c]))
    BY <2>1, <2>2, PreparedSettled, SentIsValid DEF ConfigInv
  <2>   client' = [client EXCEPT ![c] = "done"] \/ client' = [client EXCEPT ![c] = "connect"]
    BY <1>3 DEF Prepare, Exit, Go
  <2> QED
    BY <2>1, <2>3 DEF ConfigInv, Parsing
<1>4. ASSUME Next, ~\E c \in Conns : ParseStep(c) PROVE ConfigInv'
  BY <1>4, ParsingSteps DEF ConfigInv
<1> QED
  BY <1>1, <1>2, <1>3, <1>4 DEF ParseStep

(* No command line that validate_config accepts is refused by the          *)
(* receiver's checks, whatever the options, their order and values, the    *)
(* environment's preferences and the limits: the property "so the client   *)
(* and the server can never disagree" of client_validation.c, for every    *)
(* configuration and not only for those the runs enumerate.                *)
THEOREM EndsAgree == Spec => []AgreeOnConfig
<1>   ConfigInv => AgreeOnConfig
  BY DEF ConfigInv, AgreeOnConfig, Parsing
<1> QED
  BY ConfigInit, ConfigStep, PTL DEF Spec

---------------------------------------------------------------------------
(* The lockout registry of daemon_limits.c, for every number of children,  *)
(* sources and attempts, every threshold and every duration.               *)

(* The registry's types; and a client that has not connected has no child, *)
(* so that Connect never replaces one.                                     *)
RegistryOK ==
    /\ scene \in Scenes /\ DOMAIN client = Conns /\ DOMAIN child = Conns
    /\ host_fail \in [Sources -> Nat] /\ host_until \in [Sources -> Nat]
    /\ punished \in [Sources -> Nat] /\ raced \in [Sources -> BOOLEAN]
    /\ now \in Nat \ {0}
    /\ \A c \in Conns : client[c] \in Unconnected => child[c] = "none"

(* The invariant of the initial state. *)
LEMMA RegistryInit == Init => RegistryOK
BY SMTT(60) DEF Init, RegistryOK, Unconnected

(* What the steps that leave the registry alone may do to a child. *)
Quiet ==
    /\ UNCHANGED <<scene, registry, punished, raced, now>>
    /\ DOMAIN client' = Conns /\ DOMAIN child' = Conns
    /\ \A c \in Conns :
          /\ child'[c] = child[c] \/ (child[c] \notin {"lock", "locked"} /\ child'[c] # "none")
          /\ client'[c] \in Unconnected => client[c] \in Unconnected /\ child'[c] = "none"

(* The client's steps. *)
LEMMA ClientQuiet ==
    ASSUME RegistryOK, NEW c \in Conns, ParseStep(c) \/ ClientStep(c) \/ Break(c) \/ Stall(c)
    PROVE  Quiet
<1> USE DEF Quiet, RegistryOK, serverside, registry, history, Go, Exit
<1>1. CASE ReadArgument(c) \/ Prepare(c)
  <2>1. client[c] = "parse" /\ UNCHANGED <<scene, serverside, now>>
    BY <1>1 DEF ReadArgument, Prepare
  <2>   UNCHANGED client \/ \E pc \in {"done", "connect"} : client' = [client EXCEPT ![c] = pc]
    <3>1. CASE ReadArgument(c)
      BY <1>1, <3>1 DEF ReadArgument
    <3>2. CASE Prepare(c)
      BY <1>1, <3>2 DEF Prepare
    <3> QED
      BY <1>1, <3>1, <3>2
  <2> QED
    BY <2>1 DEF Unconnected
<1>2. CASE Connect(c)
  BY <1>2 DEF Connect, Unconnected
<1>3. CASE ConnectFails(c) \/ Answer(c) \/ Stall(c) \/ Break(c)
  BY <1>3 DEF ConnectFails, Answer, Stall, Break, Unconnected, clientside
<1>4. CASE ReadFrame(c) \/ ReadFails(c)
  <2>1. UNCHANGED <<scene, serverside, now>> /\ \E f : Follow(c, f)
    BY <1>4 DEF ReadFrame, ReadFails
  <2>2. PICK f : Follow(c, f)
    BY <2>1
  <2>   \E pc \in {"done", "motd", "send", "prove", "accept"} : client' = [client EXCEPT ![c] = pc]
    BY <2>2 DEF Follow, Reaction, Welcome, When
  <2> QED
    BY <2>1 DEF Unconnected
<1> QED
  BY <1>1, <1>2, <1>3, <1>4 DEF ParseStep, ClientStep

(* The child's steps outside the registry. *)
LEMMA ChildQuiet ==
    ASSUME RegistryOK, NEW c \in Conns,
           \/ ReceiveConfig(c) \/ ModuleGate(c) \/ CapReached(c) \/ Challenge(c)
           \/ CheckResponse(c) \/ SuccessUnsent(c) \/ ResponseMissing(c) \/ Terminated(c)
           \/ InstallRoot(c) \/ Accept(c) \/ SecurityGates(c) \/ PrepareSession(c)
           \/ PrepareFails(c) \/ Serve(c) \/ PeerLost(c)
    PROVE  Quiet
<1>1. /\ UNCHANGED <<scene, client, registry, punished, raced, now>>
      /\ child[c] \notin {"none", "lock", "locked"}
  BY DEF ReceiveConfig, ModuleGate, CapReached, Challenge, CheckResponse, SuccessUnsent,
     ResponseMissing, Terminated, InstallRoot, Accept, SecurityGates, PrepareSession,
     PrepareFails, Serve, PeerLost, clientside, history
<1>   \E pc : child' = [child EXCEPT ![c] = pc] /\ pc # "none"
  BY DEF ReceiveConfig, ModuleGate, CapReached, Challenge, CheckResponse, SuccessUnsent,
     ResponseMissing, Terminated, InstallRoot, Accept, SecurityGates, PrepareSession,
     PrepareFails, Serve, PeerLost, At, Refuse
<1> QED
  BY <1>1 DEF Quiet, RegistryOK, Unconnected

(* A child at a step of the registry: its next position, and nothing else  *)
(* of the children and clients.                                            *)
Moves(c, from, to) ==
    /\ child[c] = from /\ child' = [child EXCEPT ![c] = to] /\ UNCHANGED <<scene, client>>

(* The steps of the registry, by the location of the child. *)
LEMMA RegistryMoves ==
    ASSUME NEW c \in Conns
    PROVE  /\ ClearFail(c) => Moves(c, "clear_fail", "clear_until")
           /\ ClearUntil(c) => Moves(c, "clear_until", "policy")
           /\ RecordFailure(c) => Moves(c, "failed", "lock") \/ Moves(c, "failed", "terminated")
           /\ Lock(c) => Moves(c, "lock", "terminated")
           /\ ResetFail(c) => Moves(c, "reset_fail", "reset_until")
           /\ ResetUntil(c) => Moves(c, "reset_until", "root")
           /\ AuthLocked(c) => \/ Moves(c, "locked", "closed") \/ Moves(c, "locked", "clear_fail")
                               \/ Moves(c, "locked", "policy")
BY DEF ClearFail, ClearUntil, RecordFailure, Lock, ResetFail, ResetUntil, AuthLocked, Moves,
   At, Refuse, clientside

(* Every step is quiet, or a step of the registry, or the clock's. *)
LEMMA LockoutSteps ==
    ASSUME RegistryOK, [Next]_vars
    PROVE  \/ Quiet \/ Tick
           \/ \E c \in Conns : \/ AuthLocked(c) \/ ClearFail(c) \/ ClearUntil(c)
                               \/ RecordFailure(c) \/ Lock(c) \/ ResetFail(c) \/ ResetUntil(c)
<1>1. CASE UNCHANGED vars
  BY <1>1 DEF vars, Quiet, RegistryOK,
         history
<1>2. CASE Over
  BY <1>2 DEF Over, vars, Quiet, RegistryOK,
         history
<1> QED
  BY <1>1, <1>2, ClientQuiet, ChildQuiet DEF Next, ChildStep, Authenticate

(* Every step keeps the types. *)
LEMMA RegistryStep == RegistryOK /\ [Next]_vars => RegistryOK'
<1> SUFFICES ASSUME RegistryOK, [Next]_vars PROVE RegistryOK'
  OBVIOUS
<1>1. Duration \in Nat
  BY HandshakeAssumption
<1>2. CASE Quiet
  BY <1>2 DEF Quiet, RegistryOK, registry, Unconnected
<1>3. CASE Tick
  BY <1>3, SMTT(60) DEF Tick, RegistryOK, registry, clientside, serverside
<1>4. ASSUME NEW c \in Conns,
             \/ AuthLocked(c) \/ ClearFail(c) \/ ClearUntil(c)
             \/ RecordFailure(c) \/ Lock(c) \/ ResetFail(c) \/ ResetUntil(c)
      PROVE  RegistryOK'
  <2>1. /\ DOMAIN child' = Conns /\ DOMAIN client' = Conns /\ scene' \in Scenes
        /\ \A d \in Conns : client'[d] \in Unconnected => child'[d] = "none"
    BY <1>4, RegistryMoves DEF Moves, RegistryOK, Unconnected
  <2>2. now' = now
    BY <1>4 DEF AuthLocked, ClearFail, ClearUntil, RecordFailure, Lock, ResetFail, ResetUntil
  <2>3. host_fail' \in [Sources -> Nat] /\ host_until' \in [Sources -> Nat]
    BY <1>1, <1>4, SMTT(60) DEF AuthLocked, ClearFail, ClearUntil, RecordFailure, Lock, ResetFail,
       ResetUntil, RegistryOK, registry
  <2>4. punished' \in [Sources -> Nat]
    BY <1>1, <1>4, SMTT(60) DEF AuthLocked, ClearFail, ClearUntil, RecordFailure, Lock, ResetFail,
       ResetUntil, RegistryOK,
         history
  <2>   raced' \in [Sources -> BOOLEAN]
    <3>1. CASE ClearUntil(c)
      BY <3>1 DEF ClearUntil, RegistryOK
    <3>2. CASE ResetUntil(c)
      BY <3>2 DEF ResetUntil, RegistryOK
    <3> QED
      BY <1>4, <3>1, <3>2 DEF AuthLocked, ClearFail, RecordFailure, Lock, ResetFail, RegistryOK,
         history
  <2> QED
    BY <2>1, <2>2, <2>3, <2>4 DEF RegistryOK
<1> QED
  BY <1>2, <1>3, <1>4, LockoutSteps
---------------------------------------------------------------------------
(* The lockout of one source: the invariant's two halves. *)
Pending(s) == \E c \in Conns : Source(c) = s /\ child[c] = "lock"
Stored(s) ==
    /\ host_fail[s] >= server.threshold => host_until[s] # 0 \/ Pending(s)
    /\ punished[s] > now => host_until[s] = punished[s]

(* Only Lock itself ends a pending lockout. *)
LEMMA PendingStays ==
    ASSUME RegistryOK, NEW s \in Sources, Pending(s), [Next]_vars,
           ~\E c \in Conns : Lock(c) /\ Source(c) = s
    PROVE  Pending(s)'
<1>1. PICK d \in Conns : Source(d) = s /\ child[d] = "lock"
  BY DEF Pending
<1>   child'[d] = "lock" /\ scene' = scene
  <2>1. CASE Quiet
    BY <1>1, <2>1 DEF Quiet
  <2>2. CASE Tick
    BY <1>1, <2>2 DEF Tick, serverside, clientside
  <2>3. ASSUME NEW c \in Conns,
               \/ AuthLocked(c) \/ ClearFail(c) \/ ClearUntil(c)
               \/ RecordFailure(c) \/ Lock(c) \/ ResetFail(c) \/ ResetUntil(c)
        PROVE  child'[d] = "lock" /\ scene' = scene
    <3>   c # d
      BY <1>1, <2>3, RegistryMoves DEF Moves
    <3> QED
      BY <1>1, <2>3, RegistryMoves, SMTT(60) DEF Moves, RegistryOK
  <2> QED
    BY <2>1, <2>2, <2>3, LockoutSteps
<1> QED
  BY <1>1 DEF Pending, Source, Peer

(* A lockout that is stored, or about to be, stays so. *)
LEMMA StoredStep ==
    ASSUME RegistryOK, [Next]_vars, NEW s \in Sources, raced[s] \/ Stored(s), ~raced'[s]
    PROVE  Stored(s)'
<1>1. /\ scene \in Scenes /\ server.threshold \in Nat \ {0} /\ Duration \in Nat \ {0}
      /\ host_fail[s] \in Nat /\ host_until[s] \in Nat /\ punished[s] \in Nat /\ now \in Nat \ {0}
  BY HandshakeAssumption DEF RegistryOK, server
<1>2. CASE Quiet
  <2>1. /\ UNCHANGED <<scene, host_fail, host_until, punished, raced, now>>
    BY <1>2 DEF Quiet, registry
  <2>2. Stored(s)
    BY <2>1
  <2>   Pending(s) => Pending(s)'
    <3>   \A c \in Conns : child[c] = "lock" => child'[c] = "lock"
      BY <1>2 DEF Quiet
    <3> QED
      BY <2>1 DEF Pending, Source, Peer
  <2> QED
    BY <2>1, <2>2 DEF Stored, server
<1>3. CASE Tick
  <2>   UNCHANGED <<scene, child, host_fail, host_until, punished, raced>> /\ now' = now + 1
    BY <1>3 DEF Tick, registry, clientside, serverside
  <2> QED
    BY <1>1, SMTT(60) DEF Stored, server, Pending, Source, Peer
<1>4. ASSUME NEW c \in Conns, Lock(c), Source(c) = s PROVE Stored(s)'
  <2>   host_until'[s] = now + Duration /\ punished'[s] = now + Duration
    BY <1>4 DEF Lock, RegistryOK
  <2> QED
    BY <1>1, SMTT(60) DEF Stored
<1>5. ASSUME NEW c \in Conns, ClearUntil(c) \/ ResetUntil(c), Source(c) = s PROVE Stored(s)'
  <2>1. /\ UNCHANGED <<scene, host_fail, now>> /\ host_until'[s] = 0
        /\ punished'[s] = punished[s] \/ punished'[s] = 0
    BY <1>5 DEF ClearUntil, ResetUntil, RegistryOK, clientside
  <2>2. ~raced[s] /\ ~Overtaken(s)
    BY <1>5 DEF ClearUntil, ResetUntil, RegistryOK
  <2>   host_fail[s] = 0 /\ host_until[s] <= now /\ Stored(s)
    BY <1>1, <2>2, SMTT(60) DEF Overtaken
  <2>   ~(punished[s] > now)
    BY <1>1, SMTT(60) DEF Stored
  <2> QED
    BY <1>1, <2>1, SMTT(60) DEF Stored, server
<1>6. ASSUME NEW c \in Conns, ClearFail(c) \/ ResetFail(c), Source(c) = s PROVE Stored(s)'
  <2>   UNCHANGED <<scene, host_until, punished, raced, now>> /\ host_fail'[s] = 0
    BY <1>6 DEF ClearFail, ResetFail, RegistryOK, clientside, history
  <2>   Stored(s)
    OBVIOUS
  <2> QED
    BY <1>1, SMTT(60) DEF Stored, server
<1>7. ASSUME NEW c \in Conns, RecordFailure(c), Source(c) = s PROVE Stored(s)'
  <2>   UNCHANGED <<scene, host_until, punished, raced, now>> /\ Counted(c)
    BY <1>7 DEF RecordFailure, clientside, history, Counted, Source
  <2>2. /\ host_fail'[s] = host_fail[s] + 1
        /\ child' = [child EXCEPT ![c] = IF LocksOut(host_fail'[s]) THEN "lock" ELSE "terminated"]
    BY <1>7 DEF RecordFailure, At, RegistryOK
  <2>   host_fail'[s] >= server.threshold => Pending(s)'
    BY <1>7, <2>2 DEF LocksOut, Pending, Source, Peer, RegistryOK
  <2> QED
    BY DEF Stored, server
<1>8. ASSUME NEW c \in Conns,
             \/ AuthLocked(c)
             \/ /\ Source(c) # s
                /\ \/ ClearFail(c) \/ ClearUntil(c) \/ RecordFailure(c)
                   \/ Lock(c) \/ ResetFail(c) \/ ResetUntil(c)
      PROVE  Stored(s)'
  <2>1. /\ UNCHANGED <<scene, now>> /\ host_fail'[s] = host_fail[s]
        /\ host_until'[s] = host_until[s] /\ punished'[s] = punished[s]
    BY <1>8 DEF AuthLocked, ClearFail, ClearUntil, RecordFailure, Lock, ResetFail, ResetUntil,
       RegistryOK, registry, history, clientside
  <2>2. raced'[s] = raced[s]
    BY <1>8 DEF AuthLocked, ClearFail, ClearUntil, RecordFailure, Lock, ResetFail,
       ResetUntil, RegistryOK,
         history
  <2>3. Stored(s)
    BY <2>2
  <2>   Pending(s) => Pending(s)'
    <3>1. ASSUME Pending(s) PROVE ~\E d \in Conns : Lock(d) /\ Source(d) = s
      <4>1. SUFFICES ASSUME NEW d \in Conns, Lock(d), Source(d) = s PROVE FALSE
        OBVIOUS
      <4>2. c # d
        BY <1>8, <4>1, RegistryMoves DEF Moves
      <4>   child'[d] = child[d] /\ child[d] = "lock"
        BY <1>8, <4>1, <4>2, RegistryMoves, SMTT(60) DEF Moves, RegistryOK
      <4> QED
        BY <4>1, RegistryMoves DEF Moves, RegistryOK
    <3> QED
      BY <3>1, PendingStays
  <2> QED
    BY <2>1, <2>3 DEF Stored, server
<1> QED
  BY <1>2, <1>3, <1>4, <1>5, <1>6, <1>7, <1>8, LockoutSteps

(* Every step keeps the stored lockouts. *)
LEMMA LockoutStep == RegistryOK /\ LockoutStored /\ [Next]_vars => LockoutStored'
<1> SUFFICES ASSUME RegistryOK, LockoutStored, [Next]_vars, NEW s \in Sources, ~raced'[s]
             PROVE  Stored(s)'
  BY DEF LockoutStored, Stored, Pending
<1>   raced[s] \/ Stored(s)
  BY DEF LockoutStored, Stored, Pending
<1> QED
  BY StoredStep

(* The load of daemon_limits_auth_locked is what decides. *)
LEMMA LockoutDecides == RegistryOK /\ LockoutStored /\ [Next]_vars => LockoutRespected
<1> SUFFICES ASSUME RegistryOK, LockoutStored, [Next]_vars, NEW c \in Conns,
                    child[c] = "locked", child'[c] # "locked", Counted(c),
                    punished[Source(c)] > now, ~raced[Source(c)]
             PROVE  child'[c] = "closed"
  BY DEF LockoutRespected
<1>1. AuthLocked(c)
  <2>1. ~Quiet /\ ~Tick
    BY DEF Quiet, Tick, serverside
  <2>2. PICK d \in Conns : \/ AuthLocked(d) \/ ClearFail(d) \/ ClearUntil(d)
                           \/ RecordFailure(d) \/ Lock(d) \/ ResetFail(d) \/ ResetUntil(d)
    BY <2>1, LockoutSteps
  <2>   d = c
    BY <2>2, RegistryMoves, SMTT(60) DEF Moves, RegistryOK
  <2> QED
    BY <2>2, RegistryMoves DEF Moves
<1>2. host_until[Source(c)] > now /\ ~(host_until[Source(c)] <= now)
  <2>1. host_until[Source(c)] > now
    BY DEF LockoutStored, Counted, Source
  <2>   host_until[Source(c)] \in Nat /\ now \in Nat
    BY DEF RegistryOK, Counted, Source
  <2> QED
    BY <2>1, SMTT(60)
<1>   Refuse(c)
  BY <1>1, <1>2 DEF AuthLocked
<1> QED
  BY DEF Refuse, At, RegistryOK

(* A source that failed too often is refused until the lockout it earned   *)
(* ends, unless the clearing of its record raced with a failure: for every *)
(* number of children recording, clearing and checking at once.            *)
THEOREM LockoutKept == Spec => LockoutHolds
<1>1. Init => RegistryOK /\ LockoutStored
  <2>1. ASSUME Init PROVE LockoutStored
    <3>   server.threshold \in Nat \ {0}
      BY <2>1, HandshakeAssumption DEF Init, server
    <3> QED
      BY <2>1, SMTT(60) DEF Init, LockoutStored
  <2> QED
    BY <2>1, RegistryInit
<1>   RegistryOK /\ LockoutStored /\ [Next]_vars => [LockoutStored' /\ LockoutRespected]_vars
  BY LockoutDecides, LockoutStep
<1> QED
  BY <1>1, RegistryStep, LockoutStep, PTL DEF Spec, LockoutHolds

(* For every server set-up, every command line, every number of clients    *)
(* and every interleaving, with connections that break and clients that    *)
(* fall silent: a client exits with 0 only when the server stored its      *)
(* files (or the run was local) and is told so whenever the connection     *)
(* held, every frame is one its reader waits for, no connection carries    *)
(* two terminal statuses, and what is served is within the operator's      *)
(* policy (config_receive_with_validate, server_module_gate,               *)
(* server_auth_handshake, server_apply_security_gates,                     *)
(* server_prepare_session and the client's reads of their answers).        *)
THEOREM VerdictsAgree == Spec => []VerdictsMatch
<1>1. Init => ConfigInv /\ VerdictInv
  BY ConfigInit, VerdictInit
<1>2. ConfigInv => PreparedWhole
  <2> SUFFICES ASSUME ConfigInv, NEW c \in Conns, client[c] = "parse", ~Refused(Prepared(conf[c], Line(c)))
               PROVE  DOMAIN Prepared(conf[c], Line(c)) = DOMAIN Defaults
    BY DEF PreparedWhole
  <2>1. Parsed(conf[c]) /\ Preferences(Line(c).env)
    BY HandshakeAssumption DEF ConfigInv, Parsing, Preferences, Line
  <2>   Settled(Prepared(conf[c], Line(c)))
    BY <2>1, PreparedSettled
  <2> QED
    BY DEF Settled, Ranges
<1>   ConfigInv /\ VerdictInv /\ [Next]_vars => ConfigInv' /\ VerdictInv'
  BY <1>2, ConfigStep, VerdictStep
<1> QED
  BY <1>1, VerdictsFollow, PTL DEF Spec
=============================================================================
