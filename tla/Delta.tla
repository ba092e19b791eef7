------------------------------- MODULE Delta -------------------------------
(***************************************************************************)
(* The delta algorithm.  The receiver cuts the file it has into blocks and *)
(* sends a weak and a strong checksum per block (its signature).  The      *)
(* sender slides a window over the new file, rolling the weak checksum one *)
(* byte at a time, and emits block matches and literals, which the receiver*)
(* applies to the old file.  delta_compute_seeded is modelled iteration by *)
(* iteration.  The weak checksum is the code's arithmetic with a small     *)
(* modulus, so that collisions happen; the strong one is collision-free    *)
(* (it is the block itself).                                               *)
(***************************************************************************)
EXTENDS Integers, Sequences, SequencesExt

CONSTANTS
    BlockSize,      \* delta_block_size
    AdlerModulus,   \* DELTA_ADLER32_MODULUS
    MatchCost,      \* serialized bytes of a block match
    LiteralCost,    \* serialized bytes of a literal besides its data
    DeltaMin,       \* DELTA_MIN_FILE_SIZE
    DeltaMax,       \* delta_max_file_size
    MaxRatio,       \* DELTA_MAX_SIZE_RATIO
    FallbackRatio   \* DELTA_FALLBACK_RATIO, in percent

ASSUME DeltaAssumption ==
    /\ {BlockSize, AdlerModulus, MaxRatio} \subseteq Nat \ {0}
    /\ {MatchCost, LiteralCost, DeltaMin, DeltaMax, FallbackRatio} \subseteq Nat

NoSum == <<0, 0>>

VARIABLES
    newData,        \* the file to describe, <<>> when no computation is going on
    blocks,         \* sig->blocks
    pos,            \* i: bytes of newData consumed
    sum,            \* <<s1, s2>>
    rolling,        \* rolling_valid
    literalStart,   \* bytes before the pending literal, pos when there is none
    instrs          \* instructions emitted so far

deltaVars == <<newData, blocks, pos, sum, rolling, literalStart, instrs>>

DeltaIdle ==
    /\ newData = <<>> /\ blocks = <<>> /\ pos = 0 /\ sum = NoSum
    /\ rolling = FALSE /\ literalStart = 0 /\ instrs = <<>>

\* delta_adler32 of a window: the two running sums.
Adler32(w) ==
    LET s1[k \in 0..Len(w)] == IF k = 0 THEN 1 ELSE (s1[k - 1] + w[k]) % AdlerModulus
        s2[k \in 0..Len(w)] == IF k = 0 THEN 0 ELSE (s2[k - 1] + s1[k]) % AdlerModulus
    IN  <<s1[Len(w)], s2[Len(w)]>>

\* delta_signature_create_seeded: one entry per block, the last one short.
Signature(old) ==
    LET size(i) == IF Len(old) - (i - 1) * BlockSize < BlockSize
                     THEN Len(old) - (i - 1) * BlockSize ELSE BlockSize
        block(i) == SubSeq(old, (i - 1) * BlockSize + 1, (i - 1) * BlockSize + size(i))
    IN  [i \in 1..((Len(old) + BlockSize - 1) \div BlockSize) |->
           [adler32 |-> Adler32(block(i)), xxhash |-> block(i)]]

\* delta_should_attempt: sizes large enough, not too large, not too far apart.
ShouldAttempt(oldSize, newSize) ==
    /\ oldSize >= DeltaMin /\ newSize >= DeltaMin
    /\ oldSize <= DeltaMax /\ newSize <= DeltaMax
    /\ oldSize > 0 /\ newSize > 0
    /\ oldSize <= MaxRatio * newSize /\ newSize <= MaxRatio * oldSize

Window == SubSeq(newData, pos + 1,
                 IF Len(newData) - pos < BlockSize THEN Len(newData) ELSE pos + BlockSize)
FullWindow == Len(newData) - pos >= BlockSize

BadRolledSum ==
    LET out == newData[pos]
        s1 == (sum[1] + AdlerModulus - (out % AdlerModulus)
                 + newData[pos + BlockSize]) % AdlerModulus
    IN  <<s1, (sum[2] + AdlerModulus - ((BlockSize * out) % AdlerModulus) + s1)
                % AdlerModulus>>

\* One byte leaves the window and one enters it.
RolledSum ==
    LET out == newData[pos]
        s1 == (sum[1] + AdlerModulus - (out % AdlerModulus)
                 + newData[pos + BlockSize]) % AdlerModulus
    IN  <<s1, (sum[2] + AdlerModulus - ((BlockSize * out) % AdlerModulus) + s1 - 1)
                % AdlerModulus>>

\* The weak checksum of the current window.
CurrentSum == IF rolling /\ FullWindow THEN RolledSum ELSE Adler32(Window)

\* delta_find_match: the blocks whose checksums both agree with a full window's.
MatchingBlocks(adler) ==
    IF FullWindow
      THEN {j \in 1..Len(blocks) : blocks[j] = [adler32 |-> adler, xxhash |-> Window]}
      ELSE {}

Literal(from, to) ==
    IF from >= to THEN <<>>
    ELSE <<[op |-> "literal", block |-> 0, data |-> SubSeq(newData, from + 1, to)]>>

BlockMatch(j) == <<[op |-> "match", block |-> j, data |-> <<>>]>>

DeltaStart(data, sig) ==
    /\ newData' = data /\ blocks' = sig /\ pos' = 0 /\ sum' = <<1, 0>>
    /\ rolling' = FALSE /\ literalStart' = 0 /\ instrs' = <<>>

\* The lowest matching block is emitted, after the literal that was pending.
EmitMatch(adler) ==
    \E j \in MatchingBlocks(adler) :
       /\ \A k \in MatchingBlocks(adler) : j <= k
       /\ instrs' = instrs \o Literal(literalStart, pos) \o BlockMatch(j)
       /\ pos' = pos + BlockSize /\ literalStart' = pos + BlockSize
       /\ rolling' = FALSE

\* One more byte joins the pending literal.
ExtendLiteral(adler) ==
    /\ MatchingBlocks(adler) = {}
    /\ pos' = pos + 1
    /\ rolling' = FullWindow
    /\ UNCHANGED <<instrs, literalStart>>

\* One iteration of the loop of delta_compute_seeded.
DeltaStep ==
    /\ pos < Len(newData)
    /\ sum' = CurrentSum
    /\ EmitMatch(CurrentSum) \/ ExtendLiteral(CurrentSum)
    /\ UNCHANGED <<newData, blocks>>

DeltaDone == pos = Len(newData)

\* The delta with the literal still pending at the end of the file.
Instructions == instrs \o Literal(literalStart, Len(newData))

DeltaReset ==
    /\ newData' = <<>> /\ blocks' = <<>> /\ pos' = 0 /\ sum' = NoSum
    /\ rolling' = FALSE /\ literalStart' = 0 /\ instrs' = <<>>

\* delta_size
DeltaSize(ds) ==
    FoldLeft(LAMBDA n, d : n + IF d.op = "match" THEN MatchCost
                               ELSE LiteralCost + Len(d.data), 0, ds)

\* delta_is_worthwhile
Worthwhile(ds, newSize) ==
    /\ \E k \in 1..Len(ds) : ds[k].op = "match"
    /\ 100 * DeltaSize(ds) < FallbackRatio * newSize

Block(old, j) == SubSeq(old, (j - 1) * BlockSize + 1, j * BlockSize)

\* delta_apply: the result of the instructions on the old file.
Apply(old, ds) ==
    FoldLeft(LAMBDA out, d : out \o IF d.op = "match" THEN Block(old, d.block) ELSE d.data,
             <<>>, ds)

\* delta_apply refuses a block outside the old file and a wrong total.
Appliable(old, ds, newSize) ==
    /\ \A k \in 1..Len(ds) : ds[k].op = "match" => ds[k].block * BlockSize <= Len(old)
    /\ Len(Apply(old, ds)) = newSize

----------------------------------------------------------------------------

\* The rolled weak checksum is the checksum of the window it stands for, so
\* that rolling misses no block (delta.c:396).
RollingExact ==
    rolling => sum = Adler32(SubSeq(newData, pos, pos + BlockSize - 1))

=============================================================================
