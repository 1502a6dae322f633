--------------------------------- MODULE Cdc ---------------------------------
(***************************************************************************)
(* Where ingest/cdc.py cuts a text into chunks. One step of the model is   *)
(* one turn of a loop of _next_cut, one slice of _fixed_cuts or one yield  *)
(* of chunk_bytes. A text is chunked, and then an edit of it, the way two  *)
(* versions of an artifact are: the pool shares the chunks they have in    *)
(* common. The sizes, the masks and the Gear table are parameters.         *)
(***************************************************************************)
EXTENDS Integers, Sequences

CONSTANTS
    Byte,
    Gear,          \* _GEAR, a table of 64-bit values
    Fingerprints,  \* the number of 64-bit values
    Strict,        \* _MASK_S + 1, the rarer cut, before AvgSize
    Loose,         \* _MASK_L + 1, the likelier cut, after AvgSize
    MinSize, AvgSize, MaxSize,
    Threshold,     \* LARGE_FILE_THRESHOLD
    SampleWidth, StrideWords,  \* _SAMPLE_WIDTH, _SAMPLE_STRIDE in samples
    MaxLength      \* bound on the length of the first text

ASSUME CdcAssumption ==
    /\ Fingerprints \in Nat \ {0} /\ Strict \in Nat \ {0} /\ Loose \in Nat \ {0}
    /\ \E k \in 1..Fingerprints : Fingerprints = k * Strict
    /\ \E k \in 1..Strict : Strict = k * Loose
    /\ Gear \in [Byte -> 0..Fingerprints - 1]
    /\ MinSize \in Nat /\ AvgSize \in Nat /\ MaxSize \in Nat \ {0}
    /\ MinSize <= AvgSize /\ AvgSize <= MaxSize
    /\ Threshold \in Nat /\ MaxLength \in Nat
    /\ SampleWidth \in Nat \ {0} /\ StrideWords \in Nat \ {0}

VARIABLES
    text,  \* the two texts
    edit,  \* where they differ: bytes at+1..at+out of the first are replaced
    turn,  \* the text being chunked, 3 when both are
    cuts,  \* for each text, where its chunks end
    pos,   \* the bytes of the text that the loop has read or skipped
    fp,    \* fingerprint of _next_cut
    wide   \* history: the fingerprint before it was narrowed to _MASK_S

vars == <<text, edit, turn, cuts, pos, fp, wide>>

Texts == UNION {[1..n -> Byte] : n \in 0..MaxLength}
EndOf(t, i) == IF i = 0 THEN 0 ELSE cuts[t][i]
Start(t) == EndOf(t, Len(cuts[t]))
Least(a, b) == IF a <= b THEN a ELSE b

Init ==
    /\ \E d \in Texts, w \in {<<>>} \union {<<b>> : b \in Byte}, out \in {0, 1}, at \in 0..MaxLength :
          /\ at + out <= Len(d)
          /\ text = <<d, SubSeq(d, 1, at) \o w \o SubSeq(d, at + out + 1, Len(d))>>
          /\ edit = [at |-> at, out |-> out]
    /\ turn = 1
    /\ cuts = <<<<>>, <<>>>>
    /\ pos = MinSize /\ fp = 0 /\ wide = 0

-----------------------------------------------------------------------------
Size == Len(text[turn])
Begin == Start(turn)
Pending == turn \in {1, 2} /\ Begin < Size
Fixed(t) == Len(text[t]) >= Threshold

\* The chunk ends here; the loop starts afresh behind it.
Cut(end) ==
    /\ cuts' = [cuts EXCEPT ![turn] = Append(@, end)]
    /\ pos' = end + MinSize /\ fp' = 0 /\ wide' = 0
    /\ UNCHANGED <<text, edit, turn>>

\* _fixed_cuts: a large text is sliced without a look at it.
FixedCut ==
    /\ Pending /\ Fixed(turn)
    /\ Cut(Least(Begin + MaxSize, Size))

Rolling == Pending /\ ~Fixed(turn) /\ Size - Begin > MinSize

LastChunk ==
    /\ Pending /\ ~Fixed(turn)
    /\ Size - Begin <= MinSize
    /\ Cut(Size)

NormalFromZero == Least(AvgSize, Size)
HardOneLate == Least(Begin + MaxSize + 1, Size)

Normal == Least(Begin + AvgSize, Size)
Hard == Least(Begin + MaxSize, Size)

NarrowLoose(b) == Gear[b] % Loose

\* _GEAR_NARROW
Narrow(b) == Gear[b] % Strict

Unmasked(b) == 2 * fp + Narrow(b)

Rolled(b) == (2 * fp + Narrow(b)) % Strict
Whole(b) == (2 * wide + Gear[b]) % Fingerprints

\* One byte: the fingerprint rolls, and a zero under the mask of this half of
\* the chunk ends it.
Roll ==
    /\ Rolling /\ pos < Hard
    /\ LET byte == text[turn][pos + 1]
           boundary == IF pos < Normal THEN Rolled(byte) = 0 ELSE Rolled(byte) % Loose = 0
       IN  IF boundary THEN Cut(pos + 1)
           ELSE /\ pos' = pos + 1
                /\ fp' = Rolled(byte)
                /\ wide' = Whole(byte)
                /\ UNCHANGED <<text, edit, turn, cuts>>

HardCut == Rolling /\ pos >= Hard /\ Cut(Hard)

\* The generator is exhausted.
Finish ==
    /\ turn \in {1, 2} /\ Begin >= Size
    /\ turn' = turn + 1
    /\ pos' = MinSize /\ fp' = 0 /\ wide' = 0
    /\ UNCHANGED <<text, edit, cuts>>

Next == FixedCut \/ LastChunk \/ Roll \/ HardCut \/ Finish

Spec == Init /\ [][Next]_vars

-----------------------------------------------------------------------------
(* _samples: the offsets of the strided 8-byte samples of a chunk of n     *)
(* bytes, as the memoryview takes them and as the loop does.               *)

\* whole_words.cast("Q")[::stride]: every StrideWords-th of the whole words.
CastSamples(n) ==
    {k * StrideWords * SampleWidth : k \in {k \in 0..n : k * StrideWords < n \div SampleWidth}}

\* range(0, n - width + 1, stride)
LoopSamples(n) ==
    {i \in 0..(n - SampleWidth) : i % (StrideWords * SampleWidth) = 0}

-----------------------------------------------------------------------------
TypeOK ==
    /\ text \in [1..2 -> Seq(Byte)]
    /\ edit \in [at : Nat, out : {0, 1}]
    /\ turn \in 1..3
    /\ cuts \in [1..2 -> Seq(Nat)]
    /\ pos \in Nat /\ fp \in 0..Strict - 1 /\ wide \in 0..Fingerprints - 1

Sizes(t) == {EndOf(t, i) - EndOf(t, i - 1) : i \in 1..Len(cuts[t])}

\* The chunks of a text follow each other without a gap, none is empty or
\* larger than MaxSize, each but the last is larger than MinSize, and when
\* the generator ends they are the whole text.
ChunksTile ==
    \A t \in 1..2 :
        /\ \A i \in 1..Len(cuts[t]) :
              LET size == EndOf(t, i) - EndOf(t, i - 1) IN
              /\ size \in 1..MaxSize
              /\ EndOf(t, i) <= Len(text[t])
              /\ EndOf(t, i) < Len(text[t]) => size > MinSize \/ size = MaxSize
        /\ turn > t => Start(t) = Len(text[t])

\* The two shortcuts change nothing. Whatever byte comes next, the narrowed
\* fingerprint is the low bits of the 64-bit one, so every boundary is where
\* it would be without the narrowing; and a chunk has the same samples on a
\* little-endian machine as on any other.
ShortcutsExact ==
    /\ \A b \in Byte : Rolled(b) = Whole(b) % Strict
    /\ \A t \in 1..2 : \A n \in Sizes(t) : CastSamples(n) = LoopSamples(n)

Ends(t) == {cuts[t][i] : i \in 1..Len(cuts[t])}

\* An edit changes the chunks around it. Those that end before it stay; and
\* once a chunk of both versions ends at the same byte behind it, all that
\* follow are the same. (Nothing makes them meet: that is likely, not sure.)
EditIsLocal ==
    LET shift == Len(text[2]) - Len(text[1]) IN
    turn = 3 /\ Fixed(1) = Fixed(2) =>
        /\ \A e \in 0..edit.at :
              e < Len(text[1]) /\ e < Len(text[2]) => (e \in Ends(1) <=> e \in Ends(2))
        /\ \A e \in Ends(1) :
              e >= edit.at + edit.out /\ e + shift \in Ends(2) =>
                  \A f \in e..Len(text[1]) : f \in Ends(1) <=> f + shift \in Ends(2)
=============================================================================
