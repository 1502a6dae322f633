------------------------------ MODULE CdcProofs ------------------------------
(***************************************************************************)
(* Proofs about Cdc: for every text, table, mask and size the chunks tile  *)
(* the text, neither the narrowed fingerprint nor the cast of a chunk to   *)
(* words changes a result, and an edit changes the chunks around it only.  *)
(***************************************************************************)
EXTENDS Cdc, SequenceTheorems, WellFoundedInduction, TLAPS

\* Where the loop may stand: past the bytes that cannot end a chunk, and no
\* further than the largest chunk reaches. The next text is not begun.
InChunk ==
    /\ Pending => pos >= Begin + MinSize
    /\ Rolling => pos <= Hard
    /\ \A t \in 1..2 : t > turn => cuts[t] = <<>>

\* The fingerprint is the low bits of the one that was never narrowed.
Narrowed == fp = wide % Strict

IInv == TypeOK /\ ChunksTile /\ InChunk /\ Narrowed

-----------------------------------------------------------------------------
(* Division.                                                               *)

\* A natural number is its quotient times the divisor and its remainder.
LEMMA Division ==
    ASSUME NEW x \in Nat, NEW s \in Nat \ {0}
    PROVE  x = s * (x \div s) + (x % s) /\ x % s \in 0..s - 1 /\ x \div s \in Nat
OBVIOUS

\* Quotient and remainder are the only ones.
LEMMA DivisionUnique ==
    ASSUME NEW s \in Nat \ {0}, NEW c \in Nat, NEW d \in Nat,
           NEW m \in 0..s - 1, NEW r \in 0..s - 1, s * c + m = s * d + r
    PROVE  c = d /\ m = r
<1>1. \A a, b \in Nat : a < b => s * a + s <= s * b
    <2> SUFFICES ASSUME NEW a \in Nat, NEW b \in Nat, a < b PROVE s * a + s <= s * b
        OBVIOUS
    <2>1. PICK j \in Nat \ {0} : b = a + j
        BY a + (b - a) = b
    <2>2. s * b = s * a + s * j
        BY <2>1
    <2>3. s * j >= s
        BY <2>1
    <2> QED BY <2>2, <2>3
<1>2. ~(c < d)
    BY <1>1
<1>3. ~(d < c)
    BY <1>1
<1> QED BY <1>2, <1>3

\* What is left of a number by a multiple of s.
LEMMA Remainder ==
    ASSUME NEW s \in Nat \ {0}, NEW q \in Nat, NEW r \in Nat
    PROVE  (s * q + r) % s = r % s
<1> DEFINE x == s * q + r
<1>1. x \in Nat
    OBVIOUS
<1>2. x = s * (x \div s) + (x % s) /\ x % s \in 0..s - 1 /\ x \div s \in Nat
    BY <1>1, Division
<1>3. r = s * (r \div s) + (r % s) /\ r % s \in 0..s - 1 /\ r \div s \in Nat
    BY Division
<1> HIDE DEF x
<1> DEFINE c == x \div s
<1> DEFINE d == r \div s
<1> DEFINE m == x % s
<1> DEFINE n == r % s
<1>4. s * c + m = s * (q + d) + n
    <2>1. s * (q + d) = s * q + s * d
        BY <1>3
    <2>2. x = s * q + (s * d + n)
        BY <1>3 DEF x
    <2> QED BY <2>1, <2>2, <1>2, <1>3
<1>5. c \in Nat /\ q + d \in Nat /\ m \in 0..s - 1 /\ n \in 0..s - 1
    BY <1>2, <1>3
<1> HIDE DEF c, d, m, n
<1>6. m = n
    BY <1>4, <1>5, DivisionUnique
<1> QED BY <1>6 DEF m, n, x

\* Rolling the remainders is the remainder of rolling: a carry only goes up.
LEMMA RollNarrow ==
    ASSUME NEW s \in Nat \ {0}, NEW w \in Nat, NEW g \in Nat
    PROVE  (2 * (w % s) + (g % s)) % s = (2 * w + g) % s
<1>1. w = s * (w \div s) + (w % s) /\ w % s \in Nat /\ w \div s \in Nat
    BY Division
<1>2. g = s * (g \div s) + (g % s) /\ g % s \in Nat /\ g \div s \in Nat
    BY Division
<1> DEFINE a == w \div s
<1> DEFINE b == w % s
<1> DEFINE c == g \div s
<1> DEFINE d == g % s
<1> HIDE DEF a, b, c, d
<1>3. 2 * w + g = s * (2 * a + c) + (2 * b + d)
    <2>1. s * (2 * a + c) = 2 * (s * a) + s * c
        BY <1>1, <1>2 DEF a, c
    <2>2. w = s * a + b /\ g = s * c + d
        BY <1>1, <1>2 DEF a, b, c, d
    <2>3. a \in Nat /\ b \in Nat /\ c \in Nat /\ d \in Nat
        BY <1>1, <1>2 DEF a, b, c, d
    <2> QED BY <2>1, <2>2, <2>3
<1>4. 2 * a + c \in Nat /\ 2 * b + d \in Nat
    BY <1>1, <1>2 DEF a, b, c, d
<1> DEFINE e == 2 * a + c
<1> DEFINE h == 2 * b + d
<1>5. e \in Nat /\ h \in Nat /\ 2 * w + g = s * e + h
    BY <1>3, <1>4
<1> HIDE DEF e, h
<1>6. (s * e + h) % s = h % s
    BY <1>5, Remainder
<1>7. h = 2 * b + d
    BY DEF h
<1>8. b = w % s /\ d = g % s /\ b \in Nat /\ d \in Nat
    BY <1>1, <1>2 DEF b, d
<1>9. 2 * (w % s) + (g % s) = h
    BY <1>7, <1>8
<1>10. (2 * (w % s) + (g % s)) % s = h % s
    BY <1>9
<1> QED BY <1>5, <1>6, <1>10

\* The remainder by a divisor of the modulus forgets the modulus.
LEMMA RemainderOfRemainder ==
    ASSUME NEW s \in Nat \ {0}, NEW k \in Nat \ {0}, NEW x \in Nat
    PROVE  (x % (k * s)) % s = x % s
<1> DEFINE f == k * s
<1>1. f \in Nat \ {0}
    OBVIOUS
<1>2. x = f * (x \div f) + (x % f) /\ x % f \in 0..f - 1 /\ x \div f \in Nat
    BY <1>1, Division
<1> DEFINE q == x \div f
<1> DEFINE r == x % f
<1> HIDE DEF q, r
<1>3. x = s * (k * q) + r
    <2>1. \A a \in Nat : (k * s) * a = s * (k * a)
        OBVIOUS
    <2> QED BY <1>2, <2>1 DEF q, r
<1>4. k * q \in Nat /\ r \in Nat
    BY <1>1, <1>2 DEF q, r
<1>5. x % s = r % s
    BY <1>3, <1>4, Remainder
<1> QED BY <1>5 DEF r

-----------------------------------------------------------------------------
(* The two shortcuts.                                                      *)

\* Narrowing commutes with one more byte.
LEMMA NarrowingExact ==
    ASSUME NEW b \in Byte, wide \in Nat, Narrowed
    PROVE  Rolled(b) = Whole(b) % Strict
<1>1. PICK k \in 1..Fingerprints : Fingerprints = k * Strict
    BY CdcAssumption
<1>2. Strict \in Nat \ {0} /\ Gear[b] \in Nat /\ k \in Nat \ {0}
    BY CdcAssumption
<1> DEFINE g == Gear[b]
<1> DEFINE n == 2 * wide + g
<1>3. g \in Nat /\ n \in Nat
    BY <1>2
<1> HIDE DEF g, n
<1>4. (2 * (wide % Strict) + (g % Strict)) % Strict = (2 * wide + g) % Strict
    BY <1>2, <1>3, RollNarrow
<1>5. (n % (k * Strict)) % Strict = n % Strict
    BY <1>2, <1>3, RemainderOfRemainder
<1>6. Rolled(b) = (2 * (wide % Strict) + (g % Strict)) % Strict
    BY DEF Rolled, Narrow, Narrowed, g
<1>7. Whole(b) = n % (k * Strict)
    BY <1>1 DEF Whole, n, g
<1> QED BY <1>4, <1>5, <1>6, <1>7 DEF n

\* A sample fits into the whole words exactly when it fits into the chunk.
LEMMA SampleFits ==
    ASSUME NEW n \in Nat, NEW k \in Nat
    PROVE  k * StrideWords < n \div SampleWidth
             <=> k * StrideWords * SampleWidth <= n - SampleWidth
<1> DEFINE w == SampleWidth
<1> DEFINE j == k * StrideWords
<1> DEFINE q == n \div w
<1> DEFINE r == n % w
<1>1. w \in Nat \ {0} /\ j \in Nat
    BY CdcAssumption
<1>2. n = w * q + r /\ r \in 0..w - 1 /\ q \in Nat
    BY <1>1, Division
<1>3. k * StrideWords * SampleWidth = j * w
    OBVIOUS
<1> HIDE DEF w, j, q, r
<1>4. ASSUME j < q PROVE j * w <= n - w
    <2>1. PICK i \in Nat : q = j + 1 + i
        BY <1>1, <1>2, <1>4, j + 1 + (q - j - 1) = q
    <2>2. w * q = j * w + w + w * i /\ w * i >= 0
        BY <1>1, <2>1
    <2> QED BY <1>1, <1>2, <2>2
<1>5. ASSUME q <= j PROVE j * w > n - w
    <2>1. PICK i \in Nat : j = q + i
        BY <1>1, <1>2, <1>5, q + (j - q) = j
    <2>2. j * w = w * q + w * i /\ w * i >= 0
        BY <1>1, <1>2, <2>1
    <2> QED BY <1>1, <1>2, <2>2
<1>6. j < q <=> j * w <= n - w
    BY <1>1, <1>2, <1>4, <1>5
<1> QED BY <1>3, <1>6 DEF j, w, q

\* The cast and the loop take the same samples of a chunk of any size.
THEOREM PlatformsAgree ==
    ASSUME NEW n \in Nat
    PROVE  CastSamples(n) = LoopSamples(n)
<1> DEFINE stride == StrideWords * SampleWidth
<1>1. SampleWidth \in Nat \ {0} /\ StrideWords \in Nat \ {0} /\ stride \in Nat \ {0}
    BY CdcAssumption
<1>2. \A k \in Nat : k * StrideWords * SampleWidth = stride * k
    BY <1>1
<1> HIDE DEF stride
<1>3. ASSUME NEW i \in CastSamples(n) PROVE i \in LoopSamples(n)
    <2>1. PICK k \in 0..n : i = stride * k /\ k * StrideWords < n \div SampleWidth
        BY <1>2 DEF CastSamples
    <2>2. i <= n - SampleWidth
        BY <1>2, <2>1, SampleFits
    <2>3. i \in Nat /\ i = stride * k + 0
        BY <1>1, <2>1
    <2>4. (stride * k + 0) % stride = 0 % stride /\ 0 % stride = 0
        BY <1>1, Remainder
    <2> QED BY <1>1, <2>2, <2>3, <2>4 DEF LoopSamples, stride
<1>4. ASSUME NEW i \in LoopSamples(n) PROVE i \in CastSamples(n)
    <2>1. i \in Nat /\ i <= n - SampleWidth /\ i % stride = 0
        BY <1>1 DEF LoopSamples, stride
    <2>2. i = stride * (i \div stride) + (i % stride) /\ i \div stride \in Nat
        BY <1>1, <2>1, Division
    <2> DEFINE k == i \div stride
    <2>3. k \in Nat /\ i = stride * k
        BY <1>1, <2>1, <2>2
    <2> HIDE DEF k
    <2>4. k * StrideWords < n \div SampleWidth
        BY <1>2, <2>1, <2>3, SampleFits
    <2>5. k <= i
        BY <1>1, <2>3
    <2>6. k \in 0..n
        BY <1>1, <2>1, <2>3, <2>5
    <2>7. i = k * StrideWords * SampleWidth
        BY <1>2, <2>3
    <2> QED BY <2>4, <2>6, <2>7 DEF CastSamples
<1> QED BY <1>3, <1>4

-----------------------------------------------------------------------------
(* The chunks.                                                             *)

\* The chunk that ends at cuts[t][i] is one the code may make.
GoodChunk(t, i) ==
    LET size == EndOf(t, i) - EndOf(t, i - 1) IN
    /\ size \in 1..MaxSize
    /\ EndOf(t, i) <= Len(text[t])
    /\ EndOf(t, i) < Len(text[t]) => size > MinSize \/ size = MaxSize

\* The last end is a number, and it is in the text.
LEMMA StartInText ==
    ASSUME TypeOK, ChunksTile, NEW t \in 1..2
    PROVE  Start(t) \in Nat /\ Start(t) <= Len(text[t]) /\ Len(text[t]) \in Nat
<1>1. cuts[t] \in Seq(Nat) /\ text[t] \in Seq(Byte)
    BY DEF TypeOK
<1>2. CASE Len(cuts[t]) = 0
    BY <1>1, <1>2 DEF Start, EndOf
<1>3. CASE Len(cuts[t]) # 0
    <2>1. Len(cuts[t]) \in 1..Len(cuts[t])
        BY <1>1, <1>3
    <2> QED BY SMTT(30), <1>1, <1>3, <2>1 DEF Start, EndOf, ChunksTile
<1> QED BY <1>2, <1>3

\* What Cut does when the end it is given makes a good chunk.
LEMMA CutKeeps ==
    ASSUME IInv, Pending, NEW end \in Nat, Cut(end),
           end > Begin, end <= Begin + MaxSize, end <= Size,
           end < Size => end - Begin > MinSize \/ end - Begin = MaxSize
    PROVE  IInv'
<1> USE CdcAssumption
<1>0. PICK t \in 1..2 : t = turn
    BY DEF Pending
<1>1. t \in 1..2 /\ TypeOK /\ ChunksTile
    BY DEF IInv
<1>2. Start(t) \in Nat /\ Len(text[t]) \in Nat
    BY <1>1, StartInText
<1>3. cuts[t] \in Seq(Nat)
    BY <1>1 DEF TypeOK
<1>4. TypeOK'
    <2>1. cuts' \in [1..2 -> Seq(Nat)]
        <3>1. Append(cuts[t], end) \in Seq(Nat)
            BY <1>3
        <3>2. cuts' = [cuts EXCEPT ![t] = Append(cuts[t], end)]
            BY <1>0 DEF Cut
        <3> QED BY <1>1, <3>1, <3>2 DEF TypeOK
    <2>2. pos' \in Nat /\ fp' \in 0..Strict - 1 /\ wide' \in 0..Fingerprints - 1
        BY DEF Cut
    <2> QED BY <1>1, <2>1, <2>2 DEF Cut, TypeOK
<1>5. /\ cuts'[t] = Append(cuts[t], end)
      /\ \A u \in 1..2 : u # t => cuts'[u] = cuts[u]
      /\ text' = text /\ turn' = turn
    BY <1>0, <1>1 DEF Cut, TypeOK
<1>6. Start(t)' = end
    BY SMTT(30), <1>3, <1>5 DEF Start, EndOf
<1>7. ChunksTile'
    <2> SUFFICES ASSUME NEW u \in 1..2
                 PROVE  /\ \A i \in 1..Len(cuts'[u]) : GoodChunk(u, i)'
                        /\ turn' > u => Start(u)' = Len(text'[u])
        BY DEF ChunksTile, GoodChunk
    <2>1. CASE u # t
        <3>1. \A i \in 1..Len(cuts[u]) : GoodChunk(u, i)
            BY <1>1 DEF ChunksTile, GoodChunk
        <3>2. \A i \in 1..Len(cuts'[u]) : GoodChunk(u, i)'
            BY <1>5, <2>1, <3>1 DEF GoodChunk, EndOf
        <3>3. turn' > u => Start(u)' = Len(text'[u])
            BY <1>1, <1>5, <2>1 DEF ChunksTile, Start, EndOf
        <3> QED BY <3>2, <3>3
    <2>2. CASE u = t
        <3>0. PICK m \in Nat : m = Len(cuts[t])
            BY <1>3
        <3>1. m \in Nat /\ Len(cuts'[t]) = m + 1
            BY <1>3, <1>5, <3>0
        <3> DEFINE s == cuts[t]
        <3>6. s \in Seq(Nat) /\ m = Len(s) /\ cuts'[t] = Append(s, end)
            BY <1>3, <1>5, <3>0
        <3> HIDE DEF s
        <3>7. (\A j \in 1..m : cuts'[t][j] = s[j]) /\ cuts'[t][m + 1] = end
            BY <3>6
        <3> USE DEF s
        <3>2. ASSUME NEW i \in 1..m PROVE GoodChunk(t, i)'
            <4>1. GoodChunk(t, i)
                BY <1>1, <3>0, <3>2 DEF ChunksTile, GoodChunk
            <4>2. \A j \in 0..m : EndOf(t, j)' = EndOf(t, j)
                BY <3>1, <3>7 DEF EndOf
            <4>3. i \in 0..m /\ i - 1 \in 0..m
                BY <3>1, <3>2
            <4>4. EndOf(t, i)' = EndOf(t, i) /\ EndOf(t, i - 1)' = EndOf(t, i - 1)
                BY <4>2, <4>3
            <4> QED BY <1>5, <4>1, <4>4 DEF GoodChunk
        <3>3. GoodChunk(t, m + 1)'
            <4>1. EndOf(t, m + 1)' = end
                BY <3>1, <3>7 DEF EndOf
            <4>2. (m + 1) - 1 = m /\ (m = 0 \/ m \in 1..m)
                BY <3>1
            <4>3. EndOf(t, m)' = EndOf(t, m)
                BY <3>7, <4>2 DEF EndOf
            <4>4. EndOf(t, m) = Begin
                BY <1>0, <3>0 DEF Begin, Start
            <4>5. EndOf(t, (m + 1) - 1)' = Begin
                BY <4>2, <4>3, <4>4
            <4>6. Begin \in Nat /\ Size = Len(text[t]) /\ Size \in Nat /\ text' = text
                BY <1>0, <1>2, <1>5 DEF Begin, Size
            <4> QED BY SMTT(30), <4>1, <4>5, <4>6 DEF GoodChunk
        <3>4. \A i \in 1..m + 1 : i \in 1..m \/ i = m + 1
            BY <3>1
        <3>5. ~(turn' > u)
            BY <1>0, <1>5, <2>2
        <3>8. \A i \in 1..Len(cuts'[t]) : GoodChunk(t, i)'
            BY <3>1, <3>2, <3>3, <3>4
        <3> QED BY <2>2, <3>5, <3>8
    <2> QED BY <2>1, <2>2
<1>8. InChunk'
    <2>1. Begin' = end /\ pos' = end + MinSize /\ Size' = Size /\ Size \in Nat
        BY <1>0, <1>2, <1>5, <1>6 DEF Begin, Cut, Size
    <2>2. Rolling' => Size - end > MinSize
        BY <2>1 DEF Rolling
    <2>3. \A u \in 1..2 : u > turn' => cuts'[u] = <<>>
        BY SMTT(30), <1>0, <1>5 DEF IInv, InChunk
    <2> QED BY <2>1, <2>2, <2>3 DEF InChunk, Hard, Least
<1>9. Narrowed'
    BY DEF Cut, Narrowed
<1> QED BY <1>4, <1>7, <1>8, <1>9 DEF IInv

-----------------------------------------------------------------------------
(* The invariant.                                                          *)

\* A pair is a function on 1..2.
LEMMA Pair ==
    ASSUME NEW S, NEW a \in S, NEW b \in S
    PROVE  <<a, b>> \in [1..2 -> S]
OBVIOUS

\* The two texts that Init picks are sequences of bytes.
LEMMA InitTexts ==
    ASSUME Init
    PROVE  text \in [1..2 -> Seq(Byte)] /\ edit \in [at : Nat, out : {0, 1}]
<1>1. PICK d \in Texts, w \in {<<>>} \union {<<b>> : b \in Byte}, out \in {0, 1}, at \in 0..MaxLength :
          /\ at + out <= Len(d)
          /\ text = <<d, SubSeq(d, 1, at) \o w \o SubSeq(d, at + out + 1, Len(d))>>
          /\ edit = [at |-> at, out |-> out]
    BY DEF Init
<1>2. at \in Nat /\ out \in Nat
    BY <1>1, CdcAssumption
<1>3. d \in Seq(Byte) /\ w \in Seq(Byte)
    <2>1. PICK n \in Nat : d \in [1..n -> Byte]
        BY <1>1, CdcAssumption DEF Texts
    <2>2. d \in Seq(Byte)
        BY <2>1, SeqDef
    <2>3. ASSUME NEW b \in Byte PROVE <<b>> \in Seq(Byte)
        <3>1. <<b>> \in [1..1 -> Byte]
            OBVIOUS
        <3> QED BY <3>1, SeqDef
    <2>4. <<>> \in Seq(Byte)
        OBVIOUS
    <2>5. w \in Seq(Byte)
        BY <1>1, <2>3, <2>4
    <2> QED BY <2>2, <2>5
<1>4. Len(d) \in Nat /\ at <= Len(d)
    BY <1>1, <1>2, <1>3
<1>5. SubSeq(d, 1, at) \in Seq(Byte)
    BY <1>2, <1>3, <1>4
<1>6. SubSeq(d, at + out + 1, Len(d)) \in Seq(Byte)
    BY <1>2, <1>3, <1>4
<1>7. SubSeq(d, 1, at) \o w \o SubSeq(d, at + out + 1, Len(d)) \in Seq(Byte)
    BY <1>3, <1>5, <1>6
<1>8. text \in [1..2 -> Seq(Byte)]
    BY <1>1, <1>3, <1>7, Pair
<1> QED BY <1>1, <1>2, <1>8

\* Init establishes the invariant.
LEMMA InitIInv == Init => IInv
<1> SUFFICES ASSUME Init PROVE IInv
    OBVIOUS
<1>1. turn = 1 /\ cuts = <<<<>>, <<>>>> /\ pos = MinSize /\ fp = 0 /\ wide = 0
    BY DEF Init
<1>2. MinSize \in Nat /\ MaxSize \in Nat /\ MinSize <= MaxSize
      /\ Strict \in Nat \ {0} /\ Fingerprints \in Nat \ {0}
    BY CdcAssumption
<1>3. cuts[1] = <<>> /\ cuts[2] = <<>> /\ cuts \in [1..2 -> Seq(Nat)]
    <2>1. <<>> \in Seq(Nat)
        OBVIOUS
    <2> QED BY <1>1, <2>1, Pair
<1>4. TypeOK
    BY <1>1, <1>2, <1>3, InitTexts DEF TypeOK
<1>5. ChunksTile
    BY <1>1, <1>3 DEF ChunksTile
<1>6. Begin = 0
    BY <1>1, <1>3 DEF Begin, Start, EndOf
<1>7. Size \in Nat
    BY <1>1, <1>4 DEF Size, TypeOK
<1>8. InChunk
    BY <1>1, <1>2, <1>6, <1>7 DEF InChunk, Rolling, Hard, Least
<1>9. Narrowed
    BY <1>1, <1>2 DEF Narrowed
<1> QED BY <1>4, <1>5, <1>8, <1>9 DEF IInv

Fresh == Begin = 0 /\ Size \in Nat

\* At the beginning of a text the largest chunk reaches past the bytes that
\* cannot end one.
LEMMA FreshText == Fresh /\ Rolling => MinSize <= Hard
<1>1. MinSize \in Nat /\ MaxSize \in Nat /\ MinSize <= MaxSize
    BY CdcAssumption
<1> QED BY <1>1 DEF Fresh, Rolling, Hard, Least

\* Every step preserves the invariant.
LEMMA StepIInv == IInv /\ [Next]_vars => IInv'
<1> SUFFICES ASSUME IInv, [Next]_vars PROVE IInv'
    OBVIOUS
<1>1. /\ MinSize \in Nat /\ MaxSize \in Nat \ {0} /\ MinSize <= MaxSize
      /\ Strict \in Nat \ {0} /\ Fingerprints \in Nat \ {0}
    BY CdcAssumption
<1>2. ASSUME Pending
      PROVE  Begin \in Nat /\ Size \in Nat /\ Begin < Size /\ turn \in 1..2
    <2>1. turn \in 1..2
        BY <1>2 DEF Pending
    <2> QED BY <1>2, <2>1, StartInText DEF IInv, Begin, Size, Pending
<1>3. CASE FixedCut
    <2> DEFINE end == Least(Begin + MaxSize, Size)
    <2>1. Pending /\ Cut(end)
        BY <1>3 DEF FixedCut
    <2>2. /\ end \in Nat /\ end > Begin /\ end <= Begin + MaxSize /\ end <= Size
          /\ end < Size => end - Begin = MaxSize
        BY <1>1, <1>2, <2>1 DEF Least
    <2> HIDE DEF end
    <2> QED BY <2>1, <2>2, CutKeeps
<1>4. CASE LastChunk
    <2>1. Pending /\ Cut(Size) /\ Size - Begin <= MinSize
        BY <1>4 DEF LastChunk
    <2>2. Size > Begin /\ Size <= Begin + MaxSize /\ Size \in Nat
        BY <1>1, <1>2, <2>1
    <2> QED BY <2>1, <2>2, CutKeeps
<1>5. CASE HardCut
    <2>1. Pending /\ Cut(Hard) /\ Size - Begin > MinSize
        BY <1>5 DEF HardCut, Rolling
    <2>2. /\ Hard \in Nat /\ Hard > Begin /\ Hard <= Begin + MaxSize /\ Hard <= Size
          /\ Hard < Size => Hard - Begin = MaxSize
        BY <1>1, <1>2, <2>1 DEF Hard, Least
    <2> QED BY <2>1, <2>2, CutKeeps
<1>6. CASE Roll
    <2>1. Rolling /\ Pending /\ pos < Hard
        BY <1>6 DEF Roll, Rolling
    <2>2. pos \in Nat /\ pos >= Begin + MinSize
        BY <2>1 DEF IInv, TypeOK, InChunk
    <2>3. Hard \in Nat /\ Hard <= Begin + MaxSize /\ Hard <= Size
        BY <1>1, <1>2, <2>1 DEF Hard, Least
    <2>4. CASE Cut(pos + 1)
        <3> DEFINE end == pos + 1
        <3>1. /\ end \in Nat /\ end > Begin /\ end <= Begin + MaxSize
              /\ end <= Size /\ end - Begin > MinSize
            BY <1>1, <1>2, <2>1, <2>2, <2>3
        <3>2. Cut(end)
            BY <2>4
        <3> HIDE DEF end
        <3> QED BY <2>1, <3>1, <3>2, CutKeeps
    <2>5. CASE /\ pos' = pos + 1 /\ fp' = Rolled(text[turn][pos + 1])
               /\ wide' = Whole(text[turn][pos + 1])
               /\ UNCHANGED <<text, edit, turn, cuts>>
        <3> DEFINE byte == text[turn][pos + 1]
        <3>1. byte \in Byte
            <4>1. text[turn] \in Seq(Byte) /\ Len(text[turn]) = Size
                BY <1>2, <2>1 DEF IInv, TypeOK, Size
            <4>2. pos + 1 \in 1..Size
                BY <1>2, <2>1, <2>2, <2>3
            <4> QED BY <4>1, <4>2
        <3> HIDE DEF byte
        <3>2. wide \in Nat /\ fp \in Nat /\ Gear[byte] \in Nat
            <4>1. Gear \in [Byte -> 0..Fingerprints - 1]
                BY CdcAssumption
            <4> QED BY <1>1, <3>1, <4>1 DEF IInv, TypeOK
        <3>3. fp' = wide' % Strict
            BY <2>5, <3>1, <3>2, NarrowingExact DEF IInv, byte
        <3>4. wide' \in 0..Fingerprints - 1
            <4>1. 2 * wide + Gear[byte] \in Nat
                BY <3>2
            <4> QED BY <1>1, <2>5, <4>1, Division DEF Whole, byte
        <3>5. fp' \in 0..Strict - 1
            <4>1. wide' \in Nat
                BY <1>1, <3>4
            <4> QED BY <1>1, <3>3, <4>1, Division
        <3>6. TypeOK'
            BY <2>2, <2>5, <3>4, <3>5 DEF IInv, TypeOK
        <3>7. ChunksTile'
            BY ZenonT(60), <2>5 DEF IInv, ChunksTile, EndOf, Start
        <3>8. InChunk'
            <4>1. Begin' = Begin /\ Hard' = Hard
                BY <2>5 DEF Begin, Start, EndOf, Hard, Size
            <4> QED BY <1>1, <1>2, <2>1, <2>2, <2>3, <2>5, <4>1 DEF IInv, InChunk
        <3> QED BY <3>3, <3>6, <3>7, <3>8 DEF IInv, Narrowed
    <2> QED BY <1>6, <2>4, <2>5 DEF Roll
<1>7. CASE Finish
    <2>1. /\ turn \in 1..2 /\ Begin >= Size /\ turn' = turn + 1
          /\ pos' = MinSize /\ fp' = 0 /\ wide' = 0
          /\ text' = text /\ edit' = edit /\ cuts' = cuts
        BY <1>7 DEF Finish
    <2>2. TypeOK'
        BY <1>1, <2>1 DEF IInv, TypeOK
    <2>3. Begin = Size
        BY <2>1, StartInText DEF IInv, Begin, Size
    <2>4. ChunksTile'
        <3>1. \A t \in 1..2 : turn' > t => turn > t \/ t = turn
            BY <2>1
        <3> QED BY <2>1, <2>3, <3>1 DEF IInv, ChunksTile, EndOf, Start, Begin, Size
    <2>5. InChunk'
        <3>1. CASE turn' = 3
            <4>1. ~Pending' /\ ~Rolling'
                BY <3>1 DEF Pending, Rolling
            <4>2. \A t \in 1..2 : ~(t > turn')
                BY <3>1
            <4> QED BY <4>1, <4>2 DEF InChunk
        <3>2. CASE turn' = 2
            <4>1. turn = 1 /\ cuts'[2] = <<>>
                BY <2>1, <3>2 DEF IInv, InChunk
            <4>2. Begin' = 0
                BY <3>2, <4>1 DEF Begin, Start, EndOf
            <4>3. Size' \in Nat
                BY <2>2, <3>2 DEF Size, TypeOK
            <4>4. \A t \in 1..2 : ~(t > turn')
                BY <3>2
            <4>5. Rolling' => pos' <= Hard'
                <5>1. Fresh'
                    BY <4>2, <4>3 DEF Fresh
                <5>2. (Fresh /\ Rolling => MinSize <= Hard)'
                    BY FreshText, PTL
                <5>3. MinSize' = MinSize /\ pos' = MinSize
                    BY <2>1
                <5> QED BY <5>1, <5>2, <5>3
            <4> QED BY <1>1, <2>1, <4>2, <4>4, <4>5 DEF InChunk
        <3> QED BY <2>1, <3>1, <3>2
    <2>6. Narrowed'
        BY <1>1, <2>1 DEF Narrowed
    <2> QED BY <2>2, <2>4, <2>5, <2>6 DEF IInv
<1>8. CASE UNCHANGED vars
    BY <1>8 DEF vars, IInv, TypeOK, ChunksTile, InChunk, Narrowed, EndOf, Start,
            Begin, Size, Pending, Rolling, Fixed, Hard
<1> QED BY <1>3, <1>4, <1>5, <1>6, <1>7, <1>8 DEF Next

-----------------------------------------------------------------------------
(* The theorems.                                                           *)

\* In every reachable state the invariant holds.
THEOREM Invariance == Spec => []IInv
<1>1. Init => IInv
    BY InitIInv
<1>2. IInv /\ [Next]_vars => IInv'
    BY StepIInv
<1> QED BY <1>1, <1>2, PTL DEF Spec

\* The loop's state keeps its types for any table, masks and sizes.
THEOREM CdcTypeCorrect == Spec => []TypeOK
<1>1. IInv => TypeOK
    BY DEF IInv
<1> QED BY <1>1, Invariance, PTL

\* For any text the chunks follow each other without a gap, within their
\* sizes, and are the whole text in the end.
THEOREM ChunksAlwaysTile == Spec => []ChunksTile
<1>1. IInv => ChunksTile
    BY DEF IInv
<1> QED BY <1>1, Invariance, PTL

\* For any Gear table, any masks that divide and any bytes, the narrowed
\* fingerprint and the cast samples give what the plain ones would.
THEOREM ShortcutsAlwaysExact == Spec => []ShortcutsExact
<1>1. IInv => ShortcutsExact
    <2> SUFFICES ASSUME IInv PROVE ShortcutsExact
        OBVIOUS
    <2>1. wide \in Nat
        BY CdcAssumption DEF IInv, TypeOK
    <2>2. \A b \in Byte : Rolled(b) = Whole(b) % Strict
        BY <2>1, NarrowingExact DEF IInv
    <2>3. ASSUME NEW t \in 1..2, NEW n \in Sizes(t) PROVE CastSamples(n) = LoopSamples(n)
        <3>1. n \in Nat
            BY SMTT(30), <2>3, CdcAssumption DEF IInv, ChunksTile, Sizes
        <3> QED BY <3>1, PlatformsAgree
    <2> QED BY <2>2, <2>3 DEF ShortcutsExact
<1> QED BY <1>1, Invariance, PTL
-----------------------------------------------------------------------------
(* An edit is local. What a chunk is, said without the loop: a trace of    *)
(* the fingerprint at every byte up to the end.                            *)

\* The fingerprint at p, for the bytes of x behind the first MinSize from b.
Trace(g, x, b, e) ==
    /\ g[b + MinSize] = 0
    /\ \A p \in b + MinSize + 1..e : g[p] = (2 * g[p - 1] + Narrow(x[p])) % Strict

\* A chunk from b may end at p.
Zero(g, b, p) == IF p <= b + AvgSize THEN g[p] = 0 ELSE g[p] % Loose = 0

NoZero(g, b, e) == \A p \in b + MinSize + 1..e : ~Zero(g, b, p)

\* The chunk of x that begins at b ends at e, as the trace g shows.
Chunk(g, x, b, e) ==
    LET last == Least(b + MaxSize, Len(x)) IN
    IF Len(x) >= Threshold THEN e = last
    ELSE IF Len(x) - b <= MinSize THEN e = Len(x)
    ELSE /\ e \in b + MinSize..last
         /\ Trace(g, x, b, e) /\ NoZero(g, b, e - 1)
         /\ \/ e = last
            \/ e > b + MinSize /\ Zero(g, b, e)

Traces == [Nat -> Nat]

\* The loop's fingerprint is that of a trace of the bytes it has read.
Tracing ==
    \E g \in Traces :
        Trace(g, text[turn], Begin, pos) /\ NoZero(g, Begin, pos) /\ g[pos] = fp

\* Every chunk that was made has a trace, and so has the one being made.
Explained ==
    /\ \A t \in 1..2 : \A i \in 1..Len(cuts[t]) :
          \E g \in Traces : Chunk(g, text[t], EndOf(t, i - 1), EndOf(t, i))
    /\ Rolling => Tracing

\* How far the two texts are the same, before the edit and behind it.
Edited ==
    /\ edit.at + edit.out <= Len(text[1]) /\ edit.at <= Len(text[2])
    /\ \A p \in 1..edit.at : text[1][p] = text[2][p]
    /\ \A p \in edit.at + edit.out + 1..Len(text[1]) :
          LET q == p + (Len(text[2]) - Len(text[1])) IN
          q \in 1..Len(text[2]) /\ text[2][q] = text[1][p]

\* x has the bytes of y from b to m, d further on; and so do two traces.
SameBytes(x, y, b, m, d) == \A p \in b + 1..m : x[p] = y[p + d]
SameValues(g, h, b, m, d) == \A p \in b + MinSize..m : g[p] = h[p + d]

\* A set of numbers that is not empty has a least one. (Induction, for a set.)
LEMMA LeastElement ==
    ASSUME NEW S \in SUBSET Nat, S # {}
    PROVE  \E m \in S : \A k \in S : m <= k
<1> DEFINE R == {p \in Nat \X Nat : p[1] < p[2]}
<1>1. IsWellFoundedOn(R, Nat)
    BY NatLessThanWellFounded DEF OpToRel
<1> HIDE DEF R
<1>2. PICK m \in S : \A k \in S : <<k, m>> \notin R
    BY <1>1, WFMin
<1>3. ASSUME NEW k \in S, k < m PROVE FALSE
    <2>1. <<k, m>> \in Nat \X Nat
        OBVIOUS
    <2> QED BY <1>2, <1>3, <2>1 DEF R
<1> QED BY <1>3

\* Two traces over the same bytes are the same.
LEMMA SameTrace ==
    ASSUME NEW x \in Seq(Byte), NEW y \in Seq(Byte), NEW g \in Traces, NEW h \in Traces,
           NEW b \in Nat, NEW c \in Nat, NEW m \in Nat,
           Trace(g, x, b, m), Trace(h, y, c, m + (c - b)),
           SameBytes(x, y, b, m, c - b)
    PROVE  SameValues(g, h, b, m, c - b)
<1> DEFINE W == {p \in b + MinSize..m : g[p] # h[p + (c - b)]}
<1>0. MinSize \in Nat
    BY CdcAssumption
<1> SUFFICES ASSUME W # {} PROVE FALSE
    BY DEF SameValues
<1>1. W \in SUBSET Nat
    BY <1>0
<1>2. PICK p \in W : \A k \in W : p <= k
    BY <1>1, LeastElement
<1>3. p \in b + MinSize..m /\ g[p] # h[p + (c - b)] /\ p \in Nat
    BY <1>0, <1>2
<1>4. CASE p = b + MinSize
    <2>1. p + (c - b) = c + MinSize
        BY <1>0, <1>4
    <2> QED BY <1>3, <1>4, <2>1 DEF Trace
<1>5. CASE p # b + MinSize
    <2>1. p - 1 \in b + MinSize..m /\ p \in b + MinSize + 1..m /\ p \in b + 1..m
        BY <1>0, <1>3, <1>5
    <2>2. p - 1 \notin W
        BY <1>2, <1>3
    <2>3. g[p - 1] = h[(p - 1) + (c - b)]
        BY <2>1, <2>2
    <2>4. g[p] = (2 * g[p - 1] + Narrow(x[p])) % Strict
        BY <2>1 DEF Trace
    <2> DEFINE r == p + (c - b)
    <2>5. r \in c + MinSize + 1..m + (c - b) /\ r - 1 = (p - 1) + (c - b)
        BY <1>0, <2>1
    <2>6. h[r] = (2 * h[r - 1] + Narrow(y[r])) % Strict
        BY <2>5 DEF Trace
    <2>7. x[p] = y[r]
        BY <2>1 DEF SameBytes
    <2> QED BY <1>3, <2>3, <2>4, <2>5, <2>6, <2>7
<1> QED BY <1>4, <1>5

\* Where two texts have the same bytes, chunks that begin together end together.
LEMMA SameEnd ==
    ASSUME NEW x \in Seq(Byte), NEW y \in Seq(Byte), NEW g \in Traces, NEW h \in Traces,
           NEW b \in Nat, NEW c \in Nat, NEW e \in Nat, NEW f \in Nat,
           Chunk(g, x, b, e), Chunk(h, y, c, f),
           b < Len(x), c < Len(y),
           Len(x) >= Threshold <=> Len(y) >= Threshold,
           SameBytes(x, y, b, e, c - b),
           \/ e < Len(x) /\ e + (c - b) < Len(y)
           \/ Len(y) = Len(x) + (c - b)
    PROVE  f = e + (c - b)
<1> DEFINE d == c - b
<1> DEFINE lx == Least(b + MaxSize, Len(x))
<1> DEFINE ly == Least(c + MaxSize, Len(y))
<1>0. /\ MinSize \in Nat /\ AvgSize \in Nat /\ MaxSize \in Nat
      /\ MinSize <= AvgSize /\ AvgSize <= MaxSize
      /\ Len(x) \in Nat /\ Len(y) \in Nat /\ Threshold \in Nat
    <2>1. /\ MinSize \in Nat /\ AvgSize \in Nat /\ MaxSize \in Nat /\ Threshold \in Nat
          /\ MinSize <= AvgSize /\ AvgSize <= MaxSize
        BY ONLY CdcAssumption
    <2>2. Len(x) \in Nat /\ Len(y) \in Nat
        OBVIOUS
    <2> QED BY <2>1, <2>2
<1>1. CASE Len(x) >= Threshold
    <2>1. e = lx /\ f = ly
        BY <1>1 DEF Chunk
    <2> QED BY <1>0, <2>1 DEF Least
<1>2. CASE Len(x) < Threshold
    <2>0. ~(Len(x) >= Threshold) /\ ~(Len(y) >= Threshold)
        BY <1>0, <1>2
    <2>1. CASE Len(x) - b <= MinSize
        <3>1. e = Len(x)
            BY <2>0, <2>1 DEF Chunk
        <3>2. Len(y) - c <= MinSize
            BY <1>0, <2>1, <3>1
        <3>3. f = Len(y)
            BY <2>0, <3>2 DEF Chunk
        <3> QED BY <1>0, <3>1, <3>3
    <2>2. CASE Len(x) - b > MinSize
        <3>1. /\ e \in b + MinSize..lx
              /\ Trace(g, x, b, e) /\ NoZero(g, b, e - 1)
              /\ \/ e = lx
                 \/ e > b + MinSize /\ Zero(g, b, e)
            BY <1>0, <2>0, <2>2 DEF Chunk
        <3>2. Len(y) - c > MinSize
            <4>1. CASE e < Len(x) /\ e + d < Len(y)
                BY <1>0, <3>1, <4>1
            <4>2. CASE Len(y) = Len(x) + d
                BY <1>0, <2>2, <4>2
            <4> QED BY <4>1, <4>2
        <3>3. /\ f \in c + MinSize..ly
              /\ Trace(h, y, c, f) /\ NoZero(h, c, f - 1)
              /\ \/ f = ly
                 \/ f > c + MinSize /\ Zero(h, c, f)
            BY <1>0, <2>0, <3>2 DEF Chunk
        <3>4. /\ e \in Int /\ f \in Int /\ e <= lx /\ f <= ly
              /\ e >= b + MinSize /\ f >= c + MinSize
            BY <3>1, <3>3
        <3>5. CASE f < e + d
            <4> DEFINE m == f - d
            <4>1. m \in Nat /\ m >= b + MinSize /\ m < e /\ m + d = f
                BY <1>0, <3>4, <3>5
            <4> HIDE DEF m
            <4>2. Trace(g, x, b, m)
                BY <1>0, <3>1, <3>4, <4>1 DEF Trace
            <4>3. SameValues(g, h, b, m, c - b)
                <5>1. SameBytes(x, y, b, m, c - b)
                    BY <1>0, <4>1 DEF SameBytes
                <5>2. Trace(h, y, c, m + (c - b))
                    BY <3>3, <4>1
                <5> QED BY <4>1, <4>2, <5>1, <5>2, SameTrace
            <4>4. f # ly
                <5>1. CASE ly = c + MaxSize
                    BY <1>0, <3>4, <4>1, <5>1 DEF Least
                <5>2. CASE ly = Len(y)
                    BY <1>0, <3>4, <4>1, <5>2 DEF Least
                <5> QED BY <5>1, <5>2 DEF Least
            <4>5. f > c + MinSize /\ Zero(h, c, f)
                BY <3>3, <4>4
            <4>6. g[m] = h[f] /\ (m <= b + AvgSize <=> f <= c + AvgSize)
                <5>1. m \in b + MinSize..m /\ m + (c - b) = f
                    BY <1>0, <4>1
                <5>2. g[m] = h[f]
                    BY <4>3, <5>1 DEF SameValues
                <5>3. m <= b + AvgSize <=> f <= c + AvgSize
                    BY <1>0, <4>1
                <5> QED BY <5>2, <5>3
            <4>7. Zero(g, b, m)
                BY <4>5, <4>6 DEF Zero
            <4>8. m \in b + MinSize + 1..e - 1
                BY <1>0, <3>4, <4>1, <4>5
            <4> QED BY <3>1, <4>7, <4>8 DEF NoZero
        <3>6. CASE f > e + d
            <4>1. e + d \in Nat
                BY <1>0, <3>4
            <4>2. Trace(h, y, c, e + (c - b))
                BY <1>0, <3>3, <3>4, <3>6, <4>1 DEF Trace
            <4>3. SameValues(g, h, b, e, c - b)
                BY <3>1, <4>2, SameTrace
            <4>4. e # lx
                <5>1. CASE lx = b + MaxSize
                    BY <1>0, <3>4, <3>6, <5>1 DEF Least
                <5>2. CASE lx = Len(x)
                    BY <1>0, <3>4, <3>6, <5>2 DEF Least
                <5> QED BY <5>1, <5>2 DEF Least
            <4>5. e > b + MinSize /\ Zero(g, b, e)
                BY <3>1, <4>4
            <4>6. g[e] = h[e + d] /\ (e <= b + AvgSize <=> e + d <= c + AvgSize)
                BY <1>0, <3>4, <4>3 DEF SameValues
            <4>7. Zero(h, c, e + d)
                BY <4>5, <4>6 DEF Zero
            <4>8. e + d \in c + MinSize + 1..f - 1
                BY <1>0, <3>4, <3>6, <4>5
            <4> QED BY <3>3, <4>7, <4>8 DEF NoZero
        <3> QED BY <1>0, <3>4, <3>5, <3>6
    <2> QED BY <1>0, <2>1, <2>2
<1> QED BY <1>0, <1>1, <1>2

\* A trace goes on by the byte that is read.
LEMMA ExtendTrace ==
    ASSUME NEW x, NEW b \in Nat, NEW p \in Nat, p >= b + MinSize, NEW g \in Traces, NEW v \in Nat,
           Trace(g, x, b, p), NoZero(g, b, p), v = (2 * g[p] + Narrow(x[p + 1])) % Strict
    PROVE  \E h \in Traces : Trace(h, x, b, p + 1) /\ NoZero(h, b, p) /\ h[p + 1] = v
<1> DEFINE h == [g EXCEPT ![p + 1] = v]
<1>0. MinSize \in Nat
    BY ONLY CdcAssumption
<1>1. h \in Traces /\ h[p + 1] = v /\ \A n \in Nat : n # p + 1 => h[n] = g[n]
    BY DEF Traces
<1> HIDE DEF h
<1>2. \A n \in b + MinSize..p : h[n] = g[n]
    BY <1>0, <1>1
<1>3. Trace(h, x, b, p + 1)
    <2>1. h[b + MinSize] = 0
        BY <1>0, <1>2 DEF Trace
    <2>2. ASSUME NEW n \in b + MinSize + 1..p + 1
          PROVE  h[n] = (2 * h[n - 1] + Narrow(x[n])) % Strict
        <3>1. n - 1 \in b + MinSize..p
            BY <1>0
        <3>2. CASE n = p + 1
            <4>1. n - 1 = p
                BY <3>2
            <4>2. h[p] = g[p]
                BY <1>2, <3>1, <4>1
            <4> QED BY <1>1, <3>2, <4>1, <4>2
        <3>3. CASE n # p + 1
            <4>1. n \in b + MinSize + 1..p /\ n \in b + MinSize..p
                BY <1>0, <3>3
            <4>2. g[n] = (2 * g[n - 1] + Narrow(x[n])) % Strict
                BY <4>1 DEF Trace
            <4>3. h[n] = g[n] /\ h[n - 1] = g[n - 1]
                BY <1>2, <3>1, <4>1
            <4> QED BY <4>2, <4>3
        <3> QED BY <3>2, <3>3
    <2> QED BY <2>1, <2>2 DEF Trace
<1>4. NoZero(h, b, p)
    <2>1. \A n \in b + MinSize + 1..p : n \in b + MinSize..p
        BY <1>0
    <2> QED BY <1>2, <2>1 DEF NoZero, Zero
<1> QED BY <1>1, <1>3, <1>4

\* Before the loop reads a byte.
Untraced == Begin \in Nat /\ pos = Begin + MinSize /\ fp = 0

LEMMA FreshTrace == Untraced => Tracing
<1> SUFFICES ASSUME Untraced PROVE Tracing
    OBVIOUS
<1> DEFINE g == [n \in Nat |-> 0]
<1>0. MinSize \in Nat
    BY ONLY CdcAssumption
<1>1. g \in Traces /\ \A n \in Nat : g[n] = 0
    BY DEF Traces
<1> HIDE DEF g
<1>2. pos \in Nat /\ pos = Begin + MinSize /\ Begin \in Nat /\ fp = 0
    BY <1>0 DEF Untraced
<1>3. \A p \in Begin + MinSize + 1..pos : FALSE
    BY <1>0, <1>2
<1>4. Trace(g, text[turn], Begin, pos)
    BY <1>1, <1>2, <1>3 DEF Trace
<1> QED BY <1>1, <1>2, <1>3, <1>4 DEF NoZero, Tracing

\* The chunk that Cut ends is explained, and the next one begins.
LEMMA CutExplained ==
    ASSUME IInv, Explained, Pending, NEW end \in Nat, Cut(end),
           NEW g \in Traces, Chunk(g, text[turn], Begin, end)
    PROVE  Explained'
<1>0. PICK t \in 1..2 : t = turn
    BY DEF Pending
<1>1. cuts \in [1..2 -> Seq(Nat)] /\ cuts[t] \in Seq(Nat)
    BY DEF IInv, TypeOK
<1>2. /\ cuts'[t] = Append(cuts[t], end)
      /\ \A u \in 1..2 : u # t => cuts'[u] = cuts[u]
      /\ text' = text /\ turn' = turn
    BY <1>0, <1>1 DEF Cut
<1>3. PICK m \in Nat : m = Len(cuts[t])
    BY <1>1
<1> DEFINE s == cuts[t]
<1>4. s \in Seq(Nat) /\ m = Len(s) /\ cuts'[t] = Append(s, end)
    BY <1>1, <1>2, <1>3
<1> HIDE DEF s
<1>5. Len(cuts'[t]) = m + 1 /\ (\A j \in 1..m : cuts'[t][j] = s[j]) /\ cuts'[t][m + 1] = end
    BY <1>4
<1> USE DEF s
<1>6. \A j \in 0..m : EndOf(t, j)' = EndOf(t, j)
    BY <1>5 DEF EndOf
<1>7. EndOf(t, m + 1)' = end /\ Begin = EndOf(t, m)
    BY <1>0, <1>3, <1>5 DEF EndOf, Begin, Start
<1>8. ASSUME NEW u \in 1..2, NEW i \in 1..Len(cuts'[u])
      PROVE  \E k \in Traces : Chunk(k, text'[u], EndOf(u, i - 1)', EndOf(u, i)')
    <2>1. CASE u # t
        <3>1. EndOf(u, i)' = EndOf(u, i) /\ EndOf(u, i - 1)' = EndOf(u, i - 1)
            BY <1>2, <2>1 DEF EndOf
        <3>2. i \in 1..Len(cuts[u])
            BY <1>2, <2>1
        <3> QED BY <1>2, <3>1, <3>2 DEF Explained
    <2>2. CASE u = t /\ i # m + 1
        <3>1. i \in 1..m /\ i \in 0..m /\ i - 1 \in 0..m
            BY <1>5, <2>2
        <3>2. EndOf(u, i)' = EndOf(u, i) /\ EndOf(u, i - 1)' = EndOf(u, i - 1)
            BY <1>6, <2>2, <3>1
        <3>3. i \in 1..Len(cuts[u])
            BY <1>3, <2>2, <3>1
        <3> QED BY <1>2, <3>2, <3>3 DEF Explained
    <2>3. CASE u = t /\ i = m + 1
        <3>1. i - 1 = m /\ m \in 0..m
            BY <2>3
        <3>2. EndOf(u, i)' = end /\ EndOf(u, i - 1)' = Begin
            BY <1>6, <1>7, <2>3, <3>1
        <3>3. text'[u] = text[turn]
            BY <1>0, <1>2, <2>3
        <3> QED BY <3>2, <3>3
    <2> QED BY <2>1, <2>2, <2>3
<1>9. Untraced'
    <2>1. Begin' = end
        BY <1>0, <1>2, <1>5, <1>7 DEF Begin, Start
    <2> QED BY <2>1 DEF Untraced, Cut
<1>10. (Untraced => Tracing)'
    BY FreshTrace, PTL
<1> QED BY <1>8, <1>9, <1>10 DEF Explained

\* Init begins with no chunk.
LEMMA InitExplained == Init => Explained
<1> SUFFICES ASSUME Init PROVE Explained
    OBVIOUS
<1>1. cuts[1] = <<>> /\ cuts[2] = <<>> /\ turn = 1
    BY DEF Init
<1>2. \A t \in 1..2 : \A i \in 1..Len(cuts[t]) : FALSE
    BY <1>1
<1>3. Untraced
    <2>1. Begin = 0 /\ MinSize \in Nat
        BY <1>1, CdcAssumption DEF Begin, Start, EndOf
    <2> QED BY <2>1 DEF Untraced, Init
<1> QED BY <1>2, <1>3, FreshTrace DEF Explained

\* Every step explains the chunk it ends or goes on with its trace.
LEMMA StepExplained == IInv /\ Explained /\ [Next]_vars => Explained'
<1> SUFFICES ASSUME IInv, Explained, [Next]_vars PROVE Explained'
    OBVIOUS
<1>0. /\ MinSize \in Nat /\ AvgSize \in Nat /\ MaxSize \in Nat /\ Threshold \in Nat
      /\ MinSize <= AvgSize /\ AvgSize <= MaxSize
    BY ONLY CdcAssumption
<1>1. ASSUME Pending
      PROVE  Begin \in Nat /\ Size \in Nat /\ Begin < Size /\ turn \in 1..2 /\ Size = Len(text[turn])
    <2>1. turn \in 1..2
        BY <1>1 DEF Pending
    <2> QED BY <1>1, <2>1, StartInText DEF IInv, Begin, Size, Pending
<1> DEFINE none == [n \in Nat |-> 0]
<1>2. none \in Traces
    BY DEF Traces
<1>3. CASE FixedCut
    <2> DEFINE end == Least(Begin + MaxSize, Size)
    <2>1. Pending /\ Cut(end) /\ Len(text[turn]) >= Threshold
        BY <1>3 DEF FixedCut, Fixed
    <2>2. end \in Nat
        BY <1>0, <1>1, <2>1 DEF Least
    <2>3. Chunk(none, text[turn], Begin, end)
        BY <1>1, <2>1 DEF Chunk
    <2> HIDE DEF end, none
    <2> QED BY <1>2, <2>1, <2>2, <2>3, CutExplained
<1>4. CASE LastChunk
    <2>1. Pending /\ Cut(Size) /\ Size - Begin <= MinSize /\ ~(Len(text[turn]) >= Threshold)
        BY <1>4 DEF LastChunk, Fixed
    <2>2. Chunk(none, text[turn], Begin, Size)
        BY <1>1, <2>1 DEF Chunk
    <2> HIDE DEF none
    <2> QED BY <1>1, <1>2, <2>1, <2>2, CutExplained
<1>5. ASSUME Rolling
      PROVE  /\ Pending /\ ~(Len(text[turn]) >= Threshold) /\ Size - Begin > MinSize
             /\ pos \in Nat /\ pos >= Begin + MinSize /\ pos <= Hard
             /\ Hard = Least(Begin + MaxSize, Len(text[turn])) /\ Hard \in Nat
             /\ Tracing
    <2>1. Pending /\ ~(Len(text[turn]) >= Threshold) /\ Size - Begin > MinSize
        BY <1>5 DEF Rolling, Fixed
    <2>2. pos \in Nat /\ pos >= Begin + MinSize /\ pos <= Hard
        BY <1>5, <2>1 DEF IInv, InChunk, TypeOK
    <2>3. Hard = Least(Begin + MaxSize, Len(text[turn])) /\ Hard \in Nat
        BY <1>0, <1>1, <2>1 DEF Hard, Least
    <2> QED BY <1>5, <2>1, <2>2, <2>3 DEF Explained
<1>6. CASE HardCut
    <2>1. Rolling /\ pos >= Hard /\ Cut(Hard)
        BY <1>6 DEF HardCut
    <2>2. pos = Hard
        BY <1>5, <2>1
    <2>3. PICK g \in Traces :
              Trace(g, text[turn], Begin, Hard) /\ NoZero(g, Begin, Hard)
        BY <1>5, <2>1, <2>2 DEF Tracing
    <2>4. NoZero(g, Begin, Hard - 1)
        BY <1>0, <1>1, <1>5, <2>1, <2>3 DEF NoZero
    <2>5. Chunk(g, text[turn], Begin, Hard)
        <3>1. Hard \in Begin + MinSize..Least(Begin + MaxSize, Len(text[turn]))
            BY <1>0, <1>1, <1>5, <2>1, <2>2
        <3>2. ~(Len(text[turn]) - Begin <= MinSize)
            BY <1>0, <1>1, <1>5, <2>1
        <3>3. /\ Hard = Least(Begin + MaxSize, Len(text[turn]))
              /\ ~(Len(text[turn]) >= Threshold)
            BY <1>5, <2>1
        <3> QED BY <2>3, <2>4, <3>1, <3>2, <3>3 DEF Chunk
    <2> QED BY <1>5, <2>1, <2>5, CutExplained
<1>7. CASE Roll
    <2> DEFINE byte == text[turn][pos + 1]
    <2>1. Rolling /\ pos < Hard
        BY <1>7 DEF Roll
    <2>2. PICK g \in Traces :
              Trace(g, text[turn], Begin, pos) /\ NoZero(g, Begin, pos) /\ g[pos] = fp
        BY <1>5, <2>1 DEF Tracing
    <2>3. Rolled(byte) = (2 * g[pos] + Narrow(text[turn][pos + 1])) % Strict
        BY <2>2 DEF Rolled
    <2>4. Rolled(byte) \in Nat
        <3>1. byte \in Byte
            <4>1. text[turn] \in Seq(Byte)
                BY <1>1, <1>5, <2>1 DEF IInv, TypeOK
            <4>2. pos + 1 \in 1..Len(text[turn])
                BY <1>0, <1>1, <1>5, <2>1 DEF Least
            <4> QED BY <4>1, <4>2
        <3> HIDE DEF byte
        <3>6. wide \in Nat /\ Narrowed
            BY CdcAssumption DEF IInv, TypeOK
        <3>2. Rolled(byte) = Whole(byte) % Strict /\ wide \in Nat
            BY <3>1, <3>6, NarrowingExact
        <3>3. Gear[byte] \in Nat /\ Strict \in Nat \ {0} /\ Fingerprints \in Nat \ {0}
            BY <3>1, CdcAssumption
        <3>4. 2 * wide + Gear[byte] \in Nat
            BY <3>2, <3>3
        <3>5. Whole(byte) \in Nat
            BY <3>3, <3>4, Division DEF Whole
        <3> QED BY <3>2, <3>3, <3>5, Division
    <2>5. PICK h \in Traces :
              Trace(h, text[turn], Begin, pos + 1) /\ NoZero(h, Begin, pos) /\ h[pos + 1] = Rolled(byte)
        BY <1>1, <1>5, <2>1, <2>2, <2>3, <2>4, ExtendTrace
    <2> DEFINE boundary == IF pos < Normal THEN Rolled(byte) = 0 ELSE Rolled(byte) % Loose = 0
    <2>6. boundary <=> Zero(h, Begin, pos + 1)
        <3>1. pos < Normal <=> pos + 1 <= Begin + AvgSize
            BY <1>0, <1>1, <1>5, <2>1 DEF Normal, Least
        <3> QED BY <2>5, <3>1 DEF Zero
    <2>7. CASE boundary
        <3>1. Cut(pos + 1)
            BY <1>7, <2>7 DEF Roll
        <3>2. Chunk(h, text[turn], Begin, pos + 1)
            <4>1. pos + 1 \in Begin + MinSize..Hard /\ pos + 1 > Begin + MinSize
                BY <1>0, <1>1, <1>5, <2>1
            <4>2. ~(Len(text[turn]) - Begin <= MinSize)
                BY <1>0, <1>1, <1>5, <2>1
            <4>3. (pos + 1) - 1 = pos
                BY <1>5, <2>1
            <4> QED BY <1>5, <2>1, <2>5, <2>6, <2>7, <4>1, <4>2, <4>3 DEF Chunk
        <3>3. pos + 1 \in Nat
            BY <1>5, <2>1
        <3> QED BY <1>5, <2>1, <3>1, <3>2, <3>3, CutExplained
    <2>8. CASE ~boundary
        <3>1. pos' = pos + 1 /\ fp' = Rolled(byte) /\ UNCHANGED <<text, turn, cuts>>
            BY <1>7, <2>8 DEF Roll
        <3>2. Begin' = Begin /\ \A t \in 1..2, i \in Nat : EndOf(t, i)' = EndOf(t, i)
            BY <3>1 DEF Begin, Start, EndOf
        <3>3. NoZero(h, Begin, pos + 1)
            <4>1. \A n \in Begin + MinSize + 1..pos + 1 : n \in Begin + MinSize + 1..pos \/ n = pos + 1
                BY <1>0, <1>1, <1>5, <2>1
            <4> QED BY <2>5, <2>6, <2>8, <4>1 DEF NoZero
        <3>4. Tracing'
            BY <2>5, <3>1, <3>2, <3>3 DEF Tracing
        <3>5. ASSUME NEW t \in 1..2, NEW i \in 1..Len(cuts'[t])
              PROVE  \E k \in Traces : Chunk(k, text'[t], EndOf(t, i - 1)', EndOf(t, i)')
            <4>1. i \in Nat /\ i - 1 \in Nat /\ i \in 1..Len(cuts[t])
                BY <3>1
            <4> QED BY <3>1, <3>2, <4>1 DEF Explained
        <3> QED BY <3>4, <3>5 DEF Explained
    <2> QED BY <2>7, <2>8
<1>8. CASE Finish
    <2>1. /\ turn \in 1..2 /\ turn' = turn + 1 /\ pos' = MinSize /\ fp' = 0
          /\ text' = text /\ cuts' = cuts
        BY <1>8 DEF Finish
    <2>2. \A t \in 1..2, i \in Nat : EndOf(t, i)' = EndOf(t, i)
        BY <2>1 DEF EndOf
    <2>3. ASSUME NEW t \in 1..2, NEW i \in 1..Len(cuts'[t])
          PROVE  \E k \in Traces : Chunk(k, text'[t], EndOf(t, i - 1)', EndOf(t, i)')
        <3>1. i \in Nat /\ i - 1 \in Nat /\ i \in 1..Len(cuts[t])
            BY <2>1
        <3> QED BY <2>1, <2>2, <3>1 DEF Explained
    <2>4. CASE turn' = 3
        <3>1. ~Rolling'
            BY <2>4 DEF Rolling, Pending
        <3> QED BY <2>3, <3>1 DEF Explained
    <2>5. CASE turn' = 2
        <3>1. cuts'[2] = <<>>
            BY <2>1, <2>5 DEF IInv, InChunk
        <3>2. Begin' = 0
            BY <2>5, <3>1 DEF Begin, Start, EndOf
        <3>3. Untraced'
            BY <1>0, <2>1, <3>2 DEF Untraced
        <3>4. (Untraced => Tracing)'
            BY FreshTrace, PTL
        <3> QED BY <2>3, <3>3, <3>4 DEF Explained
    <2> QED BY <2>1, <2>4, <2>5
<1>9. CASE UNCHANGED vars
    BY <1>9 DEF vars, Explained, Tracing, EndOf, Start, Begin, Size, Pending, Rolling, Fixed
<1> QED BY <1>3, <1>4, <1>6, <1>7, <1>8, <1>9 DEF Next

\* Init makes the second text out of the first.
LEMMA InitEdited == Init => Edited
<1> SUFFICES ASSUME Init PROVE Edited
    OBVIOUS
<1>1. PICK d \in Texts, w \in {<<>>} \union {<<b>> : b \in Byte}, out \in {0, 1}, at \in 0..MaxLength :
          /\ at + out <= Len(d)
          /\ text = <<d, SubSeq(d, 1, at) \o w \o SubSeq(d, at + out + 1, Len(d))>>
          /\ edit = [at |-> at, out |-> out]
    BY DEF Init
<1>2. at \in Nat /\ out \in Nat
    BY <1>1, CdcAssumption
<1>3. d \in Seq(Byte) /\ w \in Seq(Byte)
    <2>1. PICK n \in Nat : d \in [1..n -> Byte]
        BY <1>1, CdcAssumption DEF Texts
    <2>2. d \in Seq(Byte)
        BY <2>1, SeqDef
    <2>3. ASSUME NEW b \in Byte PROVE <<b>> \in Seq(Byte)
        <3>1. <<b>> \in [1..1 -> Byte]
            OBVIOUS
        <3> QED BY <3>1, SeqDef
    <2>4. <<>> \in Seq(Byte)
        OBVIOUS
    <2>5. w \in Seq(Byte)
        BY <1>1, <2>3, <2>4
    <2> QED BY <2>2, <2>5
<1>4. Len(d) \in Nat /\ Len(w) \in Nat /\ \A p \in 1..Len(d) : d[p] \in Byte
    BY <1>3
<1> DEFINE front == SubSeq(d, 1, at)
<1> DEFINE back == SubSeq(d, at + out + 1, Len(d))
<1> DEFINE joined == front \o w
<1> DEFINE whole == joined \o back
<1>5. /\ front \in Seq(Byte) /\ Len(front) = at
      /\ \A p \in 1..at : front[p] = d[p]
    <2>1. \A p \in 1..at : d[p] \in Byte
        BY <1>1, <1>2, <1>4
    <2>2. /\ front \in Seq(Byte)
          /\ Len(front) = IF 1 <= at THEN at - 1 + 1 ELSE 0
          /\ \A p \in 1..at - 1 + 1 : front[p] = d[1 + p - 1]
        BY <1>2, <2>1, SubSeqProperties
    <2> HIDE DEF front
    <2> QED BY <1>2, <2>2
<1>6. /\ back \in Seq(Byte) /\ Len(back) = Len(d) - (at + out)
      /\ \A p \in 1..Len(d) - (at + out) : back[p] = d[at + out + p]
    <2> DEFINE m == at + out + 1
    <2>0. m \in Nat /\ m = at + out + 1
        BY <1>2
    <2>1. \A p \in m..Len(d) : d[p] \in Byte
        BY <1>2, <1>4
    <2> HIDE DEF m
    <2>2. /\ SubSeq(d, m, Len(d)) \in Seq(Byte)
          /\ Len(SubSeq(d, m, Len(d))) = IF m <= Len(d) THEN Len(d) - m + 1 ELSE 0
          /\ \A p \in 1..Len(d) - m + 1 : SubSeq(d, m, Len(d))[p] = d[m + p - 1]
        BY <1>4, <2>0, <2>1, SubSeqProperties
    <2>3. back = SubSeq(d, m, Len(d))
        BY DEF m
    <2> HIDE DEF back
    <2>4. /\ back \in Seq(Byte)
          /\ Len(back) = IF m <= Len(d) THEN Len(d) - m + 1 ELSE 0
          /\ \A p \in 1..Len(d) - m + 1 : back[p] = d[m + p - 1]
        BY <2>2, <2>3
    <2>5. Len(d) - m + 1 = Len(d) - (at + out) /\ \A p \in Nat : m + p - 1 = at + out + p
        BY <1>2, <1>4, <2>0
    <2>6. Len(back) = Len(d) - (at + out)
        BY <1>1, <1>2, <1>4, <2>0, <2>4
    <2>7. ASSUME NEW p \in 1..Len(d) - (at + out) PROVE back[p] = d[at + out + p]
        <3>1. p \in 1..Len(d) - m + 1 /\ p \in Nat
            BY <1>2, <1>4, <2>5
        <3>2. back[p] = d[m + p - 1] /\ m + p - 1 = at + out + p
            BY <2>4, <2>5, <3>1
        <3> QED BY <3>2
    <2> QED BY <2>4, <2>6, <2>7
<1>7. whole = text[2] /\ d = text[1] /\ edit.at = at /\ edit.out = out
    BY <1>1
<1> HIDE DEF front, back
<1>8. /\ joined \in Seq(Byte) /\ Len(joined) = at + Len(w)
      /\ \A p \in 1..at : joined[p] = front[p]
    <2>1. /\ joined \in Seq(Byte) /\ Len(joined) = Len(front) + Len(w)
          /\ \A p \in 1..Len(front) + Len(w) :
                joined[p] = IF p <= Len(front) THEN front[p] ELSE w[p - Len(front)]
        BY <1>3, <1>5, ConcatProperties
    <2> HIDE DEF joined
    <2>2. \A p \in 1..at : p \in 1..at + Len(w) /\ p <= at
        BY <1>2, <1>4
    <2> QED BY <1>5, <2>1, <2>2
<1> HIDE DEF joined
<1>9. /\ whole \in Seq(Byte) /\ Len(whole) = (at + Len(w)) + Len(back)
      /\ \A p \in 1..(at + Len(w)) + Len(back) :
            whole[p] = IF p <= at + Len(w) THEN joined[p] ELSE back[p - (at + Len(w))]
    BY <1>6, <1>8, ConcatProperties
<1> HIDE DEF whole
<1>10. Len(whole) = Len(d) + Len(w) - out /\ at <= Len(whole) /\ at + out <= Len(d)
    BY <1>1, <1>2, <1>4, <1>6, <1>9
<1>11. ASSUME NEW p \in 1..at PROVE d[p] = whole[p]
    <2>1. p \in 1..(at + Len(w)) + Len(back) /\ p <= at + Len(w)
        BY <1>2, <1>4, <1>6, <1>10
    <2> QED BY <1>5, <1>8, <1>9, <2>1
<1>12. ASSUME NEW p \in at + out + 1..Len(d)
       PROVE  LET q == p + (Len(whole) - Len(d)) IN q \in 1..Len(whole) /\ whole[q] = d[p]
    <2> DEFINE q == p + (Len(whole) - Len(d))
    <2>1. /\ q = p + Len(w) - out /\ q \in 1..Len(whole) /\ ~(q <= at + Len(w))
          /\ q - (at + Len(w)) = p - (at + out)
        BY <1>2, <1>4, <1>10
    <2>2. p - (at + out) \in 1..Len(d) - (at + out) /\ at + out + (p - (at + out)) = p
        BY <1>2, <1>4
    <2>3. whole[q] = back[p - (at + out)]
        BY <1>9, <2>1
    <2> QED BY <1>6, <2>1, <2>2, <2>3
<1> QED BY <1>7, <1>10, <1>11, <1>12 DEF Edited

\* The ends of the chunks of a text are numbers.
LEMMA EndsAreNumbers ==
    ASSUME IInv, NEW t \in 1..2
    PROVE  /\ cuts[t] \in Seq(Nat) /\ Len(cuts[t]) \in Nat
           /\ \A k \in 1..Len(cuts[t]) : cuts[t][k] \in Nat
<1>1. cuts[t] \in Seq(Nat)
    BY DEF IInv, TypeOK
<1>2. \A s \in Seq(Nat) : Len(s) \in Nat /\ \A k \in 1..Len(s) : s[k] \in Nat
    OBVIOUS
<1> QED BY <1>1, <1>2

\* The ends of the chunks of a text increase.
LEMMA Increasing ==
    ASSUME IInv, NEW t \in 1..2, NEW i \in 0..Len(cuts[t]), NEW j \in 0..Len(cuts[t]), i < j
    PROVE  EndOf(t, i) < EndOf(t, j)
<1> DEFINE n == Len(cuts[t])
<1>0. cuts[t] \in Seq(Nat) /\ n \in Nat /\ \A k \in 1..n : cuts[t][k] \in Nat
    BY EndsAreNumbers
<1>1. \A k \in 0..n : EndOf(t, k) \in Nat
    BY <1>0 DEF EndOf
<1>2. \A k \in 1..n : EndOf(t, k - 1) < EndOf(t, k)
    <2> SUFFICES ASSUME NEW k \in 1..n PROVE EndOf(t, k - 1) < EndOf(t, k)
        OBVIOUS
    <2>1. EndOf(t, k) - EndOf(t, k - 1) \in 1..MaxSize
        BY DEF IInv, ChunksTile
    <2>2. k - 1 \in 0..n /\ k \in 0..n /\ MaxSize \in Nat
        BY <1>0, CdcAssumption
    <2>3. EndOf(t, k) \in Nat /\ EndOf(t, k - 1) \in Nat
        BY <1>1, <2>2
    <2> QED BY <2>1, <2>2, <2>3
<1> DEFINE W == {k \in 0..n : i < k /\ EndOf(t, k) <= EndOf(t, i)}
<1> SUFFICES ASSUME W # {} PROVE FALSE
    <2>1. j \notin W => EndOf(t, i) < EndOf(t, j)
        BY <1>1
    <2> QED BY <2>1
<1>3. W \in SUBSET Nat
    BY <1>0
<1>4. PICK k \in W : \A l \in W : k <= l
    BY <1>3, LeastElement
<1>5. k \in 0..n /\ i < k /\ EndOf(t, k) <= EndOf(t, i) /\ k \in Nat /\ i \in Nat
    BY <1>0, <1>4
<1>6. k \in 1..n /\ k - 1 \in 0..n /\ k - 1 < k
    BY <1>0, <1>5
<1>7. k - 1 \notin W
    BY <1>4, <1>5
<1>8. CASE k - 1 = i
    <2>1. EndOf(t, k - 1) < EndOf(t, k) /\ EndOf(t, k) \in Nat /\ EndOf(t, k - 1) \in Nat
        BY <1>1, <1>2, <1>5, <1>6
    <2> QED BY <1>5, <1>8, <2>1
<1>9. CASE i < k - 1
    <2>1. EndOf(t, k - 1) < EndOf(t, k) /\ EndOf(t, k) \in Nat /\ EndOf(t, k - 1) \in Nat
        BY <1>1, <1>2, <1>5, <1>6
    <2>2. ~(EndOf(t, k - 1) <= EndOf(t, i)) /\ EndOf(t, i) \in Nat
        BY <1>1, <1>6, <1>7, <1>9
    <2> QED BY <1>5, <2>1, <2>2
<1> QED BY <1>5, <1>8, <1>9

\* Where the chunks of a text begin.
Begins(t) == Ends(t) \union {0}

\* Another chunk begins where one ends.
LEMMA NextChunk ==
    ASSUME IInv, Explained, NEW t \in 1..2, turn > t,
           NEW b \in Begins(t), b < Len(text[t])
    PROVE  \E f \in Ends(t), g \in Traces : f \in Nat /\ b \in Nat /\ Chunk(g, text[t], b, f)
<1> DEFINE n == Len(cuts[t])
<1>0. cuts[t] \in Seq(Nat) /\ n \in Nat /\ \A k \in 1..n : cuts[t][k] \in Nat
    BY EndsAreNumbers
<1>1. PICK i \in 0..n : b = EndOf(t, i)
    <2>1. CASE b = 0
        BY <1>0, <2>1 DEF EndOf
    <2>2. CASE b \in Ends(t)
        <3>1. PICK k \in 1..n : b = cuts[t][k]
            BY <2>2 DEF Ends
        <3>2. k \in 0..n /\ k # 0
            BY <1>0
        <3> QED BY <3>1, <3>2 DEF EndOf
    <2> QED BY <2>1, <2>2 DEF Begins
<1>2. EndOf(t, n) = Len(text[t])
    BY DEF IInv, ChunksTile, Start
<1>3. i # n /\ b \in Nat
    BY <1>0, <1>1, <1>2, StartInText DEF IInv, EndOf
<1>4. i + 1 \in 1..n /\ i + 1 # 0 /\ (i + 1) - 1 = i
    BY <1>0, <1>3
<1>5. EndOf(t, i + 1) \in Ends(t) /\ EndOf(t, i + 1) \in Nat
    BY <1>0, <1>4 DEF EndOf, Ends
<1>6. \E g \in Traces : Chunk(g, text[t], EndOf(t, (i + 1) - 1), EndOf(t, i + 1))
    BY <1>4 DEF Explained
<1> QED BY <1>1, <1>3, <1>4, <1>5, <1>6

\* The chunk that ends at e begins behind every other before e.
LEMMA PrevChunk ==
    ASSUME IInv, Explained, NEW t \in 1..2, NEW e \in Ends(t)
    PROVE  /\ e \in Nat /\ e <= Len(text[t])
           /\ \E b \in Begins(t), g \in Traces :
                 /\ b \in Nat /\ b < e /\ Chunk(g, text[t], b, e)
                 /\ \A k \in Begins(t) : k < e => k <= b
<1> DEFINE n == Len(cuts[t])
<1>0. cuts[t] \in Seq(Nat) /\ n \in Nat /\ \A k \in 1..n : cuts[t][k] \in Nat
    BY EndsAreNumbers
<1>1. \A k \in 0..n : EndOf(t, k) \in Nat /\ EndOf(t, k) \in Begins(t)
    <2>1. \A k \in 0..n : k = 0 \/ k \in 1..n
        BY <1>0
    <2> QED BY <1>0, <2>1 DEF EndOf, Begins, Ends
<1>2. PICK i \in 1..n : e = cuts[t][i]
    BY DEF Ends
<1>3. i - 1 \in 0..n /\ i \in 0..n /\ i # 0 /\ i - 1 < i /\ i \in Nat
    BY <1>0
<1>4. e = EndOf(t, i)
    BY <1>2, <1>3 DEF EndOf
<1>5. EndOf(t, i - 1) < e
    BY <1>3, <1>4, Increasing
<1>6. e <= Len(text[t])
    BY <1>4 DEF IInv, ChunksTile
<1>7. PICK g \in Traces : Chunk(g, text[t], EndOf(t, i - 1), e)
    BY <1>4 DEF Explained
<1>8. ASSUME NEW k \in Begins(t), k < e PROVE k <= EndOf(t, i - 1)
    <2>1. PICK j \in 0..n : k = EndOf(t, j)
        <3>1. CASE k = 0
            BY <1>0, <3>1 DEF EndOf
        <3>2. CASE k \in Ends(t)
            <4>1. PICK l \in 1..n : k = cuts[t][l]
                BY <3>2 DEF Ends
            <4>2. l \in 0..n /\ l # 0
                BY <1>0
            <4> QED BY <4>1, <4>2 DEF EndOf
        <3> QED BY <3>1, <3>2 DEF Begins
    <2>2. CASE j = i - 1
        BY <1>1, <1>3, <2>1, <2>2
    <2>3. CASE j < i - 1
        <3>1. EndOf(t, j) < EndOf(t, i - 1)
            BY <1>3, <2>3, Increasing
        <3> QED BY <1>1, <1>3, <2>1, <3>1
    <2>4. CASE j = i
        BY <1>1, <1>3, <1>4, <1>8, <2>1, <2>4
    <2>5. CASE i < j
        <3>1. EndOf(t, i) < EndOf(t, j)
            BY <1>3, <2>5, Increasing
        <3> QED BY <1>1, <1>3, <1>4, <1>8, <2>1, <3>1
    <2> QED BY <1>0, <1>3, <2>2, <2>3, <2>4, <2>5
<1> QED BY <1>1, <1>3, <1>4, <1>5, <1>6, <1>7, <1>8

\* The ends of t from lo to hi are ends of u, d further on.
Carried(t, u, lo, hi, d) == \A k \in lo..hi : k \in Ends(t) => k + d \in Ends(u)

\* The next end of t is an end of u too, when the bytes in between are the same.
LEMMA Carry ==
    ASSUME IInv, Explained, turn = 3, Fixed(1) = Fixed(2),
           NEW t \in 1..2, NEW u \in 1..2, NEW d \in Int,
           NEW lo \in Begins(t), lo + d \in Begins(u),
           NEW e \in Ends(t), lo < e, Carried(t, u, lo, e - 1, d),
           SameBytes(text[t], text[u], lo, e, d),
           \/ e < Len(text[t]) /\ e + d < Len(text[u])
           \/ Len(text[u]) = Len(text[t]) + d
    PROVE  e + d \in Ends(u)
<1>0. /\ text[t] \in Seq(Byte) /\ text[u] \in Seq(Byte)
      /\ Len(text[t]) \in Nat /\ Len(text[u]) \in Nat /\ turn > t /\ turn > u
      /\ Len(text[t]) >= Threshold <=> Len(text[u]) >= Threshold
    BY DEF IInv, TypeOK, Fixed
<1>1. e \in Nat /\ e <= Len(text[t])
    BY PrevChunk
<1>2. PICK b \in Begins(t), g \in Traces :
          /\ b \in Nat /\ b < e /\ Chunk(g, text[t], b, e)
          /\ \A k \in Begins(t) : k < e => k <= b
    BY PrevChunk
<1>3. lo \in Nat /\ lo <= b
    <2>1. CASE lo = 0
        BY <1>2, <2>1
    <2>2. CASE lo \in Ends(t)
        <3>1. lo \in Nat
            BY <2>2, PrevChunk
        <3> QED BY <1>2, <3>1
    <2> QED BY <2>1, <2>2 DEF Begins
<1> DEFINE c == b + d
<1>4. c \in Begins(u)
    <2>1. CASE b \in Ends(t)
        <3>1. b \in lo..e - 1
            BY <1>1, <1>2, <1>3
        <3> QED BY <2>1, <3>1 DEF Carried, Begins
    <2>2. CASE b = 0
        <3>1. lo = b
            BY <1>3, <2>2
        <3> QED BY <3>1
    <2> QED BY <1>2, <2>1, <2>2 DEF Begins
<1>5. c < Len(text[u]) /\ b < Len(text[t])
    <2>1. b < Len(text[t])
        BY <1>0, <1>1, <1>2
    <2>2. CASE e + d < Len(text[u])
        BY <1>0, <1>1, <1>2, <2>2
    <2>3. CASE Len(text[u]) = Len(text[t]) + d
        BY <1>0, <1>1, <1>2, <2>3
    <2> QED BY <2>1, <2>2, <2>3
<1>6. c - b = d
    BY <1>2
<1> HIDE DEF c
<1>7. PICK f \in Ends(u), h \in Traces : f \in Nat /\ c \in Nat /\ Chunk(h, text[u], c, f)
    BY <1>0, <1>4, <1>5, NextChunk
<1>8. SameBytes(text[t], text[u], b, e, c - b)
    <2>1. \A p \in b + 1..e : p \in lo + 1..e
        BY <1>1, <1>2, <1>3
    <2> QED BY <1>6, <2>1 DEF SameBytes
<1>9. \/ e < Len(text[t]) /\ e + (c - b) < Len(text[u])
      \/ Len(text[u]) = Len(text[t]) + (c - b)
    BY <1>6
<1>10. f = e + (c - b)
    BY <1>0, <1>1, <1>2, <1>5, <1>7, <1>8, <1>9, SameEnd
<1> QED BY <1>6, <1>7, <1>10

\* Before the edit the ends agree.
LEMMA BeforeEdit ==
    ASSUME IInv, Explained, Edited, turn = 3, Fixed(1) = Fixed(2),
           NEW e \in 0..edit.at, e < Len(text[1]), e < Len(text[2])
    PROVE  e \in Ends(1) <=> e \in Ends(2)
<1> DEFINE Differ == {k \in 0..edit.at : /\ k < Len(text[1]) /\ k < Len(text[2])
                                         /\ ~(k \in Ends(1) <=> k \in Ends(2))}
<1> SUFFICES ASSUME Differ # {} PROVE FALSE
    OBVIOUS
<1>0. edit.at \in Nat /\ Len(text[1]) \in Nat /\ Len(text[2]) \in Nat
    BY DEF IInv, TypeOK
<1>1. Differ \in SUBSET Nat
    BY <1>0
<1>2. PICK k \in Differ : \A l \in Differ : k <= l
    BY <1>1, LeastElement
<1>3. /\ k \in 0..edit.at /\ k \in Nat /\ k < Len(text[1]) /\ k < Len(text[2])
      /\ ~(k \in Ends(1) <=> k \in Ends(2))
    BY <1>0, <1>2
<1>4. \A l \in 0..k - 1 : l \in Ends(1) <=> l \in Ends(2)
    <2> SUFFICES ASSUME NEW l \in 0..k - 1 PROVE l \in Ends(1) <=> l \in Ends(2)
        OBVIOUS
    <2>1. l \in 0..edit.at /\ l < Len(text[1]) /\ l < Len(text[2]) /\ ~(k <= l)
        BY <1>0, <1>3
    <2>2. l \notin Differ
        BY <1>2, <2>1
    <2> QED BY <2>1, <2>2
<1> HIDE DEF Differ
<1>5. ASSUME NEW t \in 1..2, NEW u \in 1..2, t # u, k \in Ends(t)
      PROVE  k \in Ends(u)
    <2>1. Carried(t, u, 0, k - 1, 0)
        <3>1. ASSUME NEW l \in 0..k - 1, l \in Ends(t) PROVE l + 0 \in Ends(u)
            <4>1. l + 0 = l
                OBVIOUS
            <4>2. l \in Ends(1) <=> l \in Ends(2)
                BY <1>4
            <4> QED BY <1>5, <3>1, <4>1, <4>2
        <3> QED BY <3>1 DEF Carried
    <2>2. SameBytes(text[t], text[u], 0, k, 0)
        <3>1. ASSUME NEW p \in 0 + 1..k PROVE text[t][p] = text[u][p + 0]
            <4>1. p \in 1..edit.at /\ p + 0 = p
                BY <1>0, <1>3
            <4>2. text[1][p] = text[2][p]
                BY <4>1 DEF Edited
            <4> QED BY <1>5, <4>1, <4>2
        <3> QED BY <3>1 DEF SameBytes
    <2>3. 0 < k
        <3>1. \E b \in Begins(t), g \in Traces : b \in Nat /\ b < k
            BY <1>5, PrevChunk
        <3> QED BY <1>3, <3>1
    <2>4. 0 \in Begins(t) /\ 0 + 0 \in Begins(u) /\ k + 0 = k
        BY <1>3 DEF Begins
    <2>5. k < Len(text[t]) /\ k + 0 < Len(text[u])
        BY <1>3
    <2> DEFINE none == 0
    <2>6. /\ none \in Int /\ none \in Begins(t) /\ none + none \in Begins(u) /\ none < k
          /\ Carried(t, u, none, k - 1, none) /\ SameBytes(text[t], text[u], none, k, none)
          /\ k < Len(text[t]) /\ k + none < Len(text[u])
        BY <2>1, <2>2, <2>3, <2>4, <2>5
    <2> HIDE DEF none
    <2>7. k + none \in Ends(u)
        BY <1>5, <2>6, Carry
    <2>8. k + 0 \in Ends(u)
        BY <2>7 DEF none
    <2> QED BY <2>4, <2>8
<1> QED BY <1>3, <1>5

\* Behind the edit the ends agree from where they first do.
LEMMA BehindEdit ==
    ASSUME IInv, Explained, Edited, turn = 3, Fixed(1) = Fixed(2),
           NEW d \in Int, Len(text[2]) = Len(text[1]) + d,
           NEW e \in Ends(1), e >= edit.at + edit.out, e + d \in Ends(2),
           NEW f \in e..Len(text[1])
    PROVE  f \in Ends(1) <=> f + d \in Ends(2)
<1> DEFINE Differ == {k \in e..Len(text[1]) : ~(k \in Ends(1) <=> k + d \in Ends(2))}
<1> SUFFICES ASSUME Differ # {} PROVE FALSE
    OBVIOUS
<1>0. /\ edit.at \in Nat /\ edit.out \in Nat /\ Len(text[1]) \in Nat /\ Len(text[2]) \in Nat
      /\ e \in Nat
    <2>1. edit.at \in Nat /\ edit.out \in {0, 1}
        BY DEF IInv, TypeOK
    <2>2. e \in Nat
        BY PrevChunk
    <2>3. Len(text[1]) \in Nat /\ Len(text[2]) \in Nat
        BY DEF IInv, TypeOK
    <2> QED BY <2>1, <2>2, <2>3
<1>1. Differ \in SUBSET Nat
    BY <1>0
<1>2. PICK k \in Differ : \A l \in Differ : k <= l
    BY <1>1, LeastElement
<1>3. k \in e..Len(text[1]) /\ k \in Nat /\ e < k /\ ~(k \in Ends(1) <=> k + d \in Ends(2))
    <2>1. k # e
        BY <1>2
    <2> QED BY <1>0, <1>2, <2>1
<1>4. \A l \in e..k - 1 : l \in Ends(1) <=> l + d \in Ends(2)
    <2> SUFFICES ASSUME NEW l \in e..k - 1 PROVE l \in Ends(1) <=> l + d \in Ends(2)
        OBVIOUS
    <2>1. l \in e..Len(text[1]) /\ ~(k <= l)
        BY <1>0, <1>3
    <2>2. l \notin Differ
        BY <1>2, <2>1
    <2> QED BY <2>1, <2>2
<1>5. \A p \in e + 1..Len(text[1]) : p + d \in 1..Len(text[2]) /\ text[2][p + d] = text[1][p]
    <2> SUFFICES ASSUME NEW p \in e + 1..Len(text[1])
                 PROVE  p + d \in 1..Len(text[2]) /\ text[2][p + d] = text[1][p]
        OBVIOUS
    <2>0. \A m, n \in Nat : n = m + d => p + (n - m) = p + d
        OBVIOUS
    <2>1. p \in edit.at + edit.out + 1..Len(text[1]) /\ p + (Len(text[2]) - Len(text[1])) = p + d
        BY <1>0, <2>0
    <2> QED BY <2>1 DEF Edited
<1> HIDE DEF Differ
<1>6. CASE k \in Ends(1)
    <2>1. Carried(1, 2, e, k - 1, d)
        BY <1>4 DEF Carried
    <2>2. SameBytes(text[1], text[2], e, k, d)
        <3>1. \A p \in e + 1..k : p \in e + 1..Len(text[1])
            BY <1>0, <1>3
        <3> QED BY <1>5, <3>1 DEF SameBytes
    <2>3. e \in Begins(1) /\ e + d \in Begins(2)
        BY DEF Begins
    <2>4. k + d \in Ends(2)
        BY <1>3, <1>6, <2>1, <2>2, <2>3, Carry
    <2> QED BY <1>3, <1>6, <2>4
<1>7. CASE k + d \in Ends(2)
    <2>0. k + d \in Nat
        BY <1>7, PrevChunk
    <2> DEFINE m == k + d
    <2> DEFINE lo == e + d
    <2> DEFINE back == 0 - d
    <2>1. lo + back = e /\ m + back = k /\ lo < m /\ back \in Int /\ m \in Nat
        BY <1>0, <1>3, <2>0
    <2>2. Carried(2, 1, lo, m - 1, back)
        <3>1. ASSUME NEW l \in lo..m - 1, l \in Ends(2) PROVE l + back \in Ends(1)
            <4>1. l + back \in e..k - 1 /\ (l + back) + d = l
                BY <1>0, <1>3, <2>0
            <4> QED BY <1>4, <3>1, <4>1
        <3> QED BY <3>1 DEF Carried
    <2>3. SameBytes(text[2], text[1], lo, m, back)
        <3>1. ASSUME NEW p \in lo + 1..m PROVE text[2][p] = text[1][p + back]
            <4>1. p + back \in e + 1..Len(text[1]) /\ (p + back) + d = p
                BY <1>0, <1>3, <2>0
            <4> QED BY <1>5, <4>1
        <3> QED BY <3>1 DEF SameBytes
    <2>4. lo \in Begins(2) /\ lo + back \in Begins(1)
        BY <2>1 DEF Begins
    <2>5. Len(text[1]) = Len(text[2]) + back
        <3>1. \A m1, m2 \in Nat : m2 = m1 + d => m1 = m2 + (0 - d)
            OBVIOUS
        <3> QED BY <1>0, <3>1
    <2>6. m \in Ends(2)
        BY <1>7
    <2> HIDE DEF m, lo, back
    <2>7. m + back \in Ends(1)
        BY <2>1, <2>2, <2>3, <2>4, <2>5, <2>6, Carry
    <2> QED BY <1>3, <1>7, <2>1, <2>7
<1> QED BY <1>3, <1>6, <1>7

\* The two parts make the property.
LEMMA LocalEdit == IInv /\ Explained /\ Edited => EditIsLocal
<1> SUFFICES ASSUME IInv, Explained, Edited, turn = 3, Fixed(1) = Fixed(2)
             PROVE  EditIsLocal
    BY DEF EditIsLocal
<1> DEFINE d == Len(text[2]) - Len(text[1])
<1>1. d \in Int /\ Len(text[2]) = Len(text[1]) + d
    BY DEF IInv, TypeOK
<1>2. \A e \in 0..edit.at :
          e < Len(text[1]) /\ e < Len(text[2]) => (e \in Ends(1) <=> e \in Ends(2))
    BY BeforeEdit
<1> HIDE DEF d
<1>3. ASSUME NEW e \in Ends(1), e >= edit.at + edit.out, e + d \in Ends(2),
             NEW f \in e..Len(text[1])
      PROVE  f \in Ends(1) <=> f + d \in Ends(2)
    BY <1>1, <1>3, BehindEdit
<1> QED BY <1>2, <1>3 DEF EditIsLocal, d

\* For any texts, table, masks and sizes, chunks before an edit stay, and
\* from the first end that both versions share behind it all chunks are shared.
THEOREM EditsStayLocal == Spec => []EditIsLocal
<1>1. Init => Explained /\ Edited
    BY InitExplained, InitEdited
<1>2. IInv /\ (Explained /\ Edited) /\ [Next]_vars => (Explained /\ Edited)'
    <2>1. IInv /\ Explained /\ [Next]_vars => Explained'
        BY StepExplained
    <2>2. Edited /\ [Next]_vars => Edited'
        BY DEF Edited, Next, vars, FixedCut, LastChunk, Roll, HardCut, Finish, Cut
    <2> QED BY <2>1, <2>2
<1>3. IInv /\ Explained /\ Edited => EditIsLocal
    BY LocalEdit
<1> QED BY <1>1, <1>2, <1>3, Invariance, PTL DEF Spec
=============================================================================
