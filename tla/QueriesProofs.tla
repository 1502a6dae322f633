--------------------------- MODULE QueriesProofs ---------------------------
(***************************************************************************)
(* Proofs about Entries.tla, Walks.tla and Queries.tla, for every finite   *)
(* set of ids, any numbering of them, any calls and any number of changes: *)
(* an equality filter finds what add_meta records; lineage() lists the     *)
(* ancestors, the columns of a page are longest paths and a prune lists    *)
(* what would keep no parent; and of a request whose SELECTs commits and   *)
(* prunes interleave: the type, why it may fail, that nobody is left out,  *)
(* that it answers as of one moment while nobody prunes, that nothing is   *)
(* invented, and that the walks do all this on whatever it has read.       *)
(*                                                                         *)
(* The invariant (QueriesInvariant.tla) is about the statements a request  *)
(* has still to make, as a set that is ordered by kind (Plan), and about   *)
(* what those already made have found: a lemma for each kind of statement  *)
(* says what it leaves, and one for each part of the invariant that this   *)
(* is kept.                                                                *)
(***************************************************************************)
EXTENDS QueriesInvariant, FiniteSetTheorems, FunctionTheorems, SequenceTheorems, WellFoundedInduction, TLAPS
-----------------------------------------------------------------------------
(* What add_meta records is found by find under the value it means.        *)

\* A value that says the same is the value itself or another number.
LEMMA SameMeaning ==
    ASSUME NEW c \in Call, NEW v \in Value, Accepts(c), Searchable(c), MayAsk(v)
    PROVE  Meaning(c.value) = Meaning(v) <=>
              IF v.is \in Numbers
              THEN Stored(c).is \in Numbers /\ Stored(c).of = v.of
              ELSE Stored(c) = v
<1>1. c.value \in Value /\ c.value = [is |-> c.value.is, of |-> c.value.of]
  BY DEF Call, Value
<1>2. Stored(c) = ToJsonable(c.value)
  <2>1. CASE DataTypeOf(c) \in {"image", "link"}
    BY <1>1, <2>1 DEF Searchable, Shown, Str, Value, Stored
  <2>2. CASE DataTypeOf(c) \notin {"image", "link"}
    BY <2>2 DEF Stored, Shown, Searchable
  <2> QED BY <2>1, <2>2
<1>3. ToJsonable(c.value).is \in Native
  BY <1>2 DEF Accepts
<1>4. /\ ToJsonable(c.value).is =
            CASE c.value.is = "scalar" -> "int"
              [] c.value.is \in {"array", "set"} -> "list"
              [] c.value.is = "time" -> "text"
              [] OTHER -> c.value.is
      /\ ToJsonable(c.value).of = c.value.of
      /\ ToJsonable(c.value) =
            [is |-> ToJsonable(c.value).is, of |-> ToJsonable(c.value).of]
  <2>1. CASE c.value.is \in {"scalar", "array", "set", "time"}
    BY <1>1, <2>1 DEF ToJsonable, Value
  <2>2. CASE c.value.is \notin {"scalar", "array", "set", "time"}
    BY <1>1, <2>2 DEF ToJsonable
  <2> QED BY <2>1, <2>2
<1>5. v = [is |-> v.is, of |-> v.of] /\ v.is \in Native
  BY DEF Value, MayAsk
<1>6. ToJsonable(c.value) = v <=>
          ToJsonable(c.value).is = v.is /\ ToJsonable(c.value).of = v.of
  BY <1>4, <1>5
<1> QED
  BY <1>2, <1>3, <1>4, <1>5, <1>6, SMTT(30) DEF Meaning, Native, Numbers, Texts

\* What the code leaves unsearchable is what is for display only.
LEMMA SearchableUnlessShown ==
    ASSUME NEW c \in Call, Accepts(c)
    PROVE  Searchable(c) <=> ~DisplayOnly(c)
  BY SMTT(60) DEF Call, Value, Accepts, Searchable, DisplayOnly, Stored, Shown, Str,
     ToJsonable, DataTypeOf, InferDataType, Native, Numbers, Texts, Files, Kind, DataTypes

\* Rounding is harmless up to Exact, for both of two numbers or for one.
LEMMA Rounding ==
    ASSUME NEW m \in Nat, NEW n \in Nat, Exact \in Nat
    PROVE  /\ AsDouble(m) \in Nat
           /\ n < Exact => (AsDouble(m) = AsDouble(n) <=> m = n)
  BY SMTT(30) DEF AsDouble

\* A row matches what its call tells, and nothing else but numbers that
\* share a double with it.
LEMMA RowTells ==
    ASSUME NEW c \in Call, NEW v \in Value, Accepts(c), MayAsk(v)
    PROVE  /\ Tells(c, v) => Matches(MetadataRow(c), v)
           /\ Matches(MetadataRow(c), v) /\ ~Coarse(v) => Tells(c, v)
<1> DEFINE w == Stored(c)
<1>1. CASE ~Searchable(c)
  BY <1>1, SearchableUnlessShown DEF Tells, Matches, MetadataRow
<1>2. CASE Searchable(c) /\ v.is \in Numbers
  <2>1. w.of \in Nat /\ v.of \in Nat /\ v.is # "nan"
    BY <1>2 DEF Call, Value, Stored, Shown, Str, ToJsonable, Numbers
  <2>2. Tells(c, v) <=> w.is \in Numbers /\ w.of = v.of
    BY <1>2, <2>1, SameMeaning, SearchableUnlessShown DEF Tells
  <2>3. Matches(MetadataRow(c), v) <=> Numeric(w) = AsDouble(v.of)
    BY <1>2, <2>1 DEF Matches, MetadataRow, Numeric
  <2>4. /\ AsDouble(v.of) \in Nat
        /\ v.of < Exact => (AsDouble(w.of) = AsDouble(v.of) <=> w.of = v.of)
    <3>1. \A m, n : m \in Nat /\ n \in Nat =>
                /\ AsDouble(n) \in Nat
                /\ n < Exact => (AsDouble(m) = AsDouble(n) <=> m = n)
      BY Rounding, EntriesAssumption
    <3> HIDE DEF w
    <3> QED BY ONLY <3>1, <2>1, ZenonT(30)
  <2>5. CASE w.is \in Numbers
    BY <1>2, <2>1, <2>2, <2>3, <2>4, <2>5, EntriesAssumption DEF Coarse, Numeric
  <2>6. CASE w.is \notin Numbers
    BY <2>2, <2>3, <2>4, <2>6 DEF Numeric, Nothing
  <2> QED BY <2>5, <2>6
<1>3. CASE Searchable(c) /\ v.is \notin Numbers
  BY <1>3, SameMeaning, SearchableUnlessShown DEF Tells, Matches, MetadataRow
<1> QED BY <1>1, <1>2, <1>3

\* find matches a node on a value exactly if the last call that was accepted
\* for the key recorded that value for search, be it a numpy number, an array
\* or a date at the time; a number must be below Exact for that.
THEOREM FoundByValue ==
    ASSUME NEW calls \in Seq(Call), NEW key \in STRING, NEW v \in Value,
           MayAsk(v), ~Coarse(v)
    PROVE  Matching(calls, key, v) <=> Told(calls, key, v)
<1>1. \A i \in DOMAIN calls : Accepts(calls[i]) =>
          (Matches(MetadataRow(calls[i]), v) <=> Tells(calls[i], v))
  BY RowTells
<1>2. \A j \in 1..Len(calls) : j \in DOMAIN calls
  OBVIOUS
<1> QED BY <1>1, <1>2 DEF Matching, Rows, Told

\* No rounding makes find miss a node that it is to match.
THEOREM ToldIsFound ==
    ASSUME NEW calls \in Seq(Call), NEW key \in STRING, NEW v \in Value, MayAsk(v)
    PROVE  Told(calls, key, v) => Matching(calls, key, v)
<1>1. \A i \in DOMAIN calls : Accepts(calls[i]) =>
          (Tells(calls[i], v) => Matches(MetadataRow(calls[i]), v))
  BY RowTells
<1> QED BY <1>1 DEF Matching, Rows, Told
-----------------------------------------------------------------------------
(* Loops. A walk is a function of the number of its turns.                 *)

\* A set of numbers that is not empty has a least one. (Induction, for a set.)
LEMMA LeastElement ==
    ASSUME NEW S \in SUBSET Nat, S # {}
    PROVE  \E m \in S : \A k \in S : m <= k
<1> DEFINE R == {p \in Nat \X Nat : p[1] < p[2]}
<1>1. IsWellFoundedOn(R, Nat)
  BY NatLessThanWellFounded DEF OpToRel
<1> HIDE DEF R
<1>2. PICK m \in S : \A k \in S : <<k, m>> \notin R
  BY <1>1, WFMin
<1>3. ASSUME NEW k \in S, k < m PROVE FALSE
  BY <1>2, <1>3 DEF R
<1> QED BY <1>3

\* Induction up to m.
LEMMA Inductively ==
    ASSUME NEW m \in Nat, NEW P, 0 \in P, \A k \in 0..m : k \in P /\ k < m => k + 1 \in P
    PROVE  \A k \in 0..m : k \in P
<1> DEFINE W == {k \in 0..m : k \notin P}
<1> SUFFICES ASSUME W # {} PROVE FALSE
  OBVIOUS
<1>1. W \in SUBSET Nat
  OBVIOUS
<1>2. PICK k \in W : \A l \in W : k <= l
  BY <1>1, LeastElement
<1>3. k \in 0..m /\ k # 0 /\ k \notin P
  BY <1>2
<1>4. k - 1 \in 0..m /\ k - 1 < m /\ (k - 1) + 1 = k /\ ~(k <= k - 1)
  BY <1>3
<1>5. k - 1 \notin W
  BY <1>2, <1>4
<1> QED BY <1>3, <1>4, <1>5

\* f runs a loop for m turns, from init, the k-th turn doing next[k].
Runs(f, m, init, next) ==
    f = [k \in 0..m |-> IF k = 0 THEN init ELSE next[k][f[k - 1]]]

\* There is such a function, and its values are states of the loop.
LEMMA LoopRuns ==
    ASSUME NEW T, NEW init \in T, NEW m \in Nat, NEW next \in [1..m -> [T -> T]]
    PROVE  \E f \in [0..m -> T] : Runs(f, m, init, next)
<1> DEFINE P == {n \in 0..m : \E f \in [0..n -> T] : Runs(f, n, init, next)}
<1>1. 0 \in P
  <2> DEFINE f == [k \in 0..0 |-> init]
  <2>1. f \in [0..0 -> T]
    OBVIOUS
  <2>2. Runs(f, 0, init, next)
    BY DEF Runs
  <2> QED BY <2>1, <2>2
<1>2. ASSUME NEW n \in 0..m, n \in P, n < m PROVE n + 1 \in P
  <2>1. PICK f \in [0..n -> T] : Runs(f, n, init, next)
    BY <1>2
  <2> DEFINE g == [k \in 0..n + 1 |-> IF k = n + 1 THEN next[n + 1][f[n]] ELSE f[k]]
  <2>2. next[n + 1][f[n]] \in T
    BY <1>2, <2>1
  <2>3. g \in [0..n + 1 -> T]
    BY <2>1, <2>2
  <2>4. ASSUME NEW k \in 0..n + 1
        PROVE  g[k] = IF k = 0 THEN init ELSE next[k][g[k - 1]]
    <3>1. CASE k = n + 1
      BY <3>1
    <3>2. CASE k # n + 1 /\ k # 0
      <4>1. k \in 0..n /\ k - 1 \in 0..n + 1 /\ k - 1 # n + 1
        BY <3>2
      <4>2. f[k] = next[k][f[k - 1]]
        BY <2>1, <3>2, <4>1 DEF Runs
      <4> QED BY <3>2, <4>1, <4>2
    <3>3. CASE k = 0
      BY <2>1, <3>3 DEF Runs
    <3> QED BY <3>1, <3>2, <3>3
  <2>5. Runs(g, n + 1, init, next)
    BY <2>4 DEF Runs
  <2> HIDE DEF g
  <2> QED BY <1>2, <2>3, <2>5
<1> HIDE DEF P
<1>3. \A k \in 0..m : k \in P
  BY <1>1, <1>2, Inductively
<1>4. m \in P
  BY <1>3
<1> QED BY <1>4 DEF P

-----------------------------------------------------------------------------
(* Sequences.                                                              *)

\* SetToSeq lists a finite set, each element once.
LEMMA ListOfSet ==
    ASSUME NEW S, IsFiniteSet(S)
    PROVE  LET s == SetToSeq(S) IN
           /\ s \in Seq(S) /\ Len(s) = Cardinality(S) /\ Len(s) \in Nat
           /\ \A x \in S : \E i \in 1..Len(s) : s[i] = x
           /\ \A i, j \in 1..Len(s) : s[i] = s[j] => i = j
<1> DEFINE n == Cardinality(S)
<1>1. n \in Nat /\ ExistsBijection(1..n, S)
  BY FS_CardinalityType
<1>2. PICK g \in Bijection(1..n, S) : TRUE
  BY <1>1, Fun_ExistsBij
<1>3. g \in [1..n -> S] /\ \A a, b \in 1..n : g[a] = g[b] => a = b
  BY <1>2, Fun_BijectionProperties
<1>4. IsInjective(g)
  BY <1>3 DEF IsInjective
<1> DEFINE s == SetToSeq(S)
<1>5. s \in [1..n -> S] /\ IsInjective(s)
  BY <1>3, <1>4 DEF SetToSeq
<1> HIDE DEF s, n
<1>6. \A a, b \in 1..n : s[a] = s[b] => a = b
  BY <1>5 DEF IsInjective
<1>7. s \in Injection(1..n, S)
  BY <1>5, <1>6, Fun_IsInj
<1>8. Cardinality(1..n) = n
  BY <1>1, FS_Interval
<1>9. s \in Surjection(1..n, S)
  BY <1>7, <1>8, FS_Injection DEF n
<1>10. \A x \in S : \E i \in 1..n : s[i] = x
  BY <1>9 DEF Surjection
<1>11. s \in Seq(S) /\ Len(s) = n
  BY <1>1, <1>5, SeqDef
<1> QED BY <1>1, <1>6, <1>10, <1>11 DEF s, n

\* All but the last, and the last.
LEMMA FrontAndLast ==
    ASSUME NEW S, NEW s \in Seq(S), s # <<>>
    PROVE  /\ Len(s) \in Nat /\ Len(s) >= 1 /\ Last(s) = s[Len(s)] /\ Last(s) \in S
           /\ Front(s) \in Seq(S) /\ Len(Front(s)) = Len(s) - 1
           /\ \A i \in 1..Len(s) - 1 : Front(s)[i] = s[i]
<1>1. Len(s) \in Nat /\ Len(s) >= 1
  BY EmptySeq
<1>2. PICK m \in Nat : m = Len(s) - 1
  BY <1>1
<1>3. \A i \in 1..m : s[i] \in S
  BY <1>1, <1>2
<1>4. Last(s) = s[Len(s)] /\ Last(s) \in S
  BY <1>1 DEF Last
<1> DEFINE t == SubSeq(s, 1, m)
<1>5. /\ t \in Seq(S) /\ Len(t) = IF 1 <= m THEN m - 1 + 1 ELSE 0
      /\ \A i \in 1..m - 1 + 1 : t[i] = s[1 + i - 1]
  BY <1>3, SubSeqProperties
<1>6. Front(s) = t
  BY <1>2 DEF Front
<1> HIDE DEF t
<1>7. Len(t) = m
  BY <1>5
<1>8. \A i \in 1..m : t[i] = s[i]
  BY <1>5
<1> QED BY <1>1, <1>2, <1>4, <1>5, <1>6, <1>7, <1>8

\* Two sequences with an element in between.
LEMMA Joined ==
    ASSUME NEW S, NEW a \in Seq(S), NEW x \in S, NEW b \in Seq(S)
    PROVE  LET t == a \o <<x>> \o b IN
           /\ t \in Seq(S) /\ Len(t) = Len(a) + 1 + Len(b)
           /\ \A i \in 1..Len(a) : t[i] = a[i]
           /\ t[Len(a) + 1] = x
           /\ \A i \in 1..Len(b) : t[Len(a) + 1 + i] = b[i]
<1> DEFINE mark == <<x>>
<1>1. mark \in Seq(S) /\ Len(mark) = 1 /\ mark[1] = x
  OBVIOUS
<1> HIDE DEF mark
<1>2. PICK m \in Nat : m = Len(a)
  BY LenProperties
<1>3. PICK n \in Nat : n = Len(b)
  BY LenProperties
<1> DEFINE base == a \o mark
<1>4. /\ base \in Seq(S) /\ Len(base) = m + 1
      /\ \A i \in 1..m + 1 : base[i] = IF i <= m THEN a[i] ELSE mark[i - m]
  <2>1. /\ base \in Seq(S) /\ Len(base) = Len(a) + Len(mark)
        /\ \A i \in 1..Len(a) + Len(mark) :
              base[i] = IF i <= Len(a) THEN a[i] ELSE mark[i - Len(a)]
    BY <1>1, ConcatProperties
  <2> HIDE DEF base
  <2> QED BY <1>1, <1>2, <2>1
<1> HIDE DEF base
<1> DEFINE t == base \o b
<1>5. /\ t \in Seq(S) /\ Len(t) = (m + 1) + n
      /\ \A i \in 1..(m + 1) + n : t[i] = IF i <= m + 1 THEN base[i] ELSE b[i - (m + 1)]
  <2>1. /\ t \in Seq(S) /\ Len(t) = Len(base) + Len(b)
        /\ \A i \in 1..Len(base) + Len(b) :
              t[i] = IF i <= Len(base) THEN base[i] ELSE b[i - Len(base)]
    BY <1>4, ConcatProperties
  <2> HIDE DEF t
  <2> QED BY <1>3, <1>4, <2>1
<1>6. t = a \o <<x>> \o b
  BY DEF base, mark
<1> HIDE DEF t
<1>7. ASSUME NEW i \in 1..m PROVE t[i] = a[i]
  BY <1>4, <1>5
<1>8. t[m + 1] = x
  BY <1>1, <1>4, <1>5
<1>9. ASSUME NEW i \in 1..n PROVE t[m + 1 + i] = b[i]
  BY <1>5
<1> QED BY <1>2, <1>3, <1>5, <1>6, <1>7, <1>8, <1>9

LEMMA GreatestElement ==
    ASSUME NEW S, IsFiniteSet(S), S \subseteq Nat, S # {}
    PROVE  \E m \in S : \A k \in S : k <= m
<1> DEFINE n == Cardinality(S)
<1>1. n \in Nat /\ ExistsBijection(1..n, S)
  BY FS_CardinalityType
<1>2. PICK f \in Bijection(1..n, S) : TRUE
  BY <1>1 DEF ExistsBijection
<1>3. (\A i \in 1..n : f[i] \in S) /\ \A x \in S : \E i \in 1..n : f[i] = x
  BY <1>2 DEF Bijection, Injection, Surjection
<1> HIDE DEF n
<1> DEFINE P == {k \in 0..n : k = 0 \/ \E m \in 1..k : \A j \in 1..k : f[j] <= f[m]}
<1>4. ASSUME NEW k \in 0..n, k \in P, k < n PROVE k + 1 \in P
  <2>1. k + 1 \in 1..n /\ k + 1 \in 0..n /\ k \in Nat
    BY <1>1, <1>4
  <2>2. \A j \in 1..k + 1 : j \in 1..n /\ f[j] \in Nat /\ (j \in 1..k \/ j = k + 1)
    <3> TAKE j \in 1..k + 1
    <3>1. j \in 1..n /\ (j \in 1..k \/ j = k + 1)
      BY <1>1, <1>4, <2>1
    <3>2. f[j] \in S
      BY <1>3, <3>1
    <3> QED BY <3>1, <3>2
  <2>3. \E m \in 1..k + 1 : \A j \in 1..k + 1 : f[j] <= f[m]
    <3>1. CASE k = 0
      BY <2>2, <3>1
    <3>2. CASE k # 0
      <4>1. PICK m \in 1..k : \A j \in 1..k : f[j] <= f[m]
        BY <1>4, <3>2
      <4>2. m \in 1..k + 1 /\ k + 1 \in 1..k + 1
        BY <2>1
      <4>3. CASE f[k + 1] <= f[m]
        BY <2>2, <4>1, <4>2, <4>3
      <4>4. CASE ~(f[k + 1] <= f[m])
        <5>1. \A j \in 1..k + 1 : f[j] <= f[k + 1]
          <6> TAKE j \in 1..k + 1
          <6>1. f[j] \in Nat /\ f[m] \in Nat /\ f[k + 1] \in Nat
            BY <2>2, <4>2
          <6>2. CASE j \in 1..k
            BY <4>1, <4>4, <6>1, <6>2
          <6>3. CASE j = k + 1
            BY <6>1, <6>3
          <6> QED BY <2>2, <6>2, <6>3
        <5> QED BY <4>2, <5>1
      <4> QED BY <4>3, <4>4
    <3> QED BY <3>1, <3>2
  <2> QED BY <2>1, <2>3
<1>5. n \in P
  <2>1. 0 \in P
    BY <1>1
  <2> HIDE DEF P
  <2>2. \A k \in 0..n : k \in P
    BY <1>1, <1>4, <2>1, Inductively
  <2> QED BY <1>1, <2>2
<1>6. n # 0
  <2>1. PICK x \in S : TRUE
    OBVIOUS
  <2>2. PICK i \in 1..n : f[i] = x
    BY <1>3
  <2> QED BY <1>1, <2>2
<1>7. PICK m \in 1..n : \A j \in 1..n : f[j] <= f[m]
  BY <1>5, <1>6
<1> QED BY <1>3, <1>7
-----------------------------------------------------------------------------
(* lineage() walks the graph.                                              *)

\* The parents of a node are no more than there are edges.
LEMMA FewParents ==
    ASSUME NEW N, NEW E, IsGraph(N, E), NEW n
    PROVE  /\ Above(E, n) \subseteq N /\ IsFiniteSet(Above(E, n))
           /\ \A p \in Above(E, n) : n \in N /\ p < n
           /\ LET F == {e \in E : e[1] = n} IN
              /\ IsFiniteSet(F) /\ Cardinality(F) \in Nat
              /\ Cardinality(Above(E, n)) \in Nat /\ Cardinality(Above(E, n)) <= Cardinality(F)
<1> DEFINE F == {e \in E : e[1] = n}
<1>1. /\ Above(E, n) = {e[2] : e \in F} /\ Above(E, n) \subseteq N
      /\ \A p \in Above(E, n) : n \in N /\ p < n
  BY DEF Above, IsGraph
<1>2. IsFiniteSet(F) /\ Cardinality(F) \in Nat
  <2>1. F \in SUBSET E /\ IsFiniteSet(E)
    BY DEF IsGraph
  <2> HIDE DEF F
  <2>2. IsFiniteSet(F)
    BY <2>1, FS_Subset
  <2> QED BY <2>2, FS_CardinalityType
<1> DEFINE f == [e \in F |-> e[2]]
<1>3. f \in Surjection(F, Above(E, n))
  BY <1>1 DEF Surjection
<1> HIDE DEF f, F
<1>4. IsFiniteSet(Above(E, n)) /\ Cardinality(Above(E, n)) <= Cardinality(F)
  BY <1>2, <1>3, FS_Surjection
<1>5. Cardinality(Above(E, n)) \in Nat
  BY <1>4, FS_CardinalityType
<1> QED BY <1>1, <1>2, <1>4, <1>5 DEF F

\* A turn of the loop does one of four things.
LEMMA TurnCases ==
    ASSUME NEW N, NEW E, IsGraph(N, E), NEW w \in WalkType(N), w.stack # <<>>
    PROVE  LET v == LineageTurn(E, w)
               n == w.stack[Len(w.stack)].node
           IN  /\ v \in WalkType(N) /\ n \in N
               /\ Drop(w, v, n) \/ Emit(w, v, n) \/ Cyclic(w, v, n) \/ Expand(E, w, v, n)
<1> DEFINE Item == [node : N, expanded : BOOLEAN]
<1> DEFINE s == w.stack
<1> DEFINE top == Last(s)
<1> DEFINE n == top.node
<1> DEFINE rest == Front(s)
<1> DEFINE new == Above(E, n) \ w.done
<1> DEFINE parents == SetToSeq(new)
<1> DEFINE pushed == [i \in 1..Len(parents) |-> [node |-> parents[i], expanded |-> FALSE]]
<1> DEFINE v == LineageTurn(E, w)
<1>1. /\ s \in Seq(Item) /\ w.open \in SUBSET N /\ w.done \in SUBSET N
      /\ w.order \in Seq(N) /\ w.cyclic \in BOOLEAN
      /\ w = [stack |-> w.stack, open |-> w.open, done |-> w.done, order |-> w.order,
              cyclic |-> w.cyclic]
  BY DEF WalkType
<1>2. /\ Len(s) \in Nat /\ Len(s) >= 1 /\ top = s[Len(s)] /\ top \in Item
      /\ rest \in Seq(Item) /\ Len(rest) = Len(s) - 1
      /\ \A i \in 1..Len(s) - 1 : rest[i] = s[i]
  <2> HIDE DEF Item
  <2> QED BY <1>1, FrontAndLast
<1>3. n \in N /\ top.expanded \in BOOLEAN /\ top = [node |-> n, expanded |-> top.expanded]
  BY <1>2
<1>4. Popped(s, rest)
  BY <1>2 DEF Popped
<1>5. CASE n \in w.done
  <2>1. v = [w EXCEPT !.stack = rest]
    BY <1>5 DEF LineageTurn
  <2>2. v \in WalkType(N)
    BY <1>1, <1>2, <2>1 DEF WalkType
  <2>3. Drop(w, v, n)
    BY <1>1, <1>4, <1>5, <2>1 DEF Drop
  <2> QED BY <1>2, <1>3, <2>2, <2>3
<1>6. CASE n \notin w.done /\ top.expanded
  <2>1. v = [w EXCEPT !.stack = rest, !.open = @ \ {n},
                      !.done = @ \union {n}, !.order = Append(@, n)]
    BY <1>6 DEF LineageTurn
  <2>2. Append(w.order, n) \in Seq(N)
    BY <1>1, <1>3
  <2>3. v \in WalkType(N)
    <3> HIDE DEF v, rest, n, top
    <3> QED BY <1>1, <1>2, <1>3, <2>1, <2>2 DEF WalkType
  <2>4. Emit(w, v, n)
    BY <1>1, <1>2, <1>4, <1>6, <2>1 DEF Emit
  <2> QED BY <1>2, <1>3, <2>3, <2>4
<1>7. CASE n \in w.open \ w.done /\ ~top.expanded
  <2>1. v = [w EXCEPT !.stack = <<>>, !.cyclic = TRUE]
    BY <1>7 DEF LineageTurn
  <2>2. v \in WalkType(N)
    <3>1. <<>> \in Seq(Item)
      OBVIOUS
    <3> QED BY <1>1, <2>1, <3>1 DEF WalkType
  <2>3. Cyclic(w, v, n)
    BY <1>2, <1>7, <2>1 DEF Cyclic
  <2> QED BY <1>2, <1>3, <2>2, <2>3
<1>8. CASE n \notin w.done /\ ~top.expanded /\ n \notin w.open
  <2> DEFINE mark == [node |-> n, expanded |-> TRUE]
  <2> DEFINE t == rest \o <<mark>> \o pushed
  <2>1. v = [w EXCEPT !.open = @ \union {n}, !.stack = t]
    BY <1>8 DEF LineageTurn
  <2>2. /\ parents \in Seq(new) /\ Len(parents) = Cardinality(new) /\ Len(parents) \in Nat
        /\ \A x \in new : \E i \in 1..Len(parents) : parents[i] = x
    <3>1. IsFiniteSet(new)
      <4>1. IsFiniteSet(Above(E, n)) /\ new \in SUBSET Above(E, n)
        BY FewParents
      <4> QED BY <4>1, FS_Subset
    <3> HIDE DEF new
    <3> QED BY <3>1, ListOfSet
  <2>3. new \subseteq N
    <3>1. Above(E, n) \subseteq N
      BY FewParents
    <3> QED BY <3>1
  <2>4. /\ pushed \in Seq(Item) /\ Len(pushed) = Len(parents)
        /\ \A i \in 1..Len(parents) : pushed[i] = [node |-> parents[i], expanded |-> FALSE]
    <3>1. \A i \in 1..Len(parents) : parents[i] \in new
      BY <2>2
    <3>2. \A i \in 1..Len(parents) : [node |-> parents[i], expanded |-> FALSE] \in Item
      BY <2>3, <3>1
    <3> HIDE DEF parents, Item, new
    <3> QED BY <2>2, <3>2
  <2>5. mark \in Item
    BY <1>3
  <2> HIDE DEF Item, pushed, rest, n, parents, new, s, v, mark
  <2>6. PICK m \in Nat : m = Len(s) - 1 /\ Len(s) = m + 1
    BY <1>2
  <2>7. /\ t \in Seq(Item) /\ Len(t) = m + 1 + Len(parents)
        /\ \A i \in 1..m : t[i] = rest[i]
        /\ t[m + 1] = mark
        /\ \A i \in 1..Len(parents) : t[m + 1 + i] = pushed[i]
    <3>1. /\ t \in Seq(Item) /\ Len(t) = Len(rest) + 1 + Len(pushed)
          /\ \A i \in 1..Len(rest) : t[i] = rest[i]
          /\ t[Len(rest) + 1] = mark
          /\ \A i \in 1..Len(pushed) : t[Len(rest) + 1 + i] = pushed[i]
      <4>1. rest \in Seq(Item) /\ pushed \in Seq(Item)
        BY <1>2, <2>4
      <4> QED BY <2>5, <4>1, Joined
    <3> HIDE DEF t
    <3> QED BY <1>2, <2>4, <2>6, <3>1
  <2> HIDE DEF t
  <2>9. Pushed(s, t, new)
    <3>1. \A i \in 1..Len(s) - 1 : t[i] = s[i]
      BY <1>2, <2>6, <2>7
    <3>2. t[Len(s)] = [node |-> s[Len(s)].node, expanded |-> TRUE]
      BY <1>2, <2>6, <2>7 DEF n, mark
    <3>3. ASSUME NEW i \in 1..Len(parents)
          PROVE  t[Len(s) + i] = [node |-> parents[i], expanded |-> FALSE]
      BY <2>4, <2>6, <2>7
    <3>4. ASSUME NEW i \in Len(s) + 1..Len(t) PROVE t[i].node \in new /\ ~t[i].expanded
      <4>1. PICK j \in 1..Len(parents) : i = Len(s) + j
        <5>1. i - Len(s) \in 1..Len(parents) /\ i = Len(s) + (i - Len(s))
          BY <2>2, <2>6, <2>7
        <5> QED BY <5>1
      <4>2. t[i] = [node |-> parents[j], expanded |-> FALSE]
        BY <3>3, <4>1
      <4>3. parents[j] \in new
        BY <2>2
      <4> QED BY <4>2, <4>3
    <3>5. ASSUME NEW p \in new PROVE \E i \in Len(s) + 1..Len(t) : t[i].node = p
      <4>1. PICK j \in 1..Len(parents) : parents[j] = p
        BY <2>2
      <4>2. Len(s) + j \in Len(s) + 1..Len(t)
        BY <2>2, <2>6, <2>7
      <4>3. t[Len(s) + j] = [node |-> p, expanded |-> FALSE]
        BY <3>3, <4>1
      <4> QED BY <4>2, <4>3
    <3>6. Len(t) = Len(s) + Cardinality(new)
      BY <2>2, <2>6, <2>7
    <3> QED BY <3>1, <3>2, <3>4, <3>5, <3>6 DEF Pushed
  <2>10. v \in WalkType(N)
    BY <1>1, <1>3, <2>1, <2>7 DEF WalkType, Item
  <2>11. Expand(E, w, v, n)
    <3>1. v.open = w.open \union {n} /\ v.stack = t
      BY <1>1, <2>1
    <3>2. v.done = w.done /\ v.order = w.order /\ v.cyclic = w.cyclic
      BY <1>1, <2>1
    <3>3. n \notin w.open \union w.done /\ ~s[Len(s)].expanded
      BY <1>2, <1>8
    <3> QED BY <2>9, <3>1, <3>2, <3>3 DEF Expand, new, s
  <2> QED BY <1>2, <1>3, <2>10, <2>11 DEF n, s, v
<1> QED BY <1>3, <1>5, <1>6, <1>7, <1>8

\* In a graph in the order of time there is no cycle to be found.
LEMMA NoCycle ==
    ASSUME NEW N, NEW E, IsGraph(N, E), NEW start, NEW w \in WalkType(N), w.stack # <<>>,
           Walking(E, w, start), NEW v, Cyclic(w, v, w.stack[Len(w.stack)].node)
    PROVE  FALSE
<1> DEFINE s == w.stack
<1> DEFINE n == s[Len(s)].node
<1>1. s \in Seq([node : N, expanded : BOOLEAN]) /\ Len(s) \in Nat /\ Len(s) >= 1
  BY EmptySeq DEF WalkType
<1>2. n \in w.open \ w.done /\ ~s[Len(s)].expanded
  BY DEF Cyclic
<1>3. PICK i \in 1..Len(s) : s[i].expanded /\ s[i].node = n
  BY <1>2 DEF Walking, Marked
<1>4. Len(s) \in 1..Len(s) /\ i < Len(s)
  BY <1>1, <1>2, <1>3
<1>5. n < n
  BY <1>3, <1>4 DEF Walking, Nested
<1>6. n \in Nat
  <2> DEFINE Item == [node : N, expanded : BOOLEAN]
  <2>1. s[Len(s)] \in Item
    <3> HIDE DEF s, Item
    <3> QED BY <1>1, <1>4, ElementOfSeq DEF Item
  <2> QED BY <2>1 DEF IsGraph
<1> QED BY <1>5, <1>6

\* The top of the stack is dropped because it is listed.
LEMMA DropKeeps ==
    ASSUME NEW N, NEW E, IsGraph(N, E), NEW start, NEW w \in WalkType(N), w.stack # <<>>,
           Walking(E, w, start), NEW v \in WalkType(N), Drop(w, v, w.stack[Len(w.stack)].node)
    PROVE  Walking(E, v, start)
<1> DEFINE s == w.stack
<1> DEFINE t == v.stack
<1>1. Len(s) \in Nat /\ Len(s) >= 1
  BY EmptySeq DEF WalkType
<1>2. /\ s[Len(s)].node \in w.done
      /\ Len(t) = Len(s) - 1 /\ \A i \in 1..Len(s) - 1 : t[i] = s[i]
      /\ v.open = w.open /\ v.done = w.done /\ v.order = w.order /\ v.cyclic = w.cyclic
  BY DEF Drop, Popped
<1> HIDE DEF s, t
<1>3. \A i \in 1..Len(s) : i = Len(s) \/ i \in 1..Len(t)
  BY <1>1, <1>2
<1>4. \A i \in 1..Len(t) : i \in 1..Len(s) /\ t[i] = s[i]
  BY <1>1, <1>2
<1>w. /\ Nested(s) /\ Waiting(E, s, w.done) /\ Marked(s, w.open, w.done)
      /\ Begun(s, w.done, start) /\ Inside(E, s, w.done, start)
  BY DEF Walking, s
<1>5. Nested(t)
  BY <1>w, <1>4 DEF Nested
<1>6. Waiting(E, t, w.done)
  <2> SUFFICES ASSUME NEW i \in 1..Len(t), t[i].expanded, NEW p \in Above(E, t[i].node), p \notin w.done
               PROVE  \E j \in i + 1..Len(t) : t[j].node = p
    BY DEF Waiting
  <2>1. i \in 1..Len(s) /\ s[i].expanded /\ p \in Above(E, s[i].node)
    BY <1>4
  <2>2. PICK j \in i + 1..Len(s) : s[j].node = p
    BY <1>w, <2>1 DEF Waiting
  <2>3. j # Len(s)
    BY <1>2, <2>2
  <2>4. j \in i + 1..Len(t) /\ j \in 1..Len(t)
    <3>1. Len(t) = Len(s) - 1
      BY <1>2
    <3> QED BY <1>1, <2>3, <3>1
  <2> QED BY <1>4, <2>2, <2>4
<1>7. Marked(t, w.open, w.done)
  BY <1>w, <1>2, <1>3, <1>4 DEF Marked
<1>8. Begun(t, w.done, start)
  BY <1>w, <1>2, <1>3, <1>4 DEF Begun
<1>9. Inside(E, t, w.done, start)
  BY <1>w, <1>4 DEF Inside
<1> QED BY <1>2, <1>5, <1>6, <1>7, <1>8, <1>9 DEF Walking, t

\* The top of the stack is listed: its parents are.
LEMMA EmitKeeps ==
    ASSUME NEW N, NEW E, IsGraph(N, E), NEW start, NEW w \in WalkType(N), w.stack # <<>>,
           Walking(E, w, start), NEW v \in WalkType(N), Emit(w, v, w.stack[Len(w.stack)].node)
    PROVE  Walking(E, v, start)
<1> DEFINE s == w.stack
<1> DEFINE t == v.stack
<1> DEFINE n == s[Len(s)].node
<1>1. Len(s) \in Nat /\ Len(s) >= 1
  BY EmptySeq DEF WalkType
<1>2. /\ n \notin w.done /\ s[Len(s)].expanded
      /\ Len(t) = Len(s) - 1 /\ \A i \in 1..Len(s) - 1 : t[i] = s[i]
      /\ v.open = w.open \ {n} /\ v.done = w.done \union {n}
      /\ v.order = Append(w.order, n) /\ v.cyclic = w.cyclic
  BY DEF Emit, Popped
<1>n. n = s[Len(s)].node
  OBVIOUS
<1> HIDE DEF s, t, n
<1>3. \A i \in 1..Len(s) : i = Len(s) \/ i \in 1..Len(t)
  BY <1>1, <1>2
<1>4. \A i \in 1..Len(t) : i \in 1..Len(s) /\ t[i] = s[i]
  BY <1>1, <1>2
<1>w. /\ Nested(s) /\ Waiting(E, s, w.done) /\ Marked(s, w.open, w.done)
      /\ Begun(s, w.done, start) /\ Inside(E, s, w.done, start)
      /\ ClosedUp(E, w.done) /\ Listing(E, w.order, w.done) /\ ~w.cyclic
  BY DEF Walking, s
<1>5. Nested(t)
  BY <1>w, <1>4 DEF Nested
<1>6. Waiting(E, t, v.done)
  <2> SUFFICES ASSUME NEW i \in 1..Len(t), t[i].expanded, NEW p \in Above(E, t[i].node), p \notin v.done
               PROVE  \E j \in i + 1..Len(t) : t[j].node = p
    BY DEF Waiting
  <2>1. i \in 1..Len(s) /\ s[i].expanded /\ p \in Above(E, s[i].node) /\ p \notin w.done
    BY <1>2, <1>4
  <2>2. PICK j \in i + 1..Len(s) : s[j].node = p
    BY <1>w, <2>1 DEF Waiting
  <2>3. j # Len(s)
    BY <1>2, <1>n, <2>2
  <2>4. j \in i + 1..Len(t) /\ j \in 1..Len(t)
    <3>1. Len(t) = Len(s) - 1
      BY <1>2
    <3> QED BY <1>1, <2>3, <3>1
  <2> QED BY <1>4, <2>2, <2>4
<1>7. Marked(t, v.open, v.done)
  <2>1. ASSUME NEW m \in v.open, m \notin v.done
        PROVE  \E i \in 1..Len(t) : t[i].expanded /\ t[i].node = m
    <3>1. m \in w.open /\ m \notin w.done /\ m # n
      BY <1>2, <2>1
    <3>2. PICK i \in 1..Len(s) : s[i].expanded /\ s[i].node = m
      BY <1>w, <3>1 DEF Marked
    <3>3. i # Len(s)
      BY <1>n, <3>1, <3>2
    <3> QED BY <1>3, <1>4, <3>2, <3>3
  <2> QED BY <2>1 DEF Marked
<1>8. Begun(t, v.done, start)
  BY <1>w, <1>n, <1>2, <1>3, <1>4 DEF Begun
<1>9. Inside(E, t, v.done, start)
  <2>1. Len(s) \in 1..Len(s)
    BY <1>1
  <2> SUFFICES ASSUME NEW T, start \in T, ClosedUp(E, T)
               PROVE  v.done \subseteq T /\ \A i \in 1..Len(t) : t[i].node \in T
    BY DEF Inside
  <2>2. w.done \subseteq T /\ \A i \in 1..Len(s) : s[i].node \in T
    BY <1>w DEF Inside
  <2>3. n \in T
    BY <1>n, <2>1, <2>2
  <2> QED BY <1>2, <1>4, <2>2, <2>3
<1>10. Above(E, n) \subseteq w.done
  BY <1>1, <1>2, <1>n, <1>w DEF Waiting
<1>11. ClosedUp(E, v.done)
  BY <1>w, <1>2, <1>10 DEF ClosedUp
<1>12. Listing(E, v.order, v.done)
  <2> DEFINE o == w.order
  <2>0. o \in Seq(N) /\ Len(o) \in Nat /\ v.order \in Seq(N)
    BY LenProperties DEF WalkType
  <2>1. /\ Len(v.order) = Len(o) + 1 /\ v.order[Len(o) + 1] = n
        /\ \A i \in 1..Len(o) : v.order[i] = o[i]
    <3> HIDE DEF o
    <3>1. v.order = Append(o, n)
      BY <1>2 DEF o
    <3> QED BY <2>0, <3>1
  <2> DEFINE u == v.order
  <2> HIDE DEF o, u
  <2>2. \A i \in 1..Len(u) : i = Len(o) + 1 \/ i \in 1..Len(o)
    BY <2>0, <2>1 DEF u
  <2>3. Len(o) + 1 \in 1..Len(u) /\ \A i \in 1..Len(o) : i \in 1..Len(u) /\ u[i] = o[i]
    BY <2>0, <2>1 DEF u
  <2>4. u[Len(o) + 1] = n
    BY <2>1 DEF u
  <2>l. Listing(E, o, w.done)
    BY <1>w DEF o
  <2>5. \A i \in 1..Len(u) : u[i] \in v.done
    BY <1>2, <2>2, <2>3, <2>4, <2>l DEF Listing
  <2>6. \A m \in v.done : \E i \in 1..Len(u) : u[i] = m
    <3> SUFFICES ASSUME NEW m \in v.done PROVE \E i \in 1..Len(u) : u[i] = m
      OBVIOUS
    <3>1. CASE m = n
      BY <2>3, <2>4, <3>1
    <3>2. CASE m \in w.done
      <4>1. PICK i \in 1..Len(o) : o[i] = m
        BY <2>l, <3>2 DEF Listing
      <4> QED BY <2>3, <4>1
    <3> QED BY <1>2, <3>1, <3>2
  <2>7. \A i \in 1..Len(o) : o[i] # n
    BY <1>2, <2>l DEF Listing
  <2>8. \A i, j \in 1..Len(u) : u[i] = u[j] => i = j
    BY <2>2, <2>3, <2>4, <2>7, <2>l DEF Listing
  <2>9. ASSUME NEW j \in 1..Len(u), NEW p \in Above(E, u[j])
        PROVE  \E i \in 1..j - 1 : u[i] = p
    <3>1. CASE j \in 1..Len(o)
      <4>1. PICK i \in 1..j - 1 : o[i] = p
        BY <2>3, <2>9, <2>l, <3>1 DEF Listing
      <4>2. i \in 1..Len(o)
        BY <2>0, <3>1
      <4> QED BY <2>3, <4>1, <4>2
    <3>2. CASE j = Len(o) + 1
      <4>1. p \in w.done
        BY <1>10, <2>4, <2>9, <3>2
      <4>2. PICK i \in 1..Len(o) : o[i] = p
        BY <2>l, <4>1 DEF Listing
      <4>3. i \in 1..j - 1
        BY <2>0, <3>2
      <4> QED BY <2>3, <4>2, <4>3
    <3> QED BY <2>2, <3>1, <3>2
  <2> QED BY <2>5, <2>6, <2>8, <2>9 DEF Listing, u
<1> QED BY <1>w, <1>2, <1>5, <1>6, <1>7, <1>8, <1>9, <1>11, <1>12 DEF Walking, t

\* The top of the stack is expanded: its parents come on the stack.
LEMMA ExpandKeeps ==
    ASSUME NEW N, NEW E, IsGraph(N, E), NEW start, NEW w \in WalkType(N), w.stack # <<>>,
           Walking(E, w, start), NEW v \in WalkType(N),
           Expand(E, w, v, w.stack[Len(w.stack)].node)
    PROVE  Walking(E, v, start)
<1> DEFINE s == w.stack
<1> DEFINE t == v.stack
<1> DEFINE n == s[Len(s)].node
<1> DEFINE new == Above(E, n) \ w.done
<1>0. s \in Seq([node : N, expanded : BOOLEAN]) /\ t \in Seq([node : N, expanded : BOOLEAN])
  BY DEF WalkType
<1>1. Len(s) \in Nat /\ Len(s) >= 1 /\ Len(t) \in Nat
  BY <1>0, EmptySeq, LenProperties
<1>2. /\ ~s[Len(s)].expanded /\ Len(t) = Len(s) + Cardinality(new)
      /\ \A i \in 1..Len(s) - 1 : t[i] = s[i]
      /\ t[Len(s)] = [node |-> n, expanded |-> TRUE]
      /\ \A i \in Len(s) + 1..Len(t) : t[i].node \in new /\ ~t[i].expanded
      /\ \A p \in new : \E i \in Len(s) + 1..Len(t) : t[i].node = p
      /\ v.open = w.open \union {n} /\ v.done = w.done
      /\ v.order = w.order /\ v.cyclic = w.cyclic
  BY DEF Expand, Pushed
<1>3. Cardinality(new) \in Nat
  <2>1. IsFiniteSet(Above(E, n)) /\ new \in SUBSET Above(E, n)
    BY FewParents
  <2> HIDE DEF new
  <2>2. IsFiniteSet(new)
    BY <2>1, FS_Subset
  <2> QED BY <2>2, FS_CardinalityType
<1>4. new \subseteq N /\ N \subseteq Nat /\ n \in N /\ \A p \in new : p < n
  <2>1. Len(s) \in 1..Len(s)
    BY <1>1
  <2> DEFINE Item == [node : N, expanded : BOOLEAN]
  <2>2. s[Len(s)] \in Item
    <3> HIDE DEF s, Item
    <3> QED BY <1>0, <2>1, ElementOfSeq DEF Item
  <2>3. Above(E, n) \subseteq N /\ \A p \in Above(E, n) : p < n
    <3> HIDE DEF n
    <3> QED BY FewParents
  <2> QED BY <2>2, <2>3 DEF IsGraph
<1>n. n = s[Len(s)].node /\ new = Above(E, n) \ w.done
  OBVIOUS
<1>w. /\ Nested(s) /\ Waiting(E, s, w.done) /\ Marked(s, w.open, w.done)
      /\ Begun(s, w.done, start) /\ Inside(E, s, w.done, start)
      /\ ClosedUp(E, w.done) /\ Listing(E, w.order, w.done) /\ ~w.cyclic
  BY DEF Walking
<1>5. \A i \in 1..Len(s) : s[i].node \in Nat
  <2> DEFINE Item == [node : N, expanded : BOOLEAN]
  <2>1. \A i \in 1..Len(s) : s[i] \in Item
    <3> HIDE DEF s, Item
    <3> QED BY <1>0, ElementOfSeq DEF Item
  <2> QED BY <1>4, <2>1
<1> HIDE DEF s, t, n, new
<1>6. \A i \in 1..Len(t) : i \in 1..Len(s) - 1 \/ i = Len(s) \/ i \in Len(s) + 1..Len(t)
  BY <1>1, <1>2, <1>3
<1>7. \A i \in 1..Len(s) : i \in 1..Len(t) /\ t[i].node = s[i].node /\ (i = Len(s) \/ t[i] = s[i])
  <2> SUFFICES ASSUME NEW i \in 1..Len(s)
               PROVE  i \in 1..Len(t) /\ t[i].node = s[i].node /\ (i = Len(s) \/ t[i] = s[i])
    OBVIOUS
  <2>1. i \in 1..Len(t)
    BY <1>1, <1>2, <1>3
  <2>2. CASE i = Len(s)
    BY <1>2, <1>n, <2>1, <2>2
  <2>3. CASE i # Len(s)
    BY <1>1, <1>2, <2>1, <2>3
  <2> QED BY <2>2, <2>3
<1>8. Nested(t)
  <2> SUFFICES ASSUME NEW i \in 1..Len(t), NEW j \in 1..Len(t), i < j, t[i].expanded
               PROVE  t[j].node < t[i].node
    BY DEF Nested
  <2>1. i \in 1..Len(s)
    BY <1>1, <1>2, <1>6
  <2>2. CASE j \in 1..Len(s)
    <3>1. i # Len(s)
      BY <1>1, <2>2
    <3>2. t[i] = s[i]
      BY <1>7, <2>1, <3>1
    <3>3. s[j].node < s[i].node
      BY <1>w, <2>1, <2>2, <3>2 DEF Nested
    <3> QED BY <1>7, <2>1, <2>2, <3>3
  <2>3. CASE j \in Len(s) + 1..Len(t)
    <3>1. t[j].node \in new /\ t[j].node < n /\ t[j].node \in Nat /\ n \in Nat
      BY <1>2, <1>4, <2>3
    <3>2. CASE i = Len(s)
      BY <1>2, <3>1, <3>2
    <3>3. CASE i # Len(s)
      <4>1. t[i] = s[i] /\ Len(s) \in 1..Len(s) /\ i < Len(s)
        BY <1>1, <1>7, <2>1, <3>3
      <4>2. n < s[i].node
        BY <1>w, <1>n, <2>1, <4>1 DEF Nested
      <4>3. s[i].node \in Nat
        BY <1>5, <2>1
      <4> QED BY <3>1, <4>1, <4>2, <4>3
    <3> QED BY <3>2, <3>3
  <2> QED BY <1>1, <1>6, <2>2, <2>3
<1>9. Waiting(E, t, v.done)
  <2> SUFFICES ASSUME NEW i \in 1..Len(t), t[i].expanded, NEW p \in Above(E, t[i].node), p \notin w.done
               PROVE  \E j \in i + 1..Len(t) : t[j].node = p
    BY <1>2 DEF Waiting
  <2>1. i \in 1..Len(s)
    BY <1>1, <1>2, <1>6
  <2>2. CASE i = Len(s)
    BY <1>2, <1>7, <1>n, <2>1, <2>2
  <2>3. CASE i # Len(s)
    <3>1. t[i] = s[i]
      BY <1>7, <2>1, <2>3
    <3>2. PICK j \in i + 1..Len(s) : s[j].node = p
      BY <1>w, <2>1, <3>1 DEF Waiting
    <3>3. j \in 1..Len(s) /\ j \in i + 1..Len(t)
      BY <1>1, <1>2, <1>3, <2>1
    <3> QED BY <1>7, <3>2, <3>3
  <2> QED BY <2>2, <2>3
<1>10. Marked(t, v.open, v.done)
  <2> SUFFICES ASSUME NEW m \in v.open, m \notin w.done
               PROVE  \E i \in 1..Len(t) : t[i].expanded /\ t[i].node = m
    BY <1>2 DEF Marked
  <2>1. CASE m = n
    BY <1>1, <1>2, <1>3, <2>1
  <2>2. CASE m \in w.open
    <3>1. PICK i \in 1..Len(s) : s[i].expanded /\ s[i].node = m
      BY <1>w, <2>2 DEF Marked
    <3>2. i # Len(s)
      BY <1>2, <3>1
    <3> QED BY <1>7, <3>1, <3>2
  <2> QED BY <1>2, <2>1, <2>2
<1>11. Begun(t, v.done, start)
  BY <1>w, <1>2, <1>7 DEF Begun
<1>12. Inside(E, t, v.done, start)
  <2> SUFFICES ASSUME NEW T, start \in T, ClosedUp(E, T), NEW i \in 1..Len(t)
               PROVE  w.done \subseteq T /\ t[i].node \in T
    <3>1. \A T : start \in T /\ ClosedUp(E, T) => w.done \subseteq T
      BY <1>w DEF Inside
    <3> QED BY <1>2, <3>1 DEF Inside
  <2>1. w.done \subseteq T /\ \A j \in 1..Len(s) : s[j].node \in T
    BY <1>w DEF Inside
  <2>2. n \in T
    BY <1>1, <1>n, <2>1
  <2>3. new \subseteq T
    BY <1>n, <2>2 DEF ClosedUp
  <2>4. CASE i \in 1..Len(s)
    BY <1>7, <2>1, <2>4
  <2>5. CASE i \in Len(s) + 1..Len(t)
    BY <1>2, <2>1, <2>3, <2>5
  <2> QED BY <1>1, <1>6, <2>4, <2>5
<1> QED BY <1>w, <1>2, <1>8, <1>9, <1>10, <1>11, <1>12 DEF Walking, t

LEMMA FewPlaces ==
    ASSUME NEW N, NEW E, IsGraph(N, E), NEW start
    PROVE  /\ IsFiniteSet(Places(E, start)) /\ Cardinality(E) \in Nat
           /\ Cardinality(Places(E, start)) \in Nat
           /\ Cardinality(Places(E, start)) <= Cardinality(E) + 1
<1> DEFINE A == {e[2] : e \in E}
<1> DEFINE f == [e \in E |-> e[2]]
<1>1. IsFiniteSet(E)
  BY DEF IsGraph
<1>2. f \in Surjection(E, A)
  BY DEF Surjection
<1> DEFINE P == Places(E, start)
<1>3. P = A \union {start}
  BY DEF Places
<1> HIDE DEF f, A, P
<1>4. IsFiniteSet(A) /\ Cardinality(A) <= Cardinality(E)
  BY <1>1, <1>2, FS_Surjection
<1>5. Cardinality(A) \in Nat /\ Cardinality(E) \in Nat
  BY <1>1, <1>4, FS_CardinalityType
<1>6. /\ IsFiniteSet(P)
      /\ Cardinality(P) = IF start \in A THEN Cardinality(A) ELSE Cardinality(A) + 1
  BY <1>3, <1>4, FS_AddElement
<1> QED BY <1>4, <1>5, <1>6 DEF P

\* A part of a finite set is no larger, and smaller when an element is missing.
LEMMA Smaller ==
    ASSUME NEW S, IsFiniteSet(S), NEW T \in SUBSET S
    PROVE  /\ IsFiniteSet(T) /\ Cardinality(T) \in Nat /\ Cardinality(S) \in Nat
           /\ Cardinality(T) <= Cardinality(S)
           /\ \A x \in S \ T : Cardinality(T) + 1 <= Cardinality(S)
<1>1. IsFiniteSet(T) /\ Cardinality(T) <= Cardinality(S)
  BY FS_Subset
<1>2. Cardinality(T) \in Nat /\ Cardinality(S) \in Nat
  BY <1>1, FS_CardinalityType
<1>3. ASSUME NEW x \in S \ T PROVE Cardinality(T) + 1 <= Cardinality(S)
  <2>1. IsFiniteSet(T \union {x}) /\ Cardinality(T \union {x}) = Cardinality(T) + 1
    BY <1>1, FS_AddElement
  <2>2. T \union {x} \in SUBSET S
    OBVIOUS
  <2>3. Cardinality(T \union {x}) <= Cardinality(S)
    BY <2>2, FS_Subset
  <2> QED BY <2>1, <2>3
<1> QED BY <1>1, <1>2, <1>3

\* Two parts of a finite set that share nothing.
LEMMA TwoParts ==
    ASSUME NEW S, IsFiniteSet(S), NEW A \in SUBSET S, NEW B \in SUBSET S, A \cap B = {}
    PROVE  Cardinality(A) + Cardinality(B) <= Cardinality(S)
<1>1. IsFiniteSet(A) /\ IsFiniteSet(B)
  BY Smaller
<1>2. /\ IsFiniteSet(A \union B)
      /\ Cardinality(A \union B) = Cardinality(A) + Cardinality(B) - Cardinality(A \cap B)
  BY <1>1, FS_Union
<1>3. Cardinality(A \cap B) = 0
  BY FS_EmptySet
<1>4. Cardinality(A) \in Nat /\ Cardinality(B) \in Nat
  BY <1>1, FS_CardinalityType
<1>5. A \union B \in SUBSET S
  OBVIOUS
<1>6. Cardinality(A \union B) <= Cardinality(S)
  BY <1>5, FS_Subset
<1> QED BY <1>2, <1>3, <1>4, <1>6

LEMMA TurnsAreNumbers ==
    ASSUME NEW N, NEW E, IsGraph(N, E), NEW start, NEW w \in WalkType(N)
    PROVE  /\ Len(w.stack) \in Nat /\ (w.stack # <<>> => Len(w.stack) >= 1)
           /\ IsFiniteSet(Room(E, start, w)) /\ Cardinality(Room(E, start, w)) \in Nat
           /\ IsFiniteSet(Unused(E, w)) /\ Cardinality(Unused(E, w)) \in Nat
           /\ TurnsLeft(E, start, w) \in Nat
<1>1. w.stack \in Seq([node : N, expanded : BOOLEAN])
  BY DEF WalkType
<1>2. Len(w.stack) \in Nat /\ (w.stack # <<>> => Len(w.stack) >= 1)
  BY <1>1, LenProperties, EmptySeq
<1>3. IsFiniteSet(Places(E, start)) /\ Room(E, start, w) \in SUBSET Places(E, start)
  BY FewPlaces DEF Room
<1>4. IsFiniteSet(E) /\ Unused(E, w) \in SUBSET E
  BY DEF IsGraph, Unused
<1>5. /\ IsFiniteSet(Room(E, start, w)) /\ Cardinality(Room(E, start, w)) \in Nat
      /\ IsFiniteSet(Unused(E, w)) /\ Cardinality(Unused(E, w)) \in Nat
  BY <1>3, <1>4, Smaller
<1>6. TurnsLeft(E, start, w) \in Nat
  BY <1>2, <1>5 DEF TurnsLeft
<1> QED BY <1>2, <1>5, <1>6

\* Every turn is one less.
LEMMA TurnCounts ==
    ASSUME NEW N, NEW E, IsGraph(N, E), NEW start, NEW w \in WalkType(N), w.stack # <<>>,
           Walking(E, w, start), NEW v \in WalkType(N), NEW n \in N,
           n = w.stack[Len(w.stack)].node, Drop(w, v, n) \/ Emit(w, v, n) \/ Expand(E, w, v, n)
    PROVE  TurnsLeft(E, start, v) + 1 <= TurnsLeft(E, start, w)
<1> DEFINE room(x) == Room(E, start, x)
<1> DEFINE unused(x) == Unused(E, x)
<1>1. /\ Len(w.stack) \in Nat /\ Len(w.stack) >= 1 /\ Len(v.stack) \in Nat
      /\ IsFiniteSet(room(w)) /\ IsFiniteSet(room(v)) /\ IsFiniteSet(unused(w)) /\ IsFiniteSet(unused(v))
      /\ Cardinality(room(w)) \in Nat /\ Cardinality(room(v)) \in Nat
      /\ Cardinality(unused(w)) \in Nat /\ Cardinality(unused(v)) \in Nat
  BY TurnsAreNumbers
<1>2. Passed(w) \subseteq Passed(v)
  BY DEF Passed, Drop, Emit, Expand
<1>3. room(v) \in SUBSET room(w) /\ unused(v) \in SUBSET unused(w)
  BY <1>2 DEF Room, Unused
<1>4. Cardinality(room(v)) <= Cardinality(room(w)) /\ Cardinality(unused(v)) <= Cardinality(unused(w))
  <2> HIDE DEF room, unused
  <2> QED BY <1>1, <1>3, Smaller
<1>5. CASE Drop(w, v, n) \/ Emit(w, v, n)
  <2>1. Len(v.stack) = Len(w.stack) - 1
    BY <1>5 DEF Drop, Emit, Popped
  <2> QED BY <1>1, <1>4, <2>1 DEF TurnsLeft
<1>6. CASE Expand(E, w, v, n)
  <2>1. n \notin Passed(w) /\ n \in Passed(v)
    BY <1>6 DEF Expand, Passed
  <2>2. n \in Places(E, start)
    <3>1. ClosedUp(E, Places(E, start)) /\ start \in Places(E, start)
      BY DEF ClosedUp, Places, Above
    <3>2. Len(w.stack) \in 1..Len(w.stack)
      BY <1>1
    <3> QED BY <3>1, <3>2 DEF Walking, Inside
  <2>3. n \in room(w) \ room(v)
    BY <2>1, <2>2 DEF Room
  <2>4. Cardinality(room(v)) + 1 <= Cardinality(room(w))
    <3> HIDE DEF room
    <3> QED BY <1>1, <1>3, <2>3, Smaller
  <2> DEFINE F == {e \in E : e[1] = n}
  <2> DEFINE new == Above(E, n) \ w.done
  <2>5. Cardinality(new) \in Nat /\ Cardinality(F) \in Nat /\ Cardinality(new) <= Cardinality(F)
    <3>1. /\ IsFiniteSet(Above(E, n)) /\ Cardinality(F) \in Nat
          /\ Cardinality(Above(E, n)) \in Nat /\ Cardinality(Above(E, n)) <= Cardinality(F)
      BY FewParents
    <3>2. new \in SUBSET Above(E, n)
      OBVIOUS
    <3> HIDE DEF new, F
    <3>3. Cardinality(new) \in Nat /\ Cardinality(new) <= Cardinality(Above(E, n))
      BY <3>1, <3>2, Smaller
    <3> QED BY <3>1, <3>3
  <2>6. Len(v.stack) = Len(w.stack) + Cardinality(new)
    BY <1>6 DEF Expand, Pushed
  <2>7. F \in SUBSET unused(w) /\ F \cap unused(v) = {}
    BY <2>1 DEF Unused
  <2>8. Cardinality(F) + Cardinality(unused(v)) <= Cardinality(unused(w))
    <3> HIDE DEF F, unused
    <3> QED BY <1>1, <1>3, <2>7, TwoParts
  <2> HIDE DEF F, new
  <2>9. Cardinality(unused(v)) + Cardinality(new) <= Cardinality(unused(w))
    <3> HIDE DEF unused
    <3> QED BY <1>1, <2>5, <2>8
  <2>10. Cardinality(room(v)) + 1 + Cardinality(unused(v)) + Cardinality(new)
             <= Cardinality(room(w)) + Cardinality(unused(w))
    <3> HIDE DEF unused, room
    <3> QED BY <1>1, <2>4, <2>5, <2>9
  <2>11. PICK x \in Nat, y \in Nat : x = Cardinality(room(v)) /\ y = Cardinality(unused(v))
    BY <1>1
  <2>12. PICK c \in Nat : c = Cardinality(room(w)) + Cardinality(unused(w))
    BY <1>1
  <2>13. PICK l \in Nat, k \in Nat : l = Len(w.stack) /\ k = Cardinality(new)
    BY <1>1, <2>5
  <2>14. TurnsLeft(E, start, v) = l + k + x + y
    BY <2>6, <2>11, <2>13 DEF TurnsLeft
  <2>15. TurnsLeft(E, start, w) = l + c
    BY <1>1, <2>12, <2>13 DEF TurnsLeft
  <2>16. x + 1 + y + k <= c
    BY <2>10, <2>11, <2>12, <2>13
  <2> QED BY <2>14, <2>15, <2>16
<1> QED BY <1>5, <1>6

LEMMA WalkBegins ==
    ASSUME NEW N, NEW E, IsGraph(N, E), NEW start \in N
    PROVE  LET w == WalkStart(start) IN
           /\ w \in WalkType(N) /\ Walking(E, w, start)
           /\ TurnsLeft(E, start, w) <= 2 * Cardinality(E) + 2
<1> DEFINE w == WalkStart(start)
<1> DEFINE item == [node |-> start, expanded |-> FALSE]
<1>1. /\ w.stack = <<item>> /\ w.open = {} /\ w.done = {} /\ w.order = <<>> /\ w.cyclic = FALSE
      /\ w = [stack |-> <<item>>, open |-> {}, done |-> {}, order |-> <<>>, cyclic |-> FALSE]
  BY DEF WalkStart
<1> DEFINE Item == [node : N, expanded : BOOLEAN]
<1>2. <<item>> \in Seq(Item) /\ Len(<<item>>) = 1 /\ <<item>>[1] = item
  BY <1>1
<1>3. <<>> \in Seq(N)
  OBVIOUS
<1>4. w \in WalkType(N)
  BY <1>1, <1>2, <1>3 DEF WalkType
<1>5. item.node = start /\ item.expanded = FALSE
  OBVIOUS
<1> HIDE DEF w, item
<1>6. /\ Nested(w.stack) /\ Waiting(E, w.stack, w.done) /\ Marked(w.stack, w.open, w.done)
      /\ Begun(w.stack, w.done, start) /\ Inside(E, w.stack, w.done, start)
  BY <1>1, <1>2, <1>5 DEF Nested, Waiting, Marked, Begun, Inside
<1>7. ClosedUp(E, w.done) /\ Listing(E, w.order, w.done)
  BY <1>1 DEF ClosedUp, Listing
<1>8. Walking(E, w, start)
  BY <1>1, <1>6, <1>7 DEF Walking
<1>9. /\ Room(E, start, w) = Places(E, start) /\ Unused(E, w) = E
  BY <1>1 DEF Room, Unused, Passed
<1>10. TurnsLeft(E, start, w) = 1 + Cardinality(Places(E, start)) + Cardinality(E)
  BY <1>1, <1>2, <1>9 DEF TurnsLeft
<1>11. TurnsLeft(E, start, w) <= 2 * Cardinality(E) + 2
  BY <1>10, FewPlaces
<1> QED BY <1>4, <1>8, <1>11 DEF w

\* The loop of lineage() comes to its end, with everything in its place.
LEMMA WalkEnds ==
    ASSUME NEW N, NEW E, IsGraph(N, E), NEW start \in N
    PROVE  LET w == LineageWalk(E, start) IN
           w \in WalkType(N) /\ w.stack = <<>> /\ Walking(E, w, start)
<1> DEFINE T == WalkType(N)
<1> DEFINE turns == 2 * Cardinality(E) + 2
<1> DEFINE init == WalkStart(start)
<1> DEFINE next == [k \in 1..turns |->
                     [w \in T |-> IF w.stack = <<>> THEN w ELSE LineageTurn(E, w)]]
<1> DEFINE Body(f) == [k \in 0..turns |->
                        IF k = 0 THEN init
                        ELSE IF f[k - 1].stack = <<>> THEN f[k - 1]
                        ELSE LineageTurn(E, f[k - 1])]
<1>1. turns \in Nat /\ init \in T
  BY FewPlaces, WalkBegins
<1>2. next \in [1..turns -> [T -> T]]
  BY TurnCases
<1>3. PICK f \in [0..turns -> T] : Runs(f, turns, init, next)
  <2> HIDE DEF T, turns, init, next
  <2> QED BY <1>1, <1>2, LoopRuns
<1>4. f = Body(f)
  <2> SUFFICES ASSUME NEW k \in 0..turns PROVE f[k] = Body(f)[k]
    BY <1>3
  <2>1. CASE k = 0
    BY <1>3, <2>1 DEF Runs
  <2>2. CASE k # 0
    <3>1. k - 1 \in 0..turns /\ f[k - 1] \in T
      BY <1>1, <1>3, <2>2
    <3>2. f[k] = next[k][f[k - 1]]
      BY <1>3, <2>2 DEF Runs
    <3> QED BY <2>2, <3>1, <3>2
  <2> QED BY <2>1, <2>2
<1> DEFINE walk == CHOOSE g : g = Body(g)
<1>5. walk = Body(walk)
  BY <1>4
<1>6. LineageWalk(E, start) = walk[turns]
  BY DEF LineageWalk, WalkStart
<1> DEFINE Good == {k \in 0..turns :
            /\ walk[k] \in T /\ Walking(E, walk[k], start)
            /\ walk[k].stack = <<>> \/ TurnsLeft(E, start, walk[k]) + k <= turns}
<1>7. 0 \in Good
  <2>1. 0 \in 0..turns /\ walk[0] = init
    <3>1. 0 \in 0..turns
      BY <1>1
    <3> HIDE DEF walk, init, turns
    <3>2. walk[0] = Body(walk)[0]
      BY <1>5
    <3> QED BY <3>1, <3>2
  <2>2. /\ init \in T /\ Walking(E, init, start) /\ TurnsLeft(E, start, init) <= turns
    BY WalkBegins
  <2>3. TurnsLeft(E, start, init) \in Nat
    BY WalkBegins, TurnsAreNumbers
  <2> HIDE DEF walk, init
  <2> QED BY <2>1, <2>2, <2>3
<1>8. ASSUME NEW k \in 0..turns, k \in Good, k < turns PROVE k + 1 \in Good
  <2>1. k + 1 \in 0..turns /\ k + 1 # 0 /\ (k + 1) - 1 = k
    BY <1>1, <1>8
  <2> DEFINE w == walk[k]
  <2> DEFINE v == walk[k + 1]
  <2>2. v = IF w.stack = <<>> THEN w ELSE LineageTurn(E, w)
    <3> HIDE DEF walk
    <3>1. walk[k + 1] = Body(walk)[k + 1]
      BY <1>5
    <3> QED BY <2>1, <3>1
  <2>3. /\ w \in T /\ Walking(E, w, start)
        /\ w.stack = <<>> \/ TurnsLeft(E, start, w) + k <= turns
    BY <1>8
  <2> HIDE DEF walk, w, v
  <2>4. CASE w.stack = <<>>
    BY <2>1, <2>2, <2>3, <2>4 DEF w, v
  <2>5. CASE w.stack # <<>>
    <3> DEFINE n == w.stack[Len(w.stack)].node
    <3>1. /\ v \in T /\ n \in N
          /\ Drop(w, v, n) \/ Emit(w, v, n) \/ Cyclic(w, v, n) \/ Expand(E, w, v, n)
      BY <2>2, <2>3, <2>5, TurnCases
    <3>2. ~Cyclic(w, v, n)
      BY <2>3, <2>5, NoCycle
    <3>3. Walking(E, v, start)
      BY <2>3, <2>5, <3>1, <3>2, DropKeeps, EmitKeeps, ExpandKeeps
    <3> HIDE DEF n
    <3>4. TurnsLeft(E, start, v) + 1 <= TurnsLeft(E, start, w)
      BY <2>3, <2>5, <3>1, <3>2, TurnCounts DEF n
    <3>5. TurnsLeft(E, start, v) \in Nat /\ TurnsLeft(E, start, w) \in Nat
      BY <2>3, <3>1, TurnsAreNumbers
    <3>6. TurnsLeft(E, start, v) + (k + 1) <= turns
      BY <1>1, <2>3, <2>5, <3>4, <3>5
    <3> QED BY <2>1, <3>1, <3>3, <3>6 DEF v
  <2> QED BY <2>4, <2>5
<1> HIDE DEF Good
<1>9. \A k \in 0..turns : k \in Good
  BY <1>1, <1>7, <1>8, Inductively
<1>10. turns \in Good
  BY <1>1, <1>9
<1> DEFINE w == walk[turns]
<1>11. /\ w \in T /\ Walking(E, w, start)
       /\ w.stack = <<>> \/ TurnsLeft(E, start, w) + turns <= turns
  BY <1>10 DEF Good
<1> HIDE DEF walk, w
<1>12. w.stack = <<>>
  <2> SUFFICES ASSUME w.stack # <<>> PROVE FALSE
    OBVIOUS
  <2>1. /\ Len(w.stack) \in Nat /\ Len(w.stack) >= 1
        /\ Cardinality(Room(E, start, w)) \in Nat /\ Cardinality(Unused(E, w)) \in Nat
    BY <1>11, TurnsAreNumbers
  <2> QED BY <1>1, <1>11, <2>1 DEF TurnsLeft
<1> QED BY <1>6, <1>11, <1>12 DEF w

\* The ancestors of a node are the least set with it and the parents of its own.
LEMMA AncestorsAre ==
    ASSUME NEW N, NEW E, NEW start, NEW S \in SUBSET N, start \in S, ClosedUp(E, S),
           \A T : start \in T /\ ClosedUp(E, T) => S \subseteq T
    PROVE  AncestorsIn(N, E, start) = S
<1> DEFINE Least(X) == /\ start \in X
                       /\ \A n \in X : Above(E, n) \subseteq X
                       /\ \A T \in SUBSET X :
                             (start \in T /\ \A n \in T : Above(E, n) \subseteq T) => T = X
<1>1. Least(S)
  BY DEF ClosedUp
<1>2. ASSUME NEW X \in SUBSET N, Least(X) PROVE X = S
  BY <1>2 DEF ClosedUp
<1> DEFINE A == CHOOSE X \in SUBSET N : Least(X)
<1>3. A = S
  <2> HIDE DEF Least
  <2>1. A \in SUBSET N /\ Least(A)
    BY <1>1
  <2> QED BY <1>2, <2>1
<1>4. AncestorsIn(N, E, start) = A
  BY DEF AncestorsIn, Closure
<1> QED BY <1>3, <1>4

\* A list without doubles is as long as its set.
LEMMA ListIsLong ==
    ASSUME NEW S, NEW s \in Seq(S), NEW X,
           \A i \in 1..Len(s) : s[i] \in X,
           \A x \in X : \E i \in 1..Len(s) : s[i] = x,
           \A i, j \in 1..Len(s) : s[i] = s[j] => i = j
    PROVE  Range(s) = X /\ IsFiniteSet(X) /\ Len(s) = Cardinality(X)
<1> DEFINE n == Len(s)
<1>1. n \in Nat /\ DOMAIN s = 1..n
  BY LenProperties
<1>2. Range(s) = X
  BY <1>1 DEF Range
<1>3. s \in [1..n -> X]
  BY <1>1, LenProperties
<1> HIDE DEF n
<1>4. ExistsBijection(1..n, X)
  <2>1. \A i, j \in 1..n : s[i] = s[j] => i = j
    BY DEF n
  <2>2. s \in Injection(1..n, X)
    BY <1>3, <2>1, Fun_IsInj
  <2>3. \A x \in X : \E i \in 1..n : s[i] = x
    BY DEF n
  <2>4. s \in Surjection(1..n, X)
    BY <1>3, <2>3 DEF Surjection
  <2>5. s \in Bijection(1..n, X)
    BY <2>2, <2>4 DEF Bijection
  <2> QED BY <2>5 DEF ExistsBijection
<1>5. IsFiniteSet(1..n) /\ Cardinality(1..n) = n
  BY <1>1, FS_Interval
<1>6. IsFiniteSet(X) /\ Cardinality(1..n) = Cardinality(X)
  BY <1>4, <1>5, FS_Bijection
<1> QED BY <1>2, <1>5, <1>6 DEF n

\* What the walk has listed when its stack is empty.
LEMMA WalkLists ==
    ASSUME NEW N, NEW E, IsGraph(N, E), NEW start \in N
    PROVE  LET w == LineageWalk(E, start) IN
           /\ ~w.cyclic /\ w.order \in Seq(N) /\ Listing(E, w.order, w.done)
           /\ w.done \in SUBSET N /\ start \in w.done /\ ClosedUp(E, w.done)
           /\ \A T : start \in T /\ ClosedUp(E, T) => w.done \subseteq T
           /\ AncestorsIn(N, E, start) = w.done
<1> DEFINE w == LineageWalk(E, start)
<1>1. w \in WalkType(N) /\ w.stack = <<>> /\ Walking(E, w, start)
  BY WalkEnds
<1> DEFINE o == w.order
<1> DEFINE S == w.done
<1>2. o \in Seq(N) /\ S \in SUBSET N
  BY <1>1 DEF WalkType
<1>3. \A i \in 1..Len(w.stack) : FALSE
  BY <1>1
<1> HIDE DEF w
<1>4. start \in S
  BY <1>1, <1>3 DEF Walking, Begun
<1>5. ClosedUp(E, S) /\ Listing(E, o, S) /\ ~w.cyclic
  BY <1>1 DEF Walking
<1>6. \A T : start \in T /\ ClosedUp(E, T) => S \subseteq T
  BY <1>1 DEF Walking, Inside
<1> HIDE DEF o, S
<1>7. AncestorsIn(N, E, start) = S
  BY <1>2, <1>4, <1>5, <1>6, AncestorsAre
<1> QED BY <1>2, <1>4, <1>5, <1>6, <1>7 DEF o, S, w

\* Ancestors are the least set with the node and the parents of its own.
LEMMA Ancestors ==
    ASSUME NEW N, NEW E, IsGraph(N, E), NEW start \in N
    PROVE  /\ AncestorsIn(N, E, start) \in SUBSET N /\ start \in AncestorsIn(N, E, start)
           /\ ClosedUp(E, AncestorsIn(N, E, start))
           /\ \A T : start \in T /\ ClosedUp(E, T) => AncestorsIn(N, E, start) \subseteq T
BY WalkLists

\* A list in the order of time is in the order of the edges.
LEMMA ListedInOrder ==
    ASSUME NEW S, NEW s \in Seq(S), NEW E, NEW X, Listing(E, s, X)
    PROVE  ListsInOrder(s, X, E)
<1>1. Len(s) \in Nat
  BY LenProperties
<1>2. Range(s) = X /\ Len(s) = Cardinality(X)
  BY ListIsLong DEF Listing
<1>3. ASSUME NEW i \in 1..Len(s), NEW j \in 1..Len(s), <<s[i], s[j]>> \in E PROVE j < i
  <2>1. s[j] \in Above(E, s[i])
    BY <1>3 DEF Above
  <2>2. PICK k \in 1..i - 1 : s[k] = s[j]
    BY <2>1 DEF Listing
  <2>3. k \in 1..Len(s) /\ k < i
    BY <1>1
  <2>4. k = j
    BY <2>2, <2>3 DEF Listing
  <2> QED BY <2>3, <2>4
<1> QED BY <1>2, <1>3 DEF ListsInOrder

\* lineage() does what it is for on every store, however large: the walk over
\* edges that point back in time finds no cycle, and it lists the ancestors of
\* the node, itself included, each once and after all its parents.
THEOREM LineageIsRight ==
    ASSUME NEW N, NEW E, IsGraph(N, E), NEW start \in N
    PROVE  LET w == LineageWalk(E, start) IN
           /\ ~w.cyclic /\ w.order \in Seq(N)
           /\ ListsInOrder(w.order, AncestorsIn(N, E, start), E)
<1> DEFINE w == LineageWalk(E, start)
<1> DEFINE o == w.order
<1> DEFINE S == w.done
<1>1. /\ ~w.cyclic /\ o \in Seq(N) /\ Listing(E, o, S)
      /\ S \in SUBSET N /\ AncestorsIn(N, E, start) = S
  BY WalkLists
<1> HIDE DEF w, o, S
<1>2. ListsInOrder(o, S, E)
  BY <1>1, ListedInOrder
<1> QED BY <1>1, <1>2 DEF o, w

-----------------------------------------------------------------------------
(* Kahn's algorithm sorts the graph and finds the longest paths.           *)

LEMMA GreaterOfTwo ==
    ASSUME NEW a \in Nat, NEW b \in Nat
    PROVE  Max({a, b}) = IF a >= b THEN a ELSE b
<1> DEFINE m == IF a >= b THEN a ELSE b
<1>1. m \in {a, b} /\ \A x \in {a, b} : m >= x
  OBVIOUS
<1>2. \A y \in {a, b} : (\A x \in {a, b} : y >= x) => y = m
  OBVIOUS
<1> QED BY <1>1, <1>2 DEF Max

LEMMA KahnBegins ==
    ASSUME NEW N, NEW E, IsGraph(N, E)
    PROVE  LET w == KahnStart(N, E) IN w \in KahnType(N) /\ Counting(N, E, w) /\ Len(w.order) = 0
<1> DEFINE w == KahnStart(N, E)
<1>1. /\ w.ready = {n \in N : Above(E, n) = {}} /\ w.order = <<>>
      /\ w.indegree = [n \in N |-> Cardinality(Above(E, n))] /\ w.level = [n \in N |-> 0]
      /\ w = [ready |-> w.ready, order |-> w.order, indegree |-> w.indegree, level |-> w.level]
  BY DEF KahnStart
<1>2. w.order \in Seq(N) /\ Range(w.order) = {} /\ Len(w.order) = 0
  BY <1>1 DEF Range
<1>3. w.ready \in SUBSET N /\ w.indegree \in [N -> Nat] /\ w.level \in [N -> Nat]
  <2>1. ASSUME NEW n \in N PROVE Cardinality(Above(E, n)) \in Nat
    BY FewParents
  <2> QED BY <1>1, <2>1
<1> HIDE DEF w
<1>4. w \in KahnType(N)
  BY <1>1, <1>2, <1>3 DEF KahnType
<1>5. Listing(E, w.order, {})
  BY <1>2 DEF Listing
<1>6. w.ready = {n \in N \ {} : Above(E, n) \subseteq {}}
  BY <1>1
<1>7. \A n \in N : w.indegree[n] = Cardinality(Above(E, n) \ {}) /\ Behind(E, w.level, {}, n)
  BY <1>1 DEF Behind
<1> QED BY <1>2, <1>4, <1>5, <1>6, <1>7 DEF Counting, w

\* What a turn does with the node n.
LEMMA KahnTakes ==
    ASSUME NEW N, NEW E, IsGraph(N, E), NEW w \in KahnType(N), Counting(N, E, w), w.ready # {}
    PROVE  LET v == KahnTurn(E, w) IN
           /\ v = [ready |-> v.ready, order |-> v.order, indegree |-> v.indegree, level |-> v.level]
           /\ \E n \in w.ready :
                /\ v.order = Append(w.order, n)
                /\ v.ready = (w.ready \ {n}) \union {c \in Below(E, n) : w.indegree[c] = 1}
                /\ v.indegree = [c \in N |-> w.indegree[c] - (IF n \in Above(E, c) THEN 1 ELSE 0)]
                /\ v.level = [c \in N |-> IF n \in Above(E, c) /\ w.level[c] <= w.level[n]
                                          THEN w.level[n] + 1 ELSE w.level[c]]
<1> DEFINE n == CHOOSE r \in w.ready : TRUE
<1> DEFINE v == KahnTurn(E, w)
<1>1. n \in w.ready /\ n \in N
  BY DEF KahnType
<1>2. DOMAIN w.indegree = N /\ DOMAIN w.level = N /\ \A c \in N : w.level[c] \in Nat
  BY DEF KahnType
<1>3. \A c : c \in Below(E, n) <=> n \in Above(E, c)
  <2> HIDE DEF n
  <2>1. \A e \in E : e = <<e[1], e[2]>>
    BY DEF IsGraph
  <2> QED BY <2>1 DEF Below, Above
<1>4. /\ v.ready = (w.ready \ {n}) \union {c \in Below(E, n) : w.indegree[c] = 1}
      /\ v.order = Append(w.order, n)
      /\ v.indegree = [c \in DOMAIN w.indegree |->
                         w.indegree[c] - (IF c \in Below(E, n) THEN 1 ELSE 0)]
      /\ v.level = [c \in DOMAIN w.level |->
                      IF c \in Below(E, n) THEN Max({w.level[c], w.level[n] + 1})
                      ELSE w.level[c]]
      /\ v = [ready |-> v.ready, order |-> v.order, indegree |-> v.indegree, level |-> v.level]
  BY DEF KahnTurn
<1> HIDE DEF n, v
<1>5. v.indegree = [c \in N |-> w.indegree[c] - (IF n \in Above(E, c) THEN 1 ELSE 0)]
  BY <1>2, <1>3, <1>4
<1>6. ASSUME NEW c \in N
      PROVE  (IF c \in Below(E, n) THEN Max({w.level[c], w.level[n] + 1}) ELSE w.level[c])
             = IF n \in Above(E, c) /\ w.level[c] <= w.level[n] THEN w.level[n] + 1 ELSE w.level[c]
  BY <1>1, <1>2, <1>3, GreaterOfTwo
<1>7. v.level = [c \in N |-> IF n \in Above(E, c) /\ w.level[c] <= w.level[n]
                             THEN w.level[n] + 1 ELSE w.level[c]]
  BY <1>2, <1>4, <1>6
<1> QED BY <1>1, <1>4, <1>5, <1>7 DEF v

\* A turn counts one more node, and keeps what the loop relies on.
LEMMA KahnKeeps ==
    ASSUME NEW N, NEW E, IsGraph(N, E), NEW w \in KahnType(N), Counting(N, E, w), w.ready # {}
    PROVE  LET v == KahnTurn(E, w) IN
           v \in KahnType(N) /\ Counting(N, E, v) /\ Len(v.order) = Len(w.order) + 1
<1> DEFINE v == KahnTurn(E, w)
<1> DEFINE S == Range(w.order)
<1>0. v = [ready |-> v.ready, order |-> v.order, indegree |-> v.indegree, level |-> v.level]
  BY KahnTakes
<1>1. PICK n \in w.ready :
        /\ v.order = Append(w.order, n)
        /\ v.ready = (w.ready \ {n}) \union {c \in Below(E, n) : w.indegree[c] = 1}
        /\ v.indegree = [c \in N |-> w.indegree[c] - (IF n \in Above(E, c) THEN 1 ELSE 0)]
        /\ v.level = [c \in N |-> IF n \in Above(E, c) /\ w.level[c] <= w.level[n]
                                  THEN w.level[n] + 1 ELSE w.level[c]]
  BY KahnTakes
<1>2. /\ w.order \in Seq(N) /\ w.indegree \in [N -> Nat] /\ w.level \in [N -> Nat]
      /\ Listing(E, w.order, S) /\ w.ready = {m \in N \ S : Above(E, m) \subseteq S}
      /\ \A m \in N : w.indegree[m] = Cardinality(Above(E, m) \ S) /\ Behind(E, w.level, S, m)
  BY DEF KahnType, Counting
<1> HIDE DEF v
<1>3. n \in N /\ n \notin S /\ Above(E, n) \subseteq S
  BY <1>1, <1>2
<1>4. /\ Len(w.order) \in Nat /\ Len(v.order) = Len(w.order) + 1 /\ v.order \in Seq(N)
      /\ \A i \in 1..Len(w.order) : v.order[i] = w.order[i]
      /\ v.order[Len(w.order) + 1] = n
  BY <1>1, <1>2, <1>3, AppendProperties, LenProperties
<1>5. S \subseteq N /\ S = {w.order[i] : i \in 1..Len(w.order)}
  <2>1. w.order \in [1..Len(w.order) -> N]
    BY <1>2, LenProperties
  <2> QED BY <2>1 DEF Range
<1>6. Range(v.order) = S \union {n}
  <2>1. DOMAIN v.order = 1..Len(w.order) + 1
    BY <1>4, LenProperties
  <2> HIDE DEF S
  <2>2. \A i \in 1..Len(w.order) + 1 : i \in 1..Len(w.order) \/ i = Len(w.order) + 1
    BY <1>4
  <2>3. \A i \in 1..Len(w.order) : i \in 1..Len(w.order) + 1
    BY <1>4
  <2>4. Len(w.order) + 1 \in 1..Len(w.order) + 1
    BY <1>4
  <2> QED BY <1>4, <1>5, <2>1, <2>2, <2>3, <2>4 DEF Range
<1> HIDE DEF S
<1>7. \A c \in N : IsFiniteSet(Above(E, c) \ S) /\ (c \in Below(E, n) <=> n \in Above(E, c))
  <2>1. \A e \in E : e = <<e[1], e[2]>>
    BY DEF IsGraph
  <2>2. \A c \in N : c \in Below(E, n) <=> n \in Above(E, c)
    BY <2>1 DEF Below, Above
  <2>3. \A c \in N : IsFiniteSet(Above(E, c) \ S)
    BY FewParents, FS_Difference
  <2> QED BY <2>2, <2>3
<1>8. Listing(E, v.order, S \union {n})
  <2> DEFINE s == w.order
  <2> DEFINE t == v.order
  <2>1. \A i \in 1..Len(t) : (i \in 1..Len(s) /\ t[i] = s[i]) \/ (i = Len(s) + 1 /\ t[i] = n)
    BY <1>4
  <2>2. \A i \in 1..Len(s) : i \in 1..Len(t) /\ t[i] = s[i]
    BY <1>4
  <2>3. Len(s) + 1 \in 1..Len(t) /\ t[Len(s) + 1] = n
    BY <1>4
  <2>4. \A i \in 1..Len(s) : s[i] \in S /\ s[i] # n
    BY <1>2, <1>3 DEF Listing
  <2> HIDE DEF s, t
  <2>5. \A i \in 1..Len(t) : t[i] \in S \union {n}
    BY <2>1, <2>4
  <2>6. \A m \in S \union {n} : \E i \in 1..Len(t) : t[i] = m
    BY <1>2, <2>2, <2>3 DEF Listing, s
  <2>7. ASSUME NEW i \in 1..Len(t), NEW j \in 1..Len(t), t[i] = t[j] PROVE i = j
    <3>1. \A a, b \in 1..Len(s) : s[a] = s[b] => a = b
      BY <1>2 DEF Listing, s
    <3>2. CASE i = Len(s) + 1 /\ t[i] = n
      BY <2>1, <2>4, <2>7, <3>2
    <3>3. CASE i \in 1..Len(s) /\ t[i] = s[i]
      BY <2>1, <2>4, <2>7, <3>1, <3>3
    <3> QED BY <2>1, <3>2, <3>3
  <2>8. ASSUME NEW j \in 1..Len(t), NEW p \in Above(E, t[j]) PROVE \E i \in 1..j - 1 : t[i] = p
    <3>1. CASE j \in 1..Len(s) /\ t[j] = s[j]
      <4>1. PICK i \in 1..j - 1 : s[i] = p
        BY <1>2, <2>8, <3>1 DEF Listing, s
      <4>2. i \in 1..Len(s)
        BY <1>4, <3>1 DEF s
      <4> QED BY <2>2, <4>1, <4>2
    <3>2. CASE j = Len(s) + 1 /\ t[j] = n
      <4>1. PICK i \in 1..Len(s) : s[i] = p
        BY <1>2, <1>3, <2>8, <3>2 DEF Listing, s
      <4>2. i \in 1..j - 1
        BY <1>4, <3>2 DEF s
      <4> QED BY <2>2, <4>1, <4>2
    <3> QED BY <2>1, <3>1, <3>2
  <2> QED BY <2>5, <2>6, <2>7, <2>8 DEF Listing, t
<1>9. ASSUME NEW c \in N
      PROVE  /\ v.indegree[c] \in Nat /\ v.indegree[c] = Cardinality(Above(E, c) \ (S \union {n}))
             /\ n \in Above(E, c) => (w.indegree[c] = 1 <=> Above(E, c) \subseteq S \union {n})
  <2> DEFINE A == Above(E, c) \ S
  <2>1. /\ Above(E, c) \ (S \union {n}) = A \ {n} /\ IsFiniteSet(A) /\ w.indegree[c] = Cardinality(A)
        /\ v.indegree[c] = w.indegree[c] - (IF n \in Above(E, c) THEN 1 ELSE 0)
    BY <1>1, <1>2, <1>7
  <2>2. n \in A <=> n \in Above(E, c)
    BY <1>3
  <2>3. Above(E, c) \subseteq S \union {n} <=> A \ {n} = {}
    OBVIOUS
  <2> HIDE DEF A
  <2>4. IsFiniteSet(A \ {n}) /\ Cardinality(A) \in Nat /\ Cardinality(A \ {n}) \in Nat
    BY <2>1, FS_Difference, FS_CardinalityType
  <2>5. CASE n \in A
    <3>1. Cardinality(A \ {n}) = Cardinality(A) - 1
      BY <2>1, <2>5, FS_RemoveElement
    <3>2. A \ {n} = {} <=> Cardinality(A \ {n}) = 0
      BY <2>4, FS_EmptySet
    <3>3. w.indegree[c] = 1 <=> A \ {n} = {}
      BY <2>1, <2>4, <3>1, <3>2
    <3> QED BY <2>1, <2>2, <2>3, <2>4, <2>5, <3>1, <3>3
  <2>6. CASE n \notin A
    <3>1. A \ {n} = A
      BY <2>6
    <3> QED BY <2>1, <2>2, <2>4, <2>6, <3>1
  <2> QED BY <2>5, <2>6
<1>10. v.ready = {m \in N \ (S \union {n}) : Above(E, m) \subseteq S \union {n}}
  <2>1. Below(E, n) \subseteq N
    BY DEF Below, IsGraph
  <2>2. ASSUME NEW m \in v.ready
        PROVE  m \in N \ (S \union {n}) /\ Above(E, m) \subseteq S \union {n}
    <3>1. CASE m \in w.ready \ {n}
      BY <1>2, <3>1
    <3>2. CASE m \in Below(E, n) /\ w.indegree[m] = 1
      <4>1. m \in N /\ n \in Above(E, m)
        BY <1>7, <2>1, <3>2
      <4>2. Above(E, m) \subseteq S \union {n}
        BY <1>9, <3>2, <4>1
      <4>3. m \notin S
        <5> SUFFICES ASSUME m \in S PROVE FALSE
          OBVIOUS
        <5>1. PICK j \in 1..Len(w.order) : w.order[j] = m
          BY <1>2 DEF Listing
        <5>2. PICK i \in 1..j - 1 : w.order[i] = n
          BY <1>2, <4>1, <5>1 DEF Listing
        <5>3. i \in 1..Len(w.order)
          BY <1>4
        <5> QED BY <1>2, <1>3, <5>2, <5>3 DEF Listing
      <4>4. m # n
        BY <1>3, <4>1, FewParents
      <4> QED BY <4>1, <4>2, <4>3, <4>4
    <3> QED BY <1>1, <2>2, <3>1, <3>2
  <2>3. ASSUME NEW m \in N \ (S \union {n}), Above(E, m) \subseteq S \union {n} PROVE m \in v.ready
    <3>1. CASE n \in Above(E, m)
      BY <1>1, <1>7, <1>9, <2>3, <3>1
    <3>2. CASE n \notin Above(E, m)
      BY <1>1, <1>2, <2>3, <3>2
    <3> QED BY <3>1, <3>2
  <2> QED BY <2>2, <2>3
<1>11. ASSUME NEW c \in N PROVE v.level[c] \in Nat /\ Behind(E, v.level, S \union {n}, c)
  <2>1. /\ \A m \in N : w.level[m] \in Nat /\ Behind(E, w.level, S, m)
        /\ \A m \in N : v.level[m] = IF n \in Above(E, m) /\ w.level[m] <= w.level[n]
                                     THEN w.level[n] + 1 ELSE w.level[m]
    BY <1>1, <1>2
  <2>2. \A p \in S \union {n} : v.level[p] = w.level[p]
    <3> SUFFICES ASSUME NEW p \in S \union {n} PROVE n \notin Above(E, p)
      BY <1>3, <1>5, <2>1
    <3>1. CASE p = n
      BY <1>3, <3>1
    <3>2. CASE p \in S
      <4>1. PICK j \in 1..Len(w.order) : w.order[j] = p
        BY <1>2, <3>2 DEF Listing
      <4>2. ASSUME n \in Above(E, p) PROVE FALSE
        <5>1. PICK i \in 1..j - 1 : w.order[i] = n
          BY <1>2, <4>1, <4>2 DEF Listing
        <5>2. i \in 1..Len(w.order)
          BY <1>4
        <5> QED BY <1>2, <1>3, <5>1, <5>2 DEF Listing
      <4> QED BY <4>2
    <3> QED BY <3>1, <3>2
  <2>3. \A p \in Above(E, c) \intersect S : w.level[p] < w.level[c]
    BY <2>1 DEF Behind
  <2>4. w.level[n] \in Nat /\ w.level[c] \in Nat /\ \A p \in S : w.level[p] \in Nat
    BY <1>3, <1>5, <2>1
  <2>5. CASE n \in Above(E, c) /\ w.level[c] <= w.level[n]
    <3>1. v.level[c] = w.level[n] + 1
      BY <2>1, <2>5
    <3>2. \A p \in Above(E, c) \intersect (S \union {n}) : v.level[p] < v.level[c]
      BY <2>2, <2>3, <2>4, <2>5, <3>1
    <3>3. n \in Above(E, c) \intersect (S \union {n}) /\ v.level[c] = v.level[n] + 1
      BY <2>2, <2>5, <3>1
    <3> QED BY <2>4, <3>1, <3>2, <3>3 DEF Behind
  <2>6. CASE ~(n \in Above(E, c) /\ w.level[c] <= w.level[n])
    <3>1. v.level[c] = w.level[c]
      BY <2>1, <2>6
    <3>2. \A p \in Above(E, c) \intersect (S \union {n}) : v.level[p] < v.level[c]
      BY <2>2, <2>3, <2>4, <2>6, <3>1
    <3>3. v.level[c] = 0 \/ \E p \in Above(E, c) \intersect (S \union {n}) : v.level[c] = v.level[p] + 1
      BY <2>1, <2>2, <3>1 DEF Behind
    <3> QED BY <2>4, <3>1, <3>2, <3>3 DEF Behind
  <2> QED BY <2>5, <2>6
<1>12. v \in KahnType(N)
  BY <1>0, <1>1, <1>10, <1>11, <1>4, <1>9 DEF KahnType
<1>13. Counting(N, E, v)
  <2>1. \A m \in N : v.indegree[m] = Cardinality(Above(E, m) \ (S \union {n}))
    BY <1>9
  <2>2. \A m \in N : Behind(E, v.level, S \union {n}, m)
    BY <1>11
  <2> DEFINE R == Range(v.order)
  <2> HIDE DEF R
  <2>3. R = S \union {n}
    BY <1>6 DEF R
  <2>4. /\ Listing(E, v.order, R) /\ v.ready = {m \in N \ R : Above(E, m) \subseteq R}
        /\ \A m \in N : v.indegree[m] = Cardinality(Above(E, m) \ R)
        /\ \A m \in N : Behind(E, v.level, R, m)
    BY <1>8, <1>10, <2>1, <2>2, <2>3
  <2> QED BY <2>4 DEF Counting, R
<1> QED BY <1>4, <1>12, <1>13 DEF v

\* The loop stops when nothing is ready: then it has counted every node.
LEMMA KahnStops ==
    ASSUME NEW N, NEW E, IsGraph(N, E), NEW w \in KahnType(N), Counting(N, E, w), w.ready = {}
    PROVE  Range(w.order) = N
<1> DEFINE S == Range(w.order)
<1>1. S \subseteq N
  BY LenProperties DEF KahnType, Range
<1>2. {n \in N \ S : Above(E, n) \subseteq S} = {}
  BY DEF Counting
<1> HIDE DEF S
<1> SUFFICES ASSUME N \ S # {} PROVE FALSE
  BY <1>1 DEF S
<1>3. PICK n \in N \ S : \A m \in N \ S : n <= m
  BY LeastElement DEF IsGraph
<1>4. \A p \in Above(E, n) : p \in N /\ p < n /\ p \in Nat /\ n \in Nat
  BY FewParents DEF IsGraph
<1>5. Above(E, n) \subseteq S
  BY <1>3, <1>4
<1> QED BY <1>2, <1>5

\* The loop counts every node after its parents, within as many turns as
\* there are nodes.
LEMMA KahnSorts ==
    ASSUME NEW N, NEW E, IsGraph(N, E), IsFiniteSet(N)
    PROVE  LET w == Kahn(N, E) IN
           w \in KahnType(N) /\ Counting(N, E, w) /\ Range(w.order) = N
<1> DEFINE T == KahnType(N)
<1> DEFINE G == {w \in T : Counting(N, E, w)}
<1> DEFINE turns == Cardinality(N)
<1> DEFINE init == KahnStart(N, E)
<1> DEFINE turned == [w \in G |-> IF w.ready = {} THEN w ELSE KahnTurn(E, w)]
<1> DEFINE next == [k \in 1..turns |-> turned]
<1> DEFINE Body(f) == [k \in 0..turns |->
                        IF k = 0 THEN init
                        ELSE IF f[k - 1].ready = {} THEN f[k - 1]
                        ELSE KahnTurn(E, f[k - 1])]
<1>1. turns \in Nat /\ init \in G /\ Len(init.order) = 0
  BY FS_CardinalityType, KahnBegins
<1>2. turned \in [G -> G] /\ \A w \in G : w.ready # {} => Len(turned[w].order) = Len(w.order) + 1
  <2> SUFFICES ASSUME NEW w \in G
               PROVE  /\ turned[w] \in G
                      /\ w.ready # {} => Len(turned[w].order) = Len(w.order) + 1
    OBVIOUS
  <2>1. CASE w.ready = {}
    BY <2>1
  <2>2. CASE w.ready # {}
    <3>1. turned[w] = KahnTurn(E, w) /\ w \in KahnType(N) /\ Counting(N, E, w)
      BY <2>2
    <3> HIDE DEF turned
    <3> QED BY <2>2, <3>1, KahnKeeps
  <2> QED BY <2>1, <2>2
<1>3. PICK f \in [0..turns -> G] : Runs(f, turns, init, next)
  <2> HIDE DEF G, turns, init, turned
  <2>1. next \in [1..turns -> [G -> G]]
    BY <1>2
  <2> HIDE DEF next
  <2> QED BY <1>1, <2>1, LoopRuns
<1>4. f = Body(f)
  <2> SUFFICES ASSUME NEW k \in 0..turns PROVE f[k] = Body(f)[k]
    BY <1>3
  <2>1. CASE k = 0
    BY <1>3, <2>1 DEF Runs
  <2>2. CASE k # 0
    <3>1. k - 1 \in 0..turns /\ f[k - 1] \in G
      BY <1>1, <1>3, <2>2
    <3>2. next[k] = turned
      BY <1>1, <2>2
    <3> HIDE DEF next
    <3>3. f[k] = next[k][f[k - 1]]
      BY <1>3, <2>2 DEF Runs
    <3> QED BY <2>2, <3>1, <3>2, <3>3
  <2> QED BY <2>1, <2>2
<1> DEFINE walk == CHOOSE g : g = Body(g)
<1>5. walk = Body(walk)
  BY <1>4
<1>6. Kahn(N, E) = walk[turns]
  BY DEF Kahn
<1> HIDE DEF turns, init, turned
<1> DEFINE Good == {k \in 0..turns :
            walk[k] \in G /\ (walk[k].ready = {} \/ Len(walk[k].order) = k)}
<1>7. 0 \in Good
  <2>1. 0 \in 0..turns
    BY <1>1
  <2> HIDE DEF walk
  <2>2. walk[0] = init
    BY <1>5, <2>1
  <2> QED BY <1>1, <2>1, <2>2
<1>8. ASSUME NEW k \in 0..turns, k \in Good, k < turns PROVE k + 1 \in Good
  <2>1. k + 1 \in 0..turns /\ k + 1 # 0 /\ (k + 1) - 1 = k
    BY <1>1, <1>8
  <2> DEFINE w == walk[k]
  <2> DEFINE v == walk[k + 1]
  <2>2. v = IF w.ready = {} THEN w ELSE KahnTurn(E, w)
    <3> HIDE DEF walk
    <3>1. walk[k + 1] = Body(walk)[k + 1]
      BY <1>5
    <3> QED BY <2>1, <3>1
  <2>3. w \in G /\ (w.ready = {} \/ Len(w.order) = k)
    BY <1>8
  <2> HIDE DEF walk, w, v, G
  <2>4. v = turned[w]
    BY <2>2, <2>3 DEF turned
  <2>5. v \in G /\ (w.ready # {} => Len(v.order) = Len(w.order) + 1) /\ (w.ready = {} => v = w)
    BY <1>2, <2>2, <2>3, <2>4
  <2> QED BY <2>1, <2>3, <2>5 DEF v
<1> HIDE DEF Good, walk, G
<1>9. \A k \in 0..turns : k \in Good
  BY <1>1, <1>7, <1>8, Inductively
<1>10. turns \in Good
  BY <1>1, <1>9
<1> DEFINE w == walk[turns]
<1>11. w \in G /\ (w.ready = {} \/ Len(w.order) = turns)
  BY <1>10 DEF Good
<1> HIDE DEF w
<1>12. w \in KahnType(N) /\ Counting(N, E, w) /\ w.order \in Seq(N)
  BY <1>11 DEF G, KahnType
<1>13. CASE w.ready = {}
  BY <1>6, <1>12, <1>13, KahnStops DEF w
<1>14. CASE Len(w.order) = turns
  <2> DEFINE S == Range(w.order)
  <2> DEFINE o == w.order
  <2>1. Listing(E, o, S)
    BY <1>12 DEF Counting
  <2> HIDE DEF S
  <2>2. IsFiniteSet(S) /\ Len(o) = Cardinality(S)
    BY <1>12, <2>1, ListIsLong DEF Listing
  <2>3. S \subseteq N
    BY <1>12, LenProperties DEF Range, S
  <2>4. S = N
    BY <1>14, <2>2, <2>3, FS_Subset DEF turns
  <2> QED BY <1>6, <1>12, <2>4 DEF w, S
<1> QED BY <1>11, <1>13, <1>14

\* The columns of the explorer are the longest paths in any acyclic graph,
\* however the rows are ordered: also when nodes come that only edges name.
THEOREM ColumnsAreRight ==
    ASSUME NEW N, NEW E, IsFiniteSet(N), IsGraph(N \union Ends(E), E)
    PROVE  LET level == Levels(N, E) IN
           level \in [N \union Ends(E) -> Nat] /\ LongestPaths(level, E)
<1> DEFINE M == N \union Ends(E)
<1> DEFINE w == Kahn(M, E)
<1> DEFINE level == w.level
<1>1. IsFiniteSet(M)
  <2> DEFINE C == {e[1] : e \in E}
  <2> DEFINE P == {e[2] : e \in E}
  <2>1. [e \in E |-> e[1]] \in Surjection(E, C) /\ [e \in E |-> e[2]] \in Surjection(E, P)
    BY DEF Surjection
  <2>2. M = N \union (C \union P)
    BY DEF Ends
  <2> HIDE DEF C, P, M
  <2>3. IsFiniteSet(C) /\ IsFiniteSet(P)
    BY <2>1, FS_Surjection DEF IsGraph
  <2> QED BY <2>2, <2>3, FS_Union
<1> HIDE DEF M
<1>2. w \in KahnType(M) /\ Counting(M, E, w) /\ Range(w.order) = M
  BY <1>1, KahnSorts DEF M
<1>3. Levels(N, E) = level
  BY DEF Levels, M
<1> HIDE DEF w
<1>4. level \in [M -> Nat] /\ \A n \in M : Behind(E, level, M, n)
  BY <1>2 DEF KahnType, Counting
<1> HIDE DEF level
<1>5. ASSUME NEW n \in M
      PROVE  level[n] = IF Above(E, n) = {} THEN 0 ELSE 1 + Max({level[p] : p \in Above(E, n)})
  <2> DEFINE L == {level[p] : p \in Above(E, n)}
  <2>1. Above(E, n) \intersect M = Above(E, n) /\ \A p \in Above(E, n) : level[p] \in Nat
    BY <1>4, FewParents DEF M
  <2>2. /\ \A p \in Above(E, n) : level[p] < level[n]
        /\ level[n] = 0 \/ \E p \in Above(E, n) : level[n] = level[p] + 1
    BY <1>4, <2>1 DEF Behind
  <2>3. CASE Above(E, n) # {}
    <3>1. PICK p \in Above(E, n) : level[n] = level[p] + 1
      BY <1>4, <2>1, <2>2, <2>3
    <3>2. level[p] \in L /\ \A x \in L : level[p] >= x /\ x \in Nat
      BY <1>4, <2>1, <2>2, <3>1
    <3>3. \A y \in L : (\A x \in L : y >= x) => y = level[p]
      BY <2>1, <3>2
    <3> HIDE DEF L
    <3>4. Max(L) = level[p]
      BY <3>2, <3>3 DEF Max
    <3> QED BY <2>1, <2>3, <3>1, <3>4 DEF L
  <2> QED BY <2>2, <2>3
<1> QED BY <1>3, <1>4, <1>5 DEF LongestPaths, M

\* What a prune of t takes: every set with nodes all of whose parents go too.
LEMMA DoomedAre ==
    ASSUME NEW region, NEW above, NEW t \in region
    PROVE  LET D == UNION {S \in SUBSET region : \A d \in S \ {t} : above[d] \subseteq S}
           IN  D \subseteq region /\ \A n \in region : n \in D <=> n = t \/ above[n] \subseteq D
<1> DEFINE D == UNION {S \in SUBSET region : \A d \in S \ {t} : above[d] \subseteq S}
<1> DEFINE F == {S \in SUBSET region : \A d \in S \ {t} : above[d] \subseteq S}
<1>1. D \subseteq region /\ {t} \in F
  OBVIOUS
<1>2. ASSUME NEW n \in D, n # t PROVE above[n] \subseteq D
  <2>1. PICK S \in F : n \in S
    OBVIOUS
  <2>2. above[n] \subseteq S
    BY <1>2, <2>1
  <2> QED BY <2>2
<1>3. ASSUME NEW n \in region, above[n] \subseteq D PROVE n \in D
  <2>1. D \union {n} \in F
    BY <1>1, <1>2, <1>3
  <2> QED BY <2>1
<1> QED BY <1>1, <1>2, <1>3

\* A prune deletes the target and, children first, the nodes that would keep
\* no parent, whatever the region and the edges that are left of it.
THEOREM PruneListIsRight ==
    ASSUME NEW region, IsFiniteSet(region), NEW above, NEW t \in region,
           IsGraph(region, {e \in region \X region : e[2] \in above[e[1]]})
    PROVE  LET doomed == UNION {S \in SUBSET region : \A d \in S \ {t} : above[d] \subseteq S}
           IN  ListsInOrder(PruneList(region, above, t), doomed,
                            {e \in region \X region : e[1] \in above[e[2]]})
<1> DEFINE E == {e \in region \X region : e[2] \in above[e[1]]}
<1> DEFINE D == UNION {S \in SUBSET region : \A d \in S \ {t} : above[d] \subseteq S}
<1> DEFINE o == Kahn(region, E).order
<1> DEFINE m == Len(o)
<1> DEFINE T == Seq(region)
<1> DEFINE Falls(n, doomed) == n = t \/ above[n] \subseteq doomed
<1> DEFINE Put(k, l) == IF Falls(o[k], Range(l)) THEN <<o[k]>> \o l ELSE l
<1> DEFINE next == [k \in 1..m |-> [l \in T |-> Put(k, l)]]
<1> DEFINE Body(f) == [k \in 0..m |-> IF k = 0 THEN <<>>
                        ELSE IF Falls(o[k], Range(f[k - 1])) THEN <<o[k]>> \o f[k - 1]
                        ELSE f[k - 1]]
<1>1. D \subseteq region /\ \A n \in region : n \in D <=> n = t \/ above[n] \subseteq D
  BY DoomedAre
<1>2. o \in Seq(region) /\ Listing(E, o, region)
  <2> DEFINE w == Kahn(region, E)
  <2>1. w \in KahnType(region) /\ Counting(region, E, w) /\ Range(w.order) = region
    BY KahnSorts
  <2> HIDE DEF w, E
  <2> QED BY <2>1 DEF KahnType, Counting, w
<1>3. ASSUME NEW n \in region, NEW p \in region, p \in above[n] PROVE p \in Above(E, n)
  <2>1. <<n, p>> \in E
    BY <1>3
  <2> HIDE DEF E
  <2> QED BY <2>1 DEF Above
<1>4. PruneList(region, above, t) = (CHOOSE g : g = Body(g))[m]
  BY DEF PruneList
<1> HIDE DEF E, D, o
<1>5. m \in Nat /\ (\A k \in 1..m : o[k] \in region) /\ <<>> \in T
  BY <1>2, LenProperties
<1> HIDE DEF m
<1>6. ASSUME NEW k \in 1..m, NEW l \in T
      PROVE  /\ <<o[k]>> \o l \in T /\ Len(<<o[k]>> \o l) = Len(l) + 1 /\ Len(l) \in Nat
             /\ (<<o[k]>> \o l)[1] = o[k] /\ \A i \in 1..Len(l) : (<<o[k]>> \o l)[i + 1] = l[i]
  BY <1>5, ConcatProperties, LenProperties
<1>7. next \in [1..m -> [T -> T]]
  BY <1>6
<1>8. PICK f \in [0..m -> T] : Runs(f, m, <<>>, next)
  <2> HIDE DEF T, next
  <2> QED BY <1>5, <1>7, LoopRuns
<1>9. f = Body(f)
  <2> SUFFICES ASSUME NEW k \in 0..m PROVE f[k] = Body(f)[k]
    BY <1>8
  <2>1. CASE k = 0
    BY <1>8, <2>1 DEF Runs
  <2>2. CASE k # 0
    <3>1. k \in 1..m /\ k - 1 \in 0..m /\ f[k - 1] \in T
      BY <1>5, <1>8, <2>2
    <3>2. next[k][f[k - 1]] = Put(k, f[k - 1])
      BY <3>1
    <3> HIDE DEF next
    <3>3. f[k] = next[k][f[k - 1]]
      BY <1>8, <2>2 DEF Runs
    <3> QED BY <2>2, <3>2, <3>3
  <2> QED BY <2>1, <2>2
<1> DEFINE list == CHOOSE g : g = Body(g)
<1>10. list = Body(list)
  BY <1>9
<1> HIDE DEF list, next
<1> DEFINE Lists(k, l) ==
         /\ l \in T /\ Range(l) = {o[i] : i \in {j \in 1..k : o[j] \in D}}
         /\ \A a, b \in 1..Len(l), i, j \in 1..m : a < b /\ l[a] = o[i] /\ l[b] = o[j] => j < i
<1> DEFINE Good == {k \in 0..m : Lists(k, list[k])}
<1>11. 0 \in Good
  <2>1. list[0] = <<>> /\ 0 \in 0..m
    BY <1>5, <1>10
  <2>2. Range(<<>>) = {} /\ 1..0 = {} /\ Len(<<>>) = 0
    BY DEF Range
  <2>3. {o[i] : i \in {j \in 1..0 : o[j] \in D}} = {}
    BY <2>2
  <2> QED BY <1>5, <2>1, <2>2, <2>3
<1>12. ASSUME NEW k \in 0..m, k \in Good, k < m PROVE k + 1 \in Good
  <2> DEFINE l == list[k]
  <2> DEFINE v == list[k + 1]
  <2> DEFINE n == o[k + 1]
  <2>1. k + 1 \in 1..m /\ k + 1 \in 0..m /\ (k + 1) - 1 = k /\ k \in Nat
    BY <1>5, <1>12
  <2>2. v = IF Falls(n, Range(l)) THEN <<n>> \o l ELSE l
    <3>1. list[k + 1] = Body(list)[k + 1]
      BY <1>10
    <3> QED BY <2>1, <3>1
  <2>3. Lists(k, l)
    BY <1>12
  <2> HIDE DEF l, v, Good, list
  <2>4. n \in region /\ \A i \in 1..m : o[i] = n => i = k + 1
    BY <1>2, <1>5, <2>1 DEF Listing, m
  <2>5. Falls(n, Range(l)) <=> n \in D
    <3>1. Range(l) \subseteq D
      BY <2>3
    <3>2. ASSUME NEW p \in above[n], p \in D PROVE p \in Range(l)
      <4>1. p \in Above(E, n)
        BY <1>1, <1>3, <2>4, <3>2
      <4>2. PICK i \in 1..(k + 1) - 1 : o[i] = p
        BY <1>2, <2>1, <4>1 DEF Listing, m
      <4> QED BY <2>1, <2>3, <3>2, <4>2
    <3> QED BY <1>1, <2>4, <3>1, <3>2
  <2>6. CASE n \notin D
    <3>1. \A i \in 1..k + 1 : o[i] \in D => i \in 1..k
      BY <2>1, <2>6
    <3>2. \A i \in 1..k : i \in 1..k + 1
      BY <2>1
    <3>3. {o[i] : i \in {j \in 1..k + 1 : o[j] \in D}} = {o[i] : i \in {j \in 1..k : o[j] \in D}}
      BY <3>1, <3>2
    <3> QED BY <2>1, <2>2, <2>3, <2>5, <2>6, <3>3 DEF Good, v
  <2>7. CASE n \in D
    <3>1. v = <<n>> \o l
      BY <2>2, <2>5, <2>7
    <3>2. /\ v \in T /\ Len(v) = Len(l) + 1 /\ Len(l) \in Nat /\ v[1] = n
          /\ \A i \in 1..Len(l) : v[i + 1] = l[i]
      BY <1>6, <2>1, <2>3, <3>1
    <3>3. \A a \in 1..Len(v) : a = 1 \/ (a - 1 \in 1..Len(l) /\ v[a] = l[a - 1])
      BY <3>2
    <3>4. Range(l) = {l[a] : a \in 1..Len(l)} /\ Range(v) = {v[a] : a \in 1..Len(v)}
      BY <2>3, <3>2, LenProperties DEF Range
    <3>5. Range(v) = Range(l) \union {n}
      <4>1. 1 \in 1..Len(v) /\ \A a \in 1..Len(l) : a + 1 \in 1..Len(v)
        BY <3>2
      <4> QED BY <3>2, <3>3, <3>4, <4>1
    <3>6. Range(v) = {o[i] : i \in {j \in 1..k + 1 : o[j] \in D}}
      BY <2>1, <2>3, <2>7, <3>5
    <3>7. ASSUME NEW a \in 1..Len(v), NEW b \in 1..Len(v), NEW i \in 1..m, NEW j \in 1..m,
                 a < b, v[a] = o[i], v[b] = o[j]
          PROVE  j < i
      <4>1. b - 1 \in 1..Len(l) /\ v[b] = l[b - 1]
        BY <3>2, <3>3, <3>7
      <4>2. CASE a = 1
        <5>1. i = k + 1
          BY <2>4, <3>2, <3>7, <4>2
        <5>2. PICK h \in 1..k : o[h] = o[j]
          <6>1. o[j] \in Range(l)
            BY <3>4, <3>7, <4>1
          <6> QED BY <2>3, <6>1
        <5>3. h \in 1..m /\ h < i
          BY <1>5, <2>1, <5>1
        <5>4. h = j
          BY <1>2, <5>2, <5>3 DEF Listing, m
        <5> QED BY <5>3, <5>4
      <4>3. CASE a # 1
        <5>1. a - 1 \in 1..Len(l) /\ v[a] = l[a - 1] /\ a - 1 < b - 1
          BY <3>2, <3>3, <3>7, <4>3
        <5> QED BY <2>3, <3>7, <4>1, <5>1
      <4> QED BY <4>2, <4>3
    <3> QED BY <2>1, <3>2, <3>6, <3>7 DEF Good, v
  <2> QED BY <2>6, <2>7
<1> HIDE DEF Good
<1>13. \A k \in 0..m : k \in Good
  BY <1>5, <1>11, <1>12, Inductively
<1> DEFINE l == list[m]
<1>14. Lists(m, l)
  <2>1. m \in Good
    BY <1>5, <1>13
  <2> QED BY <2>1 DEF Good
<1> HIDE DEF l
<1>15. Len(l) \in Nat /\ Range(l) = {l[a] : a \in 1..Len(l)}
  BY <1>14, LenProperties DEF Range
<1>16. \A a \in 1..Len(l) : l[a] \in D /\ \E i \in 1..m : l[a] = o[i]
  BY <1>14, <1>15
<1>17. \A d \in D : \E a \in 1..Len(l) : l[a] = d
  <2> SUFFICES ASSUME NEW d \in D PROVE d \in Range(l)
    BY <1>15
  <2>1. PICK i \in 1..m : o[i] = d
    BY <1>1, <1>2 DEF Listing, m
  <2> QED BY <1>14, <2>1
<1>18. ASSUME NEW a \in 1..Len(l), NEW b \in 1..Len(l), l[a] = l[b] PROVE a = b
  <2>1. PICK i \in 1..m : l[a] = o[i] /\ l[b] = o[i]
    BY <1>16, <1>18
  <2>2. ~(i < i) /\ (a < b \/ b < a \/ a = b)
    BY <1>5, <1>15
  <2> QED BY <1>14, <2>1, <2>2
<1>19. Range(l) = D /\ Len(l) = Cardinality(D)
  BY <1>14, <1>16, <1>17, <1>18, ListIsLong
<1>20. ASSUME NEW a \in 1..Len(l), NEW b \in 1..Len(l), l[a] \in above[l[b]] PROVE b < a
  <2>1. PICK i \in 1..m, j \in 1..m : l[a] = o[i] /\ l[b] = o[j]
    BY <1>16
  <2>2. l[a] \in Above(E, o[j])
    BY <1>3, <1>5, <1>20, <2>1
  <2>3. PICK h \in 1..j - 1 : o[h] = l[a]
    BY <1>2, <2>2 DEF Listing, m
  <2>4. h \in 1..m /\ h < j
    BY <1>5
  <2>5. i = h
    BY <1>2, <2>1, <2>3, <2>4 DEF Listing, m
  <2>6. ~(j < i) /\ i # j /\ (a < b \/ b < a \/ a = b)
    BY <1>15, <2>4, <2>5
  <2>7. a # b
    BY <1>2, <2>1, <2>6 DEF Listing, m
  <2> QED BY <1>14, <2>1, <2>6, <2>7
<1>21. ListsInOrder(l, D, {e \in region \X region : e[1] \in above[e[2]]})
  BY <1>19, <1>20 DEF ListsInOrder
<1> QED BY <1>4, <1>21 DEF l, D, list

\* Descendants are a set with the node. (Every closed set holds the least one.)
LEMMA DescendantsAre ==
    ASSUME NEW N, NEW E, E \subseteq N \X N, NEW t \in N
    PROVE  DescendantsIn(N, E, t) \in SUBSET N /\ t \in DescendantsIn(N, E, t)
<1> DEFINE Shut(X) == t \in X /\ \A n \in X : Below(E, n) \subseteq X
<1> DEFINE Least(X) == /\ t \in X
                       /\ \A n \in X : Below(E, n) \subseteq X
                       /\ \A T \in SUBSET X :
                             (t \in T /\ \A n \in T : Below(E, n) \subseteq T) => T = X
<1> DEFINE I == {x \in N : \A X \in SUBSET N : Shut(X) => x \in X}
<1>1. \A n \in N : Below(E, n) \subseteq N
  BY DEF Below
<1>2. I \in SUBSET N /\ Shut(I)
  BY <1>1
<1>3. Least(I)
  BY <1>2
<1> DEFINE C == CHOOSE X \in SUBSET N : Least(X)
<1>4. C \in SUBSET N /\ Least(C)
  <2> HIDE DEF Least, I
  <2> QED BY <1>2, <1>3
<1>5. DescendantsIn(N, E, t) = C
  BY DEF DescendantsIn, Closure
<1> QED BY <1>4, <1>5

-----------------------------------------------------------------------------
(* Programs: sequences of statements.                                      *)

LEMMA FirstOf ==
    ASSUME NEW S, NEW s \in Seq(S), s # <<>>
    PROVE  /\ Head(s) = s[1] /\ Head(s) \in S /\ Tail(s) \in Seq(S)
           /\ Len(s) \in Nat /\ Len(s) >= 1 /\ Len(Tail(s)) = Len(s) - 1
           /\ \A i \in 1..Len(s) - 1 : Tail(s)[i] = s[i + 1]
           /\ Range(s) = {Head(s)} \union Range(Tail(s))
           /\ Range(s) \subseteq S
<1>1. /\ Head(s) = s[1] /\ Head(s) \in S /\ Tail(s) \in Seq(S)
      /\ Len(s) \in Nat /\ Len(s) >= 1 /\ Len(Tail(s)) = Len(s) - 1
  BY EmptySeq, HeadTailProperties
<1>2. \A i \in 1..Len(s) - 1 : Tail(s)[i] = s[i + 1]
  BY <1>1, HeadTailProperties
<1>3. DOMAIN s = 1..Len(s) /\ DOMAIN Tail(s) = 1..Len(s) - 1
  BY <1>1, LenProperties
<1>4. Range(s) \subseteq S
  BY <1>3, ElementOfSeq DEF Range
<1>5. ASSUME NEW x \in Range(s) PROVE x = Head(s) \/ x \in Range(Tail(s))
  <2>1. PICK i \in 1..Len(s) : x = s[i]
    BY <1>3 DEF Range
  <2>2. CASE i # 1
    <3>1. i - 1 \in 1..Len(s) - 1 /\ (i - 1) + 1 = i
      BY <1>1, <2>2
    <3> QED BY <1>2, <1>3, <2>1, <3>1 DEF Range
  <2> QED BY <1>1, <2>1, <2>2
<1>6. ASSUME NEW x \in Range(Tail(s)) PROVE x \in Range(s)
  <2>1. PICK i \in 1..Len(s) - 1 : x = Tail(s)[i]
    BY <1>3 DEF Range
  <2>2. i + 1 \in 1..Len(s)
    BY <1>1
  <2> QED BY <1>2, <1>3, <2>1, <2>2 DEF Range
<1>7. 1 \in 1..Len(s)
  BY <1>1
<1>8. Head(s) \in Range(s)
  BY <1>1, <1>3, <1>7 DEF Range
<1> QED BY <1>1, <1>2, <1>4, <1>5, <1>6, <1>8

\* A statement comes before those after it.
LEMMA SortedTail ==
    ASSUME NEW s \in Seq(StatementType), s # <<>>, Sorted(s)
    PROVE  Sorted(Tail(s)) /\ \A x \in Range(Tail(s)) : Before(Head(s).do, x.do)
<1>1. /\ Head(s) = s[1] /\ Tail(s) \in Seq(StatementType)
      /\ Len(s) \in Nat /\ Len(s) >= 1 /\ Len(Tail(s)) = Len(s) - 1
      /\ \A i \in 1..Len(s) - 1 : Tail(s)[i] = s[i + 1]
  BY FirstOf
<1>2. Sorted(Tail(s))
  <2> SUFFICES ASSUME NEW i \in 1..Len(s) - 1, NEW j \in 1..Len(s) - 1, i < j
               PROVE  Before(Tail(s)[i].do, Tail(s)[j].do)
    BY <1>1 DEF Sorted
  <2>1. i + 1 \in 1..Len(s) /\ j + 1 \in 1..Len(s) /\ i + 1 < j + 1
    BY <1>1
  <2>2. Before(s[i + 1].do, s[j + 1].do)
    BY <2>1 DEF Sorted
  <2> QED BY <1>1, <2>2
<1>3. ASSUME NEW x \in Range(Tail(s)) PROVE Before(Head(s).do, x.do)
  <2>1. PICK i \in 1..Len(s) - 1 : x = Tail(s)[i]
    BY <1>1, LenProperties DEF Range
  <2>2. 1 \in 1..Len(s) /\ i + 1 \in 1..Len(s) /\ 1 < i + 1
    BY <1>1
  <2>3. Before(s[1].do, s[i + 1].do)
    BY <2>2 DEF Sorted
  <2> QED BY <1>1, <2>1, <2>3
<1> QED BY <1>2, <1>3

\* Two programs, one after the other.
LEMMA Joining ==
    ASSUME NEW s \in Seq(StatementType), NEW t \in Seq(StatementType), Sorted(s), Sorted(t),
           \A x \in Range(s), y \in Range(t) : Before(x.do, y.do)
    PROVE  /\ s \o t \in Seq(StatementType) /\ Sorted(s \o t)
           /\ Range(s \o t) = Range(s) \union Range(t)
           /\ s # <<>> => s \o t # <<>> /\ Head(s \o t) = Head(s)
<1> DEFINE u == s \o t
<1>1. /\ u \in Seq(StatementType) /\ Len(s) \in Nat /\ Len(t) \in Nat
      /\ Len(u) = Len(s) + Len(t)
      /\ \A i \in 1..Len(s) + Len(t) : u[i] = IF i <= Len(s) THEN s[i] ELSE t[i - Len(s)]
  BY ConcatProperties, LenProperties
<1> HIDE DEF u
<1>2. DOMAIN s = 1..Len(s) /\ DOMAIN t = 1..Len(t) /\ DOMAIN u = 1..Len(u)
  BY <1>1, LenProperties
<1>3. \A i \in 1..Len(u) :
         \/ i \in 1..Len(s) /\ u[i] = s[i]
         \/ i - Len(s) \in 1..Len(t) /\ u[i] = t[i - Len(s)] /\ i > Len(s)
  BY <1>1
<1>4. /\ \A i \in 1..Len(s) : i \in 1..Len(u) /\ u[i] = s[i]
      /\ \A i \in 1..Len(t) : i + Len(s) \in 1..Len(u) /\ u[i + Len(s)] = t[i]
  <2>1. ASSUME NEW i \in 1..Len(s) PROVE i \in 1..Len(u) /\ u[i] = s[i]
    BY <1>1
  <2>2. ASSUME NEW i \in 1..Len(t) PROVE i + Len(s) \in 1..Len(u) /\ u[i + Len(s)] = t[i]
    <3>1. /\ i + Len(s) \in 1..Len(s) + Len(t) /\ ~(i + Len(s) <= Len(s))
          /\ (i + Len(s)) - Len(s) = i
      BY <1>1
    <3> QED BY <1>1, <3>1
  <2> QED BY <2>1, <2>2
<1>5. Range(u) = Range(s) \union Range(t)
  <2>1. ASSUME NEW x \in Range(u) PROVE x \in Range(s) \union Range(t)
    <3>1. PICK i \in 1..Len(u) : x = u[i]
      BY <1>2 DEF Range
    <3> QED BY <1>2, <1>3, <3>1 DEF Range
  <2>2. ASSUME NEW x \in Range(s) \union Range(t) PROVE x \in Range(u)
    BY <1>2, <1>4, <2>2 DEF Range
  <2> QED BY <2>1, <2>2
<1>6. Sorted(u)
  <2> SUFFICES ASSUME NEW i \in 1..Len(u), NEW j \in 1..Len(u), i < j
               PROVE  Before(u[i].do, u[j].do)
    BY DEF Sorted
  <2>1. CASE i \in 1..Len(s) /\ j \in 1..Len(s)
    BY <1>4, <2>1 DEF Sorted
  <2>2. CASE i \in 1..Len(s) /\ j > Len(s)
    <3>1. u[i] = s[i] /\ j - Len(s) \in 1..Len(t) /\ u[j] = t[j - Len(s)]
      BY <1>1, <1>3, <1>4, <2>2
    <3>2. u[i] \in Range(s) /\ u[j] \in Range(t)
      BY <1>2, <2>2, <3>1 DEF Range
    <3> QED BY <3>2
  <2>3. CASE i > Len(s) /\ j > Len(s)
    <3>1. /\ i - Len(s) \in 1..Len(t) /\ u[i] = t[i - Len(s)]
          /\ j - Len(s) \in 1..Len(t) /\ u[j] = t[j - Len(s)]
      BY <1>1, <1>3, <2>3
    <3>2. i - Len(s) < j - Len(s)
      BY <1>1
    <3> QED BY <3>1, <3>2 DEF Sorted
  <2> QED BY <1>1, <2>1, <2>2, <2>3
<1>7. s # <<>> => u # <<>> /\ Head(u) = Head(s)
  <2> SUFFICES ASSUME s # <<>> PROVE u # <<>> /\ Head(u) = Head(s)
    OBVIOUS
  <2>1. Len(s) >= 1 /\ Head(s) = s[1]
    BY FirstOf
  <2>2. Len(u) >= 1
    BY <1>1, <2>1
  <2>3. u # <<>>
    BY <1>1, <2>2
  <2>4. Head(u) = u[1]
    BY <1>1, <2>3, FirstOf
  <2>5. 1 \in 1..Len(s)
    BY <1>1, <2>1
  <2> QED BY <1>4, <2>1, <2>3, <2>4, <2>5
<1> QED BY <1>1, <1>5, <1>6, <1>7 DEF u

LEMMA OneStatement ==
    ASSUME NEW a \in StatementType
    PROVE  /\ <<a>> \in Seq(StatementType) /\ Sorted(<<a>>) /\ Range(<<a>>) = {a}
           /\ <<a>> # <<>> /\ Head(<<a>>) = a
<1> DEFINE s == <<a>>
<1>1. s \in Seq(StatementType) /\ Len(s) = 1 /\ s[1] = a /\ DOMAIN s = 1..1
  OBVIOUS
<1>2. Head(s) = a /\ s # <<>>
  OBVIOUS
<1> HIDE DEF s
<1>3. Range(s) = {a}
  BY <1>1 DEF Range
<1>4. Sorted(s)
  BY <1>1 DEF Sorted
<1> QED BY <1>1, <1>2, <1>3, <1>4 DEF s

LEMMA TwoStatements ==
    ASSUME NEW a \in StatementType, NEW b \in StatementType, Before(a.do, b.do)
    PROVE  /\ <<a, b>> \in Seq(StatementType) /\ Sorted(<<a, b>>) /\ Range(<<a, b>>) = {a, b}
           /\ <<a, b>> # <<>> /\ Head(<<a, b>>) = a
<1> DEFINE s == <<a, b>>
<1>1. s \in Seq(StatementType) /\ Len(s) = 2 /\ s[1] = a /\ s[2] = b /\ DOMAIN s = 1..2
  OBVIOUS
<1>2. Head(s) = a /\ s # <<>>
  OBVIOUS
<1> HIDE DEF s
<1>3. 1 \in 1..2 /\ 2 \in 1..2 /\ \A i \in 1..2 : i = 1 \/ i = 2
  OBVIOUS
<1>4. Range(s) = {a, b}
  BY <1>1, <1>3 DEF Range
<1>5. Sorted(s)
  <2> SUFFICES ASSUME NEW i \in 1..2, NEW j \in 1..2, i < j PROVE Before(s[i].do, s[j].do)
    BY <1>1 DEF Sorted
  <2>1. i = 1 /\ j = 2
    OBVIOUS
  <2> QED BY <1>1, <2>1
<1> QED BY <1>1, <1>2, <1>4, <1>5 DEF s

LEMMA Programs ==
    /\ Program(<<>>, {})
    /\ \A a \in StatementType : Program(<<a>>, {a})
    /\ \A a, b \in StatementType : Before(a.do, b.do) => Program(<<a, b>>, {a, b})
    /\ \A s, t, R, T : (/\ Program(s, R) /\ Program(t, T)
                        /\ \A x \in R, y \in T : Before(x.do, y.do)) => Program(s \o t, R \union T)
    /\ \A s, R : Program(s, R) /\ R # {} => s # <<>>
<1>1. Program(<<>>, {})
  <2>1. <<>> \in Seq(StatementType) /\ Len(<<>>) = 0 /\ DOMAIN <<>> = {}
    OBVIOUS
  <2>2. Range(<<>>) = {}
    BY <2>1 DEF Range
  <2>3. Sorted(<<>>)
    BY <2>1 DEF Sorted
  <2> QED BY <2>1, <2>2, <2>3 DEF Program
<1>2. \A a \in StatementType : Program(<<a>>, {a})
  BY OneStatement DEF Program
<1>3. \A a, b \in StatementType : Before(a.do, b.do) => Program(<<a, b>>, {a, b})
  BY TwoStatements DEF Program
<1>4. ASSUME NEW s, NEW t, NEW R, NEW T, Program(s, R), Program(t, T),
             \A x \in R, y \in T : Before(x.do, y.do)
      PROVE  Program(s \o t, R \union T)
  BY <1>4, Joining DEF Program
<1>5. ASSUME NEW s, NEW R, Program(s, R), R # {} PROVE s # <<>>
  BY <1>1, <1>5 DEF Program
<1> QED BY <1>1, <1>2, <1>3, <1>4, <1>5

LEMMA Doing ==
    ASSUME NEW k \in Kinds, NEW on \in SUBSET Id
    PROVE  Do(k, on) \in StatementType /\ Do(k, on).do = k /\ Do(k, on).on = on
BY DEF Do, StatementType

LEMMA Ranks ==
    /\ Rank("select") = 0 /\ Rank("all") = 0 /\ Rank("copy") = 0
    /\ Rank("term") = 1
    /\ Rank("edges") = 2 /\ Rank("sift") = 2
    /\ Rank("values") = 3
    /\ Rank("exists") = 4
    /\ Rank("newest") = 5 /\ Rank("closure") = 5 /\ Rank("kids") = 5
    /\ Rank("row") = 6
    /\ Rank("links") = 7 /\ Rank("parents") = 7
    /\ Rank("rows") = 8
    /\ Rank("relink") = 9
    /\ Rank("again") = 10
    /\ Rank("entries") = 11 /\ Rank("files") = 11
    /\ Rank("bytes") = 12
BY DEF Rank

LEMMA ReadsOf ==
    ASSUME NEW n \in Id
    PROVE  Program(Get(n), ReadsOne(n)) /\ Program(NodeDetail(n), ReadsDetail(n))
<1> DEFINE r == Do("row", {n})
<1> DEFINE l == Do("links", {n})
<1> DEFINE f == Do("files", {n})
<1> DEFINE e == Do("entries", {n})
<1>1. /\ r \in StatementType /\ l \in StatementType /\ f \in StatementType /\ e \in StatementType
      /\ r.do = "row" /\ l.do = "links" /\ f.do = "files" /\ e.do = "entries"
  BY DEF Do, StatementType, Kinds
<1>2. Get(n) = <<r, l>> /\ NodeDetail(n) = Get(n) \o <<f, e>>
  BY DEF Get, NodeDetail
<1>3. ReadsOne(n) = {r, l} /\ ReadsDetail(n) = {r, l} \union {f, e}
  BY DEF ReadsOne, ReadsDetail
<1> HIDE DEF r, l, f, e
<1>4. Before(r.do, l.do) /\ Before(f.do, e.do)
  BY <1>1, Ranks DEF Before
<1>5. Program(<<r, l>>, {r, l}) /\ Program(<<f, e>>, {f, e})
  BY <1>1, <1>4, Programs
<1>6. \A x \in {r, l}, y \in {f, e} : Before(x.do, y.do)
  BY <1>1, Ranks DEF Before
<1>7. Program(Get(n) \o <<f, e>>, {r, l} \union {f, e})
  BY <1>2, <1>5, <1>6, Programs
<1> QED BY <1>2, <1>3, <1>5, <1>7

LEMMA PerNodeMakes ==
    ASSUME NEW n \in Id, NEW op \in Loops \union {"diff"}
    PROVE  Program(PerNode(op, n), MakesFor(op, n)) /\ PerNode(op, n) # <<>>
<1>1. Program(NodeDetail(n), ReadsDetail(n)) /\ Program(Get(n), ReadsOne(n))
  BY ReadsOf
<1> DEFINE f == Do("files", {n})
<1> DEFINE e == Do("entries", {n})
<1> DEFINE b == Do("bytes", {n})
<1> DEFINE x == Do("exists", {n})
<1>2. /\ f \in StatementType /\ e \in StatementType /\ b \in StatementType /\ x \in StatementType
      /\ f.do = "files" /\ e.do = "entries" /\ b.do = "bytes" /\ x.do = "exists"
  BY DEF Do, StatementType, Kinds
<1>3. /\ \A s \in ReadsOne(n) : s.do \in {"row", "links"}
      /\ \A s \in ReadsDetail(n) : s.do \in {"row", "links", "files", "entries"}
  BY DEF ReadsDetail, ReadsOne, Do
<1>4. CASE op \in {"runs", "diff"}
  BY <1>1, <1>4, Programs DEF PerNode, MakesFor, ReadsDetail
<1>5. CASE op = "snapshot"
  <2>1. PerNode(op, n) = NodeDetail(n) \o <<b>> /\ MakesFor(op, n) = ReadsDetail(n) \union {b}
    BY <1>5 DEF PerNode, MakesFor
  <2> HIDE DEF b
  <2>2. \A s \in ReadsDetail(n), t \in {b} : Before(s.do, t.do)
    BY <1>2, <1>3, Ranks DEF Before
  <2>3. Program(<<b>>, {b})
    BY <1>2, Programs
  <2>4. Program(NodeDetail(n) \o <<b>>, ReadsDetail(n) \union {b})
    BY <1>1, <2>2, <2>3, Programs
  <2> QED BY <2>1, <2>4, Programs
<1>6. CASE op = "sidecars"
  <2>1. PerNode(op, n) = Get(n) \o <<e, f>> /\ MakesFor(op, n) = ReadsOne(n) \union {e, f}
    BY <1>6 DEF PerNode, MakesFor, ReadsDetail
  <2> HIDE DEF e, f
  <2>2. \A s \in ReadsOne(n), t \in {e, f} : Before(s.do, t.do)
    BY <1>2, <1>3, Ranks DEF Before
  <2>3. Before(e.do, f.do)
    BY <1>2 DEF Before
  <2>4. Program(<<e, f>>, {e, f})
    BY <1>2, <2>3, Programs
  <2>5. Program(Get(n) \o <<e, f>>, ReadsOne(n) \union {e, f})
    BY <1>1, <2>2, <2>4, Programs
  <2> QED BY <2>1, <2>5, Programs
<1>7. CASE op = "from_parent"
  <2>1. PerNode(op, n) = <<x>> \o <<f, b>> /\ MakesFor(op, n) = {x} \union {f, b}
    BY <1>7 DEF PerNode, MakesFor, ArtifactPaths
  <2> HIDE DEF x, f, b
  <2>2. \A s \in {x}, t \in {f, b} : Before(s.do, t.do)
    BY <1>2, Ranks DEF Before
  <2>3. Before(f.do, b.do)
    BY <1>2, Ranks DEF Before
  <2>4. Program(<<f, b>>, {f, b}) /\ Program(<<x>>, {x})
    BY <1>2, <2>3, Programs
  <2>5. Program(<<x>> \o <<f, b>>, {x} \union {f, b})
    BY <2>2, <2>4, Programs
  <2> QED BY <2>1, <2>5, Programs
<1> QED BY <1>4, <1>5, <1>6, <1>7 DEF Loops

LEMMA Singles ==
    /\ \A K : Steps(<<>>, {}, K)
    /\ \A k \in Kinds, on \in SUBSET Id : Steps(<<Do(k, on)>>, {Do(k, on)}, {k})
    /\ \A k, l \in Kinds, on, at \in SUBSET Id :
          Before(k, l) => Steps(<<Do(k, on), Do(l, at)>>, {Do(k, on), Do(l, at)}, {k, l})
<1>1. ASSUME NEW k \in Kinds, NEW on \in SUBSET Id
      PROVE  Steps(<<Do(k, on)>>, {Do(k, on)}, {k})
  BY Doing, Programs DEF Steps
<1>2. ASSUME NEW k \in Kinds, NEW l \in Kinds, NEW on \in SUBSET Id, NEW at \in SUBSET Id, Before(k, l)
      PROVE  Steps(<<Do(k, on), Do(l, at)>>, {Do(k, on), Do(l, at)}, {k, l})
  BY <1>2, Doing, Programs DEF Steps
<1>3. \A K : Steps(<<>>, {}, K)
  BY Programs DEF Steps
<1> QED BY <1>1, <1>2, <1>3

\* Two programs, when every kind of the first comes before every kind of the
\* second.
LEMMA Chained ==
    \A s, t, R, T, K, L :
        Steps(s, R, K) /\ Steps(t, T, L) /\ Follows(K, L) =>
            Steps(s \o t, R \union T, K \union L) /\ Program(s \o t, R \union T)
<1> SUFFICES ASSUME NEW s, NEW t, NEW R, NEW T, NEW K, NEW L,
                    Steps(s, R, K), Steps(t, T, L), Follows(K, L)
             PROVE  Steps(s \o t, R \union T, K \union L) /\ Program(s \o t, R \union T)
  OBVIOUS
<1>1. \A x \in R, y \in T : Before(x.do, y.do)
  BY DEF Steps, Follows
<1>2. Program(s \o t, R \union T)
  BY <1>1, Programs DEF Steps
<1> QED BY <1>2 DEF Steps

LEMMA ReadsManyMakes ==
    Steps(GetMany(Found), ReadsMany, {"links", "rows"})
<1>1. "links" \in Kinds /\ "rows" \in Kinds /\ Found \in SUBSET Id
  BY DEF Kinds, Found
<1>2. Before("links", "rows")
  BY Ranks DEF Before, Follows
<1>3. Steps(<<Do("links", Found), Do("rows", Found)>>, {Do("links", Found), Do("rows", Found)},
            {"links", "rows"})
  BY <1>1, <1>2, Singles
<1> QED BY <1>3 DEF GetMany, ReadsMany

LEMMA FindMakes ==
    ASSUME NEW f
    PROVE  Steps(Find(f), Finds(f), {"select", "edges", "values"})
<1> DEFINE a == IF f.parents = {} THEN <<>> ELSE <<Do("edges", Found)>>
<1> DEFINE A == IF f.parents = {} THEN {} ELSE {Do("edges", Found)}
<1> DEFINE b == IF f.call = "none" THEN <<>> ELSE <<Do("values", Found)>>
<1> DEFINE B == IF f.call = "none" THEN {} ELSE {Do("values", Found)}
<1>1. /\ "select" \in Kinds /\ "edges" \in Kinds /\ "values" \in Kinds
      /\ Found \in SUBSET Id /\ Id \in SUBSET Id
  BY DEF Kinds, Found
<1>2. Steps(a, A, {"edges"})
  BY <1>1, Singles
<1>3. Steps(b, B, {"values"})
  BY <1>1, Singles
<1>4. Find(f) = (<<Do("select", Id)>> \o a) \o b /\ Finds(f) = ({Do("select", Id)} \union A) \union B
  BY DEF Find, Finds, Sieves
<1> DEFINE c == <<Do("select", Id)>>
<1> DEFINE C == {Do("select", Id)}
<1>5. Steps(c, C, {"select"})
  BY <1>1, Singles
<1> HIDE DEF a, A, b, B, c, C
<1>6. /\ Follows({"select"}, {"edges"})
      /\ Follows({"select"} \union {"edges"}, {"values"})
  BY Ranks DEF Before, Follows
<1>7. Steps(c \o a, C \union A, {"select"} \union {"edges"})
  BY <1>2, <1>5, <1>6, Chained
<1>8. Steps((c \o a) \o b, (C \union A) \union B, ({"select"} \union {"edges"}) \union {"values"})
  BY <1>3, <1>6, <1>7, Chained
<1>9. Find(f) = (c \o a) \o b /\ Finds(f) = (C \union A) \union B
  BY <1>4 DEF c, C
<1> QED BY <1>8, <1>9

LEMMA SearchMakes ==
    ASSUME NEW f
    PROVE  Program(Search(f), Searches(f))
<1> DEFINE a == IF f.equal # {} THEN <<Do("term", Found)>> ELSE <<>>
<1> DEFINE A == IF f.equal # {} THEN {Do("term", Found)} ELSE {}
<1> DEFINE b == IF f.parents = {} THEN <<>> ELSE <<Do("sift", Found), Do("edges", Found)>>
<1> DEFINE B == IF f.parents = {} THEN {} ELSE {Do("sift", Found), Do("edges", Found)}
<1> DEFINE c == IF f.call = "none" THEN <<>> ELSE <<Do("sift", Found), Do("values", Found)>>
<1> DEFINE C == IF f.call = "none" THEN {} ELSE {Do("sift", Found), Do("values", Found)}
<1> DEFINE d == <<Do("all", Id)>>
<1> DEFINE D == {Do("all", Id)}
<1>1. /\ "all" \in Kinds /\ "term" \in Kinds /\ "edges" \in Kinds /\ "values" \in Kinds /\ "sift" \in Kinds
      /\ Found \in SUBSET Id /\ Id \in SUBSET Id
  BY DEF Kinds, Found
<1>2. Before("sift", "edges") /\ Before("sift", "values")
  BY Ranks DEF Before
<1>3. Steps(a, A, {"term"})
  BY <1>1, Singles
<1>4. Steps(b, B, {"sift", "edges"})
  BY <1>1, <1>2, Singles
<1>5. Steps(c, C, {"sift", "values"})
  BY <1>1, <1>2, Singles
<1>6. Steps(d, D, {"all"})
  BY <1>1, Singles
<1>7. Search(f) = ((d \o a) \o b) \o c
  BY DEF Search
<1>8. Searches(f) = ((D \union A) \union B) \union C
  BY DEF Searches, Sieves
<1> HIDE DEF a, A, b, B, c, C, d, D
<1>9. /\ Follows({"all"}, {"term"})
      /\ Follows({"all"} \union {"term"}, {"sift", "edges"})
      /\ Follows(({"all"} \union {"term"}) \union {"sift", "edges"}, {"sift", "values"})
  BY Ranks DEF Before, Follows
<1>10. Steps(d \o a, D \union A, {"all"} \union {"term"})
  BY <1>3, <1>6, <1>9, Chained
<1>11. Steps((d \o a) \o b, (D \union A) \union B, ({"all"} \union {"term"}) \union {"sift", "edges"})
  BY <1>4, <1>9, <1>10, Chained
<1>12. Program(((d \o a) \o b) \o c, ((D \union A) \union B) \union C)
  BY <1>5, <1>9, <1>11, Chained
<1> QED BY <1>7, <1>8, <1>12

\* The statements of each request.
LEMMA StatementsAre ==
    ASSUME NEW op \in Operation, NEW of, NEW f,
           op \in {"lineage", "children", "ancestors", "detail", "diff"} \union Artifacts => of[1] \in Id
    PROVE  /\ Program(Statements(op, of, f), Makes(op, of, f))
           /\ Statements(op, of, f) # <<>>
<1> DEFINE n == of[1]
<1>1. /\ Steps(Find(f), Finds(f), {"select", "edges", "values"})
      /\ Steps(GetMany(Found), ReadsMany, {"links", "rows"})
  BY FindMakes, ReadsManyMakes
<1>2. Found \in SUBSET Id /\ Id \in SUBSET Id
  BY DEF Found
<1>3. CASE op = "find"
  <2>1. Follows({"select", "edges", "values"}, {"links", "rows"})
    BY Ranks DEF Before, Follows
  <2>2. Program(Find(f) \o GetMany(Found), Finds(f) \union ReadsMany)
    BY <1>1, <2>1, Chained
  <2>3. Finds(f) \union ReadsMany # {}
    BY DEF ReadsMany
  <2>4. /\ Statements(op, of, f) = Find(f) \o GetMany(Found)
        /\ Makes(op, of, f) = Finds(f) \union ReadsMany
    BY <1>3 DEF Statements, Makes
  <2> QED BY <2>2, <2>3, <2>4, Programs
<1>4. CASE op = "latest"
  <2>1. Follows({"select", "edges", "values"}, {"newest"})
    BY Ranks DEF Before, Follows
  <2>2. "newest" \in Kinds
    BY DEF Kinds
  <2>3. Steps(<<Do("newest", Found)>>, {Do("newest", Found)}, {"newest"})
    BY <1>2, <2>2, Singles
  <2>5. Program(Find(f) \o <<Do("newest", Found)>>, Finds(f) \union {Do("newest", Found)})
    BY <1>1, <2>1, <2>3, Chained
  <2>6. /\ Statements(op, of, f) = Find(f) \o <<Do("newest", Found)>>
        /\ Makes(op, of, f) = Finds(f) \union {Do("newest", Found)}
    BY <1>4 DEF Statements, Makes
  <2>7. Finds(f) \union {Do("newest", Found)} # {}
    OBVIOUS
  <2> QED BY <2>5, <2>6, <2>7, Programs
<1>5. ASSUME n \in Id
      PROVE  /\ Steps(<<Do("exists", {n}), Do("closure", {n})>>, {Do("exists", {n}), Do("closure", {n})}, {"exists", "closure"})
             /\ Steps(<<Do("exists", {n}), Do("kids", {n})>>, {Do("exists", {n}), Do("kids", {n})}, {"exists", "kids"})
  <2>1. Before("exists", "closure") /\ Before("exists", "kids")
    BY Ranks DEF Before, Follows
  <2>2. "exists" \in Kinds /\ "closure" \in Kinds /\ "kids" \in Kinds /\ {n} \in SUBSET Id
    BY <1>5 DEF Kinds
  <2> HIDE DEF n
  <2> QED BY <2>1, <2>2, Singles
<1>6. CASE op = "lineage"
  <2> DEFINE s == <<Do("exists", {n}), Do("closure", {n})>>
  <2> DEFINE S == {Do("exists", {n}), Do("closure", {n})}
  <2>1. Steps(s, S, {"exists", "closure"})
    BY <1>5, <1>6
  <2>2. Follows({"exists", "closure"}, {"links", "rows"})
    BY Ranks DEF Before, Follows
  <2>3. Statements(op, of, f) = s \o GetMany(Found) /\ Makes(op, of, f) = S \union ReadsMany
    BY <1>6 DEF Statements, Makes
  <2>4. S \union ReadsMany # {}
    OBVIOUS
  <2> HIDE DEF s, S
  <2>5. Program(s \o GetMany(Found), S \union ReadsMany)
    BY <1>1, <2>1, <2>2, Chained
  <2> QED BY <2>3, <2>4, <2>5, Programs
<1>7. CASE op = "children"
  <2> DEFINE s == <<Do("exists", {n}), Do("kids", {n})>>
  <2> DEFINE S == {Do("exists", {n}), Do("kids", {n})}
  <2>1. Steps(s, S, {"exists", "kids"})
    BY <1>5, <1>7
  <2>2. Follows({"exists", "kids"}, {"links", "rows"})
    BY Ranks DEF Before, Follows
  <2>3. Statements(op, of, f) = s \o GetMany(Found) /\ Makes(op, of, f) = S \union ReadsMany
    BY <1>7 DEF Statements, Makes
  <2>4. S \union ReadsMany # {}
    OBVIOUS
  <2> HIDE DEF s, S
  <2>5. Program(s \o GetMany(Found), S \union ReadsMany)
    BY <1>1, <2>1, <2>2, Chained
  <2> QED BY <2>3, <2>4, <2>5, Programs
<1>8. CASE op = "ancestors"
  <2> DEFINE s == <<Do("exists", {n}), Do("closure", {n})>>
  <2> DEFINE S == {Do("exists", {n}), Do("closure", {n})}
  <2>1. Steps(s, S, {"exists", "closure"})
    BY <1>5, <1>8
  <2>2. /\ Follows({"select", "edges", "values"}, {"exists", "closure"})
        /\ Follows({"select", "edges", "values"} \union {"exists", "closure"}, {"links", "rows"})
    BY Ranks DEF Before, Follows
  <2>3. /\ Statements(op, of, f) = (Find(f) \o s) \o GetMany(Found)
        /\ Makes(op, of, f) = (Finds(f) \union S) \union ReadsMany
    BY <1>8 DEF Statements, Makes
  <2>4. (Finds(f) \union S) \union ReadsMany # {}
    OBVIOUS
  <2> HIDE DEF s, S
  <2>5. Steps(Find(f) \o s, Finds(f) \union S, {"select", "edges", "values"} \union {"exists", "closure"})
    BY <1>1, <2>1, <2>2, Chained
  <2>6. Program((Find(f) \o s) \o GetMany(Found), (Finds(f) \union S) \union ReadsMany)
    BY <1>1, <2>2, <2>5, Chained
  <2> QED BY <2>3, <2>4, <2>6, Programs
<1>9. CASE op \in {"detail", "diff"}
  <2>1. Statements(op, of, f) = NodeDetail(n) /\ Makes(op, of, f) = ReadsDetail(n)
    BY <1>9 DEF Statements, Makes
  <2>2. Program(NodeDetail(n), ReadsDetail(n))
    BY <1>9, ReadsOf
  <2>3. ReadsDetail(n) # {}
    BY DEF ReadsDetail, ReadsOne
  <2> QED BY <2>1, <2>2, <2>3, Programs
<1>10. CASE op = "page"
  <2> DEFINE s == <<Do("relink", Found), Do("again", Found), Do("entries", Found), Do("files", Found)>>
  <2> DEFINE S == {Do("relink", Found), Do("again", Found), Do("entries", Found), Do("files", Found)}
  <2>1. /\ Follows({"select", "edges", "values"}, {"links", "rows"})
        /\ Follows({"select", "edges", "values"} \union {"links", "rows"}, {"relink", "again"} \union {"entries", "files"})
        /\ Follows({"relink", "again"}, {"entries", "files"})
        /\ Before("relink", "again") /\ Before("entries", "files")
    BY Ranks DEF Before, Follows
  <2>2. "relink" \in Kinds /\ "again" \in Kinds /\ "entries" \in Kinds /\ "files" \in Kinds
    BY DEF Kinds
  <2> DEFINE a == <<Do("relink", Found), Do("again", Found)>>
  <2> DEFINE b == <<Do("entries", Found), Do("files", Found)>>
  <2> DEFINE A == {Do("relink", Found), Do("again", Found)}
  <2> DEFINE B == {Do("entries", Found), Do("files", Found)}
  <2>3. Steps(a, A, {"relink", "again"})
    BY <1>2, <2>1, <2>2, Singles
  <2>4. Steps(b, B, {"entries", "files"})
    BY <1>2, <2>1, <2>2, Singles
  <2>5. s = a \o b /\ S = A \union B
    OBVIOUS
  <2>6. /\ Statements(op, of, f) = (Find(f) \o GetMany(Found)) \o s
        /\ Makes(op, of, f) = (Finds(f) \union ReadsMany) \union S
    BY <1>10 DEF Statements, Makes
  <2>7. (Finds(f) \union ReadsMany) \union S # {}
    OBVIOUS
  <2> HIDE DEF a, b, A, B, s, S
  <2>8. Steps(s, S, {"relink", "again"} \union {"entries", "files"})
    BY <2>1, <2>3, <2>4, <2>5, Chained
  <2>9. Steps(Find(f) \o GetMany(Found), Finds(f) \union ReadsMany, {"select", "edges", "values"} \union {"links", "rows"})
    BY <1>1, <2>1, Chained
  <2>10. Program((Find(f) \o GetMany(Found)) \o s, (Finds(f) \union ReadsMany) \union S)
    BY <2>1, <2>8, <2>9, Chained
  <2> QED BY <2>6, <2>7, <2>10, Programs
<1>11. CASE op = "snapshot"
  <2>1. Follows({"select", "edges", "values"}, {"links", "rows"})
    BY Ranks DEF Before, Follows
  <2>2. Program(Find(f) \o GetMany(Found), Finds(f) \union ReadsMany)
    BY <1>1, <2>1, Chained
  <2>3. Finds(f) \union ReadsMany # {}
    BY DEF ReadsMany
  <2>4. /\ Statements(op, of, f) = Find(f) \o GetMany(Found)
        /\ Makes(op, of, f) = Finds(f) \union ReadsMany
    BY <1>11 DEF Statements, Makes
  <2> QED BY <2>2, <2>3, <2>4, Programs
<1>12. CASE op \in {"runs", "sidecars"}
  <2>1. Statements(op, of, f) = <<Do("all", Id)>> /\ Makes(op, of, f) = {Do("all", Id)}
    BY <1>12 DEF Statements, Makes
  <2>2. "all" \in Kinds
    BY DEF Kinds
  <2> QED BY <1>2, <2>1, <2>2, Singles, Programs DEF Steps
<1>13. CASE op = "search"
  BY <1>13, SearchMakes, Programs DEF Statements, Makes, Searches
<1>14. CASE op = "stats"
  <2>1. /\ Statements(op, of, f) = <<Do("all", Id), Do("files", Id)>>
        /\ Makes(op, of, f) = {Do("all", Id), Do("files", Id)}
    BY <1>14 DEF Statements, Makes, Stats
  <2>2. "all" \in Kinds /\ "files" \in Kinds
    BY DEF Kinds
  <2>3. Before("all", "files")
    BY Ranks DEF Before, Follows
  <2>4. Program(<<Do("all", Id), Do("files", Id)>>, {Do("all", Id), Do("files", Id)})
    BY <1>2, <2>2, <2>3, Singles DEF Steps
  <2> QED BY <2>1, <2>4, Programs
<1>15. CASE op = "backup"
  <2>1. Statements(op, of, f) = <<Do("copy", Id)>> /\ Makes(op, of, f) = {Do("copy", Id)}
    BY <1>15 DEF Statements, Makes
  <2>2. "copy" \in Kinds
    BY DEF Kinds
  <2> QED BY <1>2, <2>1, <2>2, Singles, Programs DEF Steps
<1>16. CASE op = "artifacts"
  <2>1. /\ Statements(op, of, f) = <<Do("files", {n}), Do("bytes", {n})>>
        /\ Makes(op, of, f) = {Do("files", {n}), Do("bytes", {n})}
    BY <1>16 DEF Statements, Makes, ArtifactPaths
  <2>2. "files" \in Kinds /\ "bytes" \in Kinds /\ {n} \in SUBSET Id
    BY <1>16 DEF Kinds, Artifacts
  <2>3. Before("files", "bytes")
    BY Ranks DEF Before, Follows
  <2>4. Program(<<Do("files", {n}), Do("bytes", {n})>>, {Do("files", {n}), Do("bytes", {n})})
    BY <2>2, <2>3, Singles DEF Steps
  <2> QED BY <2>1, <2>4, Programs
<1>17. CASE op = "from_parent"
  <2>1. /\ Statements(op, of, f) = <<Do("row", {n}), Do("parents", {n})>>
        /\ Makes(op, of, f) = {Do("row", {n}), Do("parents", {n})}
    BY <1>17 DEF Statements, Makes, FromParent
  <2>2. "row" \in Kinds /\ "parents" \in Kinds /\ {n} \in SUBSET Id
    BY <1>17 DEF Kinds, Artifacts
  <2>3. Before("row", "parents")
    BY Ranks DEF Before, Follows
  <2>4. Program(<<Do("row", {n}), Do("parents", {n})>>, {Do("row", {n}), Do("parents", {n})})
    BY <2>2, <2>3, Singles DEF Steps
  <2> QED BY <2>1, <2>4, Programs
<1> QED
  BY <1>3, <1>4, <1>6, <1>7, <1>8, <1>9, <1>10, <1>11, <1>12, <1>13, <1>14, <1>15, <1>16, <1>17
  DEF Operation, Details, Wholes, Artifacts

-----------------------------------------------------------------------------
(* A plan stays one.                                                       *)

\* Statements that are not made in this order.
LEMMA Backwards ==
    /\ ~Before("sift", "all")
    /\ \A k \in {"select", "edges", "values", "exists", "closure", "kids"} : ~Before("links", k)
    /\ ~Before("rows", "links") /\ ~Before("relink", "rows") /\ ~Before("again", "relink")
    /\ ~Before("entries", "rows") /\ ~Before("files", "rows")
    /\ ~Before("links", "row") /\ ~Before("parents", "row")
    /\ ~Before("edges", "select") /\ ~Before("edges", "term") /\ ~Before("edges", "all")
    /\ ~Before("values", "select") /\ ~Before("values", "term") /\ ~Before("values", "edges")
    /\ ~Before("values", "all") /\ ~Before("term", "all")
    /\ ~Before("closure", "select") /\ ~Before("closure", "edges") /\ ~Before("closure", "exists") /\ ~Before("kids", "exists")
    /\ ~Before("newest", "select") /\ ~Before("files", "all")
BY Ranks DEF Before

\* Without its first statement, P still leads from k to l.
LEMMA LeadsOn ==
    ASSUME NEW h, NEW T, NEW k, NEW l, \A x \in T : Before(h.do, x.do),
           ~Before(l, k), Leads({h} \union T, k, l)
    PROVE  Leads(T, k, l)
BY DEF Leads, Await

LEMMA PlanGoesOn ==
    ASSUME NEW op, NEW of, NEW f, NEW h, NEW T, NEW W, NEW V,
           \A x \in T : Before(h.do, x.do), Planned(op, of, f, {h} \union T, W),
           \/ V = W
           \/ h.do \in Narrowing
           \/ h.do = "parents" /\ W = {}
    PROVE  Planned(op, of, f, T, V)
<1> DEFINE P == {h} \union T
<1>1. T \subseteq P /\ h \in P
  OBVIOUS
<1>2. \A s \in P : Fits(op, of, f, s)
  BY DEF Planned
<1>3. Reads(op, T)
  <2>1. Reads(op, P)
    BY DEF Planned
  <2>2. op \in Many /\ Some(T, {"select", "edges", "values", "exists", "closure", "kids"}) =>
            Do("links", Found) \in T
    <3> SUFFICES ASSUME op \in Many, NEW s \in T,
                        s.do \in {"select", "edges", "values", "exists", "closure", "kids"}
                 PROVE  Do("links", Found) \in T
      BY DEF Some
    <3>1. Do("links", Found) \in P
      BY <2>1 DEF Reads, Some
    <3>2. h.do # "links"
      BY Backwards
    <3> QED BY <3>1, <3>2 DEF Do
  <2>3. Do("links", Found) \in T => Do("rows", Found) \in T
    <3> SUFFICES ASSUME Do("links", Found) \in T PROVE Do("rows", Found) \in T
      OBVIOUS
    <3>1. Do("rows", Found) \in P
      BY <2>1 DEF Reads
    <3>2. Before(h.do, "links")
      BY DEF Do
    <3>3. h.do # "rows"
      BY <3>2, Backwards
    <3> QED BY <3>1, <3>3 DEF Do
  <2>4. op = "page" =>
            /\ Leads(T, "rows", "relink") /\ Leads(T, "relink", "again")
            /\ Leads(T, "rows", "entries") /\ Leads(T, "rows", "files")
    BY <2>1, LeadsOn, Backwards DEF Reads
  <2>5. \A n \in Id : Do("row", {n}) \in T => Do("links", {n}) \in T \/ Do("parents", {n}) \in T
    <3> SUFFICES ASSUME NEW n \in Id, Do("row", {n}) \in T
                 PROVE  Do("links", {n}) \in T \/ Do("parents", {n}) \in T
      OBVIOUS
    <3>1. Do("links", {n}) \in P \/ Do("parents", {n}) \in P
      BY <2>1 DEF Reads
    <3>2. Before(h.do, "row")
      BY DEF Do
    <3>3. h.do # "links" /\ h.do # "parents"
      BY <3>2, Backwards
    <3> QED BY <3>1, <3>3 DEF Do
  <2> QED BY <2>2, <2>3, <2>4, <2>5 DEF Reads
<1>4. Asks(op, f, T)
  <2>1. Asks(op, f, P)
    BY DEF Planned
  <2>2. f.parents # {} =>
            /\ Leads(T, "select", "edges") /\ Leads(T, "term", "edges")
            /\ op = "search" => Leads(T, "all", "edges")
    BY <2>1, LeadsOn, Backwards DEF Asks
  <2>3. f.call # "none" =>
            /\ Leads(T, "select", "values") /\ Leads(T, "term", "values") /\ Leads(T, "edges", "values")
            /\ op = "search" => Leads(T, "all", "values")
    BY <2>1, LeadsOn, Backwards DEF Asks
  <2>4. op = "search" /\ f.equal # {} => Leads(T, "all", "term")
    BY <2>1, LeadsOn, Backwards DEF Asks
  <2> QED BY <2>2, <2>3, <2>4 DEF Asks
<1>5. Finishes(op, T)
  BY Backwards, LeadsOn DEF Planned, Finishes
<1>6. About(op, T, V)
  <2>1. About(op, P, W)
    BY DEF Planned
  <2>2. op \in {"sidecars", "from_parent"} => \A s, t \in T : s.on = t.on
    BY <2>1 DEF About
  <2>3. op # "stats" =>
            \A s \in T : s.do \in {"row", "entries", "files"} /\ s.on # Found => ~Some(T, Narrowing)
    BY <2>1 DEF About, Some
  <2>4. ASSUME NEW s \in T, s.do \in {"row", "entries", "files"}, op # "stats",
               ~(op = "from_parent" /\ s.do = "row")
        PROVE  s.on \subseteq V
    <3>1. s.on \subseteq W
      BY <2>1, <2>4 DEF About
    <3>2. CASE h.do \in Narrowing
      BY <2>1, <2>4, <3>2 DEF Some, About, Found
    <3> QED BY <3>1, <3>2
  <2>5. op = "from_parent" /\ Await(T, "exists") => ~Await(T, "parents")
    BY <2>1 DEF About, Await
  <2> QED BY <2>2, <2>3, <2>4, <2>5 DEF About
<1> QED BY <1>2, <1>3, <1>4, <1>5, <1>6 DEF Planned

LEMMA NothingPlanned ==
    ASSUME NEW op, NEW of, NEW f, NEW W
    PROVE  Planned(op, of, f, {}, W)
BY DEF Planned, Reads, Asks, Finishes, About, Leads, Await, Some

\* The reads of one node.
LEMMA NodePlanned ==
    ASSUME NEW op \in Loops \union {"diff"}, NEW of, NEW f, NEW W, NEW n \in Id, n \in W
    PROVE  Planned(op, of, f, MakesFor(op, n), W)
<1> DEFINE P == MakesFor(op, n)
<1>1. \A s \in P : s.on = {n} /\ s.do \in {"row", "links", "files", "entries", "bytes", "exists"}
  BY DEF MakesFor, Loops, ReadsDetail, ReadsOne, Do
<1>2. P = MakesFor(op, n)
  OBVIOUS
<1>3. \A s \in P : /\ op \in {"runs", "diff", "sidecars"} => s.do \in {"row", "links", "files", "entries"}
                   /\ op = "snapshot" => s.do \in {"row", "links", "files", "entries", "bytes"}
                   /\ op = "from_parent" => s.do \in {"exists", "files", "bytes"}
  BY DEF MakesFor, ReadsDetail, ReadsOne, Do
<1>4. Do("row", {n}) \in P => Do("links", {n}) \in P
  BY DEF MakesFor, Loops, ReadsDetail, ReadsOne, Do
<1> HIDE DEF P
<1>5. {n} # Found
  BY DEF Found
<1>6. ASSUME NEW s \in P PROVE Fits(op, of, f, s)
  <2>1. s.do \in KindsOf(op)
    BY <1>3, <1>6 DEF KindsOf, Loops
  <2>2. op \notin {"artifacts", "page", "stats"} /\ op \in Gets /\ op \in Loops \union {"diff"}
    BY DEF Loops, Gets
  <2>3. s.do \in {"exists", "closure", "kids"} => op = "from_parent"
    BY <1>3, <1>6 DEF Loops
  <2>4. s.do \notin {"relink", "again", "rows", "term", "sift", "edges", "values"}
    BY <1>1, <1>6
  <2>5. s.do \in {"row", "parents"} => op # "from_parent"
    BY <1>3, <1>6
  <2>6. s.on = {n} /\ s.on # Found
    BY <1>1, <1>5, <1>6
  <2> QED BY <2>1, <2>2, <2>3, <2>4, <2>5, <2>6 DEF Fits
<1>7. Reads(op, P)
  <2>1. ~Some(P, {"select", "edges", "values", "closure", "kids"})
    BY <1>1 DEF Some
  <2>2. op \in Many => op = "snapshot"
    BY DEF Many, Loops
  <2>3. op \in Many => ~Some(P, {"select", "edges", "values", "exists", "closure", "kids"})
    BY <1>3, <2>2 DEF Some
  <2>4. Do("links", Found) \notin P
    BY <1>1, <1>5 DEF Do
  <2>5. op # "page"
    BY DEF Loops
  <2>6. \A m \in Id : Do("row", {m}) \in P => m = n
    BY <1>1 DEF Do
  <2> QED BY <1>4, <2>3, <2>4, <2>5, <2>6 DEF Reads
<1>8. ~Await(P, "select") /\ ~Await(P, "term") /\ ~Await(P, "all") /\ ~Await(P, "edges")
  BY <1>1 DEF Await
<1>9. Asks(op, f, P)
  BY <1>8 DEF Asks, Leads
<1>10. Finishes(op, P)
  BY <1>3 DEF Loops, Await, Finishes, Leads
<1>11. About(op, P, W)
  <2>1. ~Some(P, Narrowing)
    BY <1>1 DEF Some, Narrowing
  <2>2. \A s \in P : s.on \subseteq W
    BY <1>1
  <2>3. \A s, t \in P : s.on = t.on
    BY <1>1
  <2>4. ~Await(P, "parents")
    BY <1>1 DEF Await
  <2> QED BY <2>1, <2>2, <2>3, <2>4 DEF About
<1> QED BY <1>6, <1>7, <1>9, <1>10, <1>11 DEF Planned, P

\* The newest of the ids found.
LEMMA NewestPlanned ==
    ASSUME NEW of, NEW f, NEW W, NEW n \in Id, n \in W
    PROVE  Planned("latest", of, f, ReadsOne(n), W)
<1> DEFINE P == ReadsOne(n)
<1>1. \A s \in P : s.on = {n} /\ s.do \in {"row", "links"}
  BY DEF ReadsOne, Do
<1>2. Do("links", {n}) \in P
  BY DEF ReadsOne
<1> HIDE DEF P
<1>3. {n} # Found
  BY DEF Found
<1>4. ASSUME NEW s \in P PROVE Fits("latest", of, f, s)
  BY <1>1, <1>3, <1>4 DEF KindsOf, Gets, Fits
<1>5. Reads("latest", P)
  <2>1. "latest" \notin Many /\ "latest" # "page"
    BY DEF Many
  <2>2. Do("links", Found) \notin P
    BY <1>1, <1>3 DEF Do
  <2>3. \A m \in Id : Do("row", {m}) \in P => m = n
    BY <1>1 DEF Do
  <2> QED BY <1>2, <2>1, <2>2, <2>3 DEF Reads
<1>6. ~Await(P, "select") /\ ~Await(P, "term") /\ ~Await(P, "all") /\ ~Await(P, "edges")
  BY <1>1 DEF Await
<1>7. Asks("latest", f, P) /\ Finishes("latest", P)
  BY <1>6 DEF Asks, Finishes, Leads
<1>8. About("latest", P, W)
  BY <1>1 DEF Some, Narrowing, About
<1> QED BY <1>4, <1>5, <1>7, <1>8 DEF Planned, P

LEMMA MakesAre ==
    ASSUME NEW op \in Operation, NEW of, NEW f
    PROVE  Makes(op, of, f) = {s \in Makes(op, of, f) : Starts(op, of, f, s)}
           /\ \A s : Starts(op, of, f, s) => s \in Makes(op, of, f)
<1>0. op \in {"find", "latest", "ancestors", "page", "snapshot", "lineage", "children", "detail",
              "diff", "runs", "sidecars", "search", "stats", "backup", "artifacts", "from_parent"}
  BY DEF Operation, Details, Wholes, Artifacts
<1>1. /\ Finding = {"find", "latest", "ancestors", "page", "snapshot"}
      /\ Many = {"find", "lineage", "children", "ancestors", "page", "snapshot"}
      /\ Filtered = {"find", "latest", "ancestors", "page", "snapshot", "search"}
  BY DEF Finding, Many, Filtered
<1>2. SUFFICES \A s : s \in Makes(op, of, f) <=> Starts(op, of, f, s)
  OBVIOUS
<1> SUFFICES ASSUME NEW s PROVE s \in Makes(op, of, f) <=> Starts(op, of, f, s)
  OBVIOUS
<1>3. CASE op = "find"
  BY <1>1, <1>3 DEF Makes, Starts, Finds, Sieves, ReadsMany
<1>4. CASE op = "latest"
  BY <1>1, <1>4 DEF Makes, Starts, Finds, Sieves, ReadsMany
<1>5. CASE op = "ancestors"
  BY <1>1, <1>5 DEF Makes, Starts, Finds, Sieves, ReadsMany
<1>6. CASE op = "page"
  BY <1>1, <1>6 DEF Makes, Starts, Finds, Sieves, ReadsMany
<1>7. CASE op = "snapshot"
  BY <1>1, <1>7 DEF Makes, Starts, Finds, Sieves, ReadsMany
<1>8. CASE op = "lineage"
  BY <1>1, <1>8 DEF Makes, Starts, ReadsMany
<1>9. CASE op = "children"
  BY <1>1, <1>9 DEF Makes, Starts, ReadsMany
<1>10. CASE op \in {"detail", "diff"}
  BY <1>1, <1>10 DEF Makes, Starts
<1>11. CASE op \in {"runs", "sidecars"}
  BY <1>1, <1>11 DEF Makes, Starts
<1>12. CASE op = "search"
  BY <1>1, <1>12 DEF Makes, Starts, Searches, Sieves
<1>13. CASE op \in {"stats", "backup"}
  BY <1>1, <1>13 DEF Makes, Starts
<1>14. CASE op \in {"artifacts", "from_parent"}
  BY <1>1, <1>14 DEF Makes, Starts
<1> QED
  BY <1>0, <1>3, <1>4, <1>5, <1>6, <1>7, <1>8, <1>9, <1>10, <1>11, <1>12, <1>13, <1>14

LEMMA KindsAre ==
    /\ KindsOf("find") = {"select", "edges", "values", "links", "rows"}
    /\ KindsOf("latest") = {"select", "edges", "values", "newest", "row", "links"}
    /\ KindsOf("lineage") = {"exists", "closure", "links", "rows"}
    /\ KindsOf("children") = {"exists", "kids", "links", "rows"}
    /\ KindsOf("ancestors") = {"select", "edges", "values", "exists", "closure", "links", "rows"}
    /\ KindsOf("detail") = {"row", "links", "files", "entries"}
    /\ KindsOf("diff") = {"row", "links", "files", "entries"}
    /\ KindsOf("page") =
          {"select", "edges", "values", "links", "rows", "relink", "again", "entries", "files"}
    /\ KindsOf("snapshot") =
          {"select", "edges", "values", "links", "rows", "row", "files", "entries", "bytes"}
    /\ KindsOf("runs") = {"all", "row", "links", "files", "entries"}
    /\ KindsOf("sidecars") = {"all", "row", "links", "files", "entries"}
    /\ KindsOf("search") = {"all", "term", "sift", "edges", "values"}
    /\ KindsOf("stats") = {"all", "files"}
    /\ KindsOf("backup") = {"copy"}
    /\ KindsOf("artifacts") = {"files", "bytes"}
    /\ KindsOf("from_parent") = {"row", "parents", "exists", "files", "bytes"}
BY DEF KindsOf

LEMMA KindsFor ==
    /\ \A o \in Finding : "select" \in KindsOf(o)
    /\ \A o \in Filtered : "edges" \in KindsOf(o) /\ "values" \in KindsOf(o)
    /\ \A o \in Many : "links" \in KindsOf(o) /\ "rows" \in KindsOf(o)
BY KindsAre DEF Finding, Filtered, Many

LEMMA RequestPlanned ==
    ASSUME NEW op \in Operation, NEW of, NEW f, NEW W,
           op \in {"lineage", "children", "ancestors", "detail", "diff"} \union Artifacts => of[1] \in Id,
           op \in Of => of[1] \in W
    PROVE  Planned(op, of, f, Makes(op, of, f), W)
<1> DEFINE P == Makes(op, of, f)
<1>1. /\ \A s \in P : Starts(op, of, f, s)
      /\ \A s : Starts(op, of, f, s) => s \in P
  BY MakesAre
<1>2. /\ \A k, on : Do(k, on).do = k /\ Do(k, on).on = on
      /\ Found = {}
  BY DEF Do, Found
<1>3. \A n : ReadsDetail(n) = {Do("row", {n}), Do("links", {n}), Do("files", {n}), Do("entries", {n})}
  BY DEF ReadsDetail, ReadsOne
<1> HIDE DEF P
<1>4. /\ Many = {"find", "lineage", "children", "ancestors", "page", "snapshot"}
      /\ Filtered = {"find", "latest", "ancestors", "page", "snapshot", "search"}
      /\ Finding = {"find", "latest", "ancestors", "page", "snapshot"}
      /\ Artifacts = {"artifacts", "from_parent"}
      /\ Gets = {"latest", "detail", "diff", "runs", "sidecars", "snapshot", "from_parent"}
      /\ Of = {"detail", "diff", "artifacts"}
  BY DEF Many, Filtered, Finding, Artifacts, Gets, Of
<1>5. op \in Finding \union Filtered \union Many => op # "artifacts"
  BY <1>4
<1>6. ASSUME NEW s \in P PROVE Fits(op, of, f, s)
  <2>0. Starts(op, of, f, s)
    BY <1>1, <1>6
  <2>1. CASE op \in Finding /\ s = Do("select", Id)
    BY <1>2, <1>5, <2>1, KindsFor DEF Fits
  <2>2. CASE op \in Filtered /\ f.parents # {} /\ s = Do("edges", Found)
    BY <1>2, <1>5, <2>2, KindsFor DEF Fits
  <2>3. CASE op \in Filtered /\ f.call # "none" /\ s = Do("values", Found)
    BY <1>2, <1>5, <2>3, KindsFor DEF Fits
  <2>4. CASE op \in Many /\ s \in {Do("links", Found), Do("rows", Found)}
    BY <1>2, <1>5, <2>4, KindsFor DEF Fits
  <2>5. CASE op = "latest" /\ s = Do("newest", Found)
    BY <1>2, <1>4, <2>5 DEF KindsOf, Fits
  <2>6. CASE \/ op \in {"lineage", "children", "ancestors"} /\ s = Do("exists", {of[1]})
             \/ op \in {"lineage", "ancestors"} /\ s = Do("closure", {of[1]})
             \/ op = "children" /\ s = Do("kids", {of[1]})
    BY <1>2, <1>4, <2>6 DEF KindsOf, Fits
  <2>7. CASE op \in {"detail", "diff"} /\ s \in ReadsDetail(of[1])
    <3> DEFINE n == of[1]
    <3>0. s \in {Do("row", {n}), Do("links", {n}), Do("files", {n}), Do("entries", {n})}
      BY <1>3, <2>7
    <3> HIDE DEF n
    <3>1. s.do \in {"row", "links", "files", "entries"} /\ s.on = {n} /\ s.on # Found
      BY <1>2, <3>0
    <3>2. s.do \in KindsOf(op) /\ op \in Gets /\ op # "from_parent" /\ op \notin {"artifacts", "page", "stats"}
      BY <1>4, <2>7, <3>1 DEF KindsOf
    <3>3. n \in Id
      BY <2>7 DEF n
    <3> QED BY <3>1, <3>2, <3>3 DEF Fits
  <2>8. CASE /\ op = "page"
             /\ s \in {Do("relink", Found), Do("again", Found), Do("entries", Found), Do("files", Found)}
    BY <1>2, <2>8 DEF KindsOf, Fits
  <2>9. CASE op \in {"runs", "sidecars", "search", "stats"} /\ s = Do("all", Id)
    BY <1>2, <2>9 DEF KindsOf, Fits
  <2>10. CASE op = "search" /\ s \in {Do("term", Found), Do("sift", Found)}
    BY <1>2, <2>10 DEF KindsOf, Fits
  <2>11. CASE op = "stats" /\ s = Do("files", Id)
    BY <1>2, <2>11 DEF KindsOf, Fits
  <2>12. CASE op = "backup" /\ s = Do("copy", Id)
    BY <1>2, <2>12 DEF KindsOf, Fits
  <2>13. CASE op = "artifacts" /\ s \in {Do("files", {of[1]}), Do("bytes", {of[1]})}
    BY <1>2, <1>4, <2>13 DEF KindsOf, Fits
  <2>14. CASE op = "from_parent" /\ s \in {Do("row", {of[1]}), Do("parents", {of[1]})}
    BY <1>2, <1>4, <2>14 DEF KindsOf, Fits
  <2> QED
    BY <2>0, <2>1, <2>2, <2>3, <2>4, <2>5, <2>6, <2>7, <2>8, <2>9, <2>10, <2>11, <2>12, <2>13, <2>14
    DEF Starts
<1>7. Reads(op, P)
  <2>1. op \in Many => Do("links", Found) \in P /\ Do("rows", Found) \in P
    BY <1>1 DEF Starts
  <2>2. Do("links", Found) \in P => Do("rows", Found) \in P
    <3> SUFFICES ASSUME Do("links", Found) \in P PROVE op \in Many
      BY <2>1
    <3>1. Fits(op, of, f, Do("links", Found))
      BY <1>6
    <3> QED BY <1>2, <3>1 DEF Fits
  <2>3. op = "page" => {Do("relink", Found), Do("again", Found), Do("entries", Found), Do("files", Found)} \subseteq P
    BY <1>1 DEF Starts
  <2>4. op = "page" => Await(P, "relink") /\ Await(P, "again") /\ Await(P, "entries") /\ Await(P, "files")
    BY <1>2, <2>3 DEF Await
  <2>5. ASSUME NEW n \in Id, Do("row", {n}) \in P
        PROVE  Do("links", {n}) \in P \/ Do("parents", {n}) \in P
    <3>1. Starts(op, of, f, Do("row", {n})) /\ Do("row", {n}).do = "row"
      BY <1>1, <1>2, <2>5
    <3>2. \/ op \in {"detail", "diff"} /\ Do("row", {n}) \in ReadsDetail(of[1])
          \/ op = "from_parent" /\ Do("row", {n}) \in {Do("row", {of[1]}), Do("parents", {of[1]})}
      BY <1>2, <3>1 DEF Starts
    <3>5. ReadsDetail(of[1]) =
              {Do("row", {of[1]}), Do("links", {of[1]}), Do("files", {of[1]}), Do("entries", {of[1]})}
      BY <1>3
    <3>3. {n} = {of[1]} /\ op \in {"detail", "diff", "from_parent"}
      BY <1>2, <3>2, <3>5
    <3>4. Starts(op, of, f, Do("links", {of[1]})) \/ Starts(op, of, f, Do("parents", {of[1]}))
      BY <1>3, <3>3 DEF Starts
    <3> QED BY <1>1, <3>3, <3>4
  <2> QED BY <2>1, <2>2, <2>4, <2>5 DEF Reads, Leads
<1>8. Asks(op, f, P)
  <2>1. op \in Filtered /\ f.parents # {} => Await(P, "edges")
    BY <1>1, <1>2 DEF Starts, Await
  <2>2. op \in Filtered /\ f.call # "none" => Await(P, "values")
    BY <1>1, <1>2 DEF Starts, Await
  <2>3. op = "search" /\ f.equal # {} => Await(P, "term")
    BY <1>1, <1>2 DEF Starts, Await
  <2>4. Await(P, "select") \/ Await(P, "term") \/ Await(P, "edges") => op \in Filtered
    <3> SUFFICES ASSUME NEW s \in P, s.do \in {"select", "term", "edges"} PROVE op \in Filtered
      BY DEF Await
    <3>1. s.do \in KindsOf(op)
      BY <1>6 DEF Fits
    <3> QED BY <1>4, <3>1 DEF KindsOf
  <2>5. op = "search" => op \in Filtered
    BY <1>4
  <2> QED BY <2>1, <2>2, <2>3, <2>4, <2>5 DEF Asks, Leads
<1>9. Finishes(op, P)
  <2>1. op \in {"ancestors", "lineage"} => Await(P, "closure")
    BY <1>1, <1>2 DEF Starts, Await
  <2>2. op = "children" => Await(P, "kids")
    BY <1>1, <1>2 DEF Starts, Await
  <2>3. op = "latest" => Await(P, "newest")
    BY <1>1, <1>2 DEF Starts, Await
  <2>4. op = "from_parent" => Await(P, "parents")
    BY <1>1, <1>2 DEF Starts, Await
  <2>5. op = "stats" => Await(P, "files")
    BY <1>1, <1>2 DEF Starts, Await
  <2> QED BY <2>1, <2>2, <2>3, <2>4, <2>5 DEF Finishes, Leads
<1>10. About(op, P, W)
  <2>1. op \in {"sidecars", "from_parent"} => \A s, t \in P : s.on = t.on
    BY <1>1, <1>2, <1>4 DEF Starts
  <2>2. ASSUME NEW s \in P, s.do \in {"row", "entries", "files"}, s.on # Found, op # "stats"
        PROVE  /\ op \in {"detail", "diff", "artifacts", "from_parent"} /\ s.on = {of[1]}
               /\ op = "from_parent" => s.do = "row"
    <3>1. Starts(op, of, f, s)
      BY <1>1
    <3>2. \/ op \in {"detail", "diff"} /\ s \in ReadsDetail(of[1])
          \/ op = "artifacts" /\ s \in {Do("files", {of[1]}), Do("bytes", {of[1]})}
          \/ op = "from_parent" /\ s \in {Do("row", {of[1]}), Do("parents", {of[1]})}
      BY <1>2, <2>2, <3>1 DEF Starts
    <3>3. ReadsDetail(of[1]) =
              {Do("row", {of[1]}), Do("links", {of[1]}), Do("files", {of[1]}), Do("entries", {of[1]})}
      BY <1>3
    <3> QED BY <1>2, <2>2, <3>2, <3>3
  <2>3. op \in {"detail", "diff", "artifacts", "from_parent"} => ~Some(P, Narrowing)
    <3> SUFFICES ASSUME op \in {"detail", "diff", "artifacts", "from_parent"}, NEW s \in P
                 PROVE  s.do \notin Narrowing
      BY DEF Some
    <3>1. s.do \in KindsOf(op)
      BY <1>6 DEF Fits
    <3>2. s.do \in {"row", "links", "files", "entries", "bytes", "parents", "exists"}
      BY <3>1 DEF KindsOf
    <3> QED BY <3>2 DEF Narrowing
  <2>4. \A s \in P : s.do \in {"row", "entries", "files"} =>
            op = "stats" \/ (op = "from_parent" /\ s.do = "row") \/ s.on \subseteq W
    <3> SUFFICES ASSUME NEW s \in P, s.do \in {"row", "entries", "files"}, op # "stats",
                        ~(op = "from_parent" /\ s.do = "row"), s.on # Found
                 PROVE  s.on \subseteq W
      BY <1>2
    <3>1. op \in Of /\ s.on = {of[1]}
      BY <1>4, <2>2
    <3> QED BY <3>1
  <2>5. op = "from_parent" => ~Await(P, "exists")
    BY <1>1, <1>2, <1>4 DEF Starts, Await
  <2> QED BY <2>1, <2>2, <2>3, <2>4, <2>5 DEF About
<1> QED BY <1>6, <1>7, <1>8, <1>9, <1>10 DEF Planned, P

-----------------------------------------------------------------------------
(* What a statement leaves.                                                *)

LEMMA Fields ==
    ASSUME NEW r \in QueryType, NEW t \in Seq(StatementType), NEW p, p = [r EXCEPT !.todo = t]
    PROVE  p \in QueryType /\ Same(p, r) /\ p.todo = t /\ p.left = r.left
BY DEF QueryType, Same

LEMMA OnwardGoes ==
    ASSUME NEW r \in QueryType, NEW t \in Seq(StatementType),
           r.left # {} => r.op \in Loops \union {"diff"}
    PROVE  Onward(r, t) \in QueryType /\ Same(Onward(r, t), r) /\ Goes(Onward(r, t), r, t)
<1>1. CASE t # <<>> \/ r.left = {}
  BY <1>1, Fields DEF Onward, Goes
<1>2. CASE t = <<>> /\ r.left # {}
  <2> DEFINE n == Min(r.left)
  <2>1. r.left \in SUBSET Id /\ r.op \in Loops \union {"diff"}
    BY <1>2 DEF QueryType
  <2>2. n \in r.left
    BY <1>2, <2>1, LeastElement, QueriesAssumption DEF Min
  <2>3. Onward(r, t) = [r EXCEPT !.todo = PerNode(r.op, n), !.left = r.left \ {n}]
    BY <1>2 DEF Onward
  <2> HIDE DEF n
  <2>4. PerNode(r.op, n) \in Seq(StatementType)
    BY <2>1, <2>2, PerNodeMakes DEF Program
  <2>5. r.left \ {n} \in SUBSET Id
    BY <2>1
  <2>6. /\ Onward(r, t) \in QueryType /\ Same(Onward(r, t), r)
        /\ Onward(r, t).todo = PerNode(r.op, n) /\ Onward(r, t).left = r.left \ {n}
    <3> DEFINE u == PerNode(r.op, n)
    <3> DEFINE L == r.left \ {n}
    <3> DEFINE p == Onward(r, t)
    <3>1. u \in Seq(StatementType) /\ L \in SUBSET Id /\ p = [r EXCEPT !.todo = u, !.left = L]
      BY <2>3, <2>4, <2>5
    <3> HIDE DEF u, L, p
    <3>2. p \in QueryType /\ Same(p, r) /\ p.todo = u /\ p.left = L
      BY <3>1 DEF QueryType, Same
    <3> QED BY <3>2 DEF u, L, p
  <2> QED BY <1>2, <2>2, <2>6 DEF Goes
<1> QED BY <1>1, <1>2

LEMMA Advancing ==
    ASSUME NEW r \in QueryType, NEW t \in Seq(StatementType), Sorted(t), q' = Onward(r, t),
           r.left # {} => r.op \in Loops \union {"diff"}, r.op = q.op
    PROVE  /\ q' \in QueryType /\ Same(q', r)
           /\ Sorted(q'.todo) /\ Advance(Range(t), r.left) /\ (q'.todo = <<>> => q'.left = {})
<1>1. q' \in QueryType /\ Same(q', r) /\ Goes(q', r, t)
  BY OnwardGoes
<1>2. \A n \in r.left : n \in Id
  BY DEF QueryType
<1>3. Range(<<>>) = {}
  BY Programs DEF Program
<1>4. t # <<>> => Range(t) # {}
  <2> SUFFICES ASSUME t # <<>> PROVE Range(t) # {}
    OBVIOUS
  <2> QED BY FirstOf
<1>5. CASE (t # <<>> \/ r.left = {}) /\ q'.todo = t /\ q'.left = r.left
  BY <1>1, <1>3, <1>4, <1>5 DEF Advance, Pending
<1>6. CASE t = <<>> /\ \E n \in r.left : q'.todo = PerNode(r.op, n) /\ q'.left = r.left \ {n}
  <2>1. PICK n \in r.left : q'.todo = PerNode(r.op, n) /\ q'.left = r.left \ {n}
    BY <1>6
  <2>2. /\ Program(PerNode(r.op, n), MakesFor(r.op, n)) /\ PerNode(r.op, n) # <<>>
    BY <1>2, <2>1, PerNodeMakes
  <2> QED BY <1>1, <1>3, <1>6, <2>1, <2>2 DEF Advance, Pending, Program
<1> QED BY <1>1, <1>5, <1>6 DEF Goes

LEMMA Proceeds ==
    ASSUME q \in QueryType, q.out = "running", q.todo # <<>>, Sorted(q.todo),
           NEW r \in QueryType, r.left # {} => r.op \in Loops \union {"diff"},
           r.op = q.op, r.of = q.of, r.f = q.f, r.out = q.out, Proceed(r)
    PROVE  Moves(r.ids, r.left, r.rows, r.above, r.edges, r.entries, r.files)
<1>1. q.todo \in Seq(StatementType)
  BY DEF QueryType
<1>2. Tail(q.todo) \in Seq(StatementType) /\ Sorted(Tail(q.todo))
  BY <1>1, FirstOf, SortedTail
<1>3. q' = Onward(r, Tail(q.todo)) /\ UNCHANGED <<present, link, ever, seen>>
  BY DEF Proceed, Database
<1>4. /\ q' \in QueryType /\ Same(q', r)
      /\ Sorted(q'.todo) /\ Advance(Range(Tail(q.todo)), r.left) /\ (q'.todo = <<>> => q'.left = {})
  BY <1>2, <1>3, Advancing
<1> QED BY <1>3, <1>4 DEF Moves, Same, Rest

LEMMA Skipping ==
    ASSUME q \in QueryType, q.out = "running", q.left # {} => q.op \in Loops \union {"diff"}, Skip
    PROVE  Skips
<1>1. <<>> \in Seq(StatementType) /\ Sorted(<<>>) /\ Range(<<>>) = {}
  BY Programs DEF Program
<1>2. q' = Onward(q, <<>>) /\ UNCHANGED <<present, link, ever, seen>>
  BY DEF Skip, Database
<1>3. /\ q' \in QueryType /\ Same(q', q)
      /\ Sorted(q'.todo) /\ Advance({}, q.left) /\ (q'.todo = <<>> => q'.left = {})
  BY <1>1, <1>2, Advancing
<1> QED BY <1>2, <1>3 DEF Skips, Same

LEMMA Ending ==
    ASSUME q \in QueryType, q.out = "running", NEW X \in SUBSET Id
    PROVE  /\ Stop([q EXCEPT !.ids = X]) => Ended(X, "running")
           /\ Stop(q) => Ended(q.ids, "running")
           /\ Fail => Ended(q.ids, "error")
<1>1. <<>> \in Seq(StatementType) /\ Range(<<>>) = {}
  BY Programs DEF Program
<1>2. Stop([q EXCEPT !.ids = X]) => Ended(X, "running")
  BY <1>1 DEF Stop, Ended, QueryType, Pending, Database
<1>3. Stop(q) => Ended(q.ids, "running")
  BY <1>1 DEF Stop, Ended, QueryType, Pending, Database
<1>4. Fail => Ended(q.ids, "error")
  BY <1>1 DEF Fail, Ended, QueryType, Pending, Database
<1> QED BY <1>2, <1>3, <1>4

-----------------------------------------------------------------------------
(* Each statement, and what it leaves.                                     *)

LEMMA Store ==
    ASSUME Stores
    PROVE  /\ IsGraph(Id, link) /\ present \in SUBSET Id /\ ever \in SUBSET Id
           /\ \A n : Parents(n) \subseteq present /\ Below(link, n) \subseteq present
           /\ \A n : n \notin present => Parents(n) = {}
<1>1. link \subseteq present \X present /\ present \in SUBSET Id /\ ever \in SUBSET Id
  BY DEF Stores
<1>2. IsFiniteSet(link)
  BY <1>1, QueriesAssumption, FS_Subset, FS_Product
<1>3. IsGraph(Id, link)
  BY <1>1, <1>2, QueriesAssumption DEF IsGraph, Stores
<1>4. \A n : Parents(n) \subseteq present /\ Below(link, n) \subseteq present
  BY <1>1 DEF Parents, Above, Below
<1>5. \A n : n \notin present => Parents(n) = {}
  BY <1>1 DEF Parents, Above
<1> QED BY <1>1, <1>3, <1>4, <1>5

\* The statement that is due is one of the request's, and comes before the
\* rest.
LEMMA DueIs ==
    ASSUME Core, q.out = "running", q.todo # <<>>
    PROVE  /\ Head(q.todo) \in StatementType
           /\ Pending = {Head(q.todo)} \union Rest
           /\ \A x \in Rest : Before(Head(q.todo).do, x.do)
           /\ Fits(q.op, q.of, q.f, Head(q.todo))
           /\ q.op \in Operation
           /\ Rest \subseteq StatementType
<1>1. q.todo \in Seq(StatementType) /\ Sorted(q.todo) /\ q.op \in Operation
  BY DEF Core, QType, QueryType, Plan, Question, Worded
<1>2. /\ Head(q.todo) \in StatementType /\ Pending = {Head(q.todo)} \union Rest
      /\ Rest \subseteq StatementType
  BY <1>1, FirstOf DEF Pending, Rest
<1>3. \A x \in Rest : Before(Head(q.todo).do, x.do)
  BY <1>1, SortedTail DEF Rest
<1>4. Fits(q.op, q.of, q.f, Head(q.todo))
  BY <1>2 DEF Core, Plan, Planned
<1> QED BY <1>1, <1>2, <1>3, <1>4

\* A statement that changes these moves the request on.
LEMMA Changing ==
    ASSUME Core, q.out = "running", q.todo # <<>>, NEW r \in QueryType,
           r.op = q.op, r.of = q.of, r.f = q.f, r.out = q.out,
           \/ r.left = q.left
           \/ r.left = {}
           \/ q.op \in Loops,
           Proceed(r)
    PROVE  Moves(r.ids, r.left, r.rows, r.above, r.edges, r.entries, r.files)
<1>1. q \in QueryType /\ Sorted(q.todo) /\ (q.left # {} => q.op \in Loops \union {"diff"})
  BY DEF Core, QType, Plan
<1> QED BY <1>1, Proceeds

LEMMA Stays ==
    ASSUME Core, q.out = "running", q.todo # <<>>, Proceed(q)
    PROVE  Moves(q.ids, q.left, q.rows, q.above, q.edges, q.entries, q.files)
BY Changing DEF Core, QType

LEMMA SetsIds ==
    ASSUME Core, q.out = "running", q.todo # <<>>, NEW X \in SUBSET Id, Proceed([q EXCEPT !.ids = X])
    PROVE  Moves(X, q.left, q.rows, q.above, q.edges, q.entries, q.files)
<1> DEFINE r == [q EXCEPT !.ids = X]
<1>1. /\ r \in QueryType /\ r.op = q.op /\ r.of = q.of /\ r.f = q.f /\ r.out = q.out /\ r.left = q.left
      /\ r.ids = X /\ r.rows = q.rows /\ r.above = q.above /\ r.edges = q.edges
      /\ r.entries = q.entries /\ r.files = q.files
  BY DEF Core, QType, QueryType
<1> HIDE DEF r
<1>2. Proceed(r)
  BY DEF r
<1>3. Moves(r.ids, r.left, r.rows, r.above, r.edges, r.entries, r.files)
  BY <1>1, <1>2, Changing
<1> QED BY <1>1, <1>3

LEMMA Keeps ==
    ASSUME Core, q.out = "running", q.todo # <<>>, NEW X \in SUBSET Id, Keep(X)
    PROVE  \/ q.op = "search" /\ X = {} /\ Ended(X, "running")
           \/ Moves(X, q.left, q.rows, q.above, q.edges, q.entries, q.files)
<1>1. q \in QueryType
  BY DEF Core, QType
<1>2. CASE q.op = "search" /\ X = {}
  BY <1>1, <1>2, Ending DEF Keep
<1>3. CASE ~(q.op = "search" /\ X = {})
  BY <1>3, SetsIds DEF Keep
<1> QED BY <1>2, <1>3

LEMMA SelectsIds ==
    ASSUME Core, SelectIds
    PROVE  /\ Due("select")
           /\ \/ /\ CanAsk(q.f)
                 /\ Moves({n \in present : Equals(n)}, q.left, q.rows, q.above, q.edges, q.entries, q.files)
              \/ ~CanAsk(q.f) /\ Ended(q.ids, "error")
<1>1. Due("select") /\ q.out = "running" /\ q.todo # <<>>
  BY DEF SelectIds, Due
<1>2. {n \in present : Equals(n)} \in SUBSET Id
  BY DEF Core, Stores
<1>3. CASE CanAsk(q.f)
  BY <1>1, <1>2, <1>3, SetsIds DEF SelectIds
<1>4. CASE ~CanAsk(q.f)
  BY <1>1, <1>4, Ending DEF SelectIds, Core, QType
<1> QED BY <1>1, <1>3, <1>4

LEMMA ReadsAll ==
    ASSUME Core, AllNodeIds
    PROVE  /\ Due("all")
           /\ Moves(present, IF q.op \in Loops THEN present ELSE {}, q.rows, q.above, q.edges,
                    q.entries, q.files)
<1>1. Due("all") /\ q.out = "running" /\ q.todo # <<>>
  BY DEF AllNodeIds, Due
<1>2. present \in SUBSET Id
  BY DEF Core, Stores
<1> DEFINE r == Through(q, present)
<1>3. /\ r \in QueryType /\ r.op = q.op /\ r.of = q.of /\ r.f = q.f /\ r.out = q.out
      /\ r.left = IF q.op \in Loops THEN present ELSE {}
      /\ r.ids = present /\ r.rows = q.rows /\ r.above = q.above /\ r.edges = q.edges
      /\ r.entries = q.entries /\ r.files = q.files
  BY <1>2 DEF Through, Core, QType, QueryType
<1>4. Proceed(r)
  BY DEF AllNodeIds
<1> HIDE DEF r
<1>5. Moves(r.ids, r.left, r.rows, r.above, r.edges, r.entries, r.files)
  BY <1>1, <1>3, <1>4, Changing
<1> QED BY <1>1, <1>3, <1>5

LEMMA FiltersParents ==
    ASSUME Core, FilterParents
    PROVE  LET X == {n \in q.ids : Parents(n) \in q.f.parents} IN
           /\ Due("edges")
           /\ \/ q.op = "search" /\ X = {} /\ Ended(X, "running")
              \/ Moves(X, q.left, q.rows, q.above, q.edges, q.entries, q.files)
<1> DEFINE X == {n \in q.ids : Parents(n) \in q.f.parents}
<1>1. Due("edges") /\ q.out = "running" /\ q.todo # <<>> /\ Keep(X)
  BY DEF FilterParents, Due
<1>2. X \in SUBSET Id
  BY DEF Core, QType, QueryType
<1> HIDE DEF X
<1>3. \/ q.op = "search" /\ X = {} /\ Ended(X, "running")
      \/ Moves(X, q.left, q.rows, q.above, q.edges, q.entries, q.files)
  BY <1>1, <1>2, Keeps
<1> QED BY <1>1, <1>3 DEF X

LEMMA FiltersValues ==
    ASSUME Core, FilterValues
    PROVE  LET X == {n \in q.ids : Accepted(n)} IN
           /\ Due("values")
           /\ \/ q.op = "search" /\ X = {} /\ Ended(X, "running")
              \/ Moves(X, q.left, q.rows, q.above, q.edges, q.entries, q.files)
<1> DEFINE X == {n \in q.ids : Accepted(n)}
<1>1. Due("values") /\ q.out = "running" /\ q.todo # <<>> /\ Keep(X)
  BY DEF FilterValues, Due
<1>2. X \in SUBSET Id
  BY DEF Core, QType, QueryType
<1> HIDE DEF X
<1>3. \/ q.op = "search" /\ X = {} /\ Ended(X, "running")
      \/ Moves(X, q.left, q.rows, q.above, q.edges, q.entries, q.files)
  BY <1>1, <1>2, Keeps
<1> QED BY <1>1, <1>3 DEF X

LEMMA SearchesTerm ==
    ASSUME Core, SearchTerm
    PROVE  LET X == {n \in q.ids \intersect present : Equals(n)} IN
           /\ Due("term")
           /\ \/ q.op = "search" /\ X = {} /\ Ended(X, "running")
              \/ Moves(X, q.left, q.rows, q.above, q.edges, q.entries, q.files)
<1> DEFINE X == {n \in q.ids \intersect present : Equals(n)}
<1>1. Due("term") /\ q.out = "running" /\ q.todo # <<>> /\ Keep(X)
  BY DEF SearchTerm, Due
<1>2. X \in SUBSET Id
  BY DEF Core, QType, QueryType
<1> HIDE DEF X
<1>3. \/ q.op = "search" /\ X = {} /\ Ended(X, "running")
      \/ Moves(X, q.left, q.rows, q.above, q.edges, q.entries, q.files)
  BY <1>1, <1>2, Keeps
<1> QED BY <1>1, <1>3 DEF X

LEMMA SearchSifts ==
    ASSUME Core, SearchSift
    PROVE  LET X == q.ids \intersect present IN
           /\ Due("sift")
           /\ \/ q.op = "search" /\ X = {} /\ Ended(X, "running")
              \/ Moves(X, q.left, q.rows, q.above, q.edges, q.entries, q.files)
<1> DEFINE X == q.ids \intersect present
<1>1. Due("sift") /\ q.out = "running" /\ q.todo # <<>> /\ Keep(X)
  BY DEF SearchSift, Due
<1>2. X \in SUBSET Id
  BY DEF Core, QType, QueryType
<1> HIDE DEF X
<1>3. \/ q.op = "search" /\ X = {} /\ Ended(X, "running")
      \/ Moves(X, q.left, q.rows, q.above, q.edges, q.entries, q.files)
  BY <1>1, <1>2, Keeps
<1> QED BY <1>1, <1>3 DEF X

LEMMA TakesNewest ==
    ASSUME Core, MostRecent
    PROVE  LET X == q.ids \intersect present IN
           /\ Due("newest") /\ q.op = "latest"
           /\ q' \in QueryType /\ q'.op = q.op /\ q'.of = q.of /\ q'.f = q.f /\ q'.out = "running"
           /\ q'.rows = q.rows /\ q'.above = q.above /\ q'.edges = q.edges
           /\ q'.entries = q.entries /\ q'.files = q.files /\ q'.left = q.left
           /\ Sorted(q'.todo) /\ q'.ids = Newest(X)
           /\ UNCHANGED <<present, link, ever, seen>>
           /\ \/ X = {} /\ Newest(X) = {} /\ q'.todo = <<>> /\ Pending' = {}
              \/ \E m \in X : /\ \A n \in X : n <= m
                              /\ Newest(X) = {m} /\ Pending' = ReadsOne(m) /\ q'.todo # <<>>
<1> DEFINE X == q.ids \intersect present
<1> DEFINE N == Newest(X)
<1>1. Due("newest") /\ q.out = "running" /\ q.todo # <<>>
  BY DEF MostRecent, Due
<1>2. q.op = "latest"
  BY <1>1, DueIs, KindsAre DEF Fits, Due, Operation, Details, Wholes, Artifacts
<1>3. q \in QueryType /\ X \in SUBSET Id /\ N \in SUBSET Id
  BY DEF Core, QType, QueryType, Newest
<1>4. /\ q' = [q EXCEPT !.ids = N, !.todo = IF N = {} THEN <<>> ELSE Get(The(N))]
      /\ UNCHANGED <<present, link, ever, seen>>
  BY DEF MostRecent, Database
<1>5. /\ <<>> \in Seq(StatementType) /\ Sorted(<<>>) /\ Range(<<>>) = {}
  BY Programs DEF Program
<1>6. CASE X = {}
  <2>1. N = {}
    BY <1>6 DEF Newest
  <2>2. q' = [q EXCEPT !.ids = {}, !.todo = <<>>]
    BY <1>4, <2>1
  <2>3. q' \in QueryType /\ q'.op = q.op /\ q'.of = q.of /\ q'.f = q.f /\ q'.out = q.out
        /\ q'.rows = q.rows /\ q'.above = q.above /\ q'.edges = q.edges
        /\ q'.entries = q.entries /\ q'.files = q.files /\ q'.left = q.left
        /\ q'.todo = <<>> /\ q'.ids = {}
    BY <1>3, <1>5, <2>2 DEF QueryType
  <2> QED BY <1>1, <1>2, <1>4, <1>5, <1>6, <2>1, <2>3 DEF Pending
<1>7. CASE X # {}
  <2>1. PICK m \in X : \A n \in X : n <= m
    <3>1. IsFiniteSet(X) /\ X \subseteq Nat
      BY <1>3, QueriesAssumption, FS_Subset
    <3> HIDE DEF X
    <3> QED BY <1>7, <3>1, GreatestElement
  <2>2. N = {m}
    BY <1>3, <2>1, QueriesAssumption DEF Newest
  <2>3. The(N) = m
    BY <2>2 DEF The
  <2>4. m \in Id /\ Program(Get(m), ReadsOne(m)) /\ ReadsOne(m) # {}
    BY <1>3, <2>1, ReadsOf DEF ReadsOne
  <2>5. Get(m) # <<>> /\ Get(m) \in Seq(StatementType) /\ Sorted(Get(m)) /\ Range(Get(m)) = ReadsOne(m)
    BY <2>4, Programs DEF Program
  <2>6. q' = [q EXCEPT !.ids = N, !.todo = Get(m)]
    BY <1>4, <2>2, <2>3
  <2> HIDE DEF N
  <2>7. q' \in QueryType /\ q'.op = q.op /\ q'.of = q.of /\ q'.f = q.f /\ q'.out = q.out
        /\ q'.rows = q.rows /\ q'.above = q.above /\ q'.edges = q.edges
        /\ q'.entries = q.entries /\ q'.files = q.files /\ q'.left = q.left
        /\ q'.todo = Get(m) /\ q'.ids = N
    BY <1>3, <2>5, <2>6 DEF QueryType
  <2>8. Pending' = ReadsOne(m)
    BY <2>5, <2>7 DEF Pending
  <2>9. \E k \in X : (\A n \in X : n <= k) /\ N = {k} /\ Pending' = ReadsOne(k) /\ q'.todo # <<>>
    BY <2>1, <2>2, <2>5, <2>7, <2>8
  <2> QED BY <1>1, <1>2, <1>4, <2>5, <2>7, <2>9 DEF N
<1> QED BY <1>6, <1>7

\* Who makes which statements.
LEMMA Makers ==
    ASSUME NEW op \in Operation
    PROVE  /\ "exists" \in KindsOf(op) => op \in {"lineage", "children", "ancestors", "from_parent"}
           /\ "closure" \in KindsOf(op) => op \in {"lineage", "ancestors"}
           /\ "kids" \in KindsOf(op) => op = "children"
           /\ "parents" \in KindsOf(op) => op = "from_parent"
           /\ "copy" \in KindsOf(op) => op = "backup"
           /\ "rows" \in KindsOf(op) => op \in Many
           /\ "relink" \in KindsOf(op) => op = "page"
           /\ "again" \in KindsOf(op) => op = "page"
           /\ "select" \in KindsOf(op) => op \in Finding
           /\ "edges" \in KindsOf(op) \/ "values" \in KindsOf(op) => op \in Filtered
           /\ "term" \in KindsOf(op) \/ "sift" \in KindsOf(op) => op = "search"
           /\ "newest" \in KindsOf(op) => op = "latest"
           /\ "all" \in KindsOf(op) => op \in {"runs", "sidecars", "search", "stats"}
           /\ "row" \in KindsOf(op) =>
                 op \in {"latest", "detail", "diff", "runs", "sidecars", "snapshot", "from_parent"}
           /\ "entries" \in KindsOf(op) =>
                 op \in {"detail", "diff", "page", "runs", "sidecars", "snapshot"}
           /\ "files" \in KindsOf(op) =>
                 op \in {"detail", "diff", "page", "runs", "sidecars", "snapshot", "stats"} \union Artifacts
           /\ "bytes" \in KindsOf(op) => op \in {"snapshot", "artifacts", "from_parent"}
<1>1. op \in {"find", "latest", "ancestors", "page", "snapshot", "lineage", "children", "detail",
              "diff", "runs", "sidecars", "search", "stats", "backup", "artifacts", "from_parent"}
  BY DEF Operation, Details, Wholes, Artifacts
<1>2. /\ Finding = {"find", "latest", "ancestors", "page", "snapshot"}
      /\ Many = {"find", "lineage", "children", "ancestors", "page", "snapshot"}
      /\ Filtered = {"find", "latest", "ancestors", "page", "snapshot", "search"}
      /\ Artifacts = {"artifacts", "from_parent"}
  BY DEF Finding, Many, Filtered, Artifacts
<1>3. CASE op \in {"find", "latest", "ancestors"}
  BY <1>2, <1>3, KindsAre
<1>4. CASE op \in {"page", "snapshot"}
  BY <1>2, <1>4, KindsAre
<1>5. CASE op \in {"lineage", "children"}
  BY <1>2, <1>5, KindsAre
<1>6. CASE op \in {"detail", "diff", "runs", "sidecars"}
  BY <1>2, <1>6, KindsAre
<1>7. CASE op \in {"search", "stats", "backup"}
  BY <1>2, <1>7, KindsAre
<1>8. CASE op \in {"artifacts", "from_parent"}
  BY <1>2, <1>8, KindsAre
<1> QED BY <1>1, <1>3, <1>4, <1>5, <1>6, <1>7, <1>8

\* A statement about one node.
LEMMA OnOne ==
    ASSUME Core, q.out = "running", q.todo # <<>>, NEW n, Head(q.todo).on = {n}
    PROVE  On = {n} /\ The(On) = n
BY DEF On, Found, The

LEMMA LooksForIt ==
    ASSUME Core, Exists
    PROVE  /\ Due("exists") /\ q.op \in {"lineage", "children", "ancestors", "from_parent"}
           /\ \E n \in Id :
                 /\ Head(q.todo).on = {n}
                 /\ q.op # "from_parent" => n = q.of[1]
                 /\ \/ n \in present /\ Moves(q.ids, q.left, q.rows, q.above, q.edges, q.entries, q.files)
                    \/ n \notin present /\ q.op = "children" /\ Ended(q.ids, "running")
                    \/ n \notin present /\ q.op = "from_parent" /\ Skips
                    \/ n \notin present /\ q.op \in {"lineage", "ancestors"} /\ Ended(q.ids, "error")
<1>1. Due("exists") /\ q.out = "running" /\ q.todo # <<>> /\ Head(q.todo).do = "exists"
  BY DEF Exists, Due
<1>2. Fits(q.op, q.of, q.f, Head(q.todo)) /\ q.op \in Operation
  BY <1>1, DueIs
<1>3. q.op \in {"lineage", "children", "ancestors", "from_parent"}
  BY <1>1, <1>2, Makers DEF Fits
<1>4. PICK n \in Id : Head(q.todo).on = {n}
  BY <1>1, <1>2 DEF Fits
<1>5. q.op # "from_parent" => n = q.of[1]
  BY <1>1, <1>2, <1>4 DEF Fits
<1>6. On = {n}
  BY <1>1, <1>4, OnOne
<1>7. q \in QueryType /\ (q.left # {} => q.op \in Loops \union {"diff"})
  BY DEF Core, QType, Plan
<1>8. CASE n \in present
  BY <1>1, <1>3, <1>4, <1>5, <1>6, <1>8, Stays DEF Exists
<1>9. CASE n \notin present /\ q.op = "children"
  <2>1. Stop(q)
    BY <1>6, <1>9 DEF Exists
  <2>2. Ended(q.ids, "running")
    BY <1>1, <1>7, <2>1, Ending
  <2> QED BY <1>1, <1>3, <1>4, <1>5, <1>9, <2>2
<1>10. CASE n \notin present /\ q.op = "from_parent"
  <2>1. Skip
    BY <1>6, <1>10 DEF Exists
  <2>2. Skips
    BY <1>1, <1>7, <2>1, Skipping
  <2> QED BY <1>1, <1>3, <1>4, <1>5, <1>10, <2>2
<1>11. CASE n \notin present /\ q.op \in {"lineage", "ancestors"}
  <2>1. Fail
    BY <1>6, <1>11 DEF Exists
  <2>2. Ended(q.ids, "error")
    BY <1>1, <1>7, <2>1, Ending
  <2> QED BY <1>1, <1>3, <1>4, <1>5, <1>11, <2>2
<1> QED BY <1>3, <1>8, <1>9, <1>10, <1>11

LEMMA GoesUp ==
    ASSUME Core, Closed
    PROVE  LET A == AncestorsIn(Id, link, q.of[1]) IN
           /\ Due("closure") /\ q.op \in {"lineage", "ancestors"} /\ q.of[1] \in Id
           /\ Moves(IF q.op = "lineage" THEN A ELSE q.ids \intersect A,
                    q.left, q.rows, q.above, q.edges, q.entries, q.files)
           /\ q'.order = LineageWalk(link, q.of[1]).order
<1> DEFINE A == AncestorsIn(Id, link, q.of[1])
<1>1. Due("closure") /\ q.out = "running" /\ q.todo # <<>> /\ Head(q.todo).do = "closure"
  BY DEF Closed, Due
<1>2. Fits(q.op, q.of, q.f, Head(q.todo)) /\ q.op \in Operation
  BY <1>1, DueIs
<1>3. q.op \in {"lineage", "ancestors"}
  BY <1>1, <1>2, Makers DEF Fits
<1>4. PICK n \in Id : Head(q.todo).on = {n}
  BY <1>1, <1>2 DEF Fits
<1>5. n = q.of[1]
  BY <1>1, <1>2, <1>3, <1>4 DEF Fits
<1>6. The(On) = q.of[1]
  BY <1>1, <1>4, <1>5, OnOne
<1> DEFINE w == LineageWalk(link, q.of[1])
<1>7. ~w.cyclic /\ w.order \in Seq(Id) /\ Range(w.order) = A
  BY <1>4, <1>5, Store, LineageIsRight DEF Core, ListsInOrder
<1> DEFINE X == IF q.op = "lineage" THEN A ELSE q.ids \intersect A
<1> DEFINE r == [q EXCEPT !.ids = X, !.order = w.order]
<1>8. Proceed(r)
  <2> HIDE DEF A, w
  <2>1. w = LineageWalk(link, The(On)) 
    BY <1>6 DEF w
  <2> QED BY <1>7, <2>1 DEF Closed
<1>9. q \in QueryType /\ X \in SUBSET Id
  BY <1>4, <1>5, Ancestors, Store DEF Core, QType, QueryType
<1>10. /\ r \in QueryType /\ r.op = q.op /\ r.of = q.of /\ r.f = q.f /\ r.out = q.out /\ r.left = q.left
       /\ r.ids = X /\ r.rows = q.rows /\ r.above = q.above /\ r.edges = q.edges
       /\ r.entries = q.entries /\ r.files = q.files
  <2> HIDE DEF X, w
  <2> QED BY <1>7, <1>9 DEF QueryType
<1> HIDE DEF r
<1>12. q'.order = r.order
  <2>1. (r.left # {} => r.op \in Loops \union {"diff"}) /\ Tail(q.todo) \in Seq(StatementType)
    BY <1>1, <1>9, <1>10, FirstOf DEF Core, Plan, QueryType
  <2> QED BY <1>8, <1>10, <2>1, OnwardGoes DEF Proceed, Same
<1>13. r.order = w.order
  BY <1>7, <1>9 DEF r, QueryType
<1>11. Moves(r.ids, r.left, r.rows, r.above, r.edges, r.entries, r.files)
  BY <1>1, <1>8, <1>10, Changing
<1> QED BY <1>1, <1>3, <1>4, <1>5, <1>10, <1>11, <1>12, <1>13

LEMMA GoesDown ==
    ASSUME Core, Children
    PROVE  /\ Due("kids") /\ q.op = "children" /\ q.of[1] \in Id
           /\ Moves(Below(link, q.of[1]), q.left, q.rows, q.above, q.edges, q.entries, q.files)
<1> DEFINE X == Below(link, q.of[1])
<1>1. Due("kids") /\ q.out = "running" /\ q.todo # <<>> /\ Head(q.todo).do = "kids"
  BY DEF Children, Due
<1>2. Fits(q.op, q.of, q.f, Head(q.todo)) /\ q.op \in Operation
  BY <1>1, DueIs
<1>3. q.op = "children"
  BY <1>1, <1>2, Makers DEF Fits
<1>4. PICK n \in Id : Head(q.todo).on = {n}
  BY <1>1, <1>2 DEF Fits
<1>5. n = q.of[1]
  BY <1>1, <1>2, <1>3, <1>4 DEF Fits
<1>6. The(On) = q.of[1]
  BY <1>1, <1>4, <1>5, OnOne
<1>7. X \subseteq present /\ X \in SUBSET Id
  BY Store DEF Core
<1>8. Proceed([q EXCEPT !.ids = X \intersect present])
  BY <1>6 DEF Children
<1> HIDE DEF X
<1>9. X \intersect present = X
  BY <1>7
<1>10. Moves(X, q.left, q.rows, q.above, q.edges, q.entries, q.files)
  BY <1>1, <1>7, <1>8, <1>9, SetsIds
<1> QED BY <1>1, <1>3, <1>4, <1>5, <1>10 DEF X

LEMMA ReadsLinks ==
    ASSUME Core, ReadLinks
    PROVE  /\ Due("links")
           /\ \/ q.op \in Many /\ Head(q.todo).on = Found /\ On = q.ids
              \/ q.op \in Gets /\ \E n \in Id : Head(q.todo).on = {n} /\ On = {n}
           /\ Moves(q.ids, q.left, q.rows, [n \in Id |-> IF n \in On THEN Parents(n) ELSE q.above[n]],
                    q.edges, q.entries, q.files)
<1>1. Due("links") /\ q.out = "running" /\ q.todo # <<>> /\ Head(q.todo).do = "links"
  BY DEF ReadLinks, Due
<1>2. Fits(q.op, q.of, q.f, Head(q.todo)) /\ q.op \in Operation
  BY <1>1, DueIs
<1>3. \/ q.op \in Many /\ Head(q.todo).on = Found /\ On = q.ids
      \/ q.op \in Gets /\ \E n \in Id : Head(q.todo).on = {n} /\ On = {n}
  <2>1. CASE Head(q.todo).on = Found
    BY <1>1, <1>2, <2>1 DEF Fits, On
  <2>2. CASE Head(q.todo).on # Found
    BY <1>1, <1>2, <2>2, OnOne DEF Fits
  <2> QED BY <2>1, <2>2
<1> DEFINE g == [n \in Id |-> IF n \in On THEN Parents(n) ELSE q.above[n]]
<1> DEFINE r == [q EXCEPT !.above = g]
<1>4. q \in QueryType /\ g \in [Id -> SUBSET Id]
  BY Store DEF Core, QType, QueryType
<1>5. Proceed(r)
  BY DEF ReadLinks
<1> HIDE DEF g
<1>6. /\ r \in QueryType /\ r.op = q.op /\ r.of = q.of /\ r.f = q.f /\ r.out = q.out /\ r.left = q.left
      /\ r.ids = q.ids /\ r.rows = q.rows /\ r.above = g /\ r.edges = q.edges
      /\ r.entries = q.entries /\ r.files = q.files
  BY <1>4 DEF QueryType
<1> HIDE DEF r
<1>7. Moves(r.ids, r.left, r.rows, r.above, r.edges, r.entries, r.files)
  BY <1>1, <1>5, <1>6, Changing
<1> QED BY <1>1, <1>3, <1>6, <1>7 DEF g

LEMMA ReadsLinksAgain ==
    ASSUME Core, ReadLinksAgain
    PROVE  /\ Due("relink") /\ q.op = "page"
           /\ Moves(q.ids, q.left, q.rows, [n \in Id |-> IF n \in q.ids THEN Parents(n) ELSE q.above[n]],
                    q.edges, q.entries, q.files)
<1>1. Due("relink") /\ q.out = "running" /\ q.todo # <<>> /\ Head(q.todo).do = "relink"
  BY DEF ReadLinksAgain, Due
<1>2. q.op = "page"
  BY <1>1, DueIs, Makers DEF Fits
<1> DEFINE g == [n \in Id |-> IF n \in q.ids THEN Parents(n) ELSE q.above[n]]
<1> DEFINE r == [q EXCEPT !.above = g]
<1>3. q \in QueryType /\ g \in [Id -> SUBSET Id]
  BY Store DEF Core, QType, QueryType
<1>4. Proceed(r)
  BY DEF ReadLinksAgain
<1> HIDE DEF g
<1>5. /\ r \in QueryType /\ r.op = q.op /\ r.of = q.of /\ r.f = q.f /\ r.out = q.out /\ r.left = q.left
      /\ r.ids = q.ids /\ r.rows = q.rows /\ r.above = g /\ r.edges = q.edges
      /\ r.entries = q.entries /\ r.files = q.files
  BY <1>3 DEF QueryType
<1> HIDE DEF r
<1>6. Moves(r.ids, r.left, r.rows, r.above, r.edges, r.entries, r.files)
  BY <1>1, <1>4, <1>5, Changing
<1> QED BY <1>1, <1>2, <1>5, <1>6 DEF g

LEMMA ReadsParents ==
    ASSUME Core, ReadParents
    PROVE  LET n == q.of[1] IN
           /\ Due("parents") /\ q.op = "from_parent" /\ n \in Id /\ Head(q.todo).on = {n}
           /\ Moves(Parents(n), Parents(n), q.rows, [q.above EXCEPT ![n] = Parents(n)],
                    q.edges, q.entries, q.files)
<1> DEFINE n == q.of[1]
<1>1. Due("parents") /\ q.out = "running" /\ q.todo # <<>> /\ Head(q.todo).do = "parents"
  BY DEF ReadParents, Due
<1>2. Fits(q.op, q.of, q.f, Head(q.todo)) /\ q.op \in Operation
  BY <1>1, DueIs
<1>3. q.op = "from_parent"
  BY <1>1, <1>2, Makers DEF Fits
<1>4. Head(q.todo).on = {n} /\ \E m \in Id : Head(q.todo).on = {m}
  BY <1>1, <1>2, <1>3 DEF Fits
<1>5. n \in Id
  BY <1>4
<1>6. The(On) = n
  BY <1>1, <1>4, OnOne
<1> DEFINE g == [q.above EXCEPT ![n] = Parents(n)]
<1> DEFINE r == Through([q EXCEPT !.above[n] = Parents(n)], Parents(n))
<1>7. Proceed(r)
  <2> HIDE DEF n
  <2> QED BY <1>6 DEF ReadParents
<1> DEFINE P == Parents(n)
<1>8. q \in QueryType /\ P \in SUBSET Id /\ g \in [Id -> SUBSET Id]
  <2>1. Parents(n) \in SUBSET Id
    BY Store DEF Core
  <2>2. q \in QueryType /\ q.above \in [Id -> SUBSET Id]
    BY DEF Core, QType, QueryType
  <2> HIDE DEF n
  <2> QED BY <1>5, <2>1, <2>2
<1>9. q.op \in Loops
  BY <1>3 DEF Loops
<1>10. r = [q EXCEPT !.above = g, !.ids = P, !.left = P]
  <2> HIDE DEF n
  <2> QED BY <1>8, <1>9 DEF Through, QueryType
<1> HIDE DEF r, P, g
<1>11. /\ r \in QueryType /\ r.op = q.op /\ r.of = q.of /\ r.f = q.f /\ r.out = q.out /\ r.left = P
       /\ r.ids = P /\ r.rows = q.rows /\ r.above = g /\ r.edges = q.edges
       /\ r.entries = q.entries /\ r.files = q.files
  BY <1>8, <1>10 DEF QueryType
<1>12. Moves(r.ids, r.left, r.rows, r.above, r.edges, r.entries, r.files)
  BY <1>1, <1>7, <1>9, <1>11, Changing
<1> QED BY <1>1, <1>3, <1>4, <1>5, <1>11, <1>12 DEF g, P

LEMMA CopiesAll ==
    ASSUME Core, CopyAll
    PROVE  /\ Due("copy") /\ q.op = "backup"
           /\ Moves(present, q.left, present, [n \in Id |-> Parents(n)], q.edges, present, present)
<1>1. Due("copy") /\ q.out = "running" /\ q.todo # <<>> /\ Head(q.todo).do = "copy"
  BY DEF CopyAll, Due
<1>2. q.op = "backup"
  BY <1>1, DueIs, Makers DEF Fits
<1> DEFINE g == [n \in Id |-> Parents(n)]
<1> DEFINE r == [q EXCEPT !.ids = present, !.rows = present, !.above = g,
                          !.entries = present, !.files = present]
<1>3. q \in QueryType /\ g \in [Id -> SUBSET Id] /\ present \in SUBSET Id
  BY Store DEF Core, QType
<1>4. Proceed(r)
  BY DEF CopyAll
<1> HIDE DEF g
<1>5. /\ r \in QueryType /\ r.op = q.op /\ r.of = q.of /\ r.f = q.f /\ r.out = q.out /\ r.left = q.left
      /\ r.ids = present /\ r.rows = present /\ r.above = g /\ r.edges = q.edges
      /\ r.entries = present /\ r.files = present
  BY <1>3 DEF QueryType
<1> HIDE DEF r
<1>6. Moves(r.ids, r.left, r.rows, r.above, r.edges, r.entries, r.files)
  BY <1>1, <1>4, <1>5, Changing
<1> QED BY <1>1, <1>2, <1>5, <1>6 DEF g

LEMMA ReadsRows ==
    ASSUME Core, ReadRows
    PROVE  LET X == q.ids \intersect present IN
           /\ Due("rows") /\ q.op \in Many
           /\ Moves(X, IF q.op \in Loops THEN X ELSE {}, X, q.above,
                    {e \in X \X Id : e[2] \in q.above[e[1]]}, q.entries, q.files)
<1> DEFINE X == q.ids \intersect present
<1> DEFINE E == {e \in X \X Id : e[2] \in q.above[e[1]]}
<1>1. Due("rows") /\ q.out = "running" /\ q.todo # <<>> /\ Head(q.todo).do = "rows"
  BY DEF ReadRows, Due
<1>2. q.op \in Many
  BY <1>1, DueIs, Makers DEF Fits
<1> DEFINE L == IF q.op \in Loops THEN X ELSE {}
<1> DEFINE r == Through([q EXCEPT !.rows = X, !.edges = E], X)
<1>3. Proceed(r)
  BY DEF ReadRows
<1>4. q \in QueryType /\ X \in SUBSET Id /\ L \in SUBSET Id
  BY DEF Core, QType, QueryType
<1>5. E \in SUBSET (Id \X Id)
  <2> HIDE DEF X
  <2> QED BY <1>4
<1> HIDE DEF X, E
<1>6. r = [q EXCEPT !.rows = X, !.edges = E, !.ids = X, !.left = L]
  BY <1>4 DEF Through, QueryType
<1> HIDE DEF r, L
<1>7. /\ r \in QueryType /\ r.op = q.op /\ r.of = q.of /\ r.f = q.f /\ r.out = q.out /\ r.left = L
      /\ r.ids = X /\ r.rows = X /\ r.above = q.above /\ r.edges = E
      /\ r.entries = q.entries /\ r.files = q.files
  BY <1>4, <1>5, <1>6 DEF QueryType
<1>8. r.left = {} \/ q.op \in Loops
  BY <1>7 DEF L
<1>9. Moves(r.ids, r.left, r.rows, r.above, r.edges, r.entries, r.files)
  BY <1>1, <1>3, <1>7, <1>8, Changing
<1> QED BY <1>1, <1>2, <1>7, <1>9 DEF X, E, L

LEMMA ReadsRowsAgain ==
    ASSUME Core, ReadRowsAgain
    PROVE  /\ Due("again") /\ q.op = "page"
           /\ Moves(q.ids, q.left, q.ids \intersect present, q.above, q.edges, q.entries, q.files)
<1> DEFINE X == q.ids \intersect present
<1>1. Due("again") /\ q.out = "running" /\ q.todo # <<>> /\ Head(q.todo).do = "again"
  BY DEF ReadRowsAgain, Due
<1>2. q.op = "page"
  BY <1>1, DueIs, Makers DEF Fits
<1> DEFINE r == [q EXCEPT !.rows = X]
<1>3. Proceed(r)
  BY DEF ReadRowsAgain
<1>4. q \in QueryType /\ X \in SUBSET Id
  BY DEF Core, QType, QueryType
<1> HIDE DEF X
<1>5. /\ r \in QueryType /\ r.op = q.op /\ r.of = q.of /\ r.f = q.f /\ r.out = q.out /\ r.left = q.left
      /\ r.ids = q.ids /\ r.rows = X /\ r.above = q.above /\ r.edges = q.edges
      /\ r.entries = q.entries /\ r.files = q.files
  BY <1>4 DEF QueryType
<1> HIDE DEF r
<1>6. Moves(r.ids, r.left, r.rows, r.above, r.edges, r.entries, r.files)
  BY <1>1, <1>3, <1>5, Changing
<1> QED BY <1>1, <1>2, <1>5, <1>6 DEF X

LEMMA ReadsRow ==
    ASSUME Core, ReadRow
    PROVE  /\ Due("row")
           /\ q.op \in {"latest", "detail", "diff", "runs", "sidecars", "snapshot", "from_parent"}
           /\ \E n \in Id :
                 /\ Head(q.todo).on = {n}
                 /\ q.op = "from_parent" => n = q.of[1]
                 /\ \/ /\ n \in present
                       /\ Moves(q.ids, q.left, q.rows \union {n}, q.above, q.edges, q.entries, q.files)
                    \/ n \notin present /\ q.op \in {"latest", "from_parent"} /\ Ended(q.ids, "running")
                    \/ n \notin present /\ q.op = "sidecars" /\ Skips
                    \/ /\ n \notin present /\ q.op \in {"detail", "diff", "runs", "snapshot"}
                       /\ Ended(q.ids, "error")
<1>1. Due("row") /\ q.out = "running" /\ q.todo # <<>> /\ Head(q.todo).do = "row"
  BY DEF ReadRow, Due
<1>2. Fits(q.op, q.of, q.f, Head(q.todo)) /\ q.op \in Operation
  BY <1>1, DueIs
<1>3. q.op \in {"latest", "detail", "diff", "runs", "sidecars", "snapshot", "from_parent"}
  BY <1>1, <1>2, Makers DEF Fits
<1>4. PICK n \in Id : Head(q.todo).on = {n}
  BY <1>1, <1>2 DEF Fits
<1>5. q.op = "from_parent" => n = q.of[1]
  BY <1>1, <1>2, <1>4 DEF Fits
<1>6. On = {n}
  BY <1>1, <1>4, OnOne
<1>7. q \in QueryType /\ (q.left # {} => q.op \in Loops \union {"diff"})
  BY DEF Core, QType, Plan
<1>8. CASE n \in present
  <2> DEFINE r == [q EXCEPT !.rows = q.rows \union {n}]
  <2>1. Proceed(r)
    BY <1>6, <1>8 DEF ReadRow
  <2>2. /\ r \in QueryType /\ r.op = q.op /\ r.of = q.of /\ r.f = q.f /\ r.out = q.out /\ r.left = q.left
        /\ r.ids = q.ids /\ r.rows = q.rows \union {n} /\ r.above = q.above /\ r.edges = q.edges
        /\ r.entries = q.entries /\ r.files = q.files
    BY <1>4, <1>7 DEF QueryType
  <2> HIDE DEF r
  <2>3. Moves(r.ids, r.left, r.rows, r.above, r.edges, r.entries, r.files)
    BY <1>1, <2>1, <2>2, Changing
  <2> QED BY <1>1, <1>3, <1>4, <1>5, <1>8, <2>2, <2>3
<1>9. CASE n \notin present /\ q.op \in {"latest", "from_parent"}
  <2>1. Stop(q)
    BY <1>6, <1>9 DEF ReadRow
  <2>2. Ended(q.ids, "running")
    BY <1>1, <1>7, <2>1, Ending
  <2> QED BY <1>1, <1>3, <1>4, <1>5, <1>9, <2>2
<1>10. CASE n \notin present /\ q.op = "sidecars"
  <2>1. Skip
    BY <1>6, <1>10 DEF ReadRow
  <2>2. Skips
    BY <1>1, <1>7, <2>1, Skipping
  <2> QED BY <1>1, <1>3, <1>4, <1>5, <1>10, <2>2
<1>11. CASE n \notin present /\ q.op \in {"detail", "diff", "runs", "snapshot"}
  <2>1. Fail
    BY <1>6, <1>11 DEF ReadRow
  <2>2. Ended(q.ids, "error")
    BY <1>1, <1>7, <2>1, Ending
  <2> QED BY <1>1, <1>3, <1>4, <1>5, <1>11, <2>2
<1> QED BY <1>3, <1>8, <1>9, <1>10, <1>11

LEMMA OnIds ==
    ASSUME Core, q.out = "running", q.todo # <<>>
    PROVE  On \in SUBSET Id
<1>1. Head(q.todo) \in StatementType /\ q.ids \in SUBSET Id
  BY DueIs DEF Core, QType, QueryType
<1> QED BY <1>1 DEF On, StatementType

LEMMA ReadsEntries ==
    ASSUME Core, ReadEntries
    PROVE  /\ Due("entries") /\ q.op \in {"detail", "diff", "page", "runs", "sidecars", "snapshot"}
           /\ \/ q.op = "page" /\ Head(q.todo).on = Found /\ On = q.ids
              \/ \E n \in Id : Head(q.todo).on = {n} /\ On = {n}
           /\ Moves(q.ids, q.left, q.rows, q.above, q.edges, q.entries \union (On \intersect present),
                    q.files)
<1>1. Due("entries") /\ q.out = "running" /\ q.todo # <<>> /\ Head(q.todo).do = "entries"
  BY DEF ReadEntries, Due
<1>2. Fits(q.op, q.of, q.f, Head(q.todo)) /\ q.op \in Operation
  BY <1>1, DueIs
<1>3. q.op \in {"detail", "diff", "page", "runs", "sidecars", "snapshot"}
  BY <1>1, <1>2, Makers DEF Fits
<1>4. \/ q.op = "page" /\ Head(q.todo).on = Found /\ On = q.ids
      \/ \E n \in Id : Head(q.todo).on = {n} /\ On = {n}
  <2>1. CASE q.op = "page"
    BY <1>1, <1>2, <2>1 DEF Fits, On
  <2>2. CASE q.op # "page"
    <3>1. PICK n \in Id : Head(q.todo).on = {n}
      BY <1>1, <1>2, <1>3, <2>2 DEF Fits
    <3> QED BY <1>1, <3>1, OnOne
  <2> QED BY <2>1, <2>2
<1> DEFINE X == q.entries \union (On \intersect present)
<1> DEFINE r == [q EXCEPT !.entries = X]
<1>5. Proceed(r)
  BY DEF ReadEntries
<1>6. q \in QueryType /\ X \in SUBSET Id
  BY <1>1, OnIds DEF Core, QType, QueryType
<1> HIDE DEF X
<1>7. /\ r \in QueryType /\ r.op = q.op /\ r.of = q.of /\ r.f = q.f /\ r.out = q.out /\ r.left = q.left
      /\ r.ids = q.ids /\ r.rows = q.rows /\ r.above = q.above /\ r.edges = q.edges
      /\ r.entries = X /\ r.files = q.files
  BY <1>6 DEF QueryType
<1> HIDE DEF r
<1>8. Moves(r.ids, r.left, r.rows, r.above, r.edges, r.entries, r.files)
  BY <1>1, <1>5, <1>7, Changing
<1> QED BY <1>1, <1>3, <1>4, <1>7, <1>8 DEF X

LEMMA ReadsFiles ==
    ASSUME Core, ReadFiles
    PROVE  /\ Due("files")
           /\ q.op \in {"detail", "diff", "page", "runs", "sidecars", "snapshot", "stats"} \union Artifacts
           /\ \/ q.op = "page" /\ Head(q.todo).on = Found /\ On = q.ids
              \/ q.op = "stats" /\ On \intersect present = present
              \/ \E n \in Id : /\ Head(q.todo).on = {n} /\ On = {n}
                               /\ q.op = "artifacts" => n = q.of[1]
           /\ Moves(q.ids, q.left, q.rows, q.above, q.edges, q.entries,
                    q.files \union (On \intersect present))
<1>1. Due("files") /\ q.out = "running" /\ q.todo # <<>> /\ Head(q.todo).do = "files"
  BY DEF ReadFiles, Due
<1>2. Fits(q.op, q.of, q.f, Head(q.todo)) /\ q.op \in Operation
  BY <1>1, DueIs
<1>3. q.op \in {"detail", "diff", "page", "runs", "sidecars", "snapshot", "stats"} \union Artifacts
  BY <1>1, <1>2, Makers DEF Fits
<1>4. \/ q.op = "page" /\ Head(q.todo).on = Found /\ On = q.ids
      \/ q.op = "stats" /\ On \intersect present = present
      \/ \E n \in Id : /\ Head(q.todo).on = {n} /\ On = {n}
                       /\ q.op = "artifacts" => n = q.of[1]
  <2>1. CASE q.op = "page"
    BY <1>1, <1>2, <2>1 DEF Fits, On
  <2>2. CASE q.op = "stats"
    BY <1>1, <1>2, <2>2 DEF Fits, Core, QType, QueryType, Stores, On, Found
  <2>3. CASE q.op \notin {"page", "stats"}
    <3>1. PICK n \in Id : Head(q.todo).on = {n}
      BY <1>1, <1>2, <1>3, <2>3 DEF Fits
    <3>2. q.op = "artifacts" => {n} = {q.of[1]}
      BY <1>2, <3>1 DEF Fits
    <3>3. q.op = "artifacts" => n = q.of[1]
      BY <3>2
    <3> QED BY <1>1, <3>1, <3>3, OnOne
  <2> QED BY <2>1, <2>2, <2>3
<1> DEFINE X == q.files \union (On \intersect present)
<1> DEFINE r == [q EXCEPT !.files = X]
<1>5. Proceed(r)
  BY DEF ReadFiles
<1>6. q \in QueryType /\ X \in SUBSET Id
  BY <1>1, OnIds DEF Core, QType, QueryType
<1> HIDE DEF X
<1>7. /\ r \in QueryType /\ r.op = q.op /\ r.of = q.of /\ r.f = q.f /\ r.out = q.out /\ r.left = q.left
      /\ r.ids = q.ids /\ r.rows = q.rows /\ r.above = q.above /\ r.edges = q.edges
      /\ r.entries = q.entries /\ r.files = X
  BY <1>6 DEF QueryType
<1> HIDE DEF r
<1>8. Moves(r.ids, r.left, r.rows, r.above, r.edges, r.entries, r.files)
  BY <1>1, <1>5, <1>7, Changing
<1> QED BY <1>1, <1>3, <1>4, <1>7, <1>8 DEF X

LEMMA ReadsBytes ==
    ASSUME Core, ReadBytes
    PROVE  /\ Due("bytes") /\ q.op \in {"snapshot", "artifacts", "from_parent"}
           /\ \E n \in Id :
                 /\ Head(q.todo).on = {n}
                 /\ \/ n \in q.files \ present /\ Ended(q.ids, "error")
                    \/ /\ n \notin q.files \ present
                       /\ Moves(q.ids, q.left, q.rows, q.above, q.edges, q.entries, q.files)
<1>1. Due("bytes") /\ q.out = "running" /\ q.todo # <<>> /\ Head(q.todo).do = "bytes"
  BY DEF ReadBytes, Due
<1>2. Fits(q.op, q.of, q.f, Head(q.todo)) /\ q.op \in Operation
  BY <1>1, DueIs
<1>3. q.op \in {"snapshot", "artifacts", "from_parent"}
  BY <1>1, <1>2, Makers DEF Fits
<1>4. PICK n \in Id : Head(q.todo).on = {n}
  BY <1>1, <1>2 DEF Fits
<1>5. On = {n}
  BY <1>1, <1>4, OnOne
<1>6. CASE n \in q.files \ present
  BY <1>1, <1>3, <1>4, <1>5, <1>6, Ending DEF ReadBytes, Core, QType
<1>7. CASE n \notin q.files \ present
  BY <1>1, <1>3, <1>4, <1>5, <1>7, Stays DEF ReadBytes
<1> QED BY <1>6, <1>7

-----------------------------------------------------------------------------
(* What the statements leave is a request in progress again.               *)

\* After these, no statement changes the ids or starts over.
LEMMA NothingNarrows ==
    ASSUME Core, q.out = "running", q.todo # <<>>,
           Head(q.todo).do \in {"parents", "rows", "again", "entries", "files", "copy"}
    PROVE  ~Some(Rest, Narrowing \union {"parents"})
<1> DEFINE k == Head(q.todo).do
<1> SUFFICES ASSUME NEW x \in Rest, x.do \in Narrowing \union {"parents"} PROVE FALSE
  BY DEF Some
<1>1. Before(k, x.do) /\ q.op \in Operation /\ k \in KindsOf(q.op)
  BY DueIs DEF Fits
<1>2. x.do \in KindsOf(q.op)
  BY DueIs DEF Core, Plan, Planned, Fits
<1>3. x.do # "sift"
  BY <1>1, <1>2, Makers, KindsAre
<1>4. CASE k \in {"parents", "rows", "again", "entries", "files"}
  <2>1. Rank(k) < Rank(x.do)
    BY <1>1, <1>3, <1>4 DEF Before, Narrowing
  <2>2. k = "parents" /\ x.do = "rows"
    BY <1>3, <1>4, <2>1, Ranks DEF Narrowing
  <2>3. q.op = "from_parent" /\ q.op \in Many
    BY <1>1, <1>2, <2>2, Makers
  <2> QED BY <2>3 DEF Many
<1>5. CASE k = "copy"
  BY <1>1, <1>2, <1>3, <1>5, Makers, KindsAre, Ranks DEF Before
<1> QED BY <1>4, <1>5

\* A row read for one node.
LEMMA RowNarrowsNothing ==
    ASSUME Core, q.out = "running", q.todo # <<>>, Head(q.todo).do = "row"
    PROVE  ~Some(Rest, Narrowing)
<1>1. q.op \in Operation /\ Fits(q.op, q.of, q.f, Head(q.todo)) /\ Pending = {Head(q.todo)} \union Rest
  BY DueIs
<1>2. PICK n \in Id : Head(q.todo).on = {n}
  BY <1>1 DEF Fits
<1>3. Head(q.todo).on # Found
  BY <1>2 DEF Found
<1>4. q.op # "stats"
  BY <1>1, KindsAre DEF Fits
<1>5. ~Some(Pending, Narrowing)
  BY <1>1, <1>3, <1>4 DEF Core, Plan, Planned, About
<1> QED BY <1>1, <1>5 DEF Some

\* What follows the first read of ids.
LEMMA NothingFindsAgain ==
    ASSUME Core, q.out = "running", q.todo # <<>>,
           Head(q.todo).do \in {"select", "all", "copy", "kids", "parents", "closure"}
    PROVE  /\ ~Some(Rest, {"select", "all", "copy", "kids", "parents"}) \/ Head(q.todo).do = "closure"
           /\ q.op = "lineage" => ~Await(Rest, "closure")
           /\ Head(q.todo).do = "all" /\ q.op \in Loops => ~Some(Rest, Narrowing \union {"parents"})
<1> DEFINE k == Head(q.todo).do
<1>1. q.op \in Operation /\ k \in KindsOf(q.op)
  BY DueIs DEF Fits
<1>2. ASSUME NEW x \in Rest
      PROVE  Before(k, x.do) /\ x.do \in KindsOf(q.op)
  BY <1>2, DueIs DEF Core, Plan, Planned, Fits
<1>3. ASSUME NEW x \in Rest, x.do \in {"select", "all", "copy", "kids", "parents"}, k # "closure"
      PROVE  FALSE
  <2>1. Before(k, x.do) /\ x.do \in KindsOf(q.op)
    BY <1>2, <1>3
  <2>2. x.do = k
    <3>1. CASE k = "select"
      BY <1>1, <1>3, <2>1, <3>1, Makers, KindsAre DEF Finding
    <3>2. CASE k = "all"
      BY <1>1, <1>3, <2>1, <3>2, Makers, KindsAre
    <3>3. CASE k = "copy"
      BY <1>1, <1>3, <2>1, <3>3, Makers, KindsAre
    <3>4. CASE k = "kids"
      BY <1>1, <1>3, <2>1, <3>4, Makers, KindsAre
    <3>5. CASE k = "parents"
      BY <1>1, <1>3, <2>1, <3>5, Makers, KindsAre
    <3> QED BY <1>3, <3>1, <3>2, <3>3, <3>4, <3>5
  <2> QED BY <1>3, <2>1, <2>2, Ranks DEF Before
<1>4. ASSUME NEW x \in Rest, x.do = "closure", q.op = "lineage"
      PROVE  FALSE
  BY <1>1, <1>2, <1>4, KindsAre, Ranks DEF Before
<1>5. ASSUME NEW x \in Rest, x.do \in Narrowing \union {"parents"}, k = "all", q.op \in Loops
      PROVE  FALSE
  BY <1>1, <1>2, <1>5, Makers, KindsAre, Ranks DEF Loops, Before, Narrowing
<1> QED BY <1>3, <1>4, <1>5 DEF Some, Await

\* While ids change, or a loop has not begun, nothing is left.
LEMMA NothingYet ==
    ASSUME Core, q.out = "running", q.todo # <<>>
    PROVE  /\ Head(q.todo).do \in Narrowing \union {"parents"} =>
                 q.left = {} /\ q.edges = {} /\ q.entries = {} /\ q.files = {}
           /\ Head(q.todo).do \in Narrowing => q.rows = {}
           /\ Head(q.todo).do \in {"select", "all", "copy", "kids", "parents"} => q.ids = {}
           /\ Head(q.todo).do = "closure" /\ q.op = "lineage" => q.ids = {}
<1>1. Head(q.todo) \in Pending
  BY DueIs
<1> QED BY <1>1 DEF Core, Blank, Some, Awaits, Await

\* No node's statements change the ids or start over.
LEMMA NodesNarrowNothing ==
    ASSUME NEW op \in Loops \union {"diff"}, NEW n
    PROVE  /\ ~Some(MakesFor(op, n), Narrowing \union {"parents"})
           /\ ~Await(MakesFor(op, n), "closure")
<1>1. \A s \in MakesFor(op, n) : s.do \in {"row", "links", "files", "entries", "bytes", "exists"}
  BY DEF MakesFor, Loops, ReadsDetail, ReadsOne, Do
<1> QED BY <1>1 DEF Some, Await, Narrowing

\* Rest has fewer statements.
LEMMA Fewer ==
    ASSUME Core, q.out = "running", q.todo # <<>>
    PROVE  /\ \A K : Some(Rest, K) => Some(Pending, K)
           /\ \A k : Await(Rest, k) => Await(Pending, k)
<1>1. Rest \subseteq Pending
  BY DueIs
<1> QED BY <1>1 DEF Some, Await

LEMMA GoesOn ==
    ASSUME Core, q.out = "running", q.todo # <<>>,
           NEW X \in SUBSET Id, NEW L \in SUBSET Id, NEW R, NEW A, NEW E, NEW N, NEW F,
           Moves(X, L, R, A, E, N, F), Allowed(X, L, R, E, N, F)
    PROVE  Core'
<1> DEFINE W == IF q.op \in Of THEN Range(q.of) ELSE X
<1>1. /\ q' \in QueryType /\ q'.op = q.op /\ q'.of = q.of /\ q'.f = q.f /\ q'.out = "running"
      /\ q'.ids = X /\ q'.rows = R /\ q'.edges = E /\ q'.entries = N /\ q'.files = F
      /\ Sorted(q'.todo) /\ Advance(Rest, L) /\ (q'.todo = <<>> => q'.left = {})
      /\ UNCHANGED <<present, link, ever, seen>>
  BY DEF Moves
<1>2. (QType /\ Stores /\ Question)'
  BY <1>1 DEF Core, QType, Stores, Question, Worded
<1>3. Pending = {Head(q.todo)} \union Rest /\ \A x \in Rest : Before(Head(q.todo).do, x.do)
  BY DueIs
<1>4. Wanted' = W
  BY <1>1 DEF Wanted
<1>5. W \in SUBSET Id
  BY DEF Core, QType, QueryType, Range
<1>6. Planned(q.op, q.of, q.f, Rest, W)
  <2>1. Planned(q.op, q.of, q.f, {Head(q.todo)} \union Rest, Wanted)
    BY <1>3 DEF Core, Plan
  <2>2. \/ W = Wanted
        \/ Head(q.todo).do \in Narrowing
        \/ Head(q.todo).do = "parents" /\ Wanted = {}
    <3>1. X = q.ids => W = Wanted
      BY DEF Wanted
    <3>2. Head(q.todo).do = "parents" => Wanted = {}
      <4> SUFFICES ASSUME Head(q.todo).do = "parents" PROVE Wanted = {}
        OBVIOUS
      <4>1. q.op = "from_parent"
        BY DueIs, Makers DEF Fits
      <4> QED BY <4>1, NothingYet DEF Wanted, Of
    <3> QED BY <3>1, <3>2 DEF Allowed
  <2> HIDE DEF W
  <2> QED BY <1>3, <2>1, <2>2, PlanGoesOn
<1>7. L \subseteq W /\ (L # {} => q.op \in Loops \union {"diff"})
  <2>1. q.left \subseteq Wanted /\ (q.left # {} => q.op \in Loops \union {"diff"})
    BY DEF Core, Plan
  <2>2. CASE L = q.left
    <3>1. CASE X = q.ids
      BY <2>1, <2>2, <3>1 DEF Wanted
    <3>2. CASE Head(q.todo).do \in Narrowing \union {"parents"}
      BY <2>2, <3>2, NothingYet
    <3> QED BY <3>1, <3>2 DEF Allowed
  <2>3. CASE L = {}
    BY <2>3
  <2>4. CASE L \subseteq X /\ q.op \in Loops
    BY <2>4 DEF Loops, Of
  <2> QED BY <2>2, <2>3, <2>4 DEF Allowed
<1> HIDE DEF W
<1>8. CASE Pending' = Rest /\ q'.left = L
  <2>1. Plan'
    BY <1>1, <1>4, <1>6, <1>7, <1>8 DEF Plan
  <2>2. Blank'
    <3>1. /\ \A K : Some(Rest, K) => Some(Pending, K)
          /\ \A k : Await(Rest, k) => Await(Pending, k)
      BY Fewer
    <3>2. Some(Rest, Narrowing \union {"parents"}) => L = {} /\ E = {} /\ N = {} /\ F = {}
      BY <3>1 DEF Core, Blank, Allowed
    <3>3. Some(Rest, Narrowing) => R = {}
      BY <3>1 DEF Core, Blank, Allowed
    <3>4. Some(Rest, {"select", "all", "copy", "kids", "parents"}) => X = {}
      BY <3>1 DEF Core, Blank, Allowed
    <3>5. q.op = "lineage" /\ Await(Rest, "closure") => X = {}
      BY <3>1 DEF Core, Blank, Allowed, Awaits
    <3>6. E # {} => q.op \in Many
      BY DEF Core, Blank, Allowed
    <3> QED BY <1>1, <1>8, <3>2, <3>3, <3>4, <3>5, <3>6 DEF Blank, Awaits
  <2> QED BY <1>2, <2>1, <2>2 DEF Core
<1>9. CASE \E n \in L : Pending' = MakesFor(q.op, n) /\ q'.left = L \ {n}
  <2>1. PICK n \in L : Pending' = MakesFor(q.op, n) /\ q'.left = L \ {n}
    BY <1>9
  <2>2. q.op \in Loops \union {"diff"} /\ n \in Id /\ n \in W
    BY <1>7
  <2>3. Planned(q.op, q.of, q.f, MakesFor(q.op, n), W)
    BY <2>2, NodePlanned
  <2>4. Plan'
    BY <1>1, <1>4, <1>7, <2>1, <2>2, <2>3 DEF Plan
  <2>5. /\ ~Some(Pending', Narrowing \union {"parents"}) /\ ~Await(Pending', "closure")
    BY <2>1, <2>2, NodesNarrowNothing
  <2>6. E # {} => q.op \in Many
    BY DEF Core, Blank, Allowed
  <2>7. Blank'
    BY <1>1, <2>5, <2>6 DEF Blank, Some, Awaits, Narrowing
  <2> QED BY <1>2, <2>4, <2>7 DEF Core
<1> QED BY <1>1, <1>8, <1>9 DEF Advance

LEMMA SkipsOn ==
    ASSUME Core, q.out = "running", Skips
    PROVE  Core'
<1>1. /\ q' \in QueryType /\ q'.op = q.op /\ q'.of = q.of /\ q'.f = q.f /\ q'.out = "running"
      /\ q'.ids = q.ids /\ q'.edges = q.edges
      /\ Sorted(q'.todo) /\ Advance({}, q.left) /\ (q'.todo = <<>> => q'.left = {})
      /\ UNCHANGED <<present, link, ever, seen>>
  BY DEF Skips
<1>2. (QType /\ Stores /\ Question)'
  BY <1>1 DEF Core, QType, Stores, Question, Worded
<1>3. Wanted' = Wanted /\ Wanted \in SUBSET Id
  BY <1>1 DEF Wanted, Core, QType, QueryType, Range
<1>4. q.left \subseteq Wanted /\ (q.left # {} => q.op \in Loops \union {"diff"})
      /\ (q.edges # {} => q.op \in Many)
  BY DEF Core, Plan, Blank
<1>5. CASE Pending' = {} /\ q'.left = q.left
  <2>1. Planned(q.op, q.of, q.f, {}, Wanted)
    BY NothingPlanned
  <2>2. Plan'
    BY <1>1, <1>3, <1>4, <1>5, <2>1 DEF Plan
  <2>3. Blank'
    BY <1>1, <1>4, <1>5 DEF Blank, Some, Awaits, Await
  <2> QED BY <1>2, <2>2, <2>3 DEF Core
<1>6. CASE \E n \in q.left : Pending' = MakesFor(q.op, n) /\ q'.left = q.left \ {n}
  <2>1. PICK n \in q.left : Pending' = MakesFor(q.op, n) /\ q'.left = q.left \ {n}
    BY <1>6
  <2>2. q.op \in Loops \union {"diff"} /\ n \in Id /\ n \in Wanted
    BY <1>3, <1>4
  <2>3. Planned(q.op, q.of, q.f, MakesFor(q.op, n), Wanted)
    BY <2>2, NodePlanned
  <2>4. Plan'
    BY <1>1, <1>3, <1>4, <2>1, <2>2, <2>3 DEF Plan
  <2>5. /\ ~Some(Pending', Narrowing \union {"parents"}) /\ ~Await(Pending', "closure")
    BY <2>1, <2>2, NodesNarrowNothing
  <2>6. Blank'
    BY <1>1, <1>4, <2>5 DEF Blank, Some, Awaits, Narrowing
  <2> QED BY <1>2, <2>4, <2>6 DEF Core
<1> QED BY <1>1, <1>5, <1>6 DEF Advance

LEMMA EndsWell ==
    ASSUME Core, q.out = "running", NEW X \in SUBSET Id, NEW out \in {"running", "error"},
           Ended(X, out), X \subseteq q.ids, X = q.ids \/ q.left = {}, out = "running" => q.left = {}
    PROVE  Core'
<1>1. /\ q' \in QueryType /\ q'.op = q.op /\ q'.of = q.of /\ q'.f = q.f /\ q'.out = out
      /\ q'.ids = X /\ q'.edges = q.edges
      /\ q'.todo = <<>> /\ Pending' = {} /\ q'.left = q.left
      /\ UNCHANGED <<present, link, ever, seen>>
  BY DEF Ended
<1>2. (QType /\ Stores /\ Question)'
  BY <1>1 DEF Core, QType, Stores, Question, Worded
<1>3. q'.left \subseteq Wanted' /\ (q.left # {} => q.op \in Loops \union {"diff"})
      /\ (q.edges # {} => q.op \in Many)
  BY <1>1 DEF Core, Plan, Blank, Wanted
<1>4. Planned(q.op, q.of, q.f, {}, Wanted')
  BY NothingPlanned
<1>5. Sorted(<<>>)
  BY Programs DEF Program
<1>6. Plan'
  BY <1>1, <1>3, <1>4, <1>5 DEF Plan
<1>7. Blank'
  BY <1>1, <1>3 DEF Blank, Some, Awaits, Await
<1> QED BY <1>2, <1>6, <1>7 DEF Core

\* The kind of the statement made settles what may change.
LEMMA AllowedIs ==
    ASSUME Core, q.out = "running", q.todo # <<>>, NEW X, NEW L, NEW R, NEW E, NEW N, NEW F
    PROVE  LET k == Head(q.todo).do IN
           /\ Allowed(q.ids, q.left, q.rows, q.edges, q.entries, q.files)
           /\ X \subseteq q.ids /\ k \in Narrowing =>
                 Allowed(X, q.left, q.rows, q.edges, q.entries, q.files)
           /\ k \in {"select", "kids"} => Allowed(X, q.left, q.rows, q.edges, q.entries, q.files)
           /\ k = "row" => Allowed(q.ids, q.left, R, q.edges, q.entries, q.files)
           /\ k = "again" => Allowed(q.ids, q.left, R, q.edges, q.entries, q.files)
           /\ k \in {"entries", "files"} => Allowed(q.ids, q.left, q.rows, q.edges, N, F)
<1>1. Allowed(q.ids, q.left, q.rows, q.edges, q.entries, q.files)
  BY DEF Allowed
<1>2. X \subseteq q.ids /\ Head(q.todo).do \in Narrowing =>
          Allowed(X, q.left, q.rows, q.edges, q.entries, q.files)
  BY DEF Allowed
<1>3. Head(q.todo).do \in {"select", "kids"} =>
          Allowed(X, q.left, q.rows, q.edges, q.entries, q.files)
  BY NothingFindsAgain DEF Allowed, Narrowing
<1>4. Head(q.todo).do = "row" => Allowed(q.ids, q.left, R, q.edges, q.entries, q.files)
  BY RowNarrowsNothing DEF Allowed
<1>5. ASSUME Head(q.todo).do \in {"again", "entries", "files"}
      PROVE  ~Some(Rest, Narrowing \union {"parents"}) /\ ~Some(Rest, Narrowing)
  BY <1>5, NothingNarrows DEF Some
<1>6. Head(q.todo).do = "again" => Allowed(q.ids, q.left, R, q.edges, q.entries, q.files)
  BY <1>5 DEF Allowed
<1>7. Head(q.todo).do \in {"entries", "files"} => Allowed(q.ids, q.left, q.rows, q.edges, N, F)
  BY <1>5 DEF Allowed
<1> QED BY <1>1, <1>2, <1>3, <1>4, <1>6, <1>7

\* A statement that only narrows the ids.
LEMMA NarrowsOn ==
    ASSUME Core, q.out = "running", q.todo # <<>>, NEW X \in SUBSET Id,
           X \subseteq q.ids, Head(q.todo).do \in Narrowing,
           \/ q.op = "search" /\ X = {} /\ Ended(X, "running")
           \/ Moves(X, q.left, q.rows, q.above, q.edges, q.entries, q.files)
    PROVE  Core'
<1>1. q.left \in SUBSET Id
  BY DEF Core, QType, QueryType
<1>2. CASE q.op = "search" /\ X = {} /\ Ended(X, "running")
  BY <1>2, EndsWell DEF Core, Plan, Loops
<1>3. CASE Moves(X, q.left, q.rows, q.above, q.edges, q.entries, q.files)
  BY <1>1, <1>3, AllowedIs, GoesOn
<1> QED BY <1>2, <1>3

LEMMA NewestIsAsked ==
    ASSUME Core, MostRecent
    PROVE  Core'
<1> DEFINE X == q.ids \intersect present
<1>1. /\ Due("newest") /\ q.op = "latest"
      /\ q' \in QueryType /\ q'.op = q.op /\ q'.of = q.of /\ q'.f = q.f /\ q'.out = "running"
      /\ q'.rows = q.rows /\ q'.edges = q.edges
      /\ q'.entries = q.entries /\ q'.files = q.files /\ q'.left = q.left
      /\ Sorted(q'.todo) /\ q'.ids = Newest(X)
      /\ UNCHANGED <<present, link, ever, seen>>
  BY TakesNewest
<1>2. \/ X = {} /\ Newest(X) = {} /\ q'.todo = <<>> /\ Pending' = {}
      \/ \E m \in X : Newest(X) = {m} /\ Pending' = ReadsOne(m) /\ q'.todo # <<>>
  BY TakesNewest
<1>3. (QType /\ Stores /\ Question)'
  <2>1. QType' /\ Stores'
    BY <1>1 DEF Core, QType, Stores
  <2>2. q.op \in Operation /\ q.out = "running"
    BY <1>1 DEF Core, Question, Worded, Due
  <2>3. Question'
    BY <1>1, <2>2 DEF Core, Question, Worded
  <2> QED BY <2>1, <2>3
<1>4. X \in SUBSET Id /\ q.left = {} /\ Wanted' = Newest(X)
  BY <1>1 DEF Core, QType, QueryType, Plan, Loops, Wanted, Of
<1>5. q.edges # {} => q.op \in Many
  BY DEF Core, Blank
<1> HIDE DEF X
<1>6. CASE X = {} /\ Newest(X) = {} /\ q'.todo = <<>> /\ Pending' = {}
  <2>1. Planned(q.op, q.of, q.f, {}, Newest(X))
    BY NothingPlanned
  <2>2. Plan'
    BY <1>1, <1>4, <1>6, <2>1 DEF Plan
  <2>3. Blank'
    BY <1>1, <1>5, <1>6 DEF Blank, Some, Awaits, Await
  <2> QED BY <1>3, <2>2, <2>3 DEF Core
<1>7. CASE \E m \in X : Newest(X) = {m} /\ Pending' = ReadsOne(m) /\ q'.todo # <<>>
  <2>1. PICK m \in X : Newest(X) = {m} /\ Pending' = ReadsOne(m) /\ q'.todo # <<>>
    BY <1>7
  <2>2. m \in Id /\ m \in Newest(X)
    BY <1>4, <2>1
  <2>3. Planned(q.op, q.of, q.f, ReadsOne(m), Newest(X))
    BY <1>1, <2>2, NewestPlanned
  <2>4. Plan'
    BY <1>1, <1>4, <2>1, <2>3 DEF Plan
  <2>5. \A s \in Pending' : s.do \in {"row", "links"}
    BY <2>1 DEF ReadsOne, Do
  <2>6. Blank'
    BY <1>1, <1>5, <2>5 DEF Blank, Some, Awaits, Await, Narrowing
  <2> QED BY <1>3, <2>4, <2>6 DEF Core
<1> QED BY <1>2, <1>6, <1>7

\* The row of a parent that is gone: from_parent looks no further, and
\* latest neither.
LEMMA RowLeavesNothing ==
    ASSUME Core, q.out = "running", q.todo # <<>>, Head(q.todo).do = "row",
           q.op \in {"latest", "from_parent"}
    PROVE  q.left = {}
<1>1. CASE q.op = "latest"
  BY <1>1 DEF Core, Plan, Loops
<1>2. CASE q.op = "from_parent"
  <2>1. Head(q.todo) \in Pending
    BY DueIs
  <2>2. Await(Pending, "row")
    BY <2>1 DEF Await
  <2>3. Await(Pending, "parents")
    BY <1>2, <2>2 DEF Core, Plan, Planned, Finishes, Leads
  <2> QED BY <2>3 DEF Core, Blank, Some, Await
<1> QED BY <1>1, <1>2

LEMMA StatementKeepsCore ==
    ASSUME Core, Statement
    PROVE  Core'
<1>0. /\ \A k : Due(k) <=> q.out = "running" /\ q.todo # <<>> /\ Head(q.todo).do = k
      /\ q.ids \in SUBSET Id /\ q.left \in SUBSET Id /\ present \in SUBSET Id
  BY DEF Due, Core, QType, QueryType, Stores
<1>1. CASE SelectIds
  <2> DEFINE X == {n \in present : Equals(n)}
  <2>1. Due("select") /\ X \in SUBSET Id
    BY <1>0, <1>1, SelectsIds
  <2>2. CASE Moves(X, q.left, q.rows, q.above, q.edges, q.entries, q.files)
    <3> HIDE DEF X
    <3>1. Allowed(X, q.left, q.rows, q.edges, q.entries, q.files)
      BY <1>0, <2>1, AllowedIs
    <3> QED BY <1>0, <2>1, <2>2, <3>1, GoesOn
  <2>3. CASE Ended(q.ids, "error")
    BY <1>0, <2>1, <2>3, EndsWell
  <2> QED BY <1>1, <2>2, <2>3, SelectsIds
<1>2. CASE AllNodeIds
  <2> DEFINE L == IF q.op \in Loops THEN present ELSE {}
  <2>1. Due("all") /\ Moves(present, L, q.rows, q.above, q.edges, q.entries, q.files)
    BY <1>2, ReadsAll
  <2>2. L \in SUBSET Id
    BY <1>0
  <2>3. Allowed(present, L, q.rows, q.edges, q.entries, q.files)
    BY <1>0, <2>1, NothingFindsAgain DEF Allowed, Narrowing
  <2> QED BY <1>0, <2>1, <2>2, <2>3, GoesOn
<1>3. CASE FilterParents
  <2> DEFINE X == {n \in q.ids : Parents(n) \in q.f.parents}
  <2>1. Due("edges") /\ (\/ q.op = "search" /\ X = {} /\ Ended(X, "running")
                         \/ Moves(X, q.left, q.rows, q.above, q.edges, q.entries, q.files))
    BY <1>3, FiltersParents
  <2>2. X \in SUBSET Id /\ X \subseteq q.ids
    BY <1>0
  <2>3. Head(q.todo).do \in Narrowing
    BY <1>0, <2>1 DEF Narrowing
  <2> HIDE DEF X
  <2> QED BY <1>0, <2>1, <2>2, <2>3, NarrowsOn
<1>4. CASE FilterValues
  <2> DEFINE X == {n \in q.ids : Accepted(n)}
  <2>1. Due("values") /\ (\/ q.op = "search" /\ X = {} /\ Ended(X, "running")
                          \/ Moves(X, q.left, q.rows, q.above, q.edges, q.entries, q.files))
    BY <1>4, FiltersValues
  <2>2. X \in SUBSET Id /\ X \subseteq q.ids
    BY <1>0
  <2>3. Head(q.todo).do \in Narrowing
    BY <1>0, <2>1 DEF Narrowing
  <2> HIDE DEF X
  <2> QED BY <1>0, <2>1, <2>2, <2>3, NarrowsOn
<1>5. CASE SearchTerm
  <2> DEFINE X == {n \in q.ids \intersect present : Equals(n)}
  <2>1. Due("term") /\ (\/ q.op = "search" /\ X = {} /\ Ended(X, "running")
                        \/ Moves(X, q.left, q.rows, q.above, q.edges, q.entries, q.files))
    BY <1>5, SearchesTerm
  <2>2. X \in SUBSET Id /\ X \subseteq q.ids
    BY <1>0
  <2>3. Head(q.todo).do \in Narrowing
    BY <1>0, <2>1 DEF Narrowing
  <2> HIDE DEF X
  <2> QED BY <1>0, <2>1, <2>2, <2>3, NarrowsOn
<1>6. CASE SearchSift
  <2> DEFINE X == q.ids \intersect present
  <2>1. Due("sift") /\ (\/ q.op = "search" /\ X = {} /\ Ended(X, "running")
                        \/ Moves(X, q.left, q.rows, q.above, q.edges, q.entries, q.files))
    BY <1>6, SearchSifts
  <2>2. X \in SUBSET Id /\ X \subseteq q.ids
    BY <1>0
  <2>3. Head(q.todo).do \in Narrowing
    BY <1>0, <2>1 DEF Narrowing
  <2> HIDE DEF X
  <2> QED BY <1>0, <2>1, <2>2, <2>3, NarrowsOn
<1>7. CASE MostRecent
  BY <1>7, NewestIsAsked
<1>8. CASE Exists
  <2>1. Due("exists")
    BY <1>8, LooksForIt
  <2>2. \/ Moves(q.ids, q.left, q.rows, q.above, q.edges, q.entries, q.files)
        \/ q.op = "children" /\ Ended(q.ids, "running")
        \/ Skips
        \/ Ended(q.ids, "error")
    BY <1>8, LooksForIt
  <2>3. CASE Moves(q.ids, q.left, q.rows, q.above, q.edges, q.entries, q.files)
    BY <1>0, <2>1, <2>3, AllowedIs, GoesOn
  <2>4. CASE q.op = "children" /\ Ended(q.ids, "running")
    BY <1>0, <2>1, <2>4, EndsWell DEF Core, Plan, Loops
  <2>5. CASE Skips
    BY <1>0, <2>1, <2>5, SkipsOn
  <2>6. CASE Ended(q.ids, "error")
    BY <1>0, <2>1, <2>6, EndsWell
  <2> QED BY <2>2, <2>3, <2>4, <2>5, <2>6
<1>9. CASE Closed
  <2> DEFINE A == AncestorsIn(Id, link, q.of[1])
  <2> DEFINE X == IF q.op = "lineage" THEN A ELSE q.ids \intersect A
  <2>1. /\ Due("closure") /\ q.op \in {"lineage", "ancestors"} /\ q.of[1] \in Id
        /\ Moves(X, q.left, q.rows, q.above, q.edges, q.entries, q.files)
    BY <1>9, GoesUp
  <2>2. A \in SUBSET Id
    BY <2>1, Ancestors, Store DEF Core
  <2>3. X \in SUBSET Id /\ (X \subseteq q.ids \/ q.op = "lineage")
    BY <1>0, <2>2
  <2>4. Allowed(X, q.left, q.rows, q.edges, q.entries, q.files)
    <3>1. X \subseteq q.ids \/ (/\ q.op = "lineage"
                                /\ ~Some(Rest, {"select", "all", "copy", "kids", "parents"})
                                /\ ~Await(Rest, "closure"))
      <4> SUFFICES ASSUME q.op = "lineage"
                   PROVE  /\ ~Some(Rest, {"select", "all", "copy", "kids", "parents"})
                          /\ ~Await(Rest, "closure")
        BY <2>3
      <4>1. \A x \in Rest : x.do \in {"exists", "closure", "links", "rows"}
        BY <1>0, <2>1, DueIs, KindsAre DEF Core, Plan, Planned, Fits
      <4>2. ~Await(Rest, "closure")
        BY <1>0, <2>1, NothingFindsAgain
      <4> QED BY <4>1, <4>2 DEF Some
    <3> HIDE DEF X
    <3> QED BY <1>0, <2>1, <3>1 DEF Allowed, Narrowing
  <2> HIDE DEF X
  <2> QED BY <1>0, <2>1, <2>3, <2>4, GoesOn
<1>10. CASE Children
  <2> DEFINE X == Below(link, q.of[1])
  <2>1. Due("kids") /\ Moves(X, q.left, q.rows, q.above, q.edges, q.entries, q.files)
    BY <1>10, GoesDown
  <2>2. X \in SUBSET Id
    BY <1>0, Store DEF Core
  <2> HIDE DEF X
  <2>3. Allowed(X, q.left, q.rows, q.edges, q.entries, q.files)
    BY <1>0, <2>1, AllowedIs
  <2> QED BY <1>0, <2>1, <2>2, <2>3, GoesOn
<1>11. CASE ReadLinks
  <2> DEFINE A == [n \in Id |-> IF n \in On THEN Parents(n) ELSE q.above[n]]
  <2>1. Due("links") /\ Moves(q.ids, q.left, q.rows, A, q.edges, q.entries, q.files)
    BY <1>11, ReadsLinks
  <2> HIDE DEF A
  <2>2. Allowed(q.ids, q.left, q.rows, q.edges, q.entries, q.files)
    BY <1>0, <2>1, AllowedIs
  <2> QED BY <1>0, <2>1, <2>2, GoesOn
<1>12. CASE ReadLinksAgain
  <2> DEFINE A == [n \in Id |-> IF n \in q.ids THEN Parents(n) ELSE q.above[n]]
  <2>1. Due("relink") /\ Moves(q.ids, q.left, q.rows, A, q.edges, q.entries, q.files)
    BY <1>12, ReadsLinksAgain
  <2> HIDE DEF A
  <2>2. Allowed(q.ids, q.left, q.rows, q.edges, q.entries, q.files)
    BY <1>0, <2>1, AllowedIs
  <2> QED BY <1>0, <2>1, <2>2, GoesOn
<1>13. CASE ReadParents
  <2> DEFINE P == Parents(q.of[1])
  <2> DEFINE A == [q.above EXCEPT ![q.of[1]] = Parents(q.of[1])]
  <2>1. Due("parents") /\ q.op = "from_parent" /\ Moves(P, P, q.rows, A, q.edges, q.entries, q.files)
    BY <1>13, ReadsParents
  <2>2. P \in SUBSET Id
    BY <1>0, Store DEF Core
  <2> HIDE DEF A, P
  <2>3. Allowed(P, P, q.rows, q.edges, q.entries, q.files)
    BY <1>0, <2>1, NothingNarrows, NothingFindsAgain DEF Allowed, Loops
  <2> QED BY <1>0, <2>1, <2>2, <2>3, GoesOn
<1>14. CASE CopyAll
  <2> DEFINE A == [n \in Id |-> Parents(n)]
  <2>1. Due("copy") /\ q.op = "backup" /\ Moves(present, q.left, present, A, q.edges, present, present)
    BY <1>14, CopiesAll
  <2> HIDE DEF A
  <2>2. ~Some(Rest, Narrowing \union {"parents"}) /\ ~Some(Rest, Narrowing)
    BY <1>0, <2>1, NothingNarrows DEF Some
  <2>3. Allowed(present, q.left, present, q.edges, present, present)
    BY <1>0, <2>1, <2>2, NothingFindsAgain DEF Allowed, Narrowing
  <2> QED BY <1>0, <2>1, <2>3, GoesOn
<1>15. CASE ReadRows
  <2> DEFINE X == q.ids \intersect present
  <2> DEFINE L == IF q.op \in Loops THEN X ELSE {}
  <2> DEFINE E == {e \in X \X Id : e[2] \in q.above[e[1]]}
  <2>1. Due("rows") /\ q.op \in Many /\ Moves(X, L, X, q.above, E, q.entries, q.files)
    BY <1>15, ReadsRows
  <2>2. X \in SUBSET Id /\ L \in SUBSET Id /\ X \subseteq q.ids
        /\ (L = {} \/ (L \subseteq X /\ q.op \in Loops))
    BY <1>0
  <2>3. ~Some(Rest, Narrowing \union {"parents"}) /\ ~Some(Rest, Narrowing)
    BY <1>0, <2>1, NothingNarrows DEF Some
  <2> HIDE DEF X, L, E
  <2>4. Allowed(X, L, X, E, q.entries, q.files)
    BY <1>0, <2>1, <2>2, <2>3 DEF Allowed, Narrowing
  <2> QED BY <1>0, <2>1, <2>2, <2>4, GoesOn
<1>16. CASE ReadRowsAgain
  <2> DEFINE R == q.ids \intersect present
  <2>1. Due("again") /\ Moves(q.ids, q.left, R, q.above, q.edges, q.entries, q.files)
    BY <1>16, ReadsRowsAgain
  <2> HIDE DEF R
  <2>2. Allowed(q.ids, q.left, R, q.edges, q.entries, q.files)
    BY <1>0, <2>1, AllowedIs
  <2> QED BY <1>0, <2>1, <2>2, GoesOn
<1>17. CASE ReadRow
  <2>1. PICK n \in Id :
           \/ Moves(q.ids, q.left, q.rows \union {n}, q.above, q.edges, q.entries, q.files)
           \/ q.op \in {"latest", "from_parent"} /\ Ended(q.ids, "running")
           \/ Skips
           \/ Ended(q.ids, "error")
    BY <1>17, ReadsRow
  <2>2. Due("row")
    BY <1>17, ReadsRow
  <2>3. CASE Moves(q.ids, q.left, q.rows \union {n}, q.above, q.edges, q.entries, q.files)
    <3> DEFINE R == q.rows \union {n}
    <3>1. Moves(q.ids, q.left, R, q.above, q.edges, q.entries, q.files)
      BY <2>3
    <3> HIDE DEF R
    <3>2. Allowed(q.ids, q.left, R, q.edges, q.entries, q.files)
      BY <1>0, <2>2, AllowedIs
    <3> QED BY <1>0, <2>2, <3>1, <3>2, GoesOn
  <2>4. CASE q.op \in {"latest", "from_parent"} /\ Ended(q.ids, "running")
    BY <1>0, <2>2, <2>4, RowLeavesNothing, EndsWell
  <2>5. CASE Skips
    BY <1>0, <2>2, <2>5, SkipsOn
  <2>6. CASE Ended(q.ids, "error")
    BY <1>0, <2>2, <2>6, EndsWell
  <2> QED BY <2>1, <2>3, <2>4, <2>5, <2>6
<1>18. CASE ReadEntries
  <2> DEFINE N == q.entries \union (On \intersect present)
  <2>1. Due("entries") /\ Moves(q.ids, q.left, q.rows, q.above, q.edges, N, q.files)
    BY <1>18, ReadsEntries
  <2> HIDE DEF N
  <2>2. Allowed(q.ids, q.left, q.rows, q.edges, N, q.files)
    BY <1>0, <2>1, AllowedIs
  <2> QED BY <1>0, <2>1, <2>2, GoesOn
<1>19. CASE ReadFiles
  <2> DEFINE F == q.files \union (On \intersect present)
  <2>1. Due("files") /\ Moves(q.ids, q.left, q.rows, q.above, q.edges, q.entries, F)
    BY <1>19, ReadsFiles
  <2> HIDE DEF F
  <2>2. Allowed(q.ids, q.left, q.rows, q.edges, q.entries, F)
    BY <1>0, <2>1, AllowedIs
  <2> QED BY <1>0, <2>1, <2>2, GoesOn
<1>20. CASE ReadBytes
  <2>1. Due("bytes") /\ (\/ Ended(q.ids, "error")
                         \/ Moves(q.ids, q.left, q.rows, q.above, q.edges, q.entries, q.files))
    BY <1>20, ReadsBytes
  <2>2. CASE Moves(q.ids, q.left, q.rows, q.above, q.edges, q.entries, q.files)
    BY <1>0, <2>1, <2>2, AllowedIs, GoesOn
  <2>3. CASE Ended(q.ids, "error")
    BY <1>0, <2>1, <2>3, EndsWell
  <2> QED BY <2>1, <2>2, <2>3
<1> QED BY <1>1, <1>2, <1>3, <1>4, <1>5, <1>6, <1>7, <1>8, <1>9, <1>10, <1>11, <1>12, <1>13,
           <1>14, <1>15, <1>16, <1>17, <1>18, <1>19, <1>20 DEF Statement

-----------------------------------------------------------------------------
(* Asking, answering, and the steps of others.                             *)

\* What is typed can be asked for.
LEMMA ParsedIs ==
    ASSUME NEW v \in Value
    PROVE  Parse(Str(v)) \in Value /\ MayAsk(Parse(Str(v)))
<1> DEFINE s == Str(v)
<1>1. s \in Value /\ s.is \in Texts
  BY DEF Str, Value, Kind, Native, Texts, Numbers
<1> HIDE DEF s
<1>2. Parse(s) \in Value /\ Parse(s).is \in Native
  BY <1>1 DEF Parse, Value, Kind, Native, Texts, Numbers
<1> QED BY <1>2 DEF MayAsk, s

LEMMA TypedIs ==
    ASSUME NEW f \in Filters
    PROVE  /\ f \in FilterType /\ f.equal \subseteq Asked
           /\ Typed(f) \in FilterType /\ Typed(f).equal \subseteq Asked /\ CanAsk(Typed(f))
           /\ Typed(f).parents = f.parents /\ Typed(f).call = f.call
<1>1. f \in FilterType
  BY QueriesAssumption
<1>2. f.equal \subseteq Asked /\ Typed(f).equal \subseteq Asked
  BY DEF Asked
<1> DEFINE T(e) == [e EXCEPT !.value = Parse(Str(e.value))]
<1>3. ASSUME NEW e \in f.equal
      PROVE  T(e) \in [key : STRING, value : Value] /\ MayAsk(T(e).value)
  <2>1. e \in [key : STRING, value : Value]
    BY <1>1, <1>3 DEF FilterType
  <2>2. e.value \in Value
    BY <2>1
  <2>3. Parse(Str(e.value)) \in Value /\ MayAsk(Parse(Str(e.value)))
    BY <2>2, ParsedIs
  <2> QED BY <2>1, <2>3
<1>4. Typed(f) = [f EXCEPT !.equal = {T(e) : e \in f.equal}]
  BY DEF Typed
<1> HIDE DEF T
<1>5. {T(e) : e \in f.equal} \in SUBSET [key : STRING, value : Value]
  BY <1>3
<1>6. /\ Typed(f) \in FilterType /\ Typed(f).equal = {T(e) : e \in f.equal}
      /\ Typed(f).parents = f.parents /\ Typed(f).call = f.call
  BY <1>1, <1>4, <1>5 DEF FilterType
<1>7. CanAsk(Typed(f))
  BY <1>3, <1>6 DEF CanAsk
<1> QED BY <1>1, <1>2, <1>6, <1>7

\* What a request would answer now is an answer.
LEMMA AnswerIs ==
    Stores /\ Question /\ q \in QueryType /\ q.out # "idle" =>
        AnswerNow(q.op, q.of, q.f) \in AnswerType
<1> SUFFICES ASSUME Stores, Question, q \in QueryType, q.out # "idle"
             PROVE  AnswerNow(q.op, q.of, q.f) \in AnswerType
  OBVIOUS
<1> DEFINE answer(ids) == [ok |-> TRUE, ids |-> ids, records |-> Records(ids)]
<1> DEFINE failure == [ok |-> FALSE, ids |-> {}, records |-> {}]
<1>1. ASSUME NEW S \in SUBSET Id PROVE answer(S) \in AnswerType
  BY Store DEF Records, AnswerType
<1>2. failure \in AnswerType
  BY DEF AnswerType
<1> DEFINE M == MatchingNow(q.f)
<1> DEFINE P == Parents(q.of[1])
<1> DEFINE B == Below(link, q.of[1])
<1> DEFINE A == AncestorsIn(Id, link, q.of[1])
<1>3. M \in SUBSET Id /\ Newest(M) \in SUBSET Id /\ present \in SUBSET Id
      /\ P \in SUBSET Id /\ B \in SUBSET Id /\ Range(q.of) \in SUBSET Id
      /\ Range(q.of) \intersect present \in SUBSET Id /\ A \intersect M \in SUBSET Id
  BY Store DEF MatchingNow, Newest, QueryType, Range
<1>4. q.op = "lineage" => A \in SUBSET Id
  <2> SUFFICES ASSUME q.op = "lineage" PROVE A \in SUBSET Id
    OBVIOUS
  <2>1. q.of[1] \in Id
    BY DEF Question, Worded
  <2> QED BY <2>1, Store, Ancestors
<1>5. AnswerNow(q.op, q.of, q.f) =
        IF ~CanAsk(q.f) THEN failure ELSE
        CASE q.op \in {"find", "search"} -> answer(M)
          [] q.op = "latest" -> answer(Newest(M))
          [] q.op = "children" -> answer(B)
          [] q.op \in {"page", "runs", "sidecars", "snapshot", "stats", "backup"} -> answer(present)
          [] q.op = "artifacts" -> answer(Range(q.of) \intersect present)
          [] q.op = "from_parent" -> answer(P)
          [] Range(q.of) \subseteq present /\ q.op \in {"detail", "diff"} -> answer(Range(q.of))
          [] q.of[1] \in present /\ q.op = "lineage" -> answer(A)
          [] q.of[1] \in present /\ q.op = "ancestors" -> answer(A \intersect M)
          [] OTHER -> failure
  BY DEF AnswerNow
<1> HIDE DEF M, P, B, A
<1>6. /\ answer(M) \in AnswerType /\ answer(Newest(M)) \in AnswerType /\ answer(B) \in AnswerType
      /\ answer(present) \in AnswerType /\ answer(Range(q.of) \intersect present) \in AnswerType
      /\ answer(P) \in AnswerType /\ answer(Range(q.of)) \in AnswerType
      /\ q.op = "lineage" => answer(A) \in AnswerType
      /\ answer(A \intersect M) \in AnswerType
  BY <1>1, <1>3, <1>4
<1> HIDE DEF answer, failure
<1> QED BY <1>2, <1>5, <1>6

LEMMA RecordsAre == Stores => Records(present) \in SUBSET (Id \X SUBSET Id)
BY Store DEF Records

\* A commit adds a node whose parents are there; a prune takes nodes, and
\* those that stay lose no parent but the ones it takes.
LEMMA OthersDo ==
    ASSUME Core, Commit \/ Prune
    PROVE  /\ UNCHANGED q /\ q.out = "running" /\ Stores'
           /\ ever \subseteq ever' /\ present' \intersect (ever \ present) = {}
           /\ \A n \in present \intersect present' :
                 Parents(n)' \subseteq Parents(n) /\ (present \subseteq present' => Parents(n)' = Parents(n))
           /\ seen'.right = seen.right \union {AnswerNow(q.op, q.of, q.f)'}
           /\ seen'.was = seen.was \union Records(present)'
           /\ seen'.gone = seen.gone \union (present \ present')
           /\ seen'.lacked = seen.lacked \union (Id \ present')
           /\ seen' \in SeenType
<1>0. seen \in SeenType /\ q \in QueryType /\ Stores /\ Question /\ MaxChanges \in Nat
  BY QueriesAssumption DEF Core, QType
<1>1. /\ UNCHANGED q /\ q.out = "running" /\ seen.changes < MaxChanges
      /\ seen.changes + 1 \in 0..MaxChanges
  BY <1>0 DEF Commit, Prune, SeenType
<1>2. CASE Commit
  <2>1. PICK n \in Id, ps \in SUBSET present : (\A p \in ps : p < n) /\ DB!Add(n, ps)
    BY <1>2 DEF Commit
  <2>2. /\ n \in Id \ ever /\ present' = present \union {n} /\ ever' = ever \union {n}
        /\ link' = link \union ({n} \X ps)
    BY <2>1 DEF DB!Add
  <2>3. Stores'
    <3>1. link \subseteq present \X present /\ \A e \in link : e[2] < e[1]
      BY <1>0 DEF Stores
    <3>2. link' \subseteq present' \X present'
      BY <2>2, <3>1
    <3>3. \A e \in link' : e[2] < e[1]
      BY <2>1, <2>2, <3>1
    <3> QED BY <1>0, <2>2, <3>2, <3>3 DEF Stores
  <2>4. \A m \in present : Parents(m)' = Parents(m)
    BY <1>0, <2>2 DEF Stores, Parents, Above
  <2>5. seen' = [seen EXCEPT !.changes = seen.changes + 1,
                             !.right = seen.right \union {AnswerNow(q.op, q.of, q.f)'},
                             !.was = seen.was \union Records(present)',
                             !.lacked = seen.lacked \union (Id \ present')]
    BY <1>0, <1>1, <1>2 DEF Commit, Remember, Glimpse, SeenType
  <2> QED
    <3>1. present \ present' = {} /\ ever \subseteq ever' /\ present' \intersect (ever \ present) = {}
      BY <2>2
    <3>2. AnswerNow(q.op, q.of, q.f)' \in AnswerType
      <4>1. (Stores /\ Question /\ q \in QueryType /\ q.out # "idle")'
        BY <1>0, <1>1, <2>3 DEF Question, Worded
      <4>2. (Stores /\ Question /\ q \in QueryType /\ q.out # "idle" =>
                AnswerNow(q.op, q.of, q.f) \in AnswerType)'
        BY AnswerIs, PTL
      <4> QED BY <4>1, <4>2
    <3>3. Records(present)' \in SUBSET (Id \X SUBSET Id)
      <4>1. (Stores => Records(present) \in SUBSET (Id \X SUBSET Id))'
        BY RecordsAre, PTL
      <4> QED BY <2>3, <4>1
    <3>4. Id \ present' \in SUBSET Id
      OBVIOUS
    <3>5. seen' \in SeenType
      BY <1>0, <1>1, <2>5, <3>2, <3>3, <3>4 DEF SeenType
    <3>6. /\ seen'.right = seen.right \union {AnswerNow(q.op, q.of, q.f)'}
          /\ seen'.was = seen.was \union Records(present)'
          /\ seen'.gone = seen.gone \union (present \ present')
          /\ seen'.lacked = seen.lacked \union (Id \ present')
      BY <1>0, <2>5, <3>1 DEF SeenType
    <3> QED BY <1>1, <2>3, <2>4, <3>1, <3>5, <3>6
<1>3. CASE Prune
  <2>1. PICK t \in present, D \in SUBSET present : t \in D /\ DB!Remove(t, D)
    BY <1>3 DEF Prune
  <2>2. /\ present' = present \ D /\ ever' = ever /\ D # {} /\ D \subseteq present
        /\ link' = {e \in link : e[1] \notin D /\ e[2] \notin D}
    BY <2>1 DEF DB!Remove
  <2>3. Stores'
    BY <1>0, <2>2 DEF Stores
  <2>4. \A m \in present' : Parents(m)' \subseteq Parents(m)
    BY <2>2 DEF Parents, Above
  <2>5. ~(present \subseteq present')
    BY <2>2
  <2>6. seen' = [seen EXCEPT !.changes = seen.changes + 1,
                             !.gone = seen.gone \union (present \ present'),
                             !.right = seen.right \union {AnswerNow(q.op, q.of, q.f)'},
                             !.was = seen.was \union Records(present)',
                             !.lacked = seen.lacked \union (Id \ present')]
    BY <1>0, <1>1, <1>3 DEF Prune, Remember, Glimpse, SeenType
  <2> QED
    <3>1. ever \subseteq ever' /\ present' \intersect (ever \ present) = {}
      BY <2>2
    <3>2. AnswerNow(q.op, q.of, q.f)' \in AnswerType
      <4>1. (Stores /\ Question /\ q \in QueryType /\ q.out # "idle")'
        BY <1>0, <1>1, <2>3 DEF Question, Worded
      <4>2. (Stores /\ Question /\ q \in QueryType /\ q.out # "idle" =>
                AnswerNow(q.op, q.of, q.f) \in AnswerType)'
        BY AnswerIs, PTL
      <4> QED BY <4>1, <4>2
    <3>3. Records(present)' \in SUBSET (Id \X SUBSET Id)
      <4>1. (Stores => Records(present) \in SUBSET (Id \X SUBSET Id))'
        BY RecordsAre, PTL
      <4> QED BY <2>3, <4>1
    <3>4. Id \ present' \in SUBSET Id /\ seen.gone \union (present \ present') \in SUBSET Id
      BY <1>0 DEF SeenType, Stores
    <3>5. seen' \in SeenType
      BY <1>0, <1>1, <2>6, <3>2, <3>3, <3>4 DEF SeenType
    <3>6. /\ seen'.right = seen.right \union {AnswerNow(q.op, q.of, q.f)'}
          /\ seen'.was = seen.was \union Records(present)'
          /\ seen'.gone = seen.gone \union (present \ present')
          /\ seen'.lacked = seen.lacked \union (Id \ present')
      BY <1>0, <2>6 DEF SeenType
    <3> QED BY <1>1, <2>3, <2>4, <2>5, <3>1, <3>5, <3>6
<1> QED BY <1>2, <1>3

LEMMA AskBegins ==
    ASSUME Core, NEW op \in Operation, NEW of \in Seq(Id), NEW f \in FilterType,
           Worded(op, of, f), Ask(op, of, f)
    PROVE  Core' /\ Begins(op, of, f)
<1>0. seen \in SeenType /\ Stores /\ MaxChanges \in Nat /\ UNCHANGED <<present, link, ever>>
  BY QueriesAssumption DEF Core, QType, Ask, Database
<1> DEFINE L == IF op = "diff" THEN {of[2]} ELSE {}
<1> DEFINE s == Statements(op, of, f)
<1>1. op \in {"lineage", "children", "ancestors", "detail", "diff"} \union Artifacts => of[1] \in Id
  BY DEF Worded
<1>2. Program(s, Makes(op, of, f)) /\ s # <<>>
  BY <1>1, StatementsAre
<1>3. L \in SUBSET Id /\ L \subseteq Range(of) /\ (op \in Of => of[1] \in Range(of))
  <2>1. CASE op = "diff"
    <3>1. PICK m, n \in Id : of = <<m, n>>
      BY <2>1 DEF Worded
    <3>2. DOMAIN of = 1..2 /\ of[1] = m /\ of[2] = n
      BY <3>1
    <3> QED BY <2>1, <3>2 DEF Range
  <2>2. CASE op # "diff"
    <3>1. op \in Of => \E n \in Id : of = <<n>>
      BY <2>2 DEF Worded, Of, Artifacts
    <3>2. \A n \in Id : of = <<n>> => DOMAIN of = 1..1 /\ of[1] = n
      OBVIOUS
    <3>3. op \in Of => of[1] \in Range(of)
      BY <3>1, <3>2 DEF Range
    <3> QED BY <2>2, <3>3
  <2> QED BY <2>1, <2>2
<1>4. q' = [Idle EXCEPT !.op = op, !.of = of, !.f = f, !.out = "running", !.todo = s, !.left = L]
  BY DEF Ask
<1>5. /\ q' \in QueryType /\ q'.op = op /\ q'.of = of /\ q'.f = f /\ q'.out = "running"
      /\ q'.todo = s /\ q'.left = L
      /\ q'.ids = {} /\ q'.rows = {} /\ q'.edges = {} /\ q'.entries = {} /\ q'.files = {}
  <2>1. s \in Seq(StatementType) /\ <<>> \in Seq(Id)
    BY <1>2 DEF Program
  <2>2. [n \in Id |-> {}] \in [Id -> SUBSET Id]
    OBVIOUS
  <2> HIDE DEF s, L
  <2> QED BY <1>3, <1>4, <2>1, <2>2 DEF Idle, QueryType
<1>6. Sorted(q'.todo) /\ Pending' = Makes(op, of, f) /\ q'.todo # <<>>
  BY <1>2, <1>5 DEF Program, Pending
<1>7. Question'
  BY <1>5 DEF Question
<1>8. /\ seen'.right = {AnswerNow(q.op, q.of, q.f)'} /\ seen'.was = Records(present)
      /\ seen'.gone = {} /\ seen'.lacked = Id \ present /\ seen' \in SeenType
  <2>1. AnswerNow(q.op, q.of, q.f)' \in AnswerType
    <3>1. (Stores /\ Question /\ q \in QueryType /\ q.out # "idle")'
      BY <1>0, <1>5, <1>7 DEF Stores
    <3>2. (Stores /\ Question /\ q \in QueryType /\ q.out # "idle" =>
              AnswerNow(q.op, q.of, q.f) \in AnswerType)'
      BY AnswerIs, PTL
    <3> QED BY <3>1, <3>2
  <2>2. Records(present) \in SUBSET (Id \X SUBSET Id) /\ Records(present)' = Records(present)
    BY <1>0, RecordsAre DEF Records, Parents
  <2>3. seen' = Remember(Unseen)
    BY DEF Ask
  <2>4. Remember(Unseen) =
          [right |-> {AnswerNow(q.op, q.of, q.f)'}, was |-> Records(present)', gone |-> {},
           lacked |-> Id \ present', changes |-> 0]
    <3> DEFINE r == {AnswerNow(q.op, q.of, q.f)'}
    <3> DEFINE w == Records(present)'
    <3>1. Remember(Unseen) = [Unseen EXCEPT !.right = Unseen.right \union r,
                                            !.was = Unseen.was \union w,
                                            !.lacked = Unseen.lacked \union (Id \ present')]
      BY DEF Remember, Glimpse
    <3> HIDE DEF r, w
    <3>2. Unseen.right = {} /\ Unseen.was = {} /\ Unseen.lacked = {}
      BY DEF Unseen
    <3>3. Remember(Unseen) = [Unseen EXCEPT !.right = r, !.was = w, !.lacked = Id \ present']
      BY <3>1, <3>2
    <3>4. Remember(Unseen) = [right |-> r, was |-> w, gone |-> {}, lacked |-> Id \ present', changes |-> 0]
      BY <3>3 DEF Unseen
    <3> QED BY <3>4 DEF r, w
  <2>5. 0 \in 0..MaxChanges /\ Id \ present \in SUBSET Id
    BY <1>0
  <2> QED BY <1>0, <2>1, <2>2, <2>3, <2>4, <2>5 DEF SeenType
<1>9. Begins(op, of, f)
  BY <1>0, <1>5, <1>6, <1>8 DEF Begins
<1>10. QType' /\ Stores'
  BY <1>0, <1>5, <1>8 DEF QType, Stores
<1> DEFINE W == IF op \in Of THEN Range(of) ELSE {}
<1>11. Wanted' = W
  BY <1>5 DEF Wanted
<1>12. Planned(op, of, f, Makes(op, of, f), W)
  BY <1>1, <1>3, RequestPlanned
<1>13. Plan'
  <2>1. L \subseteq W /\ (L # {} => op = "diff")
    BY <1>3 DEF Of
  <2> HIDE DEF L, W
  <2> QED BY <1>5, <1>6, <1>11, <1>12, <2>1 DEF Plan
<1>14. Blank'
  <2>1. op = "diff" => ~Some(Makes(op, of, f), Narrowing \union {"parents"})
    BY DEF ReadsDetail, ReadsOne, Do, Makes, Some, Narrowing
  <2>2. L # {} => op = "diff"
    OBVIOUS
  <2> HIDE DEF L
  <2> QED BY <1>5, <1>6, <2>1, <2>2 DEF Blank
<1> QED BY <1>7, <1>9, <1>10, <1>13, <1>14 DEF Core

\* Every way to ask.
LEMMA AsksSomething ==
    ASSUME Core, AskStore \/ AskNode \/ AskDiff \/ AskFilter \/ AskAncestors \/ AskSearch
    PROVE  Core' /\ \E op \in Operation, of \in Seq(Id), f \in FilterType : Worded(op, of, f) /\ Begins(op, of, f)
<1>0. NoFilter \in FilterType /\ NoFilter.equal \subseteq Asked /\ <<>> \in Seq(Id)
  BY DEF NoFilter, FilterType
<1>1. \A n \in Id : <<n>> \in Seq(Id)
  OBVIOUS
<1>2. \A m, n \in Id : <<m, n>> \in Seq(Id)
  OBVIOUS
<1> SUFFICES \E op \in Operation, of \in Seq(Id), f \in FilterType : Worded(op, of, f) /\ Ask(op, of, f)
  BY AskBegins
<1>3. CASE AskStore
  <2>1. PICK op \in Wholes \union {"sidecars", "stats", "backup"} : Ask(op, <<>>, NoFilter)
    BY <1>3 DEF AskStore
  <2>2. op \in Operation /\ Worded(op, <<>>, NoFilter)
    BY <1>0 DEF Worded, Operation, Details, Wholes, Artifacts
  <2> QED BY <1>0, <2>1, <2>2
<1>4. CASE AskNode
  <2>1. PICK op \in {"lineage", "children", "detail"} \union Artifacts, n \in Id : Ask(op, <<n>>, NoFilter)
    BY <1>4 DEF AskNode
  <2>2. op \in Operation /\ Worded(op, <<n>>, NoFilter)
    BY <1>0 DEF Worded, Operation, Details, Wholes, Artifacts
  <2> QED BY <1>0, <1>1, <2>1, <2>2
<1>5. CASE AskDiff
  <2>1. PICK m, n \in Id : m # n /\ Ask("diff", <<m, n>>, NoFilter)
    BY <1>5 DEF AskDiff
  <2>2. "diff" \in Operation /\ Worded("diff", <<m, n>>, NoFilter)
    BY <1>0, <2>1 DEF Worded, Operation, Details, Wholes, Artifacts
  <2> QED BY <1>0, <1>2, <2>1, <2>2
<1>6. CASE AskFilter
  <2>1. PICK op \in {"find", "latest"}, f \in Filters : Ask(op, <<>>, f)
    BY <1>6 DEF AskFilter
  <2>2. op \in Operation /\ f \in FilterType /\ Worded(op, <<>>, f)
    BY TypedIs DEF Worded, Operation, Details, Wholes, Artifacts
  <2> QED BY <1>0, <2>1, <2>2
<1>7. CASE AskAncestors
  <2>1. PICK n \in Id, f \in Filters : Ask("ancestors", <<n>>, f)
    BY <1>7 DEF AskAncestors
  <2>2. "ancestors" \in Operation /\ f \in FilterType /\ Worded("ancestors", <<n>>, f)
    BY TypedIs DEF Worded, Operation, Details, Wholes, Artifacts
  <2> QED BY <1>1, <2>1, <2>2
<1>8. CASE AskSearch
  <2>1. PICK f \in Filters : {} \notin f.parents /\ f.call # "missing" /\ Ask("search", <<>>, Typed(f))
    BY <1>8 DEF AskSearch
  <2>2. "search" \in Operation /\ Typed(f) \in FilterType /\ Worded("search", <<>>, Typed(f))
    <3> DEFINE t == Typed(f)
    <3>1. t \in FilterType /\ t.equal \subseteq Asked /\ CanAsk(t) /\ t.parents = f.parents /\ t.call = f.call
      BY TypedIs
    <3> HIDE DEF t
    <3>2. Worded("search", <<>>, t)
      BY <2>1, <3>1 DEF Worded, Artifacts
    <3> QED BY <3>1, <3>2 DEF t, Operation
  <2> QED BY <1>0, <2>1, <2>2
<1> QED BY <1>3, <1>4, <1>5, <1>6, <1>7, <1>8

LEMMA AnswersOrNot ==
    ASSUME Core, Deliver
    PROVE  /\ Core' /\ q.out = "running" /\ Pending = {} /\ Pending' = {} /\ q.left = {}
           /\ q'.op = q.op /\ q'.of = q.of /\ q'.f = q.f /\ q'.ids = q.ids /\ q'.rows = q.rows
           /\ q'.above = q.above /\ q'.edges = q.edges /\ q'.entries = q.entries
           /\ q'.files = q.files /\ q'.left = q.left
           /\ UNCHANGED <<present, link, ever, seen>>
           /\ \/ q'.out = "ok" /\ (q.op = "page" => q.rows = q.ids)
              \/ q'.out = "error" /\ q.op = "page" /\ q.rows # q.ids
<1>1. q \in QueryType /\ q.out = "running" /\ q.todo = <<>> /\ q.left = {}
  BY DEF Deliver, Core, QType, Plan
<1>2. <<>> \in Seq(StatementType) /\ Range(<<>>) = {} /\ Sorted(<<>>)
  BY Programs DEF Program
<1>3. UNCHANGED <<present, link, ever, seen>>
  BY DEF Deliver, Fail, Database
<1>4. CASE q.op = "page" /\ q.rows # q.ids
  <2>1. q' = [q EXCEPT !.todo = <<>>, !.out = "error"]
    BY <1>4 DEF Deliver, Fail
  <2>2. Ended(q.ids, "error")
    BY <1>1, <1>2, <1>3, <2>1 DEF Ended, QueryType, Pending
  <2>3. Core'
    BY <1>1, <2>2, EndsWell DEF QueryType
  <2> QED BY <1>1, <1>2, <1>3, <1>4, <2>2, <2>3 DEF Ended, Pending
<1>5. CASE ~(q.op = "page" /\ q.rows # q.ids)
  <2>1. q' = [q EXCEPT !.out = "ok"]
    BY <1>5 DEF Deliver
  <2>2. /\ q' \in QueryType /\ q'.op = q.op /\ q'.of = q.of /\ q'.f = q.f /\ q'.ids = q.ids
        /\ q'.rows = q.rows /\ q'.above = q.above /\ q'.edges = q.edges /\ q'.entries = q.entries
        /\ q'.files = q.files /\ q'.left = q.left /\ q'.todo = q.todo /\ q'.out = "ok"
    BY <1>1, <2>1 DEF QueryType
  <2>3. Pending' = Pending /\ Pending = {} /\ Wanted' = Wanted
    BY <1>1, <1>2, <2>2 DEF Pending, Wanted
  <2>4. QType' /\ Stores'
    BY <1>3, <2>2 DEF Core, QType, Stores
  <2>5. q.op \in Operation
    BY <1>1 DEF Core, Question
  <2>6. Question'
    BY <2>2, <2>5 DEF Core, Question
  <2>7. Plan'
    BY <1>1, <2>2, <2>3 DEF Core, Plan
  <2>8. Blank'
    BY <2>2, <2>3 DEF Core, Blank, Awaits
  <2> QED BY <1>1, <1>3, <1>5, <2>2, <2>3, <2>4, <2>6, <2>7, <2>8 DEF Core
<1> QED BY <1>4, <1>5

\* Nothing is asked.
LEMMA IdleIsCore ==
    q = Idle /\ seen = Unseen /\ Stores => Core
<1> SUFFICES ASSUME q = Idle, seen = Unseen, Stores PROVE Core
  OBVIOUS
<1>1. <<>> \in Seq(StatementType) /\ Range(<<>>) = {} /\ Sorted(<<>>) /\ <<>> \in Seq(Id)
  BY Programs DEF Program
<1>2. NoFilter \in FilterType /\ NoFilter.equal = {}
  BY DEF NoFilter, FilterType
<1>3. [n \in Id |-> {}] \in [Id -> SUBSET Id] /\ 0 \in 0..MaxChanges
  BY QueriesAssumption
<1>4. q \in QueryType /\ q.op = "none" /\ q.of = <<>> /\ q.f = NoFilter /\ q.todo = <<>>
      /\ q.left = {} /\ q.ids = {} /\ q.edges = {} /\ q.out = "idle"
  BY <1>1, <1>2, <1>3 DEF Idle, QueryType
<1>5. seen \in SeenType
  BY <1>3 DEF Unseen, SeenType
<1>6. Pending = {}
  BY <1>1, <1>4 DEF Pending
<1>7. Planned("none", <<>>, NoFilter, {}, Wanted)
  BY NothingPlanned
<1>8. Plan
  BY <1>1, <1>4, <1>6, <1>7 DEF Plan
<1>9. Blank
  BY <1>4, <1>6 DEF Blank, Some, Awaits, Await
<1>10. Question
  BY <1>2, <1>4 DEF Question, Worded, Artifacts
<1> QED BY <1>4, <1>5, <1>8, <1>9, <1>10 DEF Core, QType

LEMMA CoreStays ==
    ASSUME Core, [Next]_vars
    PROVE  Core'
<1>1. CASE UNCHANGED vars
  BY <1>1 DEF vars, Core, QType, Stores, Plan, Blank, Question, Pending, Awaits, Wanted
<1>2. CASE AskStore \/ AskNode \/ AskDiff \/ AskFilter \/ AskAncestors \/ AskSearch
  BY <1>2, AsksSomething
<1>3. CASE Statement
  BY <1>3, StatementKeepsCore
<1>4. CASE Deliver
  BY <1>4, AnswersOrNot
<1>5. CASE Forget
  <2>1. (q = Idle /\ seen = Unseen /\ Stores)'
    BY <1>5 DEF Forget, Database, Core, Stores, Idle, Unseen
  <2>2. (q = Idle /\ seen = Unseen /\ Stores => Core)'
    BY IdleIsCore, PTL
  <2> QED BY <2>1, <2>2
<1>6. CASE Commit \/ Prune
  <2>1. UNCHANGED q /\ q.out = "running" /\ Stores' /\ seen' \in SeenType
    BY <1>6, OthersDo
  <2>2. QType' /\ Question'
    BY <2>1 DEF Core, QType, Question
  <2>3. Plan' /\ Blank'
    BY <2>1 DEF Core, Plan, Blank, Pending, Awaits, Wanted
  <2> QED BY <2>1, <2>2, <2>3 DEF Core
<1> QED BY <1>1, <1>2, <1>3, <1>4, <1>5, <1>6 DEF Next, Request

LEMMA CoreStarts == Init => Core
<1> SUFFICES ASSUME Init PROVE Core
  OBVIOUS
<1>1. Stores
  BY DEF Init, Stores
<1> QED BY <1>1, IdleIsCore DEF Init

LEMMA CoreHolds == Spec => []Core
<1>1. Core /\ [Next]_vars => Core'
  BY CoreStays
<1> QED BY <1>1, CoreStarts, PTL DEF Spec

-----------------------------------------------------------------------------
(* The statements once more, by their kinds.                               *)

LEMMA NarrowOutcome ==
    ASSUME NEW k \in {"edges", "values", "term", "sift"}, NEW X, IdsBy(k) = X, Due(k),
           \/ q.op = "search" /\ X = {} /\ Ended(X, "running")
           \/ Moves(X, q.left, q.rows, q.above, q.edges, q.entries, q.files)
    PROVE  Outcome(k)
<1>1. /\ LeftBy(k) = q.left /\ RowsBy(k) = q.rows /\ AboveBy(k) = q.above /\ EdgesBy(k) = q.edges
      /\ EntriesBy(k) = q.entries /\ FilesBy(k) = q.files
  BY DEF LeftBy, RowsBy, AboveBy, EdgesBy, EntriesBy, FilesBy
<1>2. CASE q.op = "search" /\ X = {} /\ Ended(X, "running")
  BY <1>2 DEF Outcome, Stopped
<1>3. CASE Moves(X, q.left, q.rows, q.above, q.edges, q.entries, q.files)
  BY <1>1, <1>3 DEF Outcome, Made
<1> QED BY <1>2, <1>3

LEMMA Outcomes ==
    ASSUME Core, Statement
    PROVE  \E k \in Kinds : Outcome(k)
<1> USE DEF IdsBy, LeftBy, RowsBy, AboveBy, EdgesBy, EntriesBy, FilesBy
<1>1. CASE SelectIds
  BY <1>1, SelectsIds DEF Made, Refused, Outcome, Kinds
<1>2. CASE AllNodeIds
  BY <1>2, ReadsAll DEF Made, Outcome, Kinds
<1>3. CASE FilterParents
  BY <1>3, FiltersParents, NarrowOutcome DEF Kinds
<1>4. CASE FilterValues
  BY <1>4, FiltersValues, NarrowOutcome DEF Kinds
<1>5. CASE SearchTerm
  BY <1>5, SearchesTerm, NarrowOutcome DEF Kinds
<1>6. CASE SearchSift
  BY <1>6, SearchSifts, NarrowOutcome DEF Kinds
<1>7. CASE MostRecent
  BY <1>7, TakesNewest DEF Taken, Outcome, Kinds
<1>8. CASE Exists
  <2>1. PICK n \in Id :
           /\ Head(q.todo).on = {n}
           /\ \/ n \in present /\ Moves(q.ids, q.left, q.rows, q.above, q.edges, q.entries, q.files)
              \/ n \notin present /\ q.op = "children" /\ Ended(q.ids, "running")
              \/ n \notin present /\ q.op = "from_parent" /\ Skips
              \/ n \notin present /\ q.op \in {"lineage", "ancestors"} /\ Ended(q.ids, "error")
    BY <1>8, LooksForIt
  <2>2. Made("exists") \/ Refused("exists") \/ Stopped("exists") \/ Skipped("exists")
    BY <2>1 DEF Made, Refused, Stopped, Skipped, Missing
  <2> QED BY <1>8, <2>2, LooksForIt DEF Outcome, Kinds
<1>9. CASE Closed
  BY <1>9, GoesUp DEF Made, Ancestry, Outcome, Kinds
<1>10. CASE Children
  BY <1>10, GoesDown DEF Made, Outcome, Kinds
<1>11. CASE ReadLinks
  BY <1>11, ReadsLinks DEF Made, Outcome, Kinds
<1>12. CASE ReadLinksAgain
  BY <1>12, ReadsLinksAgain DEF Made, Outcome, Kinds
<1>13. CASE ReadParents
  BY <1>13, ReadsParents DEF Made, Outcome, Kinds
<1>14. CASE CopyAll
  BY <1>14, CopiesAll DEF Made, Outcome, Kinds
<1>15. CASE ReadRows
  BY <1>15, ReadsRows DEF Made, Outcome, Kinds
<1>16. CASE ReadRowsAgain
  BY <1>16, ReadsRowsAgain DEF Made, Outcome, Kinds
<1>17. CASE ReadRow
  <2>1. PICK n \in Id :
           /\ Head(q.todo).on = {n}
           /\ \/ /\ n \in present
                 /\ Moves(q.ids, q.left, q.rows \union {n}, q.above, q.edges, q.entries, q.files)
              \/ n \notin present /\ q.op \in {"latest", "from_parent"} /\ Ended(q.ids, "running")
              \/ n \notin present /\ q.op = "sidecars" /\ Skips
              \/ /\ n \notin present /\ q.op \in {"detail", "diff", "runs", "snapshot"}
                 /\ Ended(q.ids, "error")
    BY <1>17, ReadsRow
  <2>2. Made("row") \/ Refused("row") \/ Stopped("row") \/ Skipped("row")
    BY <2>1 DEF Made, Refused, Stopped, Skipped, Missing
  <2> QED BY <1>17, <2>2, ReadsRow DEF Outcome, Kinds
<1>18. CASE ReadEntries
  BY <1>18, ReadsEntries DEF Made, Outcome, Kinds
<1>19. CASE ReadFiles
  BY <1>19, ReadsFiles DEF Made, Outcome, Kinds
<1>20. CASE ReadBytes
  BY <1>20, ReadsBytes DEF Made, Refused, Outcome, Kinds
<1> QED BY <1>1, <1>2, <1>3, <1>4, <1>5, <1>6, <1>7, <1>8, <1>9, <1>10, <1>11, <1>12, <1>13,
           <1>14, <1>15, <1>16, <1>17, <1>18, <1>19, <1>20 DEF Statement

\* The statement that is due, and whose it can be.
LEMMA DueKind ==
    ASSUME Core, NEW k \in Kinds, Due(k)
    PROVE  /\ q.out = "running" /\ q.todo # <<>> /\ Head(q.todo).do = k
           /\ q.op \in Operation /\ k \in KindsOf(q.op) /\ Fits(q.op, q.of, q.f, Head(q.todo))
           /\ Pending = {Head(q.todo)} \union Rest /\ Await(Pending, k)
           /\ \A x \in Rest : Before(k, x.do)
<1>1. q.out = "running" /\ q.todo # <<>> /\ Head(q.todo).do = k
  BY DEF Due
<1>2. /\ Fits(q.op, q.of, q.f, Head(q.todo)) /\ q.op \in Operation
      /\ Pending = {Head(q.todo)} \union Rest
      /\ \A x \in Rest : Before(Head(q.todo).do, x.do)
  BY <1>1, DueIs
<1>3. k \in KindsOf(q.op)
  BY <1>1, <1>2 DEF Fits
<1>4. Await(Pending, k)
  BY <1>1, <1>2 DEF Await
<1> QED BY <1>1, <1>2, <1>3, <1>4

\* What statements leave as it is.
LEMMA Leaves ==
    ASSUME NEW k \in Kinds
    PROVE  /\ k \notin Narrowing \union {"parents"} => IdsBy(k) = q.ids
           /\ k \notin {"all", "rows", "parents"} => LeftBy(k) = q.left
           /\ k \notin {"copy", "rows", "again", "row"} => RowsBy(k) = q.rows
           /\ k \notin {"copy", "links", "relink", "parents"} => AboveBy(k) = q.above
           /\ k # "rows" => EdgesBy(k) = q.edges
           /\ k \notin {"copy", "entries"} => EntriesBy(k) = q.entries
           /\ k \notin {"copy", "files"} => FilesBy(k) = q.files
BY DEF IdsBy, LeftBy, RowsBy, AboveBy, EdgesBy, EntriesBy, FilesBy, Narrowing

\* How a request goes on with the statements of T, or else with the next
\* node of L.
LEMMA Advances ==
    ASSUME NEW T, NEW L, Advance(T, L), L # {} => q.op \in Loops \union {"diff"}
    PROVE  /\ T \subseteq Pending' /\ q'.left \subseteq L
           /\ \A s \in Pending' :
                 s \in T \/ (T = {} /\ \E n \in L : Pending' = MakesFor(q.op, n) /\ s.on = {n} /\ s.do \in Single)
           /\ \A l : l \notin Single => (Await(Pending', l) <=> Await(T, l))
           /\ \A n \in L : \/ n \in q'.left
                           \/ Pending' = MakesFor(q.op, n)
<1>1. CASE Pending' = T /\ q'.left = L
  BY <1>1 DEF Await
<1>2. CASE T = {} /\ \E n \in L : Pending' = MakesFor(q.op, n) /\ q'.left = L \ {n}
  <2>1. PICK n \in L : Pending' = MakesFor(q.op, n) /\ q'.left = L \ {n}
    BY <1>2
  <2>2. q.op \in Loops \union {"diff"}
    BY <2>1
  <2>3. \A s \in MakesFor(q.op, n) : s.on = {n} /\ s.do \in Single
    BY <2>2 DEF MakesFor, Loops, ReadsDetail, ReadsOne, Do, Single
  <2>4. \A l : l \notin Single => ~Await(Pending', l) /\ ~Await(T, l)
    BY <1>2, <2>1, <2>3 DEF Await
  <2> QED BY <1>2, <2>1, <2>3, <2>4
<1> QED BY <1>1, <1>2 DEF Advance

\* What has yet to be read, when a statement is made.
LEMMA MadeIs ==
    ASSUME Core, NEW k \in Kinds, Due(k), Made(k)
    PROVE  /\ q' \in QueryType /\ q'.op = q.op /\ q'.of = q.of /\ q'.f = q.f /\ q'.out = "running"
           /\ q'.ids = IdsBy(k) /\ q'.rows = RowsBy(k) /\ q'.above = AboveBy(k)
           /\ q'.edges = EdgesBy(k) /\ q'.entries = EntriesBy(k) /\ q'.files = FilesBy(k)
           /\ UNCHANGED <<present, link, ever, seen>>
           /\ Advance(Rest, LeftBy(k))
           /\ LeftBy(k) # {} => q.op \in Loops \union {"diff"}
           /\ Rest \subseteq Pending' /\ q'.left \subseteq LeftBy(k)
           /\ \A l : l \notin Single => (Await(Pending', l) <=> Await(Rest, l))
           /\ \A l : Await(Pending, l) /\ ~Await(Pending', l) => l = k
<1>1. /\ q' \in QueryType /\ q'.op = q.op /\ q'.of = q.of /\ q'.f = q.f /\ q'.out = "running"
      /\ q'.ids = IdsBy(k) /\ q'.rows = RowsBy(k) /\ q'.above = AboveBy(k)
      /\ q'.edges = EdgesBy(k) /\ q'.entries = EntriesBy(k) /\ q'.files = FilesBy(k)
      /\ UNCHANGED <<present, link, ever, seen>> /\ Advance(Rest, LeftBy(k))
  BY DEF Made, Moves
<1>2. LeftBy(k) # {} => q.op \in Loops \union {"diff"}
  <2>1. q.left # {} => q.op \in Loops \union {"diff"}
    BY DEF Core, Plan
  <2>2. k = "parents" => q.op \in Loops
    BY DueKind, Makers DEF Loops
  <2>3. k \in {"all", "rows"} /\ q.op \notin Loops => LeftBy(k) = {}
    BY DEF LeftBy
  <2> QED BY <2>1, <2>2, <2>3, Leaves
<1>3. /\ Rest \subseteq Pending' /\ q'.left \subseteq LeftBy(k)
      /\ \A l : l \notin Single => (Await(Pending', l) <=> Await(Rest, l))
  BY <1>1, <1>2, Advances
<1>4. \A l : Await(Pending, l) /\ ~Await(Pending', l) => l = k
  BY <1>3, DueKind DEF Await
<1> QED BY <1>1, <1>2, <1>3, <1>4

\* No statement changes what others see.
LEMMA OutcomeIs ==
    ASSUME Core, NEW k \in Kinds, Outcome(k)
    PROVE  /\ q'.op = q.op /\ q'.of = q.of /\ q'.f = q.f /\ q'.out \in {"running", "error"}
           /\ UNCHANGED <<present, link, ever, seen>>
           /\ ~Made(k) => q'.rows = q.rows /\ q'.above = q.above /\ q'.edges = q.edges
                          /\ q'.entries = q.entries /\ q'.files = q.files
           /\ ~Made(k) => q'.ids = q.ids \/ (k \in Narrowing /\ q'.ids \subseteq q.ids \intersect IdsBy(k))
                                         \/ Taken(k)
<1>1. CASE Made(k)
  BY <1>1, MadeIs DEF Outcome
<1>2. CASE Refused(k)
  BY <1>2 DEF Refused, Ended
<1>3. CASE Stopped(k)
  BY <1>3 DEF Stopped, Ended, Narrowing
<1>4. CASE Skipped(k)
  BY <1>4 DEF Skipped, Skips
<1>5. CASE Taken(k)
  BY <1>5 DEF Taken
<1> QED BY <1>1, <1>2, <1>3, <1>4, <1>5 DEF Outcome

-----------------------------------------------------------------------------
(* The types of a request                                                  *)

LEMMA EdgedStays ==
    ASSUME Core, Edged, [Next]_vars
    PROVE  Edged'
<1>1. CASE UNCHANGED vars
  BY <1>1 DEF vars, Edged
<1>2. CASE AskStore \/ AskNode \/ AskDiff \/ AskFilter \/ AskAncestors \/ AskSearch
  BY <1>2, AsksSomething DEF Begins, Edged
<1>3. CASE Statement
  <2>1. PICK k \in Kinds : Outcome(k)
    BY <1>3, Outcomes
  <2>2. Due(k) /\ q.out = "running" /\ q.todo # <<>> /\ Head(q.todo).do = k
    BY <2>1 DEF Outcome, Due
  <2>3. k \in Narrowing \union {"parents"} => q.edges = {}
    BY <2>2, NothingYet
  <2>4. CASE Made(k)
    <3>1. q'.ids = IdsBy(k) /\ q'.edges = EdgesBy(k)
      BY <2>2, <2>4, MadeIs
    <3>2. CASE k = "rows"
      BY <3>1, <3>2 DEF EdgesBy, Edged
    <3>3. CASE k # "rows"
      BY <2>3, <3>1, <3>3, Leaves DEF Edged
    <3> QED BY <3>2, <3>3
  <2>5. CASE ~Made(k)
    BY <2>1, <2>3, <2>5, OutcomeIs DEF Taken, Narrowing, Edged
  <2> QED BY <2>4, <2>5
<1>4. CASE Deliver
  BY <1>4, AnswersOrNot DEF Edged
<1>5. CASE Forget
  BY <1>5 DEF Forget, Idle, Edged
<1>6. CASE Commit \/ Prune
  BY <1>6, OthersDo DEF Edged
<1> QED BY <1>1, <1>2, <1>3, <1>4, <1>5, <1>6 DEF Next, Request

\* The database, the request, its answer and the history keep their types:
\* whatever is asked, committed and pruned, a query goes on with statements it
\* can make, about nodes it can know.
THEOREM TypeCorrect == Spec => []TypeOK
<1>1. Init => Core /\ Edged
  BY CoreStarts DEF Init, Edged, Idle
<1>2. Core /\ Edged /\ [Next]_vars => Core' /\ Edged'
  BY CoreStays, EdgedStays
<1>3. Core /\ Edged => TypeOK
  <2> SUFFICES ASSUME Core, Edged PROVE TypeOK
    OBVIOUS
  <2>1. q \in QueryType /\ seen \in SeenType /\ Stores
    BY DEF Core, QType
  <2>2. /\ q.op \in Operation \union {"none"} /\ q.f \in FilterType
        /\ q.ids \subseteq Id /\ q.left \subseteq Id /\ q.rows \subseteq Id
        /\ q.above \in [Id -> SUBSET Id] /\ q.entries \subseteq Id /\ q.files \subseteq Id
        /\ q.out \in {"idle", "running", "ok", "error"}
    BY <2>1 DEF QueryType
  <2>3. seen.gone \subseteq Id /\ seen.lacked \subseteq Id /\ seen.changes \in 0..MaxChanges
    BY <2>1 DEF SeenType
  <2> QED BY <2>1, <2>2, <2>3 DEF TypeOK, Stores, Edged
<1> QED BY <1>1, <1>2, <1>3, PTL DEF Spec

-----------------------------------------------------------------------------
(* What the history records, and what was read.                            *)

\* Every step, as the lemmas above describe it.
LEMMA AnyStep ==
    ASSUME Core, [Next]_vars
    PROVE  \/ UNCHANGED vars
           \/ \E op \in Operation, of \in Seq(Id), f \in FilterType : Worded(op, of, f) /\ Begins(op, of, f)
           \/ \E k \in Kinds : Outcome(k)
           \/ Deliver
           \/ Restarts
           \/ Commit \/ Prune
BY AsksSomething, Outcomes DEF Next, Request, Forget, Restarts, Database

\* What a request waits for when it begins.
LEMMA Starting ==
    ASSUME NEW op \in Operation, NEW of, NEW f
    PROVE  LET P == Makes(op, of, f) IN
           /\ op \in Finding => Await(P, "select")
           /\ op \in {"runs", "sidecars", "search", "stats"} => Await(P, "all")
           /\ op \in Many => Await(P, "rows") /\ Do("links", Found) \in P
           /\ op \in {"lineage", "children", "ancestors"} => Await(P, "exists")
           /\ op \in {"lineage", "ancestors"} => Await(P, "closure")
           /\ op = "children" => Await(P, "kids")
           /\ op = "latest" => Await(P, "newest")
           /\ op = "page" => Await(P, "again")
           /\ op = "backup" => Await(P, "copy")
           /\ op = "stats" => Await(P, "files")
           /\ op = "from_parent" => Await(P, "parents")
           /\ op = "artifacts" => Do("files", {of[1]}) \in P
           /\ op \in {"detail", "diff"} => ReadsDetail(of[1]) \subseteq P
<1> DEFINE P == Makes(op, of, f)
<1>1. /\ \A s : Starts(op, of, f, s) => s \in P
      /\ \A k, on : Do(k, on).do = k
  BY MakesAre DEF Do
<1> HIDE DEF P
<1>2. /\ op \in Finding => Await(P, "select")
      /\ op \in {"runs", "sidecars", "search", "stats"} => Await(P, "all")
      /\ op \in Many => Await(P, "rows") /\ Do("links", Found) \in P
  BY <1>1 DEF Starts, Await
<1>3. /\ op \in {"lineage", "children", "ancestors"} => Await(P, "exists")
      /\ op \in {"lineage", "ancestors"} => Await(P, "closure")
      /\ op = "children" => Await(P, "kids")
      /\ op = "latest" => Await(P, "newest")
  BY <1>1 DEF Starts, Await
<1>4. /\ op = "page" => Await(P, "again")
      /\ op = "backup" => Await(P, "copy")
      /\ op = "stats" => Await(P, "files")
      /\ op = "from_parent" => Await(P, "parents")
  BY <1>1 DEF Starts, Await
<1>5. /\ op = "artifacts" => Do("files", {of[1]}) \in P
      /\ op \in {"detail", "diff"} => ReadsDetail(of[1]) \subseteq P
  BY <1>1 DEF Starts
<1> QED BY <1>2, <1>3, <1>4, <1>5 DEF P

\* An answer is of the store and the question alone.
LEMMA SameAnswer ==
    ASSUME UNCHANGED <<present, link>>, q'.op = q.op, q'.of = q.of, q'.f = q.f
    PROVE  /\ AnswerNow(q.op, q.of, q.f)' = AnswerNow(q.op, q.of, q.f)
           /\ Records(present)' = Records(present)
           /\ \A n : Parents(n)' = Parents(n)
<1>1. \A n : Parents(n)' = Parents(n)
  BY DEF Parents
<1>2. Records(present)' = Records(present)
  BY DEF Records, Parents
<1>3. AnswerNow(q.op, q.of, q.f)' = AnswerNow(q.op, q.of, q.f)
  BY DEF AnswerNow, CanAsk, MatchingNow, Records, Parents
<1> QED BY <1>1, <1>2, <1>3

LEMMA RecordedStays ==
    ASSUME Core, Recorded, [Next]_vars
    PROVE  Recorded'
<1>1. CASE UNCHANGED vars
  BY <1>1, SameAnswer DEF vars, Recorded
<1>2. ASSUME NEW op \in Operation, NEW of \in Seq(Id), NEW f \in FilterType, Begins(op, of, f)
      PROVE  Recorded'
  BY <1>2 DEF Begins, Records, Parents, Recorded
<1>3. ASSUME NEW k \in Kinds, Outcome(k) PROVE Recorded'
  BY <1>3, OutcomeIs, SameAnswer DEF Outcome, Due, Recorded
<1>4. CASE Deliver
  BY <1>4, AnswersOrNot, SameAnswer DEF Recorded
<1>5. CASE Restarts
  BY <1>5 DEF Restarts, Idle, Unseen, Recorded
<1>6. CASE Commit \/ Prune
  <2>1. /\ UNCHANGED q /\ q.out = "running" /\ Stores
        /\ ever \subseteq ever' /\ present' \intersect (ever \ present) = {}
        /\ \A n \in present \intersect present' :
               present \subseteq present' => Parents(n)' = Parents(n)
        /\ seen'.right = seen.right \union {AnswerNow(q.op, q.of, q.f)'}
        /\ seen'.was = seen.was \union Records(present)'
        /\ seen'.gone = seen.gone \union (present \ present')
        /\ seen'.lacked = seen.lacked \union (Id \ present')
    BY <1>6, OthersDo DEF Core
  <2>2. seen'.gone \subseteq ever' \ present'
    BY <2>1 DEF Recorded, Stores
  <2>3. q'.out # "idle" /\ AnswerNow(q.op, q.of, q.f)' \in seen'.right
        /\ Records(present)' \subseteq seen'.was /\ (Id \ present)' \subseteq seen'.lacked
    BY <2>1
  <2>4. \A r \in Records(present)' : r[1] \in present' /\ r[2] = Parents(r[1])'
    BY DEF Records
  <2>5. ASSUME seen'.gone = {}, NEW r \in seen'.was PROVE r[1] \in present' /\ r[2] = Parents(r[1])'
    <3>1. seen.gone = {} /\ present \subseteq present'
      BY <2>1, <2>5
    <3>2. CASE r \in seen.was
      BY <2>1, <3>1, <3>2 DEF Recorded
    <3> QED BY <2>1, <2>4, <2>5, <3>2
  <2> QED BY <2>2, <2>3, <2>5 DEF Recorded
<1> QED BY <1>1, <1>2, <1>3, <1>4, <1>5, <1>6, AnyStep

-----------------------------------------------------------------------------
(* What is known to a request.                                             *)

\* An ancestor of a node that was there was there.
LEMMA AncestryIs ==
    ASSUME Core, q.of[1] \in Id
    PROVE  Ancestry \subseteq {q.of[1]} \union present /\ Ancestry \in SUBSET Id
<1>1. IsGraph(Id, link) /\ present \in SUBSET Id /\ \A m : Parents(m) \subseteq present
  BY Store DEF Core
<1> DEFINE T == {q.of[1]} \union present
<1>2. ClosedUp(link, T)
  BY <1>1 DEF ClosedUp, Parents
<1>3. Ancestry \subseteq T /\ Ancestry \in SUBSET Id
  BY <1>1, <1>2, Ancestors DEF Ancestry
<1> QED BY <1>3

\* The ids a statement finds were found before or are there.
LEMMA FoundIds ==
    ASSUME Core, Known, NEW k \in Kinds, Due(k)
    PROVE  IdsBy(k) \subseteq q.ids \union present \union seen.gone
<1>1. \A m : Parents(m) \subseteq present /\ Below(link, m) \subseteq present
  BY Store DEF Core
<1>2. CASE k = "closure" /\ q.op = "lineage"
  <2>1. q.out = "running" /\ ~Await(Rest, "exists") /\ q.op = "lineage" /\ q.op \in Operation
    BY <1>2, DueKind, Backwards DEF Await
  <2>2. ~Awaits("exists")
    BY <1>2, <2>1, DueKind DEF Awaits, Await
  <2>3. q.of[1] \in Id
    BY <2>1 DEF Core, Question, Worded
  <2>4. q.of[1] \in present \union seen.gone
    BY <2>1, <2>2 DEF Known, Live
  <2> QED BY <1>2, <2>3, <2>4, AncestryIs DEF IdsBy
<1>3. CASE ~(k = "closure" /\ q.op = "lineage")
  BY <1>1, <1>3 DEF IdsBy
<1> QED BY <1>2, <1>3

\* A row that is read is there.
LEMMA FoundRows ==
    ASSUME Core, Known, NEW k \in Kinds, Due(k), Made(k)
    PROVE  RowsBy(k) \union EntriesBy(k) \union FilesBy(k) \subseteq present \union seen.gone
<1>1. q.rows \union q.entries \union q.files \union q.ids \subseteq present \union seen.gone
  BY DEF Known
<1>2. k = "row" => Head(q.todo).on \subseteq present
  BY DEF Made, Missing
<1>3. RowsBy(k) \subseteq present \union seen.gone
  BY <1>1, <1>2 DEF RowsBy, IdsBy
<1> QED BY <1>1, <1>3 DEF EntriesBy, FilesBy

LEMMA KnownStays ==
    ASSUME Core, Recorded, Known, [Next]_vars
    PROVE  Known'
<1>1. CASE UNCHANGED vars
  BY <1>1 DEF vars, Known, Awaits, Await, Pending, Live
<1>2. ASSUME NEW op \in Operation, NEW of \in Seq(Id), NEW f \in FilterType, Begins(op, of, f)
      PROVE  Known'
  BY <1>2, Starting DEF Begins, Awaits, Known
<1>3. ASSUME NEW k \in Kinds, Outcome(k) PROVE Known'
  <2>1. /\ q'.op = q.op /\ q'.of = q.of /\ q'.f = q.f /\ q'.out \in {"running", "error"}
        /\ UNCHANGED <<present, link, ever, seen>>
    BY <1>3, OutcomeIs
  <2>2. Due(k) /\ q.out = "running"
    BY <1>3 DEF Outcome, Due
  <2>3. q'.ids \union q'.rows \union q'.entries \union q'.files \subseteq present \union seen.gone
    <3>1. CASE Made(k)
      BY <2>2, <3>1, FoundIds, MadeIs, FoundRows DEF Known
    <3>2. CASE ~Made(k)
      BY <1>3, <3>2, OutcomeIs DEF Taken, Newest, Known
    <3> QED BY <3>1, <3>2
  <2>4. ASSUME q'.op = "lineage", ~Awaits("exists")', Live'
        PROVE  q'.of[1] \in present \union seen.gone
    <3>1. CASE Awaits("exists")
      <4>1. ~Stopped(k) /\ ~Skipped(k) /\ ~Taken(k)
        BY <2>1, <2>4, <2>2, <1>3 DEF Stopped, Skipped, Taken
      <4>2. ~Refused(k)
        BY <2>4 DEF Refused, Ended, Live
      <4>3. Made(k)
        BY <1>3, <4>1, <4>2 DEF Outcome
      <4>4. k = "exists"
        BY <2>2, <2>4, <3>1, <4>3, MadeIs DEF Awaits
      <4>5. Head(q.todo).on = {q.of[1]}
        BY <2>1, <2>2, <2>4, <4>4, DueKind DEF Fits
      <4> QED BY <2>1, <4>3, <4>4, <4>5 DEF Made, Missing
    <3>2. CASE ~Awaits("exists")
      BY <2>1, <2>2, <2>4, <3>2 DEF Known, Live
    <3> QED BY <3>1, <3>2
  <2> QED BY <2>1, <2>3, <2>4 DEF Known
<1>4. CASE Deliver
  BY <1>4, AnswersOrNot DEF Known, Awaits, Live
<1>5. CASE Restarts
  BY <1>5 DEF Restarts, Idle, Known
<1>6. CASE Commit \/ Prune
  BY <1>6, OthersDo DEF Known, Awaits, Await, Pending, Live
<1> QED BY <1>1, <1>2, <1>3, <1>4, <1>5, <1>6, AnyStep

-----------------------------------------------------------------------------
(* What is wanted is read.                                                 *)

\* What still has to be read of a node is, unless it is being read.
LEMMA StillPending ==
    ASSUME Core, NEW k \in Kinds, Due(k), Made(k)
    PROVE  /\ \A s \in Pending : s = Head(q.todo) \/ s \in Pending'
           /\ \A s \in Pending : s.do # k => s \in Pending'
           /\ \A l : l # k /\ Await(Pending, l) => Await(Pending', l)
BY DueKind, MadeIs DEF Await

\* A node left has its turn.
LEMMA HasItsTurn ==
    ASSUME Core, NEW k \in Reading, Needed(q.op, k), NEW L, Advance(Rest, L) \/ Advance({}, L),
           L # {} => q.op \in Loops \union {"diff"}
    PROVE  \A n \in L : n \in q'.left \/ Do(k, {n}) \in Pending'
<1> SUFFICES ASSUME NEW n \in L, n \notin q'.left PROVE Do(k, {n}) \in Pending'
  OBVIOUS
<1>1. Pending' = MakesFor(q.op, n) /\ q.op \in Loops \union {"diff"}
  BY DEF Advance
<1>2. Do("files", {n}) \in MakesFor(q.op, n)
  BY <1>1 DEF MakesFor, Loops, ReadsDetail
<1>3. q.op # "from_parent" => Do("row", {n}) \in MakesFor(q.op, n) /\ Do("entries", {n}) \in MakesFor(q.op, n)
  BY <1>1 DEF MakesFor, Loops, ReadsDetail, ReadsOne
<1>4. q.op = "from_parent" => k = "files"
  BY DEF Needed, Rowless, Artifacts, Details, Wholes, Reading
<1> QED BY <1>1, <1>2, <1>3, <1>4 DEF Reading

\* What a statement sets out to find it waits to read.
LEMMA FoundIsWanted ==
    ASSUME Core, Known, NEW j \in Kinds, Due(j), Made(j), NEW k \in Reading, Needed(q.op, k),
           j \in {"select", "all", "kids", "parents", "copy", "rows"}
                 \/ (j = "closure" /\ q.op = "lineage"),
           NEW n \in IdsBy(j)
    PROVE  Covered(n, k)'
<1>0. /\ q'.op = q.op /\ q'.ids = IdsBy(j) /\ q'.rows = RowsBy(j) /\ q'.entries = EntriesBy(j)
      /\ q'.files = FilesBy(j) /\ UNCHANGED <<present, link, ever, seen>>
      /\ Advance(Rest, LeftBy(j)) /\ (LeftBy(j) # {} => q.op \in Loops \union {"diff"})
  BY MadeIs
<1>1. q.op \in Operation /\ j \in KindsOf(q.op) /\ Await(Pending, j)
      /\ Planned(q.op, q.of, q.f, Pending, Wanted)
  BY DueKind DEF Core, Plan
<1>2. CASE j \in {"select", "kids", "closure"} /\ q.op # "latest"
  <2>1. q.op \in Many
    BY <1>1, <1>2, Makers DEF Finding, Many
  <2>2. Some(Pending, {"select", "edges", "values", "exists", "closure", "kids"})
    BY <1>1, <1>2 DEF Some, Await
  <2>3. Do("rows", Found) \in Pending
    BY <1>1, <2>1, <2>2 DEF Planned, Reads
  <2>4. Await(Pending, "rows")
    BY <2>3 DEF Await, Do
  <2>5. Await(Pending', "rows")
    BY <1>2, <2>4, StillPending
  <2> QED BY <2>5 DEF Covered, Awaits
<1>3. CASE j = "select" /\ q.op = "latest"
  BY <1>1, <1>3, StillPending DEF Planned, Finishes, Leads, Covered, Awaits
<1>4. CASE j \in {"all", "parents"} \/ (j = "rows" /\ q.op \in Loops)
  <2>1. q.op \in Loops
    <3>1. j = "all" => q.op \in {"runs", "sidecars", "search", "stats"}
      BY <1>1, Makers
    <3>2. j = "parents" => q.op = "from_parent"
      BY <1>1, Makers
    <3>3. q.op \notin {"search", "stats"}
      BY DEF Needed, Rowless, Artifacts, Details, Wholes, Reading
    <3> QED BY <1>4, <3>1, <3>2, <3>3 DEF Loops
  <2>2. n \in LeftBy(j)
    BY <1>4, <2>1 DEF LeftBy
  <2>3. n \in q'.left \/ Do(k, {n}) \in Pending'
    BY <1>0, <2>2, HasItsTurn
  <2> QED BY <2>3 DEF Covered, Waits
<1>5. CASE j = "copy"
  BY <1>0, <1>5 DEF RowsBy, EntriesBy, FilesBy, IdsBy, Got, Reading, Covered
<1>6. CASE j = "rows" /\ q.op \notin Loops
  <2>1. q.op \in Many
    BY <1>1, <1>6, Makers
  <2>2. k = "row" => n \in Got(k)'
    BY <1>0, <1>6 DEF Got, RowsBy
  <2>3. k # "row" => q.op = "page"
    BY <1>6, <2>1 DEF Needed, Details, Wholes, Many, Loops, Reading
  <2>4. k # "row" => Await(Pending, k)
    BY <1>1, <1>6, <2>3 DEF Planned, Reads, Leads, Reading
  <2>5. k # "row" => \E s \in Pending : s.do = k /\ s.on = Found
    BY <1>1, <2>3, <2>4 DEF Planned, Fits, Await, Reading
  <2>6. k # "row" => Do(k, Found) \in Pending
    <3> SUFFICES ASSUME NEW s \in Pending, s.do = k, s.on = Found PROVE Do(k, Found) \in Pending
      BY <2>5
    <3>1. s \in StatementType
      BY DueKind, DueIs
    <3>2. s = Do(k, Found)
      BY <3>1 DEF StatementType, Do
    <3> QED BY <3>2
  <2>7. k # "row" => Do(k, Found) \in Pending'
    BY <1>6, <2>6, StillPending DEF Do, Reading
  <2> QED BY <2>2, <2>7 DEF Covered
<1>7. j = "kids" => q.op # "latest"
  BY <1>1, Makers
<1> QED BY <1>2, <1>3, <1>4, <1>5, <1>6, <1>7

\* What a statement reads, it reads of nodes that are wanted.
LEMMA ReadIsWanted ==
    ASSUME Core, NEW j \in Kinds, Due(j), Made(j), NEW k \in Reading, Needed(q.op, k),
           Got(k) \subseteq Wanted
    PROVE  Got(k)' \subseteq Wanted'
<1>0. /\ q'.op = q.op /\ q'.of = q.of /\ q'.ids = IdsBy(j) /\ q'.rows = RowsBy(j)
      /\ q'.entries = EntriesBy(j) /\ q'.files = FilesBy(j)
  BY MadeIs
<1>1. /\ q.op \in Operation /\ j \in KindsOf(q.op) /\ Head(q.todo) \in Pending
      /\ q.out = "running" /\ q.todo # <<>> /\ Head(q.todo).do = j
      /\ Fits(q.op, q.of, q.f, Head(q.todo)) /\ About(q.op, Pending, Wanted)
  BY DueKind DEF Core, Plan, Planned
<1>2. q.op \notin {"stats", "search"} \union Artifacts \/ (q.op = "from_parent" /\ k = "files")
  BY DEF Needed, Rowless, Artifacts, Details, Wholes, Reading
<1>3. CASE j \in {"copy", "rows"}
  <2>1. q.op \notin Of
    BY <1>1, <1>3, Makers DEF Many, Of
  <2>2. q.entries = {} /\ q.files = {}
    BY <1>1, <1>3, NothingYet DEF Narrowing
  <2>3. RowsBy(j) = IdsBy(j) /\ EntriesBy(j) \subseteq IdsBy(j) /\ FilesBy(j) \subseteq IdsBy(j)
    BY <1>3, <2>2 DEF RowsBy, EntriesBy, FilesBy, IdsBy
  <2> QED BY <1>0, <2>1, <2>3 DEF Got, Wanted, Reading
<1>4. CASE j \in (Narrowing \ {"copy", "rows"}) \union {"parents"}
  <2>1. q.entries = {} /\ q.files = {} /\ (j # "parents" => q.rows = {})
    BY <1>1, <1>4, NothingYet
  <2>2. RowsBy(j) = q.rows /\ EntriesBy(j) = q.entries /\ FilesBy(j) = q.files
    BY <1>4, Leaves DEF Narrowing
  <2>3. j = "parents" => k = "files"
    BY <1>1, <1>2, Makers DEF Artifacts
  <2>4. Got(k)' = {}
    BY <1>0, <2>1, <2>2, <2>3 DEF Got, Reading
  <2> QED BY <2>4
<1>5. CASE j = "again"
  BY <1>0, <1>1, <1>5, Makers, Leaves DEF Narrowing, RowsBy, Got, Wanted, Of, Reading
<1>6. CASE j \in Reading
  <2>1. IdsBy(j) = q.ids
    BY <1>6, Leaves DEF Narrowing, Reading
  <2>2. Wanted' = Wanted
    BY <1>0, <2>1 DEF Wanted
  <2>3. Got(k)' = Got(k) \/ j = k
    BY <1>0, <1>6, Leaves DEF Got, Reading
  <2>4. j = k =>
            /\ k # "row" => Got(k)' \subseteq Got(k) \union On
            /\ k = "row" => Got(k)' = Got(k) \union Head(q.todo).on
    BY <1>0, <1>6 DEF Got, Reading, RowsBy, EntriesBy, FilesBy
  <2>5. j = k => Head(q.todo).on \subseteq Wanted
    BY <1>1, <1>2 DEF About, Reading, Artifacts
  <2>6. j = k /\ j # "row" => On \subseteq Wanted
    <3> SUFFICES ASSUME j = k, j # "row", Head(q.todo).on = Found PROVE On \subseteq Wanted
      BY <2>5 DEF On
    <3>1. q.op = "page"
      BY <1>1, <1>2, <1>6 DEF Found, Reading, Fits
    <3> QED BY <3>1 DEF On, Wanted, Of
  <2> QED BY <2>2, <2>3, <2>4, <2>5, <2>6
<1>7. CASE j \notin Narrowing \union {"parents", "again"} \union Reading
  BY <1>0, <1>7, Leaves DEF Narrowing, Reading, Got, Wanted
<1> QED BY <1>3, <1>4, <1>5, <1>6, <1>7

\* A node that was covered still is, when a statement is made.
LEMMA MadeCovers ==
    ASSUME Core, Known, NEW j \in Kinds, Due(j), Made(j), NEW k \in Reading, Needed(q.op, k),
           Got(k) \subseteq Wanted, NEW n \in Wanted, Covered(n, k),
           Needed(q.op, "row") => Covered(n, "row")
    PROVE  Covered(n, k)'
<1>0. /\ q'.op = q.op /\ q'.ids = IdsBy(j) /\ q'.rows = RowsBy(j)
      /\ q'.entries = EntriesBy(j) /\ q'.files = FilesBy(j)
      /\ UNCHANGED <<present, link, ever, seen>>
      /\ Advance(Rest, LeftBy(j)) /\ (LeftBy(j) # {} => q.op \in Loops \union {"diff"})
  BY MadeIs
<1>1. /\ q.op \in Operation /\ j \in KindsOf(q.op) /\ q.out = "running" /\ q.todo # <<>>
      /\ Head(q.todo).do = j /\ Fits(q.op, q.of, q.f, Head(q.todo)) /\ Pending = {Head(q.todo)} \union Rest
      /\ \A x \in Rest : Before(j, x.do)
  BY DueKind
<1>2. q.ids \subseteq present \union seen.gone /\ q.rows \subseteq present \union seen.gone
  BY DEF Known
<1>3. CASE Awaits("newest")
  BY <1>3, StillPending DEF Made, Covered, Awaits
<1>4. CASE Awaits("rows")
  <2>1. j = "rows" => n \in IdsBy(j) \/ n \in seen.gone
    <3> SUFFICES ASSUME j = "rows" PROVE n \in IdsBy(j) \/ n \in seen.gone
      OBVIOUS
    <3>1. Wanted = q.ids
      BY <1>1, Makers DEF Wanted, Of, Many
    <3> QED BY <1>2, <3>1 DEF IdsBy
  <2>2. j # "rows" => Covered(n, k)'
    BY <1>4, StillPending DEF Covered, Awaits
  <2>3. n \in seen.gone => Covered(n, k)'
    BY <1>0 DEF Covered
  <2> QED BY <2>1, <2>2, <2>3, FoundIsWanted
<1>5. CASE n \in seen.gone
  BY <1>0, <1>5 DEF Covered
<1>6. CASE n \in q.left
  <2>1. j \notin Narrowing \union {"parents"}
    BY <1>1, <1>6, NothingYet
  <2>2. LeftBy(j) = q.left
    BY <2>1, Leaves DEF Narrowing
  <2>3. n \in q'.left \/ Do(k, {n}) \in Pending'
    BY <1>0, <1>6, <2>2, HasItsTurn
  <2> QED BY <2>3 DEF Covered, Waits
<1>7. CASE n \in Got(k)
  <2>1. Got(k) \subseteq Got(k)' \/ (k = "row" /\ j \in {"again", "copy", "rows"})
    BY <1>0, <1>1, NothingYet, Leaves DEF Got, RowsBy, EntriesBy, FilesBy, Reading, Narrowing
  <2>2. CASE k = "row" /\ j \in {"copy", "rows"}
    BY <1>1, <1>7, <2>2, NothingYet DEF Got, Narrowing
  <2>3. CASE k = "row" /\ j = "again"
    BY <1>0, <1>1, <1>2, <1>5, <1>7, <2>3, Makers DEF Wanted, Of, Got, RowsBy, Covered
  <2> QED BY <1>7, <2>1, <2>2, <2>3 DEF Covered
<1>8. CASE Do(k, Found) \in Pending
  <2>1. Do(k, Found) = Head(q.todo) => j = k /\ j # "row" /\ Head(q.todo).on = Found
    <3> SUFFICES ASSUME Do(k, Found) = Head(q.todo)
                 PROVE  j = k /\ j # "row" /\ Head(q.todo).on = Found
      OBVIOUS
    <3>1. j = k /\ Head(q.todo).on = Found
      BY <1>1 DEF Do
    <3>2. \A m \in Id : {m} # Found
      BY DEF Found
    <3> QED BY <1>1, <3>1, <3>2 DEF Fits
  <2>2. CASE Do(k, Found) = Head(q.todo)
    <3>1. On = q.ids /\ q.op = "page" /\ j \in {"entries", "files"}
      BY <1>1, <2>1, <2>2 DEF Found, Needed, Rowless, Details, Wholes, Reading, Fits, On
    <3>2. n \in q.ids
      BY <3>1 DEF Wanted, Of
    <3>3. n \in present => n \in Got(k)'
      BY <1>0, <2>1, <2>2, <3>1, <3>2 DEF Got, EntriesBy, FilesBy
    <3> QED BY <1>2, <1>5, <3>2, <3>3 DEF Covered
  <2>3. CASE Do(k, Found) # Head(q.todo)
    BY <1>8, <2>3, StillPending DEF Covered
  <2> QED BY <2>2, <2>3
<1>9. CASE Waits(k, n) /\ ~(n \in q.left)
  <2>1. CASE Do(k, {n}) # Head(q.todo)
    BY <1>9, <2>1, StillPending DEF Covered, Waits
  <2>2. CASE Do(k, {n}) = Head(q.todo)
    <3>1. j = k /\ Head(q.todo).on = {n} /\ On = {n}
      BY <1>1, <2>2, OnOne DEF Do
    <3>2. n \in present => n \in Got(k)'
      BY <1>0, <3>1 DEF Got, RowsBy, EntriesBy, FilesBy, Reading
    <3>3. k = "row" => n \in present
      BY <3>1 DEF Made, Missing
    <3>4. q.op \notin Of => n \in present \union seen.gone
      BY <1>2 DEF Wanted
    <3>5. ASSUME q.op \in Of, k # "row" PROVE n \in present \union seen.gone
      <4>1. q.op \in {"detail", "diff"} /\ Needed(q.op, "row")
        BY <3>5 DEF Of, Needed, Rowless, Artifacts, Details, Wholes, Reading
      <4>2. ~Awaits("newest") /\ ~Awaits("rows")
        BY <1>1, <4>1 DEF Awaits, Await, KindsOf, Core, Plan, Planned, Fits
      <4>3. ~Waits("row", n) /\ Do("row", Found) \notin Pending
        BY <1>1, <3>1, <3>5, Ranks DEF Before, Reading, Waits, Do
      <4>4. n \notin q.left
        BY <1>9
      <4>5. n \in seen.gone \union q.rows
        BY <4>1, <4>2, <4>3, <4>4 DEF Covered, Got
      <4> QED BY <1>2, <4>5
    <3> QED BY <1>5, <3>2, <3>3, <3>4, <3>5 DEF Covered
  <2> QED BY <2>1, <2>2
<1> QED BY <1>3, <1>4, <1>5, <1>6, <1>7, <1>8, <1>9 DEF Covered

\* A request that goes on reads what it is to read.
LEMMA MadeCompletes ==
    ASSUME Core, Known, Complete, NEW j \in Kinds, Due(j), Made(j)
    PROVE  Complete'
<1>0. /\ q'.op = q.op /\ q'.of = q.of /\ q'.ids = IdsBy(j) /\ q.out = "running" /\ Live
      /\ q.op \in Operation /\ j \in KindsOf(q.op)
  BY MadeIs, DueKind DEF Live
<1>1. ASSUME NEW k \in Reading, Needed(q.op, k) PROVE Every(k)'
  <2>1. Every(k) /\ (Needed(q.op, "row") => Every("row"))
    BY <1>0, <1>1 DEF Complete, Reading
  <2>2. Got(k)' \subseteq Wanted'
    BY <1>1, <2>1, ReadIsWanted DEF Every
  <2>3. ASSUME NEW n \in Wanted' PROVE Covered(n, k)'
    <3>1. CASE n \in Wanted
      BY <1>1, <2>1, <3>1, MadeCovers DEF Every
    <3>2. CASE n \notin Wanted
      BY <1>0, <1>1, <2>3, <3>2, FoundIsWanted DEF Wanted, IdsBy
    <3> QED BY <3>1, <3>2
  <2> QED BY <2>2, <2>3 DEF Every
<1> QED BY <1>0, <1>1 DEF Complete, Reading

\* So does one that makes no more statements, unless it fails.
LEMMA StoppedCompletes ==
    ASSUME Core, Known, Complete, NEW j \in Kinds, Due(j), Stopped(j)
    PROVE  Complete'
<1>0. /\ q.out = "running" /\ q.todo # <<>> /\ Head(q.todo).do = j /\ Live /\ q.op \in Operation
      /\ j \in KindsOf(q.op) /\ Fits(q.op, q.of, q.f, Head(q.todo)) /\ Pending = {Head(q.todo)} \union Rest
      /\ Await(Pending, j) /\ Planned(q.op, q.of, q.f, Pending, Wanted)
      /\ \A x \in Rest : Before(j, x.do)
  BY DueKind DEF Live, Core, Plan
<1>1. /\ q'.op = q.op /\ q'.of = q.of /\ q'.rows = q.rows /\ q'.entries = q.entries /\ q'.files = q.files
      /\ q'.left = q.left /\ UNCHANGED <<present, link, ever, seen>>
  BY DEF Stopped, Ended
<1>2. ASSUME NEW k \in Reading, Needed(q.op, k) PROVE Every(k)'
  <2>0. q.op # "search"
    BY <1>2 DEF Needed, Rowless, Details, Wholes, Reading
  <2>1. q'.ids = q.ids
    BY <2>0 DEF Stopped, Ended
  <2>2. Got(k)' = Got(k) /\ Wanted' = Wanted /\ Got(k) \subseteq Wanted /\ \A n \in Wanted : Covered(n, k)
    BY <1>0, <1>1, <1>2, <2>1 DEF Got, Wanted, Complete, Every, Reading
  <2>3. CASE q.op \in {"children", "from_parent"}
    <3>1. Some(Pending, {"kids", "parents"})
      BY <1>0, <2>0, <2>3 DEF Stopped, Planned, Finishes, Leads, Some, Await
    <3>2. q.ids = {}
      BY <3>1 DEF Core, Blank, Some
    <3>3. Wanted = {}
      BY <2>3, <3>2 DEF Wanted, Of
    <3> QED BY <2>2, <3>3 DEF Every
  <2>4. CASE q.op = "latest"
    <3>1. j = "row" /\ Missing /\ k = "row"
      BY <1>2, <2>0, <2>4 DEF Stopped, Needed, Details, Wholes, Reading
    <3>2. PICK m \in Id : Head(q.todo).on = {m}
      BY <1>0, <3>1 DEF Fits
    <3>3. m \notin present
      BY <3>1, <3>2 DEF Missing
    <3>4. ~Awaits("newest") /\ ~Awaits("rows")
      BY <1>0, <3>1, RowNarrowsNothing DEF Awaits, Await, Some, Narrowing
    <3>5. ~Before("row", "row")
      BY Ranks DEF Before
    <3>6. \A n : Do("row", n) \in Pending => n = {m}
      BY <1>0, <3>1, <3>2, <3>5 DEF Do
    <3>7. Found # {m}
      BY DEF Found
    <3>8. \A n \in Wanted : n \in present \union seen.gone
      BY <2>4 DEF Known, Wanted, Of
    <3>9. \A n \in Wanted : n \in seen.gone \union q.left \union Got("row")
      BY <2>2, <3>1, <3>3, <3>4, <3>6, <3>7, <3>8 DEF Covered, Waits
    <3> QED BY <1>1, <2>2, <3>1, <3>9 DEF Every, Covered
  <2> QED BY <2>0, <2>3, <2>4 DEF Stopped
<1> QED BY <1>0, <1>1, <1>2 DEF Complete, Reading

\* And one that goes on to the next node.
LEMMA SkippedCompletes ==
    ASSUME Core, Known, Complete, NEW j \in Kinds, Due(j), Skipped(j)
    PROVE  Complete'
<1>0. /\ q.out = "running" /\ q.todo # <<>> /\ Head(q.todo).do = j /\ Live /\ q.op \in Operation
      /\ j \in KindsOf(q.op) /\ Fits(q.op, q.of, q.f, Head(q.todo)) /\ Head(q.todo) \in Pending
      /\ Planned(q.op, q.of, q.f, Pending, Wanted)
      /\ q.left # {} => q.op \in Loops \union {"diff"}
  BY DueKind DEF Live, Core, Plan
<1>1. /\ q'.op = q.op /\ q'.of = q.of /\ q'.rows = q.rows /\ q'.entries = q.entries /\ q'.files = q.files
      /\ q'.ids = q.ids /\ Advance({}, q.left) /\ UNCHANGED <<present, link, ever, seen>>
  BY DEF Skipped, Skips
<1>2. q.op \in {"from_parent", "sidecars"} /\ j \in {"exists", "row"} /\ Missing
  BY DEF Skipped
<1>3. PICK m \in Id : Head(q.todo).on = {m}
  BY <1>0, <1>2 DEF Fits
<1>4. m \notin present
  BY <1>2, <1>3 DEF Missing
<1>5. \A s \in Pending : s.on = {m}
  BY <1>0, <1>2, <1>3 DEF Planned, About
<1>6. ~Awaits("newest") /\ ~Awaits("rows")
  BY <1>0, <1>2, Makers DEF Awaits, Await, Planned, Fits, Many
<1>7. Found # {m} /\ \A n : {n} = {m} => n = m
  BY DEF Found
<1>8. ASSUME NEW k \in Reading, Needed(q.op, k) PROVE Every(k)'
  <2>1. Got(k)' = Got(k) /\ Wanted' = Wanted /\ Got(k) \subseteq Wanted /\ \A n \in Wanted : Covered(n, k)
    BY <1>0, <1>1, <1>8 DEF Got, Wanted, Complete, Every, Reading
  <2>2. \A n \in Wanted : n \in present \union seen.gone
    BY <1>2 DEF Known, Wanted, Of
  <2>3. \A n \in Wanted : n \in seen.gone \union q.left \union Got(k)
    BY <2>1, <2>2, <1>4, <1>5, <1>6, <1>7 DEF Covered, Waits, Do
  <2>4. \A n \in q.left : n \in q'.left \/ Do(k, {n}) \in Pending'
    BY <1>0, <1>1, <1>8, HasItsTurn
  <2>5. \A n \in Wanted' : Covered(n, k)'
    BY <1>1, <2>1, <2>3, <2>4 DEF Covered, Waits
  <2> QED BY <2>1, <2>5 DEF Every
<1> QED BY <1>0, <1>1, <1>8 DEF Complete, Reading

LEMMA TakenCompletes ==
    ASSUME Core, NEW j \in Kinds, Due(j), Taken(j)
    PROVE  Complete'
<1>0. q.out = "running" /\ q.todo # <<>> /\ Head(q.todo).do = "newest"
  BY DEF Due, Taken
<1>1. q.rows = {} /\ q'.rows = {} /\ q'.op = "latest"
  BY <1>0, NothingYet DEF Narrowing, Taken
<1>2. ASSUME NEW k \in Reading, Needed("latest", k) PROVE Every(k)'
  <2>1. k = "row"
    BY <1>2 DEF Needed, Details, Wholes, Reading
  <2>2. Got("row")' = {} /\ Wanted' = q'.ids
    BY <1>1 DEF Got, Wanted, Of
  <2>3. \A n \in q'.ids : Do("row", {n}) \in Pending'
    BY DEF Taken, ReadsOne
  <2> QED BY <2>1, <2>2, <2>3 DEF Every, Covered, Waits
<1> QED BY <1>1, <1>2 DEF Complete, Reading

LEMMA CompleteStays ==
    ASSUME Core, Known, Complete, [Next]_vars
    PROVE  Complete'
<1>1. CASE UNCHANGED vars
  BY <1>1 DEF vars, Complete, Live, Every, Covered, Got, Wanted, Awaits, Await, Waits, Pending
<1>2. ASSUME NEW op \in Operation, NEW of \in Seq(Id), NEW f \in FilterType,
             Worded(op, of, f), Begins(op, of, f)
      PROVE  Complete'
  <2>1. /\ q'.op = op /\ q'.of = of /\ q'.ids = {} /\ q'.rows = {} /\ q'.entries = {} /\ q'.files = {}
        /\ Pending' = Makes(op, of, f) /\ q'.left = (IF op = "diff" THEN {of[2]} ELSE {})
    BY <1>2 DEF Begins
  <2>2. ASSUME NEW k \in Reading, Needed(op, k) PROVE Every(k)'
    <3>1. Got(k)' = {}
      BY <2>1 DEF Got, Reading
    <3>2. CASE op \notin Of
      BY <2>1, <3>1, <3>2 DEF Every, Wanted
    <3>3. CASE op \in Of
      <4>1. op \in {"detail", "diff"}
        BY <2>2, <3>3 DEF Of, Needed, Rowless, Artifacts, Details, Wholes, Reading
      <4>2. Do(k, {of[1]}) \in Pending'
        BY <2>1, <4>1, Starting DEF ReadsDetail, ReadsOne, Reading
      <4>3. Range(of) \subseteq {of[1]} \union q'.left
        <5>1. CASE op = "detail"
          <6>1. PICK n \in Id : of = <<n>>
            BY <1>2, <5>1 DEF Worded
          <6>2. DOMAIN of = 1..1 /\ of[1] = n
            BY <6>1
          <6> QED BY <6>2 DEF Range
        <5>2. CASE op = "diff"
          <6>1. PICK m, n \in Id : of = <<m, n>>
            BY <1>2, <5>2 DEF Worded
          <6>2. DOMAIN of = 1..2 /\ of[1] = m /\ of[2] = n
            BY <6>1
          <6> QED BY <2>1, <5>2, <6>2 DEF Range
        <5> QED BY <4>1, <5>1, <5>2
      <4>4. Wanted' = Range(of)
        BY <2>1, <3>3 DEF Wanted
      <4> QED BY <3>1, <4>2, <4>3, <4>4 DEF Every, Covered, Waits
    <3> QED BY <3>2, <3>3
  <2> QED BY <2>1, <2>2 DEF Complete, Reading
<1>3. ASSUME NEW k \in Kinds, Outcome(k) PROVE Complete'
  BY <1>3, MadeCompletes, StoppedCompletes, SkippedCompletes, TakenCompletes DEF Outcome,
     Refused, Ended, Complete, Live
<1>4. CASE Deliver
  <2>1. /\ q.out = "running" /\ Pending = {} /\ Pending' = {}
        /\ q'.op = q.op /\ q'.of = q.of /\ q'.ids = q.ids /\ q'.rows = q.rows
        /\ q'.entries = q.entries /\ q'.files = q.files /\ q'.left = q.left
        /\ UNCHANGED <<present, link, ever, seen>>
    BY <1>4, AnswersOrNot
  <2>2. Wanted' = Wanted /\ \A k \in Reading : Got(k)' = Got(k)
    BY <2>1 DEF Wanted, Got, Reading
  <2>3. ASSUME NEW k \in Reading, Every(k) PROVE Every(k)'
    BY <2>1, <2>2, <2>3 DEF Every, Covered, Awaits, Waits
  <2> QED BY <2>1, <2>3 DEF Complete, Live, Reading
<1>5. CASE Restarts
  BY <1>5 DEF Restarts, Idle, Complete, Live
<1>6. CASE Commit \/ Prune
  <2>1. UNCHANGED q /\ seen.gone \subseteq seen'.gone
    BY <1>6, OthersDo
  <2>2. Wanted' = Wanted /\ \A k \in Reading : Got(k)' = Got(k)
    BY <2>1 DEF Wanted, Got, Reading
  <2>3. ASSUME NEW k \in Reading, Every(k) PROVE Every(k)'
    BY <2>1, <2>2, <2>3 DEF Every, Covered, Awaits, Await, Waits, Pending
  <2> QED BY <2>1, <2>3 DEF Complete, Live, Reading
<1> QED BY <1>1, <1>2, <1>3, <1>4, <1>5, <1>6, AnyStep

-----------------------------------------------------------------------------
(* Failures.                                                               *)

\* A statement that fails names a node that is gone, or a value with no JSON.
LEMMA RefusedForIt ==
    ASSUME Core, Recorded, Known, NEW k \in Kinds, Due(k), Refused(k)
    PROVE  \/ Range(q.of) \intersect seen.lacked # {}
           \/ q.op \in Wholes \union Artifacts /\ seen.gone # {}
           \/ ~CanAsk(q.f)
<1>0. /\ q.out = "running" /\ Head(q.todo).do = k /\ q.op \in Operation
      /\ k \in KindsOf(q.op) /\ Fits(q.op, q.of, q.f, Head(q.todo)) /\ Head(q.todo) \in Pending
      /\ Planned(q.op, q.of, q.f, Pending, Wanted)
  BY DueKind DEF Core, Plan
<1>1. Id \ present \subseteq seen.lacked /\ q.ids \union q.files \subseteq present \union seen.gone
  BY <1>0 DEF Recorded, Known
<1>2. CASE k = "exists"
  <2>1. q.op \in {"lineage", "ancestors"} /\ Missing
    BY <1>2 DEF Refused
  <2>2. PICK n \in Id : q.of = <<n>>
    BY <2>1 DEF Core, Question, Worded
  <2>3. Head(q.todo).on = {n}
    BY <1>0, <1>2, <2>1, <2>2 DEF Fits
  <2>4. n \in seen.lacked
    BY <1>1, <2>1, <2>3 DEF Missing
  <2>5. DOMAIN q.of = 1..1 /\ q.of[1] = n
    BY <2>2
  <2>6. n \in Range(q.of)
    BY <2>5 DEF Range
  <2> QED BY <2>4, <2>6
<1>3. CASE k = "row"
  <2>1. q.op \in {"detail", "diff", "runs", "snapshot"} /\ Missing
    BY <1>3 DEF Refused
  <2>2. PICK n \in Id : Head(q.todo).on = {n}
    BY <1>0, <1>3 DEF Fits
  <2>3. n \in Wanted /\ n \notin present
    BY <1>0, <1>3, <2>1, <2>2 DEF Planned, About, Missing
  <2>4. q.op \in {"detail", "diff"} => n \in Range(q.of) /\ n \in seen.lacked
    BY <1>1, <2>3 DEF Wanted, Of
  <2>5. q.op \in {"runs", "snapshot"} => q.op \in Wholes /\ n \in seen.gone
    BY <1>1, <2>3 DEF Wanted, Of, Artifacts, Wholes
  <2> QED BY <2>1, <2>4, <2>5
<1>4. CASE k = "bytes"
  <2>1. q.op \in {"snapshot", "artifacts", "from_parent"}
    BY <1>0, <1>4, Makers
  <2>2. PICK n \in Id : Head(q.todo).on = {n}
    BY <1>0, <1>4 DEF Fits
  <2>3. n \in q.files \ present
    BY <1>4, <2>2 DEF Refused
  <2> QED BY <1>1, <2>1, <2>3 DEF Wholes, Artifacts
<1> QED BY <1>2, <1>3, <1>4 DEF Refused

LEMMA FailsForItStays ==
    ASSUME Core, Recorded, Known, Complete, FailsOnlyIfGone, [Next]_vars
    PROVE  FailsOnlyIfGone'
<1>1. CASE UNCHANGED vars
  BY <1>1 DEF vars, FailsOnlyIfGone, CanAsk
<1>2. ASSUME NEW op \in Operation, NEW of \in Seq(Id), NEW f \in FilterType, Begins(op, of, f)
      PROVE  FailsOnlyIfGone'
  BY <1>2 DEF Begins, FailsOnlyIfGone
<1>3. ASSUME NEW k \in Kinds, Outcome(k) PROVE FailsOnlyIfGone'
  <2>1. /\ q'.op = q.op /\ q'.of = q.of /\ q'.f = q.f /\ UNCHANGED <<present, link, ever, seen>>
    BY <1>3, OutcomeIs
  <2>2. q'.out = "error" => Refused(k)
    BY <1>3 DEF Outcome, Made, Moves, Stopped, Ended, Skipped, Skips, Taken
  <2>3. Due(k)
    BY <1>3 DEF Outcome
  <2> QED BY <2>1, <2>2, <2>3, RefusedForIt DEF FailsOnlyIfGone, CanAsk
<1>4. CASE Deliver
  <2>1. /\ q.out = "running" /\ Pending = {} /\ q'.op = q.op /\ q'.of = q.of /\ q'.f = q.f
        /\ q.left = {} /\ UNCHANGED <<present, link, ever, seen>>
        /\ q'.out = "error" => q.op = "page" /\ q.rows # q.ids
    BY <1>4, AnswersOrNot
  <2>2. q'.out = "error" => seen.gone # {}
    <3> SUFFICES ASSUME q.op = "page", q.rows # q.ids, seen.gone = {} PROVE FALSE
      BY <2>1
    <3>1. Every("row") /\ Wanted = q.ids
      BY <2>1 DEF Complete, Live, Needed, Rowless, Artifacts, Wanted, Of
    <3>2. \A n \in q.ids : n \in q.rows
      BY <2>1, <3>1 DEF Every, Covered, Got, Awaits, Await, Waits
    <3> QED BY <3>1, <3>2 DEF Every, Got
  <2> QED BY <2>1, <2>2 DEF FailsOnlyIfGone, Wholes
<1>5. CASE Restarts
  BY <1>5 DEF Restarts, Idle, FailsOnlyIfGone
<1>6. CASE Commit \/ Prune
  BY <1>6, OthersDo DEF FailsOnlyIfGone
<1> QED BY <1>1, <1>2, <1>3, <1>4, <1>5, <1>6, AnyStep

\* What holds of the idle reader.
LEMMA IdleIsFine ==
    ASSUME q = Idle, seen = Unseen
    PROVE  Recorded /\ Known /\ Complete /\ FailsOnlyIfGone
BY DEF Idle, Unseen, Recorded, Known, Complete, Live, FailsOnlyIfGone

\* A request fails only for a reason its caller can be told: a node it names
\* was not there, a prune took a node of a page, a table, a snapshot or a list
\* of files meanwhile, or a value it is to find has no JSON.
THEOREM FailuresAreFounded == Spec => []FailsOnlyIfGone
<1> DEFINE Holds == Core /\ Recorded /\ Known /\ Complete /\ FailsOnlyIfGone
<1>1. Init => Holds
  BY CoreStarts, IdleIsFine DEF Init
<1>2. Holds /\ [Next]_vars => Holds'
  BY CoreStays, RecordedStays, KnownStays, CompleteStays, FailsForItStays
<1> QED BY <1>1, <1>2, PTL DEF Spec

-----------------------------------------------------------------------------
(* What it is right to list now.                                           *)

LEMMA NowIs ==
    ASSUME Core, q.out # "idle"
    PROVE  LET a == AnswerNow(q.op, q.of, q.f) IN
           /\ a.ok => CanAsk(q.f) /\ a.records = Records(a.ids)
           /\ ~a.ok => a.ids = {}
           /\ CanAsk(q.f) =>
                 /\ q.op \in Filtered \ {"latest", "ancestors"} => a.ok /\ a.ids = MatchingNow(q.f)
                 /\ q.op = "latest" => a.ok /\ a.ids = Newest(MatchingNow(q.f))
                 /\ q.op = "children" => a.ok /\ a.ids = Below(link, q.of[1])
                 /\ q.op \in {"page", "runs", "sidecars", "snapshot", "stats", "backup"} =>
                       a.ok /\ a.ids = present
                 /\ q.op = "artifacts" => a.ok /\ a.ids = Range(q.of) \intersect present
                 /\ q.op = "from_parent" => a.ok /\ a.ids = Parents(q.of[1])
                 /\ q.op \in {"detail", "diff"} =>
                       (a.ok <=> Range(q.of) \subseteq present) /\ (a.ok => a.ids = Range(q.of))
                 /\ q.op \in {"lineage", "ancestors"} => (a.ok <=> q.of[1] \in present)
                 /\ q.op = "lineage" /\ a.ok => a.ids = Ancestry
                 /\ q.op = "ancestors" /\ a.ok => a.ids = Ancestry \intersect MatchingNow(q.f)
<1> DEFINE a == AnswerNow(q.op, q.of, q.f)
<1> DEFINE answer(ids) == [ok |-> TRUE, ids |-> ids, records |-> Records(ids)]
<1> DEFINE failure == [ok |-> FALSE, ids |-> {}, records |-> {}]
<1>1. Stores /\ Question /\ q \in QueryType /\ q.op \in Operation
  BY DEF Core, QType, Question
<1>2. q.op \in {"find", "latest", "ancestors", "page", "snapshot", "lineage", "children", "detail",
                "diff", "runs", "sidecars", "search", "stats", "backup", "artifacts", "from_parent"}
  BY <1>1 DEF Operation, Details, Wholes, Artifacts
<1>3. q.op \in {"page", "snapshot"} => MatchingNow(q.f) = present
  <2> SUFFICES ASSUME q.op \in {"page", "snapshot"} PROVE MatchingNow(q.f) = present
    OBVIOUS
  <2>1. q.f = NoFilter
    BY <1>1 DEF Question, Worded, Artifacts
  <2>2. q.f.equal = {} /\ q.f.parents = {} /\ q.f.call = "none"
    BY <2>1 DEF NoFilter
  <2> QED BY <2>2 DEF MatchingNow
<1>4. Filtered \ {"latest", "ancestors"} = {"find", "page", "snapshot", "search"}
  BY DEF Filtered
<1>5. ~CanAsk(q.f) => a = failure
  BY DEF AnswerNow
<1>6. /\ \A X : answer(X).ok = TRUE /\ answer(X).ids = X /\ answer(X).records = Records(X)
      /\ failure.ok = FALSE /\ failure.ids = {}
  OBVIOUS
<1>7. ASSUME CanAsk(q.f)
      PROVE  /\ q.op \in {"find", "search"} => a = answer(MatchingNow(q.f))
             /\ q.op = "latest" => a = answer(Newest(MatchingNow(q.f)))
             /\ q.op = "children" => a = answer(Below(link, q.of[1]))
             /\ q.op \in {"page", "runs", "sidecars", "snapshot", "stats", "backup"} => a = answer(present)
             /\ q.op = "artifacts" => a = answer(Range(q.of) \intersect present)
             /\ q.op = "from_parent" => a = answer(Parents(q.of[1]))
             /\ q.op \in {"detail", "diff"} =>
                   a = IF Range(q.of) \subseteq present THEN answer(Range(q.of)) ELSE failure
             /\ q.op = "lineage" => a = IF q.of[1] \in present THEN answer(Ancestry) ELSE failure
             /\ q.op = "ancestors" =>
                   a = IF q.of[1] \in present THEN answer(Ancestry \intersect MatchingNow(q.f)) ELSE failure
  <2>1. CASE q.op \in {"find", "search", "latest", "children"}
    BY <1>7, <2>1 DEF AnswerNow
  <2>2. CASE q.op \in {"page", "runs", "sidecars", "snapshot", "stats", "backup"}
    BY <1>7, <2>2 DEF AnswerNow
  <2>3. CASE q.op \in {"artifacts", "from_parent"}
    BY <1>7, <2>3 DEF AnswerNow
  <2>4. CASE q.op \in {"detail", "diff"}
    BY <1>7, <2>4 DEF AnswerNow
  <2>5. CASE q.op = "lineage"
    BY <1>7, <2>5 DEF AnswerNow, Ancestry
  <2>6. CASE q.op = "ancestors"
    BY <1>7, <2>6 DEF AnswerNow, Ancestry
  <2> QED BY <1>2, <2>1, <2>2, <2>3, <2>4, <2>5, <2>6
<1> HIDE DEF a, answer, failure
<1>8. CASE ~CanAsk(q.f)
  BY <1>5, <1>6, <1>8 DEF a
<1>9. CASE CanAsk(q.f)
  <2>1. CASE q.op \in {"find", "search"}
    BY <1>6, <1>7, <1>9, <2>1 DEF a
  <2>2. CASE q.op \in {"latest", "children"}
    BY <1>4, <1>6, <1>7, <1>9, <2>2 DEF a
  <2>3. CASE q.op \in {"page", "runs", "sidecars", "snapshot", "stats", "backup"}
    BY <1>3, <1>4, <1>6, <1>7, <1>9, <2>3 DEF a
  <2>4. CASE q.op \in {"artifacts", "from_parent"}
    BY <1>4, <1>6, <1>7, <1>9, <2>4 DEF a
  <2>5. CASE q.op \in {"detail", "diff"}
    BY <1>4, <1>6, <1>7, <1>9, <2>5 DEF a
  <2>6. CASE q.op = "lineage"
    BY <1>4, <1>6, <1>7, <1>9, <2>6 DEF a
  <2>7. CASE q.op = "ancestors"
    BY <1>4, <1>6, <1>7, <1>9, <2>7 DEF a
  <2> QED BY <1>2, <2>1, <2>2, <2>3, <2>4, <2>5, <2>6, <2>7
<1> QED BY <1>8, <1>9

\* Equalities find what they mean, and nothing else but rounded numbers.
LEMMA EqualsMeans ==
    ASSUME Core, q.out # "idle", CanAsk(q.f), NEW n \in Id
    PROVE  /\ (\A e \in q.f.equal : n \in Meant[e]) => Equals(n)
           /\ ~Rounded /\ Equals(n) => \A e \in q.f.equal : n \in Meant[e]
<1> SUFFICES ASSUME NEW e \in q.f.equal
             PROVE  /\ n \in Meant[e] => n \in Hits[e]
                    /\ ~Rounded /\ n \in Hits[e] => n \in Meant[e]
  BY DEF Equals
<1>1. e \in Asked /\ e.key \in STRING /\ e.value \in Value /\ MayAsk(e.value)
  BY DEF Core, QType, QueryType, FilterType, Question, Worded, CanAsk
<1>2. Calls[n] \in Seq(Call)
  BY QueriesAssumption
<1>3. Told(Calls[n], e.key, e.value) => Matching(Calls[n], e.key, e.value)
  BY <1>1, <1>2, ToldIsFound
<1>4. ~Coarse(e.value) => (Matching(Calls[n], e.key, e.value) <=> Told(Calls[n], e.key, e.value))
  BY <1>1, <1>2, FoundByValue
<1>5. /\ n \in Hits[e] <=> Matching(Calls[n], e.key, e.value)
      /\ n \in Meant[e] <=> Told(Calls[n], e.key, e.value)
  BY <1>1 DEF Hits, Meant
<1> QED BY <1>3, <1>4, <1>5 DEF Rounded

\* A node that matches now, of those that are looked at.
LEMMA NowOnce ==
    ASSUME Core, Recorded, q.out # "idle", CanAsk(q.f), ~Newcomer, q.op \in Filtered,
           NEW n \in MatchingNow(q.f), q.op = "ancestors" => n \in Ancestry
    PROVE  Once(n)
<1> DEFINE a == AnswerNow(q.op, q.of, q.f)
<1>1. a \in seen.right
  BY DEF Recorded
<1>2. q.op \in Filtered \ {"latest", "ancestors"} => n \in a.ids
  BY NowIs
<1>3. q.op = "latest" => \A x \in a.ids : n <= x
  BY NowIs DEF Newest
<1>4. q.op = "ancestors" => n \in a.ids
  <2> SUFFICES ASSUME q.op = "ancestors" PROVE n \in a.ids
    OBVIOUS
  <2>1. q.of[1] \in Id
    BY DEF Core, Question, Worded
  <2>2. q.of[1] \in present
    BY <2>1 DEF Newcomer, Recorded
  <2> QED BY <2>2, NowIs
<1> HIDE DEF a
<1> QED BY <1>1, <1>2, <1>3, <1>4 DEF Once

-----------------------------------------------------------------------------
(* What the filters let through.                                           *)

\* The filters that a first read of ids leads to.
LEMMA FiltersFollow ==
    ASSUME Core, NEW j \in {"select", "all", "term", "edges"}, Due(j), q.op \in Filtered
    PROVE  /\ j # "edges" /\ q.f.parents # {} => Awaits("edges")
           /\ j \in {"select", "all"} /\ q.f.call # "none" => Awaits("values")
           /\ j = "all" /\ q.f.equal # {} => Awaits("term")
           /\ j \in {"select", "edges"} /\ q.op = "ancestors" => Awaits("closure")
<1>1. /\ q.op \in Operation /\ j \in KindsOf(q.op) /\ Await(Pending, j)
      /\ Planned(q.op, q.of, q.f, Pending, Wanted)
  BY DueKind DEF Core, Plan, Kinds
<1>2. j = "all" => q.op = "search"
  BY <1>1, Makers DEF Filtered
<1>3. j = "term" => q.op = "search"
  BY <1>1, Makers
<1>4. j # "edges" /\ q.f.parents # {} => Awaits("edges")
  BY <1>1, <1>2 DEF Planned, Asks, Leads, Awaits
<1>5. j \in {"select", "all"} /\ q.f.call # "none" => Awaits("values")
  BY <1>1, <1>2 DEF Planned, Asks, Leads, Awaits
<1>6. j = "all" /\ q.f.equal # {} => Awaits("term")
  BY <1>1, <1>2 DEF Planned, Asks, Leads, Awaits
<1>7. j \in {"select", "edges"} /\ q.op = "ancestors" => Awaits("closure")
  BY <1>1 DEF Planned, Finishes, Leads, Awaits
<1> QED BY <1>4, <1>5, <1>6, <1>7

\* A filter is made once more at most if it still is to come.
LEMMA OthersWait ==
    ASSUME Core, NEW j \in Kinds, Due(j), Made(j)
    PROVE  /\ \A l \in {"select", "all", "term", "edges", "values", "closure"} :
                 Awaits(l)' => Awaits(l)
           /\ \A l : l # j /\ Awaits(l) => Awaits(l)'
<1>1. Rest \subseteq Pending
  BY DueKind
<1>2. \A l \in {"select", "all", "term", "edges", "values", "closure"} : l \notin Single
  BY DEF Single
<1>3. \A l \in {"select", "all", "term", "edges", "values", "closure"} : Await(Pending', l) => Await(Rest, l)
  BY <1>2, MadeIs
<1> QED BY <1>1, <1>3, StillPending DEF Awaits, Await

LEMMA MadePasses ==
    ASSUME Core, Recorded, Known, Screened, NEW j \in Kinds, Due(j), Made(j), q.op \in Filtered,
           ~Awaits("select")', ~Awaits("all")'
    PROVE  CanAsk(q.f) /\ \A n \in IdsBy(j) : Sifted(n)'
<1>0. /\ q'.op = q.op /\ q'.of = q.of /\ q'.f = q.f /\ q.out = "running" /\ Live
      /\ q.op \in Operation /\ j \in KindsOf(q.op)
      /\ Fits(q.op, q.of, q.f, Head(q.todo))
      /\ Head(q.todo).do = j /\ UNCHANGED <<present, link, ever, seen>>
  BY MadeIs, DueKind DEF Live
<1>1. \A n : /\ Equals(n)' = Equals(n) /\ There(n)' = There(n) /\ Likely(n)' = Likely(n)
             /\ Once(n)' = Once(n) /\ Ancestry' = Ancestry /\ Excused' = Excused
  BY <1>0 DEF Equals, There, Likely, Once, Ancestry, Excused, Newcomer, Rounded
<1>2. /\ \A l \in {"select", "all", "term", "edges", "values", "closure"} : Awaits(l)' => Awaits(l)
      /\ \A l : l # j /\ Awaits(l) => Awaits(l)'
  BY OthersWait
<1>3. j \notin {"select", "all"} => ~Awaits("select") /\ ~Awaits("all")
  BY <1>2
<1>4. j \notin {"select", "all"} => CanAsk(q.f) /\ \A n \in q.ids : Sifted(n)
  BY <1>0, <1>3 DEF Screened
<1>5. q.op = "search" => CanAsk(q.f) /\ {} \notin q.f.parents /\ q.f.call # "missing"
  BY DEF Core, Question, Worded
<1>6. CanAsk(q.f)
  BY <1>0, <1>4, <1>5, Makers DEF Made, Filtered
<1>7. j \notin {"select", "all"} => IdsBy(j) \subseteq q.ids
  BY <1>0, Makers DEF Filtered, IdsBy
<1>8. ASSUME NEW n \in IdsBy(j) PROVE Sifted(n)'
  <2>0. n \in Id
    BY <1>7, <1>8, Store DEF IdsBy, Core, QType, QueryType
  <2>1. ~Awaits("term")' => Equals(n)
    <3>1. CASE j \in {"select", "term"}
      BY <1>8, <3>1 DEF IdsBy
    <3>2. CASE j = "all"
      BY <1>2, <3>2, FiltersFollow DEF Equals
    <3>3. CASE j \notin {"select", "term", "all"}
      BY <1>2, <1>4, <1>7, <1>8, <3>3 DEF Sifted
    <3> QED BY <3>1, <3>2, <3>3
  <2>2. ~Awaits("values")' /\ There(n) => Likely(n)
    <3>1. CASE j \in {"select", "all"}
      BY <1>2, <3>1, FiltersFollow DEF Likely
    <3>2. CASE j = "values"
      <4>1. q.f.call \in {"liked", "missing"}
        BY <1>0, <3>2 DEF Core, QType, QueryType, Fits, FilterType
      <4>2. Accepted(n)
        BY <1>8, <3>2 DEF IdsBy
      <4> QED BY <1>5, <4>1, <4>2 DEF Accepted, Likely, There
    <3>3. CASE j \notin {"select", "all", "values"}
      BY <1>2, <1>4, <1>7, <1>8, <3>3 DEF Sifted
    <3> QED BY <3>1, <3>2, <3>3
  <2>3. ASSUME ~Awaits("term")', ~Awaits("edges")', ~Excused, There(n), Likely(n),
               Awaits("closure")' => n \in Ancestry
        PROVE  Once(n)
    <3>1. CASE j \in {"select", "all", "term", "edges"}
      <4>1. j # "edges" => q.f.parents = {}
        BY <1>2, <2>3, <3>1, FiltersFollow
      <4>2. j = "edges" => Parents(n) \in q.f.parents
        BY <1>8 DEF IdsBy
      <4>3. n \in present
        BY <1>5, <1>8, <2>3, <3>1, <4>2, Store DEF IdsBy, Core, There
      <4>4. \A e \in q.f.equal : n \in Meant[e]
        BY <1>0, <1>6, <2>0, <2>1, <2>3, EqualsMeans DEF Excused
      <4>5. n \in MatchingNow(q.f)
        BY <2>3, <4>1, <4>2, <4>3, <4>4 DEF MatchingNow, Likely
      <4>6. q.op = "ancestors" => n \in Ancestry
        BY <1>0, <1>2, <2>3, <3>1, Makers, FiltersFollow
      <4> QED BY <1>0, <1>6, <2>3, <4>5, <4>6, NowOnce DEF Excused
    <3>2. CASE j \notin {"select", "all", "term", "edges"}
      <4>1. ~Awaits("term") /\ ~Awaits("edges")
        BY <1>2, <2>3, <3>2
      <4>2. Awaits("closure") => n \in Ancestry
        <5>1. CASE j = "closure"
          BY <1>8, <5>1 DEF Filtered, IdsBy
        <5>2. CASE j # "closure"
          BY <1>2, <2>3, <5>2
        <5> QED BY <5>1, <5>2
      <4> QED BY <1>4, <1>7, <1>8, <2>3, <3>2, <4>1, <4>2 DEF Sifted
    <3> QED BY <3>1, <3>2
  <2> QED BY <1>1, <2>1, <2>2, <2>3 DEF Sifted
<1> QED BY <1>6, <1>8

\* With these due, the filters were made.
LEMMA FiltersDone ==
    ASSUME Core, NEW j \in {"row", "newest"}, Due(j)
    PROVE  \A l \in {"select", "all", "copy", "kids", "term", "edges", "values", "rows"} :
               ~Awaits(l) \/ (l \in {"kids", "rows"} /\ j = "newest")
<1>1. Pending = {Head(q.todo)} \union Rest /\ Head(q.todo).do = j /\ \A x \in Rest : Before(j, x.do)
  BY DueKind DEF Kinds
<1>2. \A l \in {"select", "all", "copy", "term", "edges", "values"} : ~Before(j, l) /\ l # j
  BY Ranks DEF Before
<1>3. j = "row" => ~Some(Rest, Narrowing)
  BY RowNarrowsNothing DEF Due
<1> QED BY <1>1, <1>2, <1>3 DEF Awaits, Await, Some, Narrowing

LEMMA OtherwiseScreened ==
    ASSUME Core, Screened, NEW j \in Kinds, Due(j), Stopped(j) \/ Skipped(j) \/ Taken(j)
    PROVE  Screened'
<1> SUFFICES ASSUME q'.op \in Filtered PROVE CanAsk(q'.f) /\ \A n \in q'.ids : Sifted(n)'
  BY DEF Screened, CanAsk
<1>0. /\ q'.op = q.op /\ q'.of = q.of /\ q'.f = q.f /\ q.out = "running" /\ Live /\ q.op \in Filtered
      /\ q.op \in Operation /\ j \in KindsOf(q.op) /\ UNCHANGED <<present, link, ever, seen>>
      /\ Fits(q.op, q.of, q.f, Head(q.todo)) /\ \A s \in Pending : s.do \in KindsOf(q.op)
  BY DueKind DEF Live, Stopped, Ended, Skipped, Skips, Taken, Core, Plan, Planned, Fits
<1>1. \A n : /\ Equals(n)' = Equals(n) /\ There(n)' = There(n) /\ Likely(n)' = Likely(n)
             /\ Once(n)' = Once(n) /\ Ancestry' = Ancestry /\ Excused' = Excused
  BY <1>0 DEF Equals, There, Likely, Once, Ancestry, Excused, Newcomer, Rounded
<1>2. q.op \notin {"children", "from_parent", "sidecars"}
  BY <1>0 DEF Filtered
<1>3. CASE q.op = "search"
  BY <1>0, <1>2, <1>3 DEF Stopped, Ended, Skipped, Taken, Core, Question, Worded
<1>4. CASE q.op # "search"
  <2>1. q.op = "latest" /\ j \in {"row", "newest"}
    BY <1>2, <1>4 DEF Stopped, Skipped, Taken
  <2>2. ~Awaits("select") /\ ~Awaits("all") /\ ~Awaits("term") /\ ~Awaits("edges") /\ ~Awaits("values")
    BY <2>1, FiltersDone
  <2>3. ~Awaits("closure")
    BY <1>0, <2>1, Makers DEF Awaits, Await
  <2>4. q'.ids \subseteq q.ids
    BY <1>4, <2>1 DEF Stopped, Ended, Skipped, Taken, Newest
  <2>5. CanAsk(q.f) /\ \A n \in q'.ids : Sifted(n)
    BY <1>0, <2>2, <2>4 DEF Screened
  <2>6. ASSUME NEW n \in q'.ids PROVE Sifted(n)'
    BY <1>1, <2>2, <2>3, <2>5, <2>6 DEF Sifted
  <2> QED BY <1>0, <2>5, <2>6
<1> QED BY <1>3, <1>4

\* What others do leaves it so: a node that is gone does not come back.
LEMMA OthersScreened ==
    ASSUME Core, Recorded, Known, Screened, Commit \/ Prune
    PROVE  Screened'
<1>1. /\ UNCHANGED q /\ q.out = "running" /\ Live
      /\ ever \subseteq ever' /\ present' \intersect (ever \ present) = {}
      /\ \A n \in present \intersect present' : Parents(n)' \subseteq Parents(n)
      /\ seen.right \subseteq seen'.right /\ seen.lacked \subseteq seen'.lacked
      /\ Id \ present' \subseteq seen'.lacked
  BY OthersDo DEF Live
<1>2. \A n \in q.ids : n \in present' => n \in present
  BY <1>1 DEF Known, Recorded
<1>3. \A l : Awaits(l)' = Awaits(l)
  BY <1>1 DEF Awaits, Await, Pending
<1>4. \A n : Equals(n)' = Equals(n) /\ Likely(n)' = Likely(n) /\ (Once(n) => Once(n)')
  BY <1>1 DEF Equals, Likely, Once
<1>5. \A n \in q.ids : There(n)' => There(n)
  BY <1>1, <1>2 DEF There
<1>6. ~Excused' => ~Excused
  BY <1>1 DEF Excused, Newcomer, Rounded
<1>7. ~Excused' /\ Awaits("closure") /\ q.op \in Filtered => Ancestry' \subseteq Ancestry
  <2> SUFFICES ASSUME ~Excused', Awaits("closure"), q.op \in Filtered PROVE Ancestry' \subseteq Ancestry
    OBVIOUS
  <2>1. q.op = "ancestors" /\ q.of[1] \in Id
    <3>1. \E s \in Pending : s.do = "closure" /\ s.do \in KindsOf(q.op)
      BY DEF Awaits, Await, Core, Plan, Planned, Fits
    <3>2. q.op = "ancestors"
      BY <3>1, <1>1, Makers DEF Filtered, Core, Question
    <3> QED BY <3>2 DEF Core, Question, Worded
  <2>2. q.of[1] \in present' /\ q.of[1] \in present
    BY <1>1, <2>1 DEF Excused, Newcomer, Recorded
  <2>3. IsGraph(Id, link) /\ IsGraph(Id, link')
    <3>1. Stores /\ Stores'
      BY OthersDo DEF Core
    <3>2. (Stores => IsGraph(Id, link))'
      BY Store, PTL
    <3> QED BY <3>1, <3>2, Store
  <2>4. /\ q.of[1] \in Ancestry /\ ClosedUp(link, Ancestry)
        /\ \A T : q.of[1] \in T /\ ClosedUp(link', T) => Ancestry' \subseteq T
    BY <1>1, <2>1, <2>3, Ancestors DEF Ancestry
  <2>5. Ancestry \subseteq present
    BY <2>1, <2>2, AncestryIs
  <2>6. \A n : n \notin present' => Parents(n)' = {}
    BY OthersDo DEF Parents, Stores, Above
  <2>7. \A n \in Ancestry : Parents(n)' \subseteq Ancestry
    BY <1>1, <2>4, <2>5, <2>6 DEF ClosedUp, Parents
  <2>8. ClosedUp(link', Ancestry)
    BY <2>7 DEF ClosedUp, Parents
  <2> QED BY <2>4, <2>8
<1>8. ASSUME q.op \in Filtered, NEW n \in q.ids, Sifted(n) PROVE Sifted(n)'
  BY <1>1, <1>3, <1>4, <1>5, <1>6, <1>7, <1>8 DEF Sifted
<1> QED BY <1>1, <1>3, <1>8 DEF Screened, CanAsk, Live

LEMMA ScreenedStays ==
    ASSUME Core, Recorded, Known, Screened, [Next]_vars
    PROVE  Screened'
<1>1. CASE UNCHANGED vars
  BY <1>1 DEF vars, Screened, Live, CanAsk, Sifted, Equals, There, Likely, Once, Ancestry, Excused,
              Newcomer, Rounded, Awaits, Await, Pending
<1>2. ASSUME NEW op \in Operation, NEW of \in Seq(Id), NEW f \in FilterType, Begins(op, of, f)
      PROVE  Screened'
  BY <1>2, Starting DEF Begins, Awaits, Filtered, Finding, Screened
<1>3. ASSUME NEW k \in Kinds, Outcome(k) PROVE Screened'
  <2>1. Due(k)
    BY <1>3 DEF Outcome
  <2>2. Refused(k) => Screened'
    BY DEF Refused, Ended, Screened, Live
  <2>3. CASE Made(k)
    BY <2>1, <2>3, MadeIs, MadePasses DEF Screened, CanAsk
  <2> QED BY <1>3, <2>1, <2>2, <2>3, OtherwiseScreened DEF Outcome
<1>4. CASE Deliver
  <2>1. /\ q.out = "running" /\ Pending = {} /\ Pending' = {}
        /\ q'.op = q.op /\ q'.of = q.of /\ q'.f = q.f /\ q'.ids = q.ids
        /\ UNCHANGED <<present, link, ever, seen>>
    BY <1>4, AnswersOrNot
  <2>2. \A n : Sifted(n)' = Sifted(n)
    BY <2>1 DEF Sifted, Equals, There, Likely, Once, Ancestry, Excused, Newcomer, Rounded, Awaits
  <2> QED BY <2>1, <2>2 DEF Screened, CanAsk, Live, Awaits
<1>5. CASE Restarts
  BY <1>5 DEF Restarts, Idle, Screened, Live
<1>6. CASE Commit \/ Prune
  BY <1>6, OthersScreened
<1> QED BY <1>1, <1>2, <1>3, <1>4, <1>5, <1>6, AnyStep

-----------------------------------------------------------------------------
(* Nobody is left out.                                                     *)

\* What is right to list now is there, and passes every filter.
LEMMA NowThere ==
    ASSUME Core, q.out # "idle", NEW n, n \in AnswerNow(q.op, q.of, q.f).ids
    PROVE  /\ CanAsk(q.f) /\ n \in present
           /\ q.op \in Filtered => n \in MatchingNow(q.f)
           /\ q.op = "latest" => \A m \in MatchingNow(q.f) : m <= n
           /\ q.op \in {"lineage", "ancestors"} => n \in Ancestry
           /\ q.op = "children" => n \in Below(link, q.of[1])
           /\ q.op = "from_parent" => n \in Parents(q.of[1])
           /\ q.op \in Of => n \in Range(q.of)
<1> DEFINE a == AnswerNow(q.op, q.of, q.f)
<1>1. a.ok /\ CanAsk(q.f)
  BY NowIs
<1>2. \A m : Parents(m) \subseteq present /\ Below(link, m) \subseteq present
  BY Store DEF Core
<1>3. q.op \in Operation
  BY DEF Core, Question
<1>4. CASE q.op \in Filtered \ {"latest", "ancestors"}
  BY <1>1, <1>4, NowIs DEF Filtered, Of, MatchingNow
<1>5. CASE q.op = "latest"
  BY <1>1, <1>5, NowIs DEF Of, MatchingNow, Newest
<1>6. CASE q.op = "ancestors"
  BY <1>1, <1>6, NowIs DEF Of, MatchingNow
<1>7. CASE q.op = "lineage"
  BY <1>1, <1>7, NowIs, AncestryIs DEF Core, Question, Worded, Filtered, Of
<1>8. CASE q.op \in {"children", "from_parent"}
  BY <1>1, <1>2, <1>8, NowIs DEF Filtered, Of
<1>9. CASE q.op \in {"runs", "sidecars", "stats", "backup"}
  BY <1>1, <1>9, NowIs DEF Filtered, Of
<1>10. CASE q.op \in Of
  <2>1. CASE q.op = "artifacts"
    BY <1>1, <2>1, NowIs DEF Filtered
  <2>2. CASE q.op \in {"detail", "diff"}
    BY <1>1, <2>2, NowIs DEF Filtered
  <2> QED BY <1>10, <2>1, <2>2 DEF Of
<1> QED
  BY <1>3, <1>4, <1>5, <1>6, <1>7, <1>8, <1>9, <1>10
  DEF Operation, Details, Wholes, Artifacts, Filtered, Of

\* No statement misses a node that is right to list.
LEMMA NowFound ==
    ASSUME Core, NEW j \in Kinds, Due(j), NEW n, n \in AnswerNow(q.op, q.of, q.f).ids,
           \/ n \in q.ids
           \/ j \in {"select", "all", "kids", "parents", "copy"}
           \/ q.op = "lineage" /\ j = "closure"
    PROVE  n \in IdsBy(j)
<1>0. /\ q.out = "running" /\ q.op \in Operation /\ j \in KindsOf(q.op)
      /\ Fits(q.op, q.of, q.f, Head(q.todo)) /\ Head(q.todo).do = j
  BY DueKind
<1>1. /\ CanAsk(q.f) /\ n \in present
      /\ q.op \in Filtered => n \in MatchingNow(q.f)
      /\ q.op \in {"lineage", "ancestors"} => n \in Ancestry
      /\ q.op = "children" => n \in Below(link, q.of[1])
      /\ q.op = "from_parent" => n \in Parents(q.of[1])
  BY <1>0, NowThere
<1>2. q.op \in Filtered => Equals(n)
  BY <1>0, <1>1, EqualsMeans DEF Core, Stores, MatchingNow
<1>3. CASE j \in {"select", "term"}
  BY <1>0, <1>1, <1>2, <1>3, Makers DEF Finding, Filtered, IdsBy
<1>4. CASE j \in {"edges", "values"}
  <2>1. q.op \in Filtered
    BY <1>0, <1>4, Makers
  <2>2. j = "edges" => Parents(n) \in q.f.parents
    BY <1>0, <1>1, <2>1 DEF Fits, MatchingNow
  <2>3. j = "values" => Accepted(n)
    BY <1>0, <1>1, <2>1 DEF Core, QType, QueryType, FilterType, Fits, MatchingNow, Accepted
  <2> QED BY <1>4, <2>2, <2>3 DEF IdsBy
<1>5. CASE j \in {"kids", "parents", "closure"}
  BY <1>0, <1>1, <1>5, Makers DEF IdsBy
<1>6. CASE j \in {"all", "copy", "sift", "rows"}
  BY <1>1, <1>6 DEF IdsBy
<1>7. CASE j \notin {"select", "term", "edges", "values", "kids", "parents", "closure", "all", "copy", "sift", "rows"}
  BY <1>7 DEF IdsBy
<1> QED BY <1>3, <1>4, <1>5, <1>6, <1>7

\* The newest of the ids is not older than one it was right to list.
LEMMA NewestIsListed ==
    ASSUME Core, Recorded, Screened, NEW j \in Kinds, Due(j), Taken(j), ~Rounded,
           NEW n \in q.ids, Always(n)
    PROVE  n \in q'.ids
<1>0. q.op = "latest" /\ j = "newest" /\ q.out = "running" /\ Live /\ q.op \in Operation
      /\ \A s \in Pending : s.do \in KindsOf(q.op)
  BY DueKind DEF Taken, Due, Live, Core, Plan, Planned, Fits
<1> DEFINE a == AnswerNow(q.op, q.of, q.f)
<1>1. a \in seen.right /\ n \in a.ids
  BY <1>0 DEF Recorded, Always
<1>2. n \in present /\ n \in MatchingNow(q.f)
  BY <1>0, <1>1, NowThere DEF Filtered
<1>3. ~Awaits("select") /\ ~Awaits("all") /\ ~Awaits("term") /\ ~Awaits("edges") /\ ~Awaits("values")
  BY <1>0, FiltersDone
<1>4. ~Awaits("closure")
  BY <1>0, Makers DEF Awaits, Await
<1>5. ASSUME NEW m \in q.ids \intersect present PROVE m <= n
  <2>1. Sifted(m)
    BY <1>0, <1>3 DEF Screened, Filtered
  <2>2. ~Excused
    BY <1>0 DEF Excused, Newcomer
  <2>3. Once(m)
    BY <1>3, <1>4, <2>1, <2>2 DEF Sifted, There
  <2>4. PICK b \in seen.right : \A x \in b.ids : m <= x
    BY <1>0, <2>3 DEF Once
  <2> QED BY <2>4 DEF Always
<1>6. n \in Newest(q.ids \intersect present)
  BY <1>2, <1>5 DEF Newest
<1> QED BY <1>6 DEF Taken

LEMMA EveryoneStays ==
    ASSUME Core, Recorded, Screened, Everyone, [Next]_vars
    PROVE  Everyone'
<1>1. CASE UNCHANGED vars
  BY <1>1 DEF vars, Everyone, Live, Sought, Always, Rounded, Awaits, Await, Pending
<1>2. ASSUME NEW op \in Operation, NEW of \in Seq(Id), NEW f \in FilterType, Begins(op, of, f)
      PROVE  Everyone'
  <2>1. q'.op = op /\ Pending' = Makes(op, of, f)
    BY <1>2 DEF Begins
  <2>2. op \notin Of => ~Sought'
    BY <2>1, Starting
    DEF Sought, Awaits, Operation, Details, Wholes, Artifacts, Of, Finding
  <2>3. op = "artifacts" => Awaits("files")'
    <3>1. op = "artifacts" => Do("files", {of[1]}) \in Pending'
      BY <2>1, Starting
    <3> QED BY <3>1 DEF Awaits, Await, Do
  <2> QED BY <2>1, <2>2, <2>3 DEF Everyone
<1>3. ASSUME NEW k \in Kinds, Outcome(k) PROVE Everyone'
  <2>0. Due(k) /\ q.out = "running" /\ Live
    BY <1>3 DEF Outcome, Due, Live
  <2>1. /\ q'.op = q.op /\ q'.of = q.of /\ q'.f = q.f /\ UNCHANGED <<present, link, ever, seen>>
    BY <1>3, OutcomeIs
  <2>2. q.op \in Operation /\ k \in KindsOf(q.op) /\ Fits(q.op, q.of, q.f, Head(q.todo))
        /\ Head(q.todo) \in Pending /\ Head(q.todo).do = k /\ Await(Pending, k)
        /\ Pending = {Head(q.todo)} \union Rest /\ \A x \in Rest : Before(k, x.do)
        /\ About(q.op, Pending, Wanted) /\ Finishes(q.op, Pending)
        /\ \A s \in Pending : s.do \in KindsOf(q.op)
    BY <2>0, DueKind DEF Core, Plan, Planned, Fits
  <2>3. \A n : (Always(n)' <=> Always(n)) /\ (Rounded' <=> Rounded)
    BY <2>1 DEF Always, Rounded
  <2>4. \A n : Always(n) => n \in AnswerNow(q.op, q.of, q.f).ids
    BY <2>0 DEF Recorded, Always
  <2>5. CASE Made(k)
    <3>1. q'.ids = IdsBy(k) /\ q'.files = FilesBy(k)
      BY <2>0, <2>5, MadeIs
    <3>2. \A l : l # k /\ Awaits(l) => Awaits(l)'
      BY <2>0, <2>5, OthersWait
    <3>3. ASSUME q.op \notin Of, Sought', ~(q.op = "latest" /\ Rounded), NEW n \in Id, Always(n)
          PROVE  n \in IdsBy(k)
      <4>1. CASE k \in {"select", "all", "kids", "parents", "copy"} \/ (q.op = "lineage" /\ k = "closure")
        BY <2>0, <2>4, <3>3, <4>1, NowFound
      <4>2. CASE ~(k \in {"select", "all", "kids", "parents", "copy"} \/ (q.op = "lineage" /\ k = "closure"))
        BY <2>0, <2>1, <2>4, <3>2, <3>3, <4>2, NowFound DEF Sought, Everyone
      <4> QED BY <4>1, <4>2
    <3>4. ASSUME q.op = "artifacts", ~Awaits("files")', NEW n \in Id, Always(n)
          PROVE  n \in FilesBy(k)
      <4>1. CASE k = "files"
        <5>1. n \in present /\ n \in Range(q.of)
          BY <2>0, <2>4, <3>4, NowThere DEF Of
        <5>2. PICK m \in Id : q.of = <<m>>
          BY <3>4 DEF Core, Question, Worded, Artifacts
        <5>3. DOMAIN q.of = 1..1 /\ q.of[1] = m
          BY <5>2
        <5>4. n = m
          BY <5>1, <5>3 DEF Range
        <5>5. Head(q.todo).on = {m}
          BY <2>2, <3>4, <5>3 DEF Fits
        <5>6. On = {m}
          BY <2>0, <5>5, OnOne DEF Due
        <5> QED BY <4>1, <5>1, <5>4, <5>6 DEF FilesBy
      <4>2. CASE k # "files"
        BY <2>0, <2>2, <3>2, <3>4, <4>2, Makers DEF Everyone, FilesBy
      <4> QED BY <4>1, <4>2
    <3> QED BY <2>1, <2>3, <3>1, <3>3, <3>4 DEF Everyone
  <2>6. CASE Refused(k)
    BY <2>6 DEF Refused, Ended, Everyone, Live
  <2>7. CASE Taken(k)
    <3>1. q.op = "latest" /\ k = "newest"
      BY <2>7 DEF Taken
    <3>2. Sought
      BY <2>0, <2>2, <3>1, FiltersDone, Makers DEF Awaits, Await, Sought
    <3>3. ~Rounded => \A n \in Id : Always(n) => n \in q'.ids
      BY <2>0, <2>7, <3>1, <3>2, NewestIsListed DEF Everyone, Of
    <3> QED BY <2>1, <2>3, <3>1, <3>3 DEF Everyone
  <2>8. CASE Stopped(k) \/ Skipped(k)
    <3>0. q.op # "artifacts" /\ q'.files = q.files
      BY <2>2, <2>8, Makers DEF Stopped, Ended, Skipped, Skips
    <3>1. CASE q.op \in {"children", "from_parent"} /\ Missing /\ k \in {"exists", "row"}
               /\ Head(q.todo).on = {q.of[1]}
      <4>1. q.of[1] \notin present
        BY <3>1 DEF Missing
      <4>2. Parents(q.of[1]) = {} /\ Below(link, q.of[1]) = {}
        BY <4>1 DEF Core, Stores, Parents, Above, Below
      <4>3. \A n : ~Always(n)
        BY <2>0, <2>4, <3>1, <4>2, NowThere
      <4> QED BY <2>3, <3>0, <2>1, <4>3 DEF Everyone
    <3>2. CASE q.op = "search"
      <4>1. k \in {"edges", "values", "term", "sift"} /\ IdsBy(k) = {} /\ q'.ids = {}
        BY <2>8, <3>2 DEF Stopped, Ended, Skipped
      <4>2. ~Before(k, "all") /\ k # "all"
        BY <4>1, Backwards, Ranks DEF Before
      <4>3. ~Awaits("all")
        BY <2>2, <4>2 DEF Awaits, Await
      <4>4. Sought
        BY <2>2, <3>2, <4>3, Makers DEF Sought, Awaits, Await, Finding
      <4>5. \A n \in Id : Always(n) => n \in q.ids
        BY <2>0, <3>2, <4>4 DEF Everyone, Of
      <4>6. \A n \in Id : ~Always(n)
        BY <2>0, <2>4, <4>1, <4>5, NowFound
      <4> QED BY <2>1, <2>3, <3>0, <4>6 DEF Everyone
    <3>3. CASE q.op = "latest" \/ q.op = "sidecars" \/ (q.op = "from_parent" /\ k = "exists")
      <4>1. Sought
        <5>1. q.op \in {"latest", "sidecars"} => k = "row"
          BY <2>2, <2>8, <3>3, Makers DEF Stopped, Skipped
        <5>2. k = "row" => ~Awaits("select") /\ ~Awaits("all") /\ ~Awaits("copy")
          BY <2>0, FiltersDone
        <5>3. q.op = "from_parent" => ~Awaits("select") /\ ~Awaits("all") /\ ~Awaits("copy")
          BY <2>2, Makers DEF Awaits, Await, Finding
        <5>4. ~Awaits("kids")
          BY <2>2, <3>3, Makers DEF Awaits, Await
        <5>5. ~Awaits("parents")
          BY <2>2, <3>3, Makers DEF About, Awaits, Await
        <5> QED BY <3>3, <5>1, <5>2, <5>3, <5>4, <5>5 DEF Sought
      <4>2. q'.ids = q.ids
        BY <2>8, <3>3 DEF Stopped, Ended, Skipped, Skips
      <4> QED BY <2>0, <2>1, <2>3, <3>0, <4>1, <4>2 DEF Everyone
    <3> QED BY <2>2, <2>8, <3>1, <3>2, <3>3 DEF Stopped, Skipped, Fits
  <2> QED BY <1>3, <2>5, <2>6, <2>7, <2>8 DEF Outcome
<1>4. CASE Deliver
  BY <1>4, AnswersOrNot DEF Everyone, Live, Sought, Always, Rounded, Awaits
<1>5. CASE Restarts
  BY <1>5 DEF Restarts, Idle, Everyone, Live
<1>6. CASE Commit \/ Prune
  BY <1>6, OthersDo DEF Always, Everyone, Live, Sought, Rounded, Awaits, Await, Pending
<1> QED BY <1>1, <1>2, <1>3, <1>4, <1>5, <1>6, AnyStep

\* A request that answers makes no more statements, and misses none it needs.
LEMMA AnsweredIs ==
    ASSUME Core, Complete, Answered
    PROVE  /\ Pending = {} /\ q.left = {} /\ q.op \in Operation /\ Live /\ Sought /\ \A k : ~Awaits(k)
           /\ \A k \in Reading : Needed(q.op, k) =>
                 Got(k) \subseteq Wanted /\ Wanted \subseteq seen.gone \union Got(k)
<1>1. q.todo = <<>> /\ q.left = {} /\ q.op \in Operation /\ Live
  BY DEF Core, Plan, Question, Answered, Live
<1>2. Pending = {}
  BY <1>1 DEF Pending, Range
<1>3. \A k : ~Awaits(k) /\ \A n : Do(k, n) \notin Pending
  BY <1>2 DEF Awaits, Await
<1>4. ASSUME NEW k \in Reading, Needed(q.op, k)
      PROVE  Got(k) \subseteq Wanted /\ Wanted \subseteq seen.gone \union Got(k)
  BY <1>1, <1>3, <1>4 DEF Complete, Reading, Every, Covered, Waits
<1> QED BY <1>1, <1>2, <1>3, <1>4 DEF Sought

\* What is gone is no longer right to list.
LEMMA GoneIsOver ==
    ASSUME Core, Recorded, q.out # "idle", NEW n, Always(n)
    PROVE  n \notin seen.gone /\ n \in present /\ (q.op \in Of => n \in Range(q.of))
<1>1. n \in AnswerNow(q.op, q.of, q.f).ids
  BY DEF Recorded, Always
<1> QED BY <1>1, NowThere DEF Recorded

LEMMA ListsEveryone ==
    ASSUME Core, Recorded, Complete, Everyone
    PROVE  NobodyLeftOut
<1> SUFFICES ASSUME Answered, ~(q.op = "latest" /\ Rounded), NEW n \in Id, Always(n)
             PROVE  n \in Delivered
  BY DEF NobodyLeftOut, Always
<1>1. /\ q.left = {} /\ q.op \in Operation /\ Live /\ Sought /\ \A k : ~Awaits(k)
      /\ \A k \in Reading : Needed(q.op, k) =>
            Got(k) \subseteq Wanted /\ Wanted \subseteq seen.gone \union Got(k)
  BY AnsweredIs
<1>2. n \notin seen.gone /\ (q.op \in Of => n \in Range(q.of))
  BY GoneIsOver DEF Answered
<1>3. q.op \notin Of => n \in q.ids
  BY <1>1 DEF Everyone
<1>4. n \in Wanted
  BY <1>2, <1>3 DEF Wanted
<1>5. CASE q.op \in {"search", "stats"}
  BY <1>3, <1>5 DEF Of, Delivered, Artifacts
<1>6. CASE q.op = "artifacts"
  BY <1>1, <1>6 DEF Delivered, Artifacts, Everyone
<1>7. CASE q.op = "from_parent"
  BY <1>1, <1>2, <1>4, <1>7 DEF Needed, Reading, Got, Delivered, Artifacts
<1>8. CASE q.op \notin {"search", "stats"} \union Artifacts
  BY <1>1, <1>2, <1>4, <1>8 DEF Needed, Rowless, Reading, Got, Delivered
<1> QED BY <1>5, <1>6, <1>7, <1>8 DEF Artifacts

\* Whatever is committed and pruned while a request is made, it lists every
\* node that it was right to list all along.
THEOREM NobodyIsLeftOut == Spec => []NobodyLeftOut
<1> DEFINE Holds == Core /\ Recorded /\ Known /\ Complete /\ Screened /\ Everyone
<1>1. Init => Holds
  BY CoreStarts, IdleIsFine DEF Screened, Everyone, Live, Init, Idle
<1>2. Holds /\ [Next]_vars => Holds'
  BY CoreStays, RecordedStays, KnownStays, CompleteStays, ScreenedStays, EveryoneStays
<1>3. Holds => NobodyLeftOut
  BY ListsEveryone
<1> QED BY <1>1, <1>2, <1>3, PTL DEF Spec

-----------------------------------------------------------------------------
(* Rows and edges belong together.                                         *)

LEMMA LinkedStays ==
    ASSUME Core, Recorded, Known, Linked, [Next]_vars
    PROVE  Linked'
<1>1. CASE UNCHANGED vars
  BY <1>1 DEF vars, Linked, Live, Pending
<1>2. ASSUME NEW op \in Operation, NEW of \in Seq(Id), NEW f \in FilterType, Begins(op, of, f)
      PROVE  Linked'
  BY <1>2 DEF Begins, Linked
<1>3. ASSUME NEW k \in Kinds, Outcome(k) PROVE Linked'
  <2>0. Due(k) /\ q.out = "running" /\ Live
    BY <1>3 DEF Outcome, Due, Live
  <2>1. q'.op = q.op /\ UNCHANGED <<present, link, ever, seen>> /\ Records(present) \subseteq seen.was
    BY <1>3, <2>0, OutcomeIs DEF Recorded
  <2>2. /\ q.op \in Operation /\ k \in KindsOf(q.op) /\ Fits(q.op, q.of, q.f, Head(q.todo))
        /\ Head(q.todo).do = k /\ Await(Pending, k) /\ q.todo # <<>>
        /\ Planned(q.op, q.of, q.f, Pending, Wanted)
    BY <2>0, DueKind DEF Core, Plan
  <2> SUFFICES ASSUME q.op \in Many, Live', Do("links", Found) \notin Pending',
                      NEW n \in q'.ids \intersect present
               PROVE  <<n, q'.above[n]>> \in seen.was
    BY <2>1 DEF Linked
  <2>3. <<n, Parents(n)>> \in seen.was
    BY <2>1 DEF Records
  <2>4. CASE Made(k)
    <3>1. q'.ids = IdsBy(k) /\ q'.above = AboveBy(k)
      BY <2>0, <2>4, MadeIs
    <3>2. n \in Id
      BY Store DEF Core
    <3>3. k \notin {"copy", "parents", "all", "term", "sift", "newest"}
      BY <2>2, Makers DEF Many
    <3>4. k \notin {"select", "edges", "values", "closure", "kids"}
      BY <2>0, <2>2, <2>4, StillPending DEF Planned, Reads, Some, Await, Do
    <3>5. n \in q.ids
      BY <3>1, <3>3, <3>4, Leaves DEF Narrowing, IdsBy
    <3>6. CASE n \in On /\ k = "links"
      BY <2>3, <3>1, <3>2, <3>6 DEF AboveBy
    <3>7. CASE k = "relink"
      BY <2>3, <3>1, <3>2, <3>5, <3>7 DEF AboveBy
    <3>8. CASE k # "relink" /\ ~(n \in On /\ k = "links")
      <4>1. q'.above[n] = q.above[n]
        BY <3>1, <3>2, <3>3, <3>8 DEF AboveBy
      <4>2. Do("links", Found) \notin Pending
        BY <2>0, <2>2, <2>4, <3>5, <3>8, StillPending DEF Do, On
      <4> QED BY <2>0, <3>5, <4>1, <4>2 DEF Linked
    <3> QED BY <3>6, <3>7, <3>8
  <2>5. CASE ~Made(k)
    <3>1. ~Refused(k) /\ ~Skipped(k) /\ ~Taken(k)
      BY DEF Refused, Ended, Live, Skipped, Taken, Many
    <3>2. Stopped(k) /\ q.op = "children"
      BY <1>3, <2>5, <3>1 DEF Outcome, Stopped, Many
    <3>3. Await(Pending, "kids") /\ q'.ids = q.ids
      BY <2>2, <3>2 DEF Stopped, Ended, Planned, Finishes, Leads
    <3>4. q.ids = {}
      BY <3>3 DEF Core, Blank, Some, Await
    <3> QED BY <3>3, <3>4
  <2> QED BY <2>4, <2>5
<1>4. CASE Deliver
  BY <1>4, AnswersOrNot DEF Linked, Live
<1>5. CASE Restarts
  BY <1>5 DEF Restarts, Idle, Linked, Live
<1>6. CASE Commit \/ Prune
  BY <1>6, OthersDo DEF Known, Recorded, Linked, Live, Pending
<1> QED BY <1>1, <1>2, <1>3, <1>4, <1>5, <1>6, AnyStep

LEMMA Planning ==
    Core => /\ Planned(q.op, q.of, q.f, Pending, Wanted)
            /\ \A s \in Pending : Fits(q.op, q.of, q.f, s)
BY DEF Core, Plan, Planned

LEMMA FreshStays ==
    ASSUME Core, Fresh, [Next]_vars
    PROVE  Fresh'
<1>1. CASE UNCHANGED vars
  BY <1>1 DEF vars, Fresh, Waits, Awaits, Await, Pending
<1>2. ASSUME NEW op \in Operation, NEW of \in Seq(Id), NEW f \in FilterType, Begins(op, of, f)
      PROVE  Fresh'
  BY <1>2 DEF Begins, Fresh
<1>3. ASSUME NEW k \in Kinds, Outcome(k) PROVE Fresh'
  <2>0. Due(k) /\ q.out = "running"
    BY <1>3 DEF Outcome, Due
  <2>1. q'.op = q.op
    BY <1>3, OutcomeIs
  <2>2. /\ q.op \in Operation /\ k \in KindsOf(q.op) /\ Fits(q.op, q.of, q.f, Head(q.todo))
        /\ Head(q.todo).do = k /\ q.todo # <<>>
        /\ Pending = {Head(q.todo)} \union Rest /\ \A x \in Rest : Before(k, x.do)
    BY <2>0, DueKind
  <2>3. k = "row" => ~Await(Rest, "row")
    BY <2>2, Ranks DEF Before, Await
  <2>4. ASSUME q.op \in {"latest", "from_parent"}, Awaits("row")' PROVE q'.rows = {}
    <3>1. CASE Made(k)
      <4>1. /\ q'.rows = RowsBy(k) /\ Advance(Rest, LeftBy(k))
            /\ LeftBy(k) # {} => q.op \in Loops \union {"diff"}
        BY <2>0, <3>1, MadeIs
      <4>2. Await(Rest, "row")
        <5>1. CASE Pending' = Rest
          BY <2>4, <5>1 DEF Awaits
        <5>2. CASE \E n \in LeftBy(k) : Pending' = MakesFor(q.op, n)
          BY <2>4, <4>1, <5>2 DEF Loops, MakesFor, Awaits, Await, Do
        <5> QED BY <4>1, <5>1, <5>2 DEF Advance
      <4>3. Awaits("row") /\ k # "row"
        BY <2>2, <2>3, <4>2 DEF Awaits, Await
      <4>4. k \notin {"copy", "rows", "again"}
        BY <2>2, <2>4, Makers DEF Many
      <4>5. q'.rows = q.rows
        BY <4>1, <4>3, <4>4, Leaves
      <4> QED BY <2>4, <4>3, <4>5 DEF Fresh
    <3>2. CASE Taken(k)
      BY <2>0, <2>2, <3>2, NothingYet DEF Taken, Narrowing
    <3>3. CASE Skipped(k)
      BY <2>4, <3>3 DEF Skipped, Skips, Advance, MakesFor, Awaits, Await, Do
    <3>4. CASE Refused(k) \/ Stopped(k)
      BY <2>4, <3>4 DEF Refused, Stopped, Ended, Awaits, Await
    <3> QED BY <1>3, <3>1, <3>2, <3>3, <3>4 DEF Outcome
  <2>5. ASSUME q.op = "sidecars"
        PROVE  /\ \A n \in q'.left : n \notin q'.rows /\ ~Waits("row", n)'
               /\ \A n \in q'.rows : ~Waits("row", n)'
    <3>1. ASSUME NEW L, Advance(Rest, L) \/ Advance({}, L), k = "all" \/ L = q.left,
                 k = "all" => q'.rows = {},
                 k # "all" => q'.rows = q.rows \/ (k = "row" /\ q'.rows = q.rows \union Head(q.todo).on)
          PROVE  /\ \A n \in q'.left : n \notin q'.rows /\ ~Waits("row", n)'
                 /\ \A n \in q'.rows : ~Waits("row", n)'
      <4>1. \A n \in q.left : n \notin q.rows /\ ~Waits("row", n)
        BY <2>5 DEF Fresh
      <4>2. \A n \in q.rows : ~Waits("row", n)
        BY <2>5 DEF Fresh
      <4>3. q'.left \subseteq L /\ \A n \in L : k # "all" => n \notin q'.rows
        <5>1. q'.left \subseteq L
          BY <3>1 DEF Advance
        <5>2. ASSUME NEW n \in L, k # "all" PROVE n \notin q'.rows
          <6>1. n \notin q.rows /\ ~Waits("row", n)
            BY <3>1, <4>1, <5>2
          <6>2. k = "row" => n \notin Head(q.todo).on
            <7> SUFFICES ASSUME k = "row", n \in Head(q.todo).on PROVE FALSE
              OBVIOUS
            <7>1. Head(q.todo).on = {n}
              BY <2>2 DEF Fits
            <7>2. Head(q.todo) = Do("row", {n})
              BY <2>0, <2>2, <7>1, DueIs DEF StatementType, Do
            <7> QED BY <2>2, <6>1, <7>2 DEF Waits
          <6> QED BY <3>1, <5>2, <6>1, <6>2
        <5> QED BY <5>1, <5>2
      <4>4. CASE Pending' \subseteq Rest /\ (Pending' = Rest \/ Pending' = {})
        <5>1. \A n : Waits("row", n)' => Waits("row", n) /\ k # "row"
          BY <2>2, <2>3, <4>4 DEF Waits, Await, Do
        <5>2. k = "all" => ~Await(Rest, "row")
          <6> SUFFICES ASSUME k = "all", NEW s \in Rest, s.do = "row" PROVE FALSE
            BY DEF Await
          <6>1. \A t \in Pending : t.do = "row" /\ t.on # Found => ~Some(Pending, Narrowing)
            BY <2>5, Planning DEF Planned, About
          <6>2. s.on # Found
            BY <2>2, Planning DEF Planned, Fits, Found
          <6>3. Some(Pending, Narrowing)
            BY <2>2 DEF Some, Narrowing
          <6> QED BY <2>2, <6>1, <6>2, <6>3
        <5>3. \A n : ~Waits("row", n)' \/ (k # "all" /\ Waits("row", n) /\ k # "row")
          BY <4>4, <5>1, <5>2 DEF Waits, Await, Do
        <5>4. \A n \in q'.rows : k # "all" /\ k # "row" => n \in q.rows
          BY <3>1
        <5> QED BY <3>1, <4>1, <4>2, <4>3, <5>3, <5>4
      <4>5. CASE \E m \in L : Pending' = MakesFor(q.op, m) /\ q'.left = L \ {m}
        <5>1. PICK m \in L : Pending' = ReadsDetail(m) /\ q'.left = L \ {m}
          BY <2>5, <4>5 DEF MakesFor
        <5>2. \A n : Waits("row", n)' => n = m
          BY <5>1 DEF Waits, ReadsDetail, ReadsOne, Do
        <5>3. m \notin q'.rows
          BY <3>1, <4>3
        <5> QED BY <3>1, <4>3, <5>1, <5>2, <5>3
      <4> QED BY <3>1, <4>4, <4>5 DEF Advance
    <3>2. k \in {"all", "row", "links", "files", "entries"}
      BY <2>2, <2>5, KindsAre
    <3>3. CASE Made(k)
      <4>1. q'.rows = RowsBy(k) /\ Advance(Rest, LeftBy(k))
        BY <2>0, <3>3, MadeIs
      <4>2. k = "all" => q.rows = {}
        BY <2>0, <2>2, NothingYet DEF Narrowing
      <4>3. k # "all" => LeftBy(k) = q.left
        BY <3>2, Leaves
      <4>4. k # "row" => RowsBy(k) = q.rows
        BY <3>2, Leaves
      <4>5. k = "row" => RowsBy(k) = q.rows \union Head(q.todo).on
        BY DEF RowsBy
      <4> QED BY <3>1, <4>1, <4>2, <4>3, <4>4, <4>5
    <3>4. CASE Skipped(k)
      BY <3>1, <3>4 DEF Skipped, Skips
    <3>5. CASE ~Made(k) /\ ~Skipped(k)
      BY <1>3, <2>5, <3>2, <3>5 DEF Refused, Stopped, Taken, Outcome
    <3> QED BY <3>3, <3>4, <3>5
  <2> QED BY <2>1, <2>4, <2>5 DEF Fresh
<1>4. CASE Deliver
  BY <1>4, AnswersOrNot DEF Fresh, Waits, Awaits
<1>5. CASE Restarts
  BY <1>5 DEF Restarts, Idle, Fresh
<1>6. CASE Commit \/ Prune
  BY <1>6, OthersDo DEF Fresh, Waits, Awaits, Await, Pending
<1> QED BY <1>1, <1>2, <1>3, <1>4, <1>5, <1>6, AnyStep

\* Edges that are read now belong to the row, unless that is gone.
LEMMA ReadsPair ==
    ASSUME Core, Recorded, Known, q.out # "idle", NEW n \in Id, n \in present \union seen.gone
    PROVE  /\ n \in present => <<n, Parents(n)>> \in seen.was
           /\ n \notin present => n \in seen.gone /\ Parents(n) = {}
<1>1. n \notin present => n \in seen.gone /\ Parents(n) = {}
  BY Store DEF Core
<1>2. n \in present => <<n, Parents(n)>> \in Records(present)
  BY DEF Records
<1> QED BY <1>1, <1>2 DEF Recorded

LEMMA MadePairs ==
    ASSUME Core, Recorded, Known, Linked, Paired, NEW k \in Kinds, Due(k), Made(k)
    PROVE  Paired'
<1>0. q.out = "running" /\ Live
  BY DEF Due, Live
<1>1. /\ q'.op = q.op /\ q'.rows = RowsBy(k) /\ q'.above = AboveBy(k)
      /\ UNCHANGED <<present, link, ever, seen>>
  BY MadeIs
<1>2. /\ q.op \in Operation /\ k \in KindsOf(q.op) /\ Fits(q.op, q.of, q.f, Head(q.todo))
      /\ Head(q.todo).do = k /\ q.todo # <<>> /\ Head(q.todo) \in Pending
      /\ Pending = {Head(q.todo)} \union Rest /\ \A x \in Rest : Before(k, x.do)
  BY DueKind
<1>3. Reads(q.op, Pending)
  BY Planning DEF Planned
<1>4. q.rows \subseteq present \union seen.gone /\ RowsBy(k) \subseteq present \union seen.gone
  BY FoundRows DEF Known
<1>5. present \in SUBSET Id /\ seen.gone \subseteq Id
  BY Store DEF Core, QType, SeenType
<1> SUFFICES ASSUME NEW n \in q'.rows, ~Awaits("again")', ~Waits("links", n)', ~Waits("parents", n)'
             PROVE  Pair(n)'
  BY DEF Paired
<1>6. n \in Id /\ n \in present \union seen.gone
  BY <1>1, <1>4, <1>5
<1>7. Some(Pending, Narrowing) => q.rows = {}
  BY DEF Core, Blank
<1>8. Do("links", Found) \in Pending => q.rows = {} /\ Awaits("rows")
  BY <1>3, <1>7 DEF Reads, Do, Some, Narrowing, Awaits, Await
<1>9. CASE q'.above[n] = Parents(n) /\ (n \in present \/ q.op \in Gets)
  BY <1>0, <1>1, <1>6, <1>9, ReadsPair DEF Pair
<1>10. CASE k = "rows"
  <2>1. q.op = "page" => Awaits("again")
    BY <1>10, <1>2, <1>3 DEF Await, Reads, Leads, Awaits
  <2>2. q.op # "page"
    BY <1>10, <2>1, StillPending DEF Awaits
  <2>3. Do("links", Found) \notin Pending
    BY <1>2, <1>10, Backwards DEF Do
  <2>4. n \in q.ids \intersect present /\ q.op \in Many
    BY <1>1, <1>2, <1>10, Makers DEF RowsBy, IdsBy
  <2>5. q'.above[n] = q.above[n]
    BY <1>1, <1>10, Leaves
  <2> QED BY <1>0, <1>1, <2>3, <2>4, <2>5 DEF Linked, Pair
<1>11. CASE k = "again"
  <2>1. Do("links", Found) \notin Pending
    BY <1>11, <1>2, <1>8, Ranks DEF Before, Awaits, Await
  <2>2. n \in q.ids \intersect present /\ q.op \in Many
    BY <1>1, <1>2, <1>11, Makers DEF RowsBy, Many
  <2>3. q'.above[n] = q.above[n]
    BY <1>1, <1>11, Leaves
  <2> QED BY <1>0, <1>1, <2>1, <2>2, <2>3 DEF Linked, Pair
<1>12. CASE k = "copy"
  BY <1>1, <1>12, <1>6, <1>9 DEF RowsBy, IdsBy, AboveBy
<1>13. CASE n \in q.rows /\ k \notin {"rows", "again", "copy"}
  <2>1. ~Awaits("again")
    BY <1>13, StillPending DEF Awaits
  <2>2. CASE Waits("links", n)
    <3>1. Head(q.todo) = Do("links", {n})
      BY <2>2, StillPending DEF Waits
    <3>2. k = "links" /\ Head(q.todo).on = {n}
      BY <1>2, <3>1 DEF Do
    <3>3. On = {n}
      BY <1>0, <1>2, <3>2, OnOne
    <3>4. q.op \in Gets
      BY <1>2, <3>2 DEF Fits, Found
    <3>5. q'.above[n] = Parents(n)
      BY <1>1, <1>6, <3>2, <3>3 DEF AboveBy
    <3> QED BY <1>9, <3>4, <3>5
  <2>3. CASE Waits("parents", n)
    <3>1. Head(q.todo) = Do("parents", {n})
      BY <2>3, StillPending DEF Waits
    <3>2. k = "parents" /\ Head(q.todo).on = {n}
      BY <1>2, <3>1 DEF Do
    <3>3. q.op = "from_parent"
      BY <1>2, <3>2, Makers
    <3>4. q.of[1] = n
      BY <1>2, <3>2, <3>3 DEF Fits
    <3>5. q.above \in [Id -> SUBSET Id]
      BY DEF Core, QType, QueryType
    <3>6. q'.above[n] = Parents(n)
      BY <1>1, <1>6, <3>2, <3>4, <3>5 DEF AboveBy
    <3> QED BY <1>9, <3>3, <3>6 DEF Gets
  <2>4. CASE Pair(n)
    <3>1. CASE q'.above[n] = q.above[n]
      BY <1>1, <2>4, <3>1 DEF Pair
    <3>2. CASE k = "links" /\ n \in On
      <4>1. Head(q.todo).on # Found
        BY <1>0, <1>13, <1>2, <1>8, <3>2, DueIs DEF StatementType, Do
      <4>2. q.op \in Gets
        BY <1>2, <3>2, <4>1 DEF Fits
      <4>3. q'.above[n] = Parents(n)
        BY <1>1, <1>6, <3>2 DEF AboveBy
      <4> QED BY <1>9, <4>2, <4>3
    <3>3. CASE k = "relink"
      BY <1>2, <1>3, <2>1, <3>3 DEF Reads, Leads, Awaits, Await, KindsOf
    <3>4. CASE k = "parents" /\ n = q.of[1]
      BY <1>1, <1>2, <1>6, <1>9, <3>4, Makers DEF Core, QType, QueryType, AboveBy, Gets
    <3>5. CASE ~(k = "links" /\ n \in On) /\ k # "relink" /\ ~(k = "parents" /\ n = q.of[1])
      BY <1>1, <1>13, <1>6, <3>1, <3>5 DEF Core, QType, QueryType, AboveBy
    <3> QED BY <3>2, <3>3, <3>4, <3>5
  <2> QED BY <1>0, <1>13, <2>1, <2>2, <2>3, <2>4 DEF Paired
<1>14. CASE n \notin q.rows /\ k \notin {"rows", "again", "copy"}
  <2>1. k = "row" /\ n \in Head(q.todo).on
    BY <1>1, <1>14 DEF RowsBy
  <2>2. Head(q.todo).on = {n}
    BY <1>2, <2>1 DEF Fits
  <2>3. Head(q.todo) = Do("row", {n})
    BY <1>0, <1>2, <2>1, <2>2, DueIs DEF StatementType, Do
  <2>4. Do("links", {n}) \in Pending \/ Do("parents", {n}) \in Pending
    BY <1>2, <1>3, <1>6, <2>3 DEF Reads
  <2>5. Do("links", {n}).do = "links" /\ Do("parents", {n}).do = "parents"
    BY DEF Do
  <2> QED BY <2>1, <2>4, <2>5, StillPending DEF Waits
<1> QED BY <1>10, <1>11, <1>12, <1>13, <1>14

LEMMA PairedStays ==
    ASSUME Core, Recorded, Known, Linked, Fresh, Paired, [Next]_vars
    PROVE  Paired'
<1>1. CASE UNCHANGED vars
  BY <1>1 DEF vars, Paired, Pair, Live, Waits, Awaits, Await, Pending
<1>2. ASSUME NEW op \in Operation, NEW of \in Seq(Id), NEW f \in FilterType, Begins(op, of, f)
      PROVE  Paired'
  BY <1>2 DEF Begins, Paired
<1>3. ASSUME NEW k \in Kinds, Outcome(k) PROVE Paired'
  <2>0. Due(k) /\ q.out = "running" /\ Live
    BY <1>3 DEF Outcome, Due, Live
  <2>1. q'.op = q.op /\ UNCHANGED <<present, link, ever, seen>>
    BY <1>3, OutcomeIs
  <2>2. /\ q.op \in Operation /\ k \in KindsOf(q.op) /\ Fits(q.op, q.of, q.f, Head(q.todo))
        /\ Head(q.todo).do = k /\ q.todo # <<>> /\ Head(q.todo) \in Pending
        /\ Await(Pending, k)
    BY <2>0, DueKind
  <2>3. CASE Made(k)
    BY <2>0, <2>3, MadePairs
  <2>4. CASE Refused(k)
    BY <2>4 DEF Refused, Ended, Paired, Live
  <2>5. CASE Stopped(k) \/ Taken(k)
    <3>1. q'.rows = q.rows
      BY <2>5 DEF Stopped, Ended, Taken
    <3>2. CASE k \in Narrowing \/ (k = "exists" /\ q.op = "children")
      <4>1. k = "exists" /\ q.op = "children" => Await(Pending, "kids")
        BY <2>2, Planning DEF Planned, Finishes, Leads
      <4>2. Some(Pending, Narrowing)
        BY <2>2, <3>2, <4>1 DEF Some, Await, Narrowing
      <4> QED BY <3>1, <4>2 DEF Core, Blank, Paired
    <3>3. CASE k = "row" /\ q.op \in {"latest", "from_parent"}
      BY <2>2, <3>1, <3>3 DEF Fresh, Awaits, Paired
    <3> QED BY <2>5, <3>2, <3>3 DEF Stopped, Taken, Narrowing
  <2>6. CASE Skipped(k)
    <3> SUFFICES ASSUME NEW n \in q.rows PROVE Pair(n)'
      BY <2>6 DEF Skipped, Skips, Paired
    <3>1. q.op \in {"from_parent", "sidecars"} /\ q'.above = q.above
      BY <2>6 DEF Skipped, Skips
    <3>2. \A s \in Pending : s.do \in KindsOf(q.op)
      BY Planning DEF Fits
    <3>3. ~Awaits("again")
      BY <3>1, <3>2, KindsAre DEF Awaits, Await
    <3>4. ~Waits("links", n)
      <4>1. q.op = "from_parent" => ~Waits("links", n)
        BY <3>2, KindsAre DEF Waits, Do
      <4>2. CASE q.op = "sidecars" /\ Waits("links", n)
        <5>1. k = "row"
          BY <2>6, <4>2 DEF Skipped
        <5>2. Head(q.todo).on = {n}
          BY <2>2, <4>2, Planning DEF Planned, About, Waits, Do
        <5>3. Head(q.todo) = Do("row", {n})
          BY <2>0, <2>2, <5>1, <5>2, DueIs DEF StatementType, Do
        <5> QED BY <2>2, <4>2, <5>3 DEF Fresh, Waits
      <4> QED BY <3>1, <4>1, <4>2
    <3>5. ~Waits("parents", n)
      <4>1. q.op = "sidecars" => ~Waits("parents", n)
        BY <3>2, KindsAre DEF Waits, Do
      <4>2. CASE q.op = "from_parent"
        BY <2>2, <2>6, <4>2, Planning DEF Skipped, Planned, About, Await, Waits, Do
      <4> QED BY <3>1, <4>1, <4>2
    <3> QED BY <2>0, <2>1, <3>1, <3>3, <3>4, <3>5 DEF Paired, Pair
  <2> QED BY <1>3, <2>3, <2>4, <2>5, <2>6 DEF Outcome
<1>4. CASE Deliver
  BY <1>4, AnswersOrNot DEF Paired, Pair, Live, Waits, Awaits, Await
<1>5. CASE Restarts
  BY <1>5 DEF Restarts, Idle, Paired
<1>6. CASE Commit \/ Prune
  BY <1>6, OthersDo DEF Paired, Pair, Live, Waits, Awaits, Await, Pending
<1> QED BY <1>1, <1>2, <1>3, <1>4, <1>5, <1>6, AnyStep

-----------------------------------------------------------------------------
(* What is listed was right to list at some time.                          *)

\* What it is right to list now it was right to list once.
LEMMA OnceNow ==
    ASSUME Core, Recorded, q.out # "idle", q.op # "latest", NEW n,
           n \in AnswerNow(q.op, q.of, q.f).ids
    PROVE  Once(n)
BY DEF Recorded, Once

\* What a request without a filter finds.
LEMMA FoundOnce ==
    ASSUME Core, Recorded, NEW k \in Kinds, Due(k), NEW n \in IdsBy(k),
           q.op \notin Filtered, k \in {"closure", "kids", "all", "copy", "parents"},
           n \in present \/ q.op # "lineage"
    PROVE  Once(n)
<1>1. q.out # "idle" /\ q.op \in Operation /\ k \in KindsOf(q.op)
  BY DueKind
<1>2. CanAsk(q.f)
  BY <1>1 DEF Core, Question, Worded, Filtered, CanAsk, NoFilter
<1>3. q.op \in {"lineage", "children", "runs", "sidecars", "stats", "backup", "from_parent"}
  BY <1>1, Makers DEF Filtered
<1>4. n \in AnswerNow(q.op, q.of, q.f).ids
  <2>1. CASE k = "closure"
    <3>1. q.op = "lineage" /\ n \in Ancestry /\ n \in present
      BY <1>1, <1>3, <2>1, Makers DEF IdsBy
    <3>2. IsGraph(Id, link) /\ Parents(q.of[1]) \subseteq present
      BY Store DEF Core
    <3>3. q.of[1] \in Id
      BY <3>1 DEF Core, Question, Worded
    <3>4. q.of[1] \in present
      <4> SUFFICES ASSUME q.of[1] \notin present PROVE FALSE
        OBVIOUS
      <4>1. Parents(q.of[1]) = {}
        BY Store DEF Core
      <4>2. ClosedUp(link, {q.of[1]})
        BY <4>1 DEF ClosedUp, Parents
      <4>3. Ancestry \subseteq {q.of[1]}
        BY <3>2, <3>3, <4>2, Ancestors DEF Ancestry
      <4> QED BY <3>1, <4>3
    <3> QED BY <1>1, <1>2, <3>1, <3>4, NowIs
  <2>2. CASE k = "kids"
    BY <1>1, <1>2, <2>2, NowIs, Makers DEF IdsBy
  <2>3. CASE k \in {"all", "copy"}
    BY <1>1, <1>2, <1>3, <2>3, Makers, NowIs DEF IdsBy
  <2>4. CASE k = "parents"
    BY <1>1, <1>2, <2>4, NowIs, Makers DEF IdsBy
  <2> QED BY <2>1, <2>2, <2>3, <2>4
<1> QED BY <1>1, <1>3, <1>4, OnceNow

\* What passed the filters, when all were made.
LEMMA SiftedOnce ==
    ASSUME Core, Screened, q.op \in Filtered, Live, ~Excused, NEW n \in q.ids, There(n),
           \A l \in {"select", "all", "term", "edges", "values", "closure"} : ~Awaits(l)
    PROVE  Once(n)
<1>1. Sifted(n)
  BY DEF Screened
<1>2. Likely(n)
  BY <1>1 DEF Sifted
<1> QED BY <1>1, <1>2 DEF Sifted

\* With a statement due, those before it were made.
LEMMA DoneBefore ==
    ASSUME Core, NEW k \in {"rows", "row", "again"}, Due(k)
    PROVE  \A l \in {"select", "all", "term", "edges", "values", "closure"} : ~Awaits(l)
<1>1. \A l \in {"select", "all", "term", "edges", "values", "closure"} : ~Before(k, l) /\ l # k
  BY Ranks DEF Before
<1>2. Pending = {Head(q.todo)} \union Rest /\ Head(q.todo).do = k /\ \A x \in Rest : Before(k, x.do)
  BY DueKind DEF Kinds
<1> QED BY <1>1, <1>2 DEF Awaits, Await

\* The rows that a statement reads.
LEMMA RowsOnce ==
    ASSUME Core, Recorded, Screened, Genuine, NEW k \in Kinds, Due(k), Made(k),
           ~Excused, q.op \notin {"detail", "diff"} \union Rowless, NEW n \in RowsBy(k)
    PROVE  Once(n)
<1>0. Live /\ q.out # "idle"
  BY DEF Due, Live
<1>1. /\ q.op \in Operation /\ k \in KindsOf(q.op) /\ Fits(q.op, q.of, q.f, Head(q.todo))
      /\ Head(q.todo).do = k /\ Head(q.todo) \in Pending
  BY DueKind
<1>2. ASSUME NEW j \in {"rows", "row", "again"}, j = k, n \in q.ids, n \in present PROVE Once(n)
  <2>1. CASE q.op \in Filtered
    BY <1>0, <1>2, <2>1, SiftedOnce, DoneBefore DEF There
  <2>2. CASE q.op \in {"lineage", "children", "runs", "sidecars"}
    BY <1>0, <1>2, <2>2 DEF Genuine
  <2>3. q.op \in Filtered \union {"lineage", "children", "runs", "sidecars"}
    BY <1>1, <1>2, Makers DEF Many, Filtered, Rowless, Artifacts
  <2> QED BY <2>1, <2>2, <2>3
<1>3. CASE k = "copy"
  BY <1>1, <1>3, FoundOnce, Makers DEF RowsBy, Filtered
<1>4. CASE k = "rows"
  BY <1>2, <1>4 DEF RowsBy, IdsBy
<1>5. CASE k = "again"
  BY <1>2, <1>5 DEF RowsBy
<1>6. CASE k = "row"
  <2>1. n \in q.rows \/ n \in Head(q.todo).on
    BY <1>6 DEF RowsBy
  <2>2. CASE n \in q.rows
    BY <1>0, <2>2 DEF Genuine
  <2>3. CASE n \in Head(q.todo).on
    <3>1. n \in present
      BY <1>6, <2>3 DEF Made, Missing
    <3>2. Head(q.todo).on \subseteq Wanted
      BY <1>1, <1>6, Planning DEF Planned, About, Rowless, Artifacts
    <3>3. Wanted = q.ids
      BY DEF Wanted, Of, Rowless, Artifacts
    <3> QED BY <1>2, <1>6, <2>3, <3>1, <3>2, <3>3
  <2> QED BY <2>1, <2>2, <2>3
<1>7. CASE k \notin {"copy", "rows", "again", "row"}
  BY <1>0, <1>7, Leaves DEF Genuine
<1> QED BY <1>3, <1>4, <1>5, <1>6, <1>7

LEMMA FilesOnce ==
    ASSUME Core, Recorded, Genuine, NEW k \in Kinds, Due(k),
           q.op \in Artifacts, NEW n \in FilesBy(k)
    PROVE  Once(n)
<1>0. Live /\ q.out # "idle"
  BY DEF Due, Live
<1>1. /\ q.op \in Operation /\ k \in KindsOf(q.op) /\ Fits(q.op, q.of, q.f, Head(q.todo))
      /\ Head(q.todo).do = k /\ Head(q.todo) \in Pending /\ q.todo # <<>> /\ q.out = "running"
  BY DueKind
<1>2. CASE n \in q.files
  BY <1>0, <1>2 DEF Genuine
<1>3. CASE n \notin q.files
  <2>1. k = "files" /\ n \in On /\ n \in present
    BY <1>1, <1>3, Makers DEF FilesBy, Artifacts
  <2>2. PICK m \in Id : Head(q.todo).on = {m}
    BY <1>1, <2>1 DEF Fits, Artifacts
  <2>3. n = m
    BY <1>1, <2>1, <2>2, OnOne
  <2>4. CASE q.op = "artifacts"
    <3>1. PICK x \in Id : q.of = <<x>>
      BY <2>4 DEF Core, Question, Worded, Artifacts
    <3>2. n = x
      BY <1>1, <2>2, <2>3, <2>4, <3>1 DEF Fits
    <3>3. n \in Range(q.of)
      BY <3>1, <3>2 DEF Range
    <3>4. CanAsk(q.f)
      BY <1>1, <2>4 DEF Core, Question, Worded, CanAsk, NoFilter
    <3> QED BY <1>0, <2>1, <2>4, <3>3, <3>4, NowIs, OnceNow
  <2>5. CASE q.op = "from_parent"
    BY <1>0, <1>1, <2>1, <2>2, <2>3, <2>5, Planning DEF Planned, About, Wanted, Of, Genuine
  <2> QED BY <2>4, <2>5 DEF Artifacts
<1> QED BY <1>2, <1>3

LEMMA GenuineStays ==
    ASSUME Core, Recorded, Known, Screened, Genuine, [Next]_vars
    PROVE  Genuine'
<1>1. CASE UNCHANGED vars
  BY <1>1 DEF vars, Genuine, Once, Excused, Newcomer, Rounded, Live
<1>2. ASSUME NEW op \in Operation, NEW of \in Seq(Id), NEW f \in FilterType, Begins(op, of, f)
      PROVE  Genuine'
  BY <1>2 DEF Begins, Genuine
<1>3. ASSUME NEW k \in Kinds, Outcome(k) PROVE Genuine'
  <2>0. Due(k) /\ q.out = "running" /\ Live
    BY <1>3 DEF Outcome, Due, Live
  <2>1. q'.op = q.op /\ q'.of = q.of /\ q'.f = q.f /\ UNCHANGED <<present, link, ever, seen>>
    BY <1>3, OutcomeIs
  <2>2. /\ \A n : Once(n)' <=> Once(n)
        /\ Excused' <=> Excused
    BY <2>1 DEF Once, Excused, Newcomer, Rounded
  <2>3. k \in KindsOf(q.op) /\ q.op \in Operation
    BY <2>0, DueKind
  <2>4. ASSUME q.op \in {"lineage", "children", "runs", "sidecars", "stats", "backup", "from_parent"},
               NEW n \in q'.ids, n \in present \/ q.op # "lineage"
        PROVE  Once(n)
    <3>1. q.op \notin Filtered
      BY <2>4 DEF Filtered
    <3>2. CASE n \in q.ids
      BY <2>0, <2>4, <3>2 DEF Genuine
    <3>3. CASE n \notin q.ids
      <4>1. ~Taken(k)
        BY <2>4 DEF Taken
      <4>2. Made(k)
        BY <1>3, <2>4, <3>3, <4>1, OutcomeIs
      <4>3. n \in IdsBy(k)
        BY <2>0, <2>4, <4>2, MadeIs
      <4>4. k \in {"closure", "kids", "all", "copy", "parents"}
        <5>1. k \notin {"select", "edges", "values", "term", "sift", "newest"}
          BY <2>3, <3>1, Makers DEF Finding, Filtered
        <5>2. k # "rows"
          BY <3>3, <4>3 DEF IdsBy
        <5>3. k \in Narrowing \union {"parents"}
          BY <3>3, <4>3, Leaves
        <5> QED BY <5>1, <5>2, <5>3 DEF Narrowing
      <4> QED BY <2>0, <2>4, <3>1, <4>3, <4>4, FoundOnce
    <3> QED BY <3>2, <3>3
  <2>5. ASSUME Live', ~Excused, q.op \notin {"detail", "diff"} \union Rowless, NEW n \in q'.rows
        PROVE  Once(n)
    <3>1. CASE Made(k)
      BY <2>0, <2>5, <3>1, MadeIs, RowsOnce
    <3>2. CASE ~Made(k)
      BY <1>3, <2>0, <2>5, <3>2, OutcomeIs DEF Genuine
    <3> QED BY <3>1, <3>2
  <2>6. ASSUME q.op \in Artifacts, NEW n \in q'.files PROVE Once(n)
    <3>1. CASE Made(k)
      BY <2>0, <2>6, <3>1, MadeIs, FilesOnce
    <3>2. CASE ~Made(k)
      BY <1>3, <2>0, <2>6, <3>2, OutcomeIs DEF Genuine
    <3> QED BY <3>1, <3>2
  <2> QED BY <2>1, <2>2, <2>4, <2>5, <2>6 DEF Genuine
<1>4. CASE Deliver
  BY <1>4, AnswersOrNot DEF Once, Excused, Newcomer, Rounded, Genuine, Live
<1>5. CASE Restarts
  BY <1>5 DEF Restarts, Idle, Genuine
<1>6. CASE Commit \/ Prune
  <2>1. /\ UNCHANGED q /\ ever \subseteq ever' /\ present' \intersect (ever \ present) = {}
        /\ seen.right \subseteq seen'.right /\ seen.lacked \subseteq seen'.lacked
    BY <1>6, OthersDo
  <2>2. \A n : Once(n) => Once(n)'
    BY <2>1 DEF Once
  <2>3. Excused => Excused'
    BY <2>1 DEF Excused, Newcomer, Rounded
  <2>4. \A n \in q.ids : n \in present' => n \in present
    BY <2>1 DEF Known, Recorded
  <2>5. UNCHANGED q
    BY <2>1
  <2> QED BY <2>2, <2>3, <2>4, <2>5 DEF Genuine, Live
<1> QED BY <1>1, <1>2, <1>3, <1>4, <1>5, <1>6, AnyStep

-----------------------------------------------------------------------------
(* While nobody prunes, a request is of one moment.                        *)

LEMMA AllThere ==
    ASSUME Known, seen.gone = {}
    PROVE  /\ q.ids \subseteq present /\ q.rows \subseteq present
           /\ q.entries \subseteq present /\ q.files \subseteq present
BY DEF Known

\* What a request would answer now is of this moment.
LEMMA MomentNow ==
    ASSUME Core, Recorded, q.out # "idle", AnswerNow(q.op, q.of, q.f).ok
    PROVE  Moment(AnswerNow(q.op, q.of, q.f).ids)
BY NowIs DEF Recorded, Moment

\* What the first statement of a filter leads to is what matches now.
LEMMA MatchingRemains ==
    ASSUME Core, Recorded, NEW k \in {"select", "all"}, Due(k), Made(k), q.op \in Filtered, ~Excused
    PROVE  Moment(Remaining)'
<1>0. /\ q.out = "running" /\ k \in Kinds
      /\ q'.op = q.op /\ q'.of = q.of /\ q'.f = q.f /\ q'.ids = IdsBy(k)
      /\ UNCHANGED <<present, link, ever, seen>>
  BY MadeIs DEF Due, Kinds
<1>1. q.op \in Operation /\ k \in KindsOf(q.op) /\ \A s \in Pending : Fits(q.op, q.of, q.f, s)
  BY <1>0, DueKind, Planning
<1>2. \A l \in {"term", "edges", "values", "closure", "newest"} : Awaits(l)' <=> Awaits(l)
  <2>1. \A l \in {"term", "edges", "values", "closure", "newest"} : l \notin Single /\ l # k
    BY DEF Single
  <2>2. \A l : Await(Rest, l) => Await(Pending, l)
    BY <1>0, Fewer DEF Due
  <2>3. \A l : l \notin Single => (Await(Pending', l) <=> Await(Rest, l))
    BY <1>0, MadeIs
  <2>4. \A l : l # k /\ Awaits(l) => Awaits(l)'
    BY <1>0, OthersWait
  <2> QED BY <2>1, <2>2, <2>3, <2>4 DEF Awaits
<1> DEFINE a == AnswerNow(q.op, q.of, q.f)
<1>3. CanAsk(q.f)
  BY <1>1, Makers DEF Core, Question, Worded, Filtered, Made
<1>4. Awaits("edges") <=> q.f.parents # {}
  BY <1>0, <1>1, FiltersFollow DEF Fits, Awaits, Await
<1>5. Awaits("values") <=> q.f.call # "none"
  BY <1>0, <1>1, FiltersFollow DEF Fits, Awaits, Await
<1>6. k = "select" => ~Awaits("term")
  BY <1>1, Makers DEF Finding, Awaits, Await, Fits
<1>7. k = "all" /\ q.f.equal # {} => Awaits("term")
  BY <1>0, FiltersFollow
<1>8. Awaits("closure") <=> q.op = "ancestors"
  BY <1>0, <1>1, Makers, FiltersFollow DEF Fits, Awaits, Await, Filtered
<1>9. Awaits("newest") <=> q.op = "latest"
  <2>1. Awaits("newest") => q.op = "latest"
    BY <1>1, Makers DEF Fits, Awaits, Await
  <2>2. k = "select" /\ q.op = "latest" => Awaits("newest")
    BY <1>0, DueKind, Planning DEF Planned, Finishes, Leads, Awaits
  <2>3. k = "all" => q.op # "latest"
    BY <1>1, Makers
  <2> QED BY <2>1, <2>2, <2>3
<1> DEFINE P(n) == /\ Awaits("term") => Equals(n)
                   /\ Awaits("edges") => Parents(n) \in q.f.parents
                   /\ Awaits("values") => Likely(n)
                   /\ Awaits("closure") => n \in Ancestry
           S == {n \in IdsBy(k) : P(n)}
<1>10. Remaining' = IF q.op = "latest" THEN Newest(S) ELSE S
  BY <1>0, <1>2, <1>9 DEF Equals, Parents, Likely, Ancestry, Newest, Remaining
<1>11. \A n \in present : (n \in IdsBy(k) /\ P(n)) <=>
                (n \in MatchingNow(q.f) /\ (q.op = "ancestors" => n \in Ancestry))
  <2> SUFFICES ASSUME NEW n \in present
               PROVE  (n \in IdsBy(k) /\ P(n)) <=>
                          (n \in MatchingNow(q.f) /\ (q.op = "ancestors" => n \in Ancestry))
    OBVIOUS
  <2>1. (n \in IdsBy(k) /\ (Awaits("term") => Equals(n))) <=> Equals(n)
    <3>1. CASE k = "select"
      BY <1>6, <3>1 DEF IdsBy
    <3>2. CASE k = "all"
      BY <1>7, <3>2 DEF IdsBy, Equals
    <3> QED BY <3>1, <3>2
  <2>2. Equals(n) <=> \A e \in q.f.equal : n \in Meant[e]
    BY <1>0, <1>3, Store, EqualsMeans DEF Core, Excused
  <2>3. (Awaits("edges") => Parents(n) \in q.f.parents)
           <=> (q.f.parents # {} => Parents(n) \in q.f.parents)
    BY <1>4
  <2>4. (Awaits("values") => Likely(n))
           <=> (q.f.call # "missing" /\ (q.f.call = "liked" => n \in Liked))
    BY <1>5 DEF Likely
  <2>5. n \in MatchingNow(q.f) <=>
            /\ \A e \in q.f.equal : n \in Meant[e]
            /\ q.f.parents # {} => Parents(n) \in q.f.parents
            /\ q.f.call # "missing" /\ (q.f.call = "liked" => n \in Liked)
    BY DEF MatchingNow
  <2> QED BY <1>8, <2>1, <2>2, <2>3, <2>4, <2>5
<1>12. IdsBy(k) \subseteq present /\ MatchingNow(q.f) \subseteq present
  BY DEF IdsBy, MatchingNow
<1>13. S = IF q.op = "ancestors" THEN Ancestry \intersect MatchingNow(q.f) ELSE MatchingNow(q.f)
  BY <1>11, <1>12
<1>14. q.op = "ancestors" => q.of[1] \in present
  BY <1>0 DEF Core, Question, Worded, Recorded, Excused, Newcomer
<1>15. a.ok /\ a.ids = IF q.op = "latest" THEN Newest(S) ELSE S
  <2> HIDE DEF S
  <2> QED BY <1>0, <1>3, <1>13, <1>14, NowIs DEF Filtered
<1>16. Moment(Remaining')
  <2> HIDE DEF S
  <2> QED BY <1>0, <1>10, <1>15, MomentNow
<1> QED BY <1>0, <1>16 DEF Moment, Records, Parents

\* A filter narrows the ids to those that pass it, and then is made.
LEMMA FilterRemains ==
    ASSUME Core, Recorded, Known, NEW k \in Kinds, Due(k), Made(k), q.op \in Filtered, ~Excused,
           k \notin {"select", "all"}, seen.gone = {}
    PROVE  Remaining' = Remaining
<1>0. /\ q.out = "running"
      /\ q'.op = q.op /\ q'.of = q.of /\ q'.f = q.f /\ q'.ids = IdsBy(k)
      /\ UNCHANGED <<present, link, ever, seen>>
  BY MadeIs DEF Due
<1>1. /\ q.op \in Operation /\ k \in KindsOf(q.op) /\ Fits(q.op, q.of, q.f, Head(q.todo))
      /\ Head(q.todo).do = k /\ Awaits(k)
  BY DueKind DEF Awaits
<1>2. \A l \in {"term", "edges", "values", "closure", "newest"} :
          (Awaits(l)' => Awaits(l)) /\ (l # k /\ Awaits(l) => Awaits(l)')
  <2>1. \A l \in {"term", "edges", "values", "closure", "newest"} : l \notin Single
    BY DEF Single
  <2>2. \A l : Await(Rest, l) => Await(Pending, l)
    BY <1>0, Fewer DEF Due
  <2>3. \A l : l \notin Single => (Await(Pending', l) <=> Await(Rest, l))
    BY MadeIs
  <2>4. \A l : l # k /\ Awaits(l) => Awaits(l)'
    BY OthersWait
  <2> QED BY <2>1, <2>2, <2>3, <2>4 DEF Awaits
<1>3. q.ids \subseteq present
  BY AllThere
<1> DEFINE P(n) == /\ Awaits("term") => Equals(n)
                   /\ Awaits("edges") => Parents(n) \in q.f.parents
                   /\ Awaits("values") => Likely(n)
                   /\ Awaits("closure") => n \in Ancestry
           R(n) == /\ Awaits("term")' => Equals(n)
                   /\ Awaits("edges")' => Parents(n) \in q.f.parents
                   /\ Awaits("values")' => Likely(n)
                   /\ Awaits("closure")' => n \in Ancestry
<1>4. IdsBy(k) \subseteq q.ids
  BY <1>1, Makers DEF Filtered, IdsBy
<1>5. \A n \in q.ids : (n \in IdsBy(k) /\ R(n)) <=> P(n)
  <2> SUFFICES ASSUME NEW n \in q.ids PROVE (n \in IdsBy(k) /\ R(n)) <=> P(n)
    OBVIOUS
  <2>1. CASE k = "term"
    BY <1>1, <1>2, <1>3, <2>1 DEF IdsBy
  <2>2. CASE k = "edges"
    BY <1>1, <1>2, <2>2 DEF IdsBy
  <2>3. CASE k = "values"
    <3>1. q.f.call \in {"liked", "missing"}
      BY <1>1, <2>3 DEF Fits, Core, QType, QueryType, FilterType
    <3>2. n \in IdsBy(k) <=> Likely(n)
      BY <1>3, <2>3, <3>1 DEF IdsBy, Accepted, Likely
    <3> QED BY <1>1, <1>2, <2>3, <3>2
  <2>4. CASE k = "closure"
    BY <1>1, <1>2, <2>4 DEF IdsBy, Filtered
  <2>5. CASE k \notin {"term", "edges", "values", "closure"}
    <3>1. n \in IdsBy(k)
      BY <1>1, <1>3, <2>5, Makers DEF Filtered, IdsBy
    <3> QED BY <1>2, <2>5, <3>1
  <2> QED BY <2>1, <2>2, <2>3, <2>4, <2>5
<1>6. Awaits("newest")' <=> Awaits("newest")
  BY <1>2 DEF Made
<1> DEFINE S == {n \in q.ids : P(n)}
           T == {n \in IdsBy(k) : R(n)}
<1>7. S = T
  BY <1>4, <1>5
<1>8. Remaining' = IF Awaits("newest")' THEN Newest(T) ELSE T
  BY <1>0 DEF Equals, Parents, Likely, Ancestry, Remaining, Newest
<1>9. Remaining = IF Awaits("newest") THEN Newest(S) ELSE S
  BY DEF Remaining
<1> HIDE DEF S, T
<1> QED BY <1>6, <1>7, <1>8, <1>9

\* The ancestors of a node are the same while nodes keep their parents.
LEMMA AncestorsStay ==
    ASSUME NEW E, NEW F, IsGraph(Id, E), IsGraph(Id, F), NEW X \in SUBSET Id, NEW n \in X,
           ClosedUp(E, X), \A m \in X : Above(F, m) = Above(E, m)
    PROVE  AncestorsIn(Id, F, n) = AncestorsIn(Id, E, n)
<1> DEFINE A == AncestorsIn(Id, E, n)
           B == AncestorsIn(Id, F, n)
<1>1. n \in A /\ ClosedUp(E, A) /\ A \subseteq X
  BY Ancestors
<1>2. n \in B /\ ClosedUp(F, B)
  BY Ancestors
<1>3. ClosedUp(F, A)
  BY <1>1 DEF ClosedUp
<1>4. B \subseteq A
  BY <1>1, <1>3, Ancestors
<1>5. ClosedUp(E, B)
  BY <1>1, <1>2, <1>4 DEF ClosedUp
<1>6. A \subseteq B
  BY <1>2, <1>5, Ancestors
<1> QED BY <1>4, <1>6

\* A commit leaves what was there as it is.
LEMMA NobodyPrunes ==
    ASSUME Core, Recorded, Known, Commit \/ Prune, seen'.gone = {}
    PROVE  /\ seen.gone = {} /\ UNCHANGED q /\ q.out = "running" /\ present \subseteq present'
           /\ \A n \in present : Parents(n)' = Parents(n)
           /\ seen.right \subseteq seen'.right /\ seen.lacked \subseteq seen'.lacked
           /\ \A X \in SUBSET present : Moment(X) => Moment(X)'
           /\ q.of[1] \in present => Ancestry' = Ancestry
<1>1. /\ seen.gone = {} /\ UNCHANGED q /\ q.out = "running" /\ present \subseteq present' /\ Stores'
      /\ \A n \in present : Parents(n)' = Parents(n)
      /\ seen.right \subseteq seen'.right /\ seen.lacked \subseteq seen'.lacked
  BY OthersDo
<1>2. ASSUME NEW X \in SUBSET present, Moment(X) PROVE Moment(X)'
  BY <1>1, <1>2 DEF Records, Moment
<1>3. ASSUME q.of[1] \in present PROVE Ancestry' = Ancestry
  <2>1. IsGraph(Id, link) /\ present \in SUBSET Id /\ \A n : Parents(n) \subseteq present
    BY Store DEF Core
  <2>2. IsGraph(Id, link)'
    BY <1>1, Store, PTL
  <2>3. ClosedUp(link, present)
    BY <2>1 DEF ClosedUp, Parents
  <2>4. \A m \in present : Above(link', m) = Above(link, m)
    BY <1>1 DEF Parents
  <2>5. AncestorsIn(Id, link', q.of[1]) = AncestorsIn(Id, link, q.of[1])
    BY <1>3, <2>1, <2>2, <2>3, <2>4, AncestorsStay
  <2> QED BY <1>1, <2>5 DEF Ancestry
<1> QED BY <1>1, <1>2, <1>3

\* What others commit meanwhile is of a later moment.
LEMMA OthersAtOnce ==
    ASSUME Core, Recorded, Known, Momentary, Commit \/ Prune
    PROVE  Momentary'
<1> SUFFICES ASSUME seen'.gone = {}
             PROVE  (FiltersAtOnce /\ FindsAtOnce /\ FilesAtOnce /\ EdgesAtOnce /\ CountAtOnce)'
  BY DEF Momentary
<1>1. /\ seen.gone = {} /\ UNCHANGED q /\ q.out = "running" /\ Live
      /\ \A n \in present : Parents(n)' = Parents(n)
      /\ seen.right \subseteq seen'.right /\ seen.lacked \subseteq seen'.lacked
      /\ \A X \in SUBSET present : Moment(X) => Moment(X)'
  BY NobodyPrunes DEF Live
<1>2. FiltersAtOnce /\ FindsAtOnce /\ FilesAtOnce /\ EdgesAtOnce /\ CountAtOnce
  BY <1>1 DEF Momentary
<1>3. Pending' = Pending /\ \A k : Awaits(k)' <=> Awaits(k)
  BY <1>1 DEF Pending, Awaits, Await
<1>4. q.ids \subseteq present /\ q.files \subseteq present
  BY <1>1, AllThere
<1>5. FiltersAtOnce'
  <2> SUFFICES ASSUME q.op \in Filtered, ~Excused', ~Awaits("select"), ~Awaits("all")
               PROVE  Moment(Remaining)'
    BY <1>1, <1>3 DEF FiltersAtOnce
  <2>1. ~Excused
    BY <1>1 DEF Excused, Newcomer, Rounded
  <2>2. q.op = "ancestors" => q.of[1] \in present
    BY <1>1, <2>1 DEF Core, Question, Worded, Recorded, Excused, Newcomer
  <2>3. Awaits("closure") => q.op = "ancestors"
    BY <1>1, Planning, Makers DEF Fits, Core, Question, Awaits, Await, Filtered
  <2>4. Awaits("closure") => Ancestry' = Ancestry
    BY <2>2, <2>3, NobodyPrunes
  <2>5. Remaining' = Remaining
    <3>1. /\ \A n : Equals(n)' <=> Equals(n)
          /\ \A n : Likely(n)' <=> Likely(n)
      BY <1>1 DEF Equals, Likely
    <3>2. q'.ids = q.ids /\ q'.f = q.f
      BY <1>1
    <3>3. \A n \in q.ids : Parents(n)' = Parents(n)
      BY <1>1, <1>4
    <3> QED BY <1>3, <2>4, <3>1, <3>2, <3>3 DEF Remaining, Newest
  <2>6. Remaining \subseteq q.ids
    BY DEF Remaining, Newest
  <2>7. Moment(Remaining)
    BY <1>2, <2>1 DEF FiltersAtOnce
  <2>8. \A X \in SUBSET present : X = Remaining => Moment(X)'
    BY <1>1, <2>7
  <2>9. PICK X \in SUBSET present : X = Remaining
    BY <1>4, <2>6
  <2> QED BY <2>5, <2>8, <2>9 DEF Moment
<1>6. FindsAtOnce'
  BY <1>1, <1>2, <1>3, <1>4 DEF FindsAtOnce, Moment, Some
<1>7. FilesAtOnce'
  BY <1>1, <1>2, <1>3, <1>4 DEF FilesAtOnce, Moment
<1>8. EdgesAtOnce'
  BY <1>1, <1>2, <1>3, <1>4 DEF EdgesAtOnce, Parents
<1>9. CountAtOnce'
  BY <1>1, <1>2, <1>3 DEF CountAtOnce
<1> QED BY <1>5, <1>6, <1>7, <1>8, <1>9

\* A statement of a request that takes no filter finds what is right now.
LEMMA MadeFinds ==
    ASSUME Core, Recorded, Known, FindsAtOnce, NEW k \in Kinds, Due(k), Made(k), seen.gone = {}
    PROVE  FindsAtOnce'
<1>0. /\ q.out = "running" /\ Live
      /\ q'.op = q.op /\ q'.of = q.of /\ q'.f = q.f /\ q'.ids = IdsBy(k)
      /\ UNCHANGED <<present, link, ever, seen>>
  BY MadeIs DEF Due, Live
<1>1. /\ q.op \in Operation /\ k \in KindsOf(q.op) /\ Fits(q.op, q.of, q.f, Head(q.todo))
      /\ Head(q.todo).do = k /\ Pending = {Head(q.todo)} \union Rest
      /\ \A x \in Rest : Before(k, x.do)
  BY DueKind
<1> DEFINE K == {"closure", "kids", "all", "parents"}
<1> SUFFICES ASSUME q.op \in Simple, ~Some(Pending', K) PROVE Moment(q.ids)'
  BY <1>0 DEF FindsAtOnce
<1>2. CASE k \in K
  <2>1. q.op \in {"lineage", "children", "runs", "sidecars", "stats", "from_parent"}
    BY DEF Simple
  <2>2. CanAsk(q.f)
    BY <1>1, <2>1 DEF Core, Question, Worded, CanAsk, NoFilter
  <2>3. q.op = "lineage" => q.of[1] \in present
    <3>1. q.op = "lineage" => ~Awaits("exists")
      BY <1>1, <1>2, Makers, Backwards DEF Await, Awaits
    <3> QED BY <1>0, <3>1 DEF Known
  <2>4. AnswerNow(q.op, q.of, q.f).ok /\ AnswerNow(q.op, q.of, q.f).ids = IdsBy(k)
    <3>1. CASE q.op = "lineage"
      <4>1. k = "closure"
        BY <1>1, <1>2, <3>1, Makers
      <4>2. IdsBy(k) = Ancestry
        BY <3>1, <4>1 DEF IdsBy
      <4> QED BY <1>0, <2>2, <2>3, <3>1, <4>2, NowIs
    <3>2. CASE q.op = "children"
      BY <1>0, <1>1, <1>2, <2>2, <3>2, Makers, NowIs DEF IdsBy
    <3>3. CASE q.op = "from_parent"
      BY <1>0, <1>1, <1>2, <2>2, <3>3, Makers, NowIs DEF IdsBy
    <3>4. CASE q.op \in {"runs", "sidecars", "stats"}
      BY <1>0, <1>1, <1>2, <2>2, <3>4, Makers, NowIs DEF IdsBy
    <3> QED BY <2>1, <3>1, <3>2, <3>3, <3>4
  <2>5. Moment(IdsBy(k))
    BY <1>0, <2>4, MomentNow
  <2> QED BY <1>0, <2>5 DEF Moment, Records, Parents
<1>3. CASE k \notin K
  <2>1. IdsBy(k) = q.ids
    <3>1. k \notin {"select", "copy", "edges", "values", "term", "sift"}
      BY <1>1, Makers DEF Simple, Finding, Filtered
    <3>2. q.ids \subseteq present
      BY AllThere
    <3> QED BY <1>3, <3>1, <3>2 DEF IdsBy
  <2>2. ~Some(Pending, K)
    <3> SUFFICES ASSUME NEW l \in K, Await(Pending, l) PROVE FALSE
      BY DEF Some, Await
    <3>1. l # k
      BY <1>3
    <3>2. Await(Pending', l)
      BY <3>1, StillPending
    <3> QED BY <3>2 DEF Some, Await
  <2>3. Moment(q.ids)
    BY <2>2 DEF FindsAtOnce
  <2> QED BY <1>0, <2>1, <2>3 DEF Moment, Records, Parents
<1> QED BY <1>2, <1>3

LEMMA MadeFilters ==
    ASSUME Core, Recorded, Known, FiltersAtOnce, NEW k \in Kinds, Due(k), Made(k), seen.gone = {}
    PROVE  FiltersAtOnce'
<1>0. q'.op = q.op /\ q'.of = q.of /\ q'.f = q.f /\ UNCHANGED <<present, link, ever, seen>>
  BY MadeIs
<1> SUFFICES ASSUME q.op \in Filtered, ~Excused, ~Awaits("select")', ~Awaits("all")'
             PROVE  Moment(Remaining)'
  <2>1. Excused' <=> Excused
    BY <1>0 DEF Excused, Newcomer, Rounded
  <2> QED BY <1>0, <2>1 DEF FiltersAtOnce
<1>1. CASE k \in {"select", "all"}
  BY <1>1, MatchingRemains
<1>2. CASE k \notin {"select", "all"}
  <2>1. Remaining' = Remaining
    BY <1>2, FilterRemains
  <2>2. ~Awaits("select") /\ ~Awaits("all")
    BY <1>2, StillPending DEF Awaits
  <2>3. Moment(Remaining)
    BY <2>2 DEF FiltersAtOnce
  <2> QED BY <1>0, <2>1, <2>3 DEF Moment, Records, Parents
<1> QED BY <1>1, <1>2

LEMMA MadeFiles ==
    ASSUME Core, Recorded, Known, FilesAtOnce, NEW k \in Kinds, Due(k), Made(k)
    PROVE  FilesAtOnce'
<1>0. /\ q.out = "running" /\ q.out # "idle"
      /\ q'.op = q.op /\ q'.of = q.of /\ q'.f = q.f /\ q'.files = FilesBy(k)
      /\ UNCHANGED <<present, link, ever, seen>>
  BY MadeIs DEF Due
<1>1. /\ q.op \in Operation /\ k \in KindsOf(q.op) /\ Fits(q.op, q.of, q.f, Head(q.todo))
      /\ Head(q.todo).do = k /\ Pending = {Head(q.todo)} \union Rest
      /\ \A x \in Rest : Before(k, x.do)
      /\ q.todo # <<>>
  BY DueKind
<1> SUFFICES ASSUME q.op = "artifacts"
             PROVE  IF Awaits("files")' THEN q'.files = {} ELSE Moment(q.files)'
  BY <1>0 DEF FilesAtOnce
<1>2. Advance(Rest, LeftBy(k)) /\ (LeftBy(k) # {} => q.op \in Loops \union {"diff"})
  BY MadeIs
<1>3. Pending' = Rest
  BY <1>2 DEF Advance, Loops
<1>4. CASE k = "files"
  <2>1. PICK n \in Id : q.of = <<n>>
    BY DEF Core, Question, Worded, Artifacts
  <2>2. On = {n}
    <3>1. Head(q.todo).on = {q.of[1]}
      BY <1>1 DEF Fits
    <3>2. q.of[1] = n
      BY <2>1
    <3> QED BY <1>0, <1>1, <3>1, <3>2, OnOne
  <2>3. Range(q.of) = {n}
    BY <2>1 DEF Range
  <2>4. q.files = {}
    BY <1>4, DueKind DEF Awaits, FilesAtOnce
  <2>5. FilesBy(k) = Range(q.of) \intersect present
    BY <1>4, <2>2, <2>3, <2>4 DEF FilesBy
  <2>6. CanAsk(q.f)
    BY <1>1 DEF Core, Question, Worded, CanAsk, NoFilter
  <2>7. AnswerNow(q.op, q.of, q.f).ok /\ AnswerNow(q.op, q.of, q.f).ids = FilesBy(k)
    BY <1>0, <2>5, <2>6, NowIs
  <2>8. Moment(FilesBy(k))
    BY <1>0, <2>7, MomentNow
  <2>9. ~Awaits("files")'
    BY <1>1, <1>3, <1>4, Ranks DEF Before, Awaits, Await
  <2> QED BY <1>0, <2>8, <2>9 DEF Moment, Records, Parents
<1>5. CASE k # "files"
  <2>1. k = "bytes" /\ FilesBy(k) = q.files
    BY <1>1, <1>5, KindsAre, Leaves
  <2>2. Awaits("files")' <=> Awaits("files")
    BY <1>1, <1>3, <1>5 DEF Await, Awaits
  <2> QED BY <1>0, <2>1, <2>2 DEF FilesAtOnce, Moment, Records, Parents
<1> QED BY <1>4, <1>5

LEMMA MadeEdges ==
    ASSUME Core, Recorded, Known, Linked, EdgesAtOnce, NEW k \in Kinds, Due(k), Made(k), seen.gone = {}
    PROVE  EdgesAtOnce'
<1>0. /\ q.out = "running" /\ Live
      /\ q'.op = q.op /\ q'.ids = IdsBy(k) /\ q'.edges = EdgesBy(k)
      /\ UNCHANGED <<present, link, ever, seen>>
  BY MadeIs DEF Due, Live
<1>1. /\ q.op \in Operation /\ k \in KindsOf(q.op)
      /\ Head(q.todo).do = k
      /\ Pending = {Head(q.todo)} \union Rest
      /\ \A x \in Rest : Before(k, x.do)
  BY DueKind
<1> SUFFICES ASSUME q.op \in {"page", "snapshot"}, ~Awaits("rows")'
             PROVE  EdgesBy(k) = {e \in IdsBy(k) \X Id : e[2] \in Parents(e[1])}
  <2>1. \A n : Parents(n)' = Parents(n)
    BY <1>0 DEF Parents
  <2> QED BY <1>0, <2>1 DEF EdgesAtOnce
<1>2. q.ids \subseteq present
  BY AllThere
<1>3. CASE k = "rows"
  <2>1. IdsBy(k) = q.ids
    BY <1>2, <1>3 DEF IdsBy
  <2>2. Do("links", Found) \notin Pending
    BY <1>1, <1>3, Backwards DEF Do
  <2>3. \A n \in q.ids : q.above[n] = Parents(n)
    <3>1. \A n \in q.ids : <<n, q.above[n]>> \in seen.was
      BY <1>0, <1>2, <2>2 DEF Linked, Many
    <3>2. \A r \in seen.was : r[2] = Parents(r[1])
      BY DEF Recorded
    <3> QED BY <3>1, <3>2
  <2>4. {e \in q.ids \X Id : e[2] \in q.above[e[1]]} = {e \in q.ids \X Id : e[2] \in Parents(e[1])}
    BY <2>3
  <2> QED BY <1>3, <2>1, <2>4 DEF EdgesBy
<1>4. CASE k # "rows"
  <2>1. ~Awaits("rows")
    BY <1>4, StillPending DEF Awaits
  <2>2. Do("links", Found) \notin Pending
    BY <2>1, Planning DEF Planned, Reads, Do, Awaits, Await
  <2>3. ~Some(Pending, {"select", "edges", "values", "exists", "closure", "kids"})
    BY <2>2, Planning DEF Planned, Reads, Many
  <2>4. k \notin {"select", "edges", "values", "closure", "kids"}
    BY <1>1, <2>3 DEF Some
  <2>5. k \notin {"all", "copy", "term", "sift", "newest", "parents"}
    BY <1>1, Makers
  <2>6. IdsBy(k) = q.ids /\ EdgesBy(k) = q.edges
    BY <1>4, <2>4, <2>5, Leaves DEF Narrowing
  <2> QED BY <2>1, <2>6 DEF EdgesAtOnce
<1> QED BY <1>3, <1>4

LEMMA MadeCounts ==
    ASSUME Core, Recorded, Known, CountAtOnce, NEW k \in Kinds, Due(k), Made(k), seen.gone = {}
    PROVE  CountAtOnce'
<1>0. /\ q.out = "running" /\ q.out # "idle"
      /\ q'.op = q.op /\ q'.ids = IdsBy(k) /\ q'.files = FilesBy(k)
      /\ UNCHANGED <<present, link, ever, seen>>
  BY MadeIs DEF Due
<1>1. /\ q.op \in Operation /\ k \in KindsOf(q.op) /\ Fits(q.op, q.of, q.f, Head(q.todo))
      /\ Head(q.todo).do = k /\ Await(Pending, k)
      /\ Pending = {Head(q.todo)} \union Rest
      /\ \A x \in Rest : Before(k, x.do)
  BY DueKind
<1> SUFFICES ASSUME q.op = "stats"
             PROVE  IF Awaits("files")' THEN q'.files = {}
                    ELSE q'.ids \subseteq q'.files /\ \E b \in seen'.right : b.ids = q'.files
  BY <1>0 DEF CountAtOnce
<1>2. Advance(Rest, LeftBy(k)) /\ (LeftBy(k) # {} => q.op \in Loops \union {"diff"})
  BY MadeIs
<1>3. Pending' = Rest
  BY <1>2 DEF Advance, Loops
<1>4. CASE k = "files"
  <2>1. q.files = {}
    BY <1>1, <1>4 DEF CountAtOnce, Awaits
  <2>2. On \intersect present = present
    BY <1>1, <1>4, Store DEF Fits, Core, On, Found
  <2>3. FilesBy(k) = present /\ IdsBy(k) = q.ids
    BY <1>4, <2>1, <2>2 DEF FilesBy, IdsBy
  <2>4. q.ids \subseteq present
    BY AllThere
  <2>5. CanAsk(q.f)
    BY <1>1 DEF Core, Question, Worded, Artifacts, CanAsk, NoFilter
  <2>6. AnswerNow(q.op, q.of, q.f).ids = present
    BY <1>0, <2>5, NowIs
  <2>7. AnswerNow(q.op, q.of, q.f) \in seen.right
    BY <1>0 DEF Recorded
  <2>8. ~Awaits("files")'
    BY <1>1, <1>3, <1>4, Ranks DEF Before, Awaits, Await
  <2> QED BY <1>0, <2>3, <2>4, <2>6, <2>7, <2>8
<1>5. CASE k # "files"
  <2>1. k = "all"
    BY <1>1, <1>5, KindsAre
  <2>2. Awaits("files")
    BY <1>1, <2>1, Planning DEF Planned, Finishes, Leads, Awaits
  <2>3. Awaits("files")'
    BY <1>5, <2>2, StillPending DEF Awaits
  <2>4. q'.files = q.files
    BY <1>0, <2>1, Leaves
  <2> QED BY <2>2, <2>3, <2>4 DEF CountAtOnce
<1> QED BY <1>4, <1>5

\* A request that makes no more statements, for a node or at all.
LEMMA StopsAtOnce ==
    ASSUME Core, Recorded, Known, Momentary, NEW k \in Kinds, Due(k),
           Stopped(k) \/ Skipped(k) \/ Taken(k)
    PROVE  Momentary'
<1>0. /\ q.out = "running" /\ q.out # "idle" /\ Live /\ Outcome(k)
      /\ q'.op = q.op /\ q'.of = q.of /\ q'.f = q.f
      /\ q'.edges = q.edges /\ q'.files = q.files
      /\ UNCHANGED <<present, link, ever, seen>>
  BY DEF Due, Live, Outcome, Stopped, Skipped, Taken, Ended, Skips
<1>1. /\ q.op \in Operation /\ k \in KindsOf(q.op) /\ Fits(q.op, q.of, q.f, Head(q.todo))
      /\ Head(q.todo).do = k /\ Head(q.todo) \in Pending /\ Await(Pending, k)
  BY <1>0, DueKind
<1> SUFFICES ASSUME seen.gone = {}
             PROVE  (FiltersAtOnce /\ FindsAtOnce /\ FilesAtOnce /\ EdgesAtOnce /\ CountAtOnce)'
  BY <1>0 DEF Momentary
<1>2. FiltersAtOnce /\ FindsAtOnce /\ FilesAtOnce /\ EdgesAtOnce /\ CountAtOnce
  BY <1>0 DEF Momentary
<1>3. q.op \in {"search", "children", "latest", "from_parent", "sidecars"}
  BY DEF Stopped, Skipped, Taken
<1>4. FilesAtOnce' /\ EdgesAtOnce' /\ CountAtOnce'
  BY <1>0, <1>3 DEF FilesAtOnce, EdgesAtOnce, CountAtOnce
<1>5. q.ids \subseteq present
  BY AllThere
<1>6. FiltersAtOnce'
  <2> SUFFICES ASSUME q.op \in {"search", "latest"}, ~Excused,
                      ~Awaits("select")', ~Awaits("all")'
               PROVE  Moment(Remaining)'
    <3>1. Excused' <=> Excused
      BY <1>0 DEF Excused, Newcomer, Rounded
    <3> QED BY <1>0, <1>3, <3>1 DEF FiltersAtOnce, Filtered
  <2>1. ASSUME Remaining' = Remaining, ~Awaits("select"), ~Awaits("all") PROVE Moment(Remaining)'
    BY <1>0, <1>2, <2>1 DEF FiltersAtOnce, Filtered, Moment, Records, Parents
  <2>2. CASE Stopped(k) /\ q.op = "search"
    <3>1. k \in {"edges", "values", "term", "sift"} /\ IdsBy(k) = {} /\ Pending' = {} /\ q'.ids = {}
      BY <2>2 DEF Stopped, Ended
    <3>2. Remaining' = {}
      BY <3>1 DEF Remaining, Newest
    <3>3. q.f.call \in {"liked", "missing"} \/ k # "values"
      BY <1>1 DEF Fits, Core, QType, QueryType, FilterType
    <3>4. Awaits(k) /\ ~Awaits("newest")
      BY <1>1, <2>2, Planning, KindsAre DEF Fits, Awaits, Await
    <3>5. \A n \in q.ids :
             ~((Awaits("term") => Equals(n)) /\ (Awaits("edges") => Parents(n) \in q.f.parents)
                /\ (Awaits("values") => Likely(n)))
      <4>1. CASE k = "term"
        BY <1>5, <3>1, <3>4, <4>1 DEF IdsBy
      <4>2. CASE k = "edges"
        BY <1>5, <3>1, <3>4, <4>2 DEF IdsBy
      <4>3. CASE k = "values"
        BY <1>5, <3>1, <3>3, <3>4, <4>3 DEF IdsBy, Accepted, Likely
      <4>4. CASE k = "sift"
        BY <1>5, <3>1, <4>4 DEF IdsBy
      <4> QED BY <3>1, <4>1, <4>2, <4>3, <4>4
    <3>6. Remaining = {}
      BY <3>4, <3>5 DEF Remaining
    <3>7. ~Awaits("select") /\ ~Awaits("all")
      BY <1>0, <1>1, <3>1, Ranks, DueKind DEF Before, Awaits, Await
    <3> QED BY <2>1, <3>2, <3>6, <3>7
  <2>3. CASE Stopped(k) /\ q.op = "latest"
    BY <1>1, <1>5, <2>3, Planning DEF Stopped, Planned, About, Wanted, Of, Missing
  <2>4. CASE Taken(k)
    <3>1. k = "newest" /\ q.op = "latest" /\ q'.ids = Newest(q.ids)
      BY <1>5, <2>4 DEF Taken, Newest
    <3>2. \A l \in {"select", "all", "term", "edges", "values"} : ~Awaits(l)
      BY <1>0, <3>1, FiltersDone
    <3>3. ~Awaits("closure") /\ Awaits("newest")
      BY <1>1, <3>1, Planning, KindsAre DEF Fits, Awaits, Await
    <3>4. Remaining = Newest(q.ids)
      BY <3>2, <3>3 DEF Remaining
    <3>5. \A l \in {"term", "edges", "values", "closure", "newest"} : ~Awaits(l)'
      BY <2>4 DEF Taken, Awaits, Await, ReadsOne, Do
    <3>6. Remaining' = q'.ids
      BY <3>5 DEF Remaining
    <3> QED BY <2>1, <3>1, <3>2, <3>4, <3>6
  <2>5. ~Skipped(k)
    BY DEF Skipped
  <2> QED BY <2>2, <2>3, <2>4, <2>5
<1>7. FindsAtOnce'
  <2> SUFFICES ASSUME q.op \in Simple, ~Some(Pending', {"closure", "kids", "all", "parents"})
               PROVE  Moment(q.ids)'
    BY <1>0 DEF FindsAtOnce
  <2>1. q.op \in {"children", "from_parent", "sidecars"}
    BY <1>3 DEF Simple
  <2>2. CASE Stopped(k)
    <3>1. Missing /\ q'.ids = q.ids /\ \/ k = "exists" /\ q.op = "children"
                                       \/ k = "row" /\ q.op = "from_parent"
      BY <2>1, <2>2 DEF Stopped, Ended
    <3>2. Awaits("kids") \/ Awaits("parents")
      BY <1>1, <3>1, Planning DEF Planned, Finishes, Leads, Awaits
    <3>3. q.ids = {}
      BY <3>2 DEF Core, Blank, Some, Awaits, Await
    <3>4. q.of[1] \notin present
      BY <1>1, <3>1 DEF Fits, Missing
    <3>5. Parents(q.of[1]) = {} /\ Below(link, q.of[1]) = {}
      BY <3>4 DEF Core, Stores, Parents, Above, Below
    <3>6. CanAsk(q.f)
      BY <1>1, <2>1 DEF Core, Question, Worded, CanAsk, NoFilter
    <3>7. AnswerNow(q.op, q.of, q.f).ok /\ AnswerNow(q.op, q.of, q.f).ids = q.ids
      BY <1>0, <3>1, <3>3, <3>5, <3>6, NowIs
    <3>8. Moment(q.ids)
      BY <1>0, <3>7, MomentNow
    <3> QED BY <1>0, <3>1, <3>8 DEF Moment, Records, Parents
  <2>3. CASE Skipped(k)
    <3>1. q'.ids = q.ids /\ \/ k = "exists" /\ q.op = "from_parent"
                            \/ k = "row" /\ q.op = "sidecars"
      BY <2>3 DEF Skipped, Skips
    <3>2. ~Some(Pending, {"closure", "kids", "all", "parents"})
      <4>1. \A s \in Pending : s.do \in KindsOf(q.op)
        BY Planning DEF Fits
      <4>2. q.op = "from_parent" => ~Await(Pending, "parents")
        BY <1>1, <3>1, Planning DEF Planned, About
      <4>3. q.op = "sidecars" => ~Await(Pending, "all")
        BY <1>0, <3>1, DoneBefore DEF Awaits, Await, Some
      <4> QED BY <3>1, <4>1, <4>2, <4>3, KindsAre DEF Some, Await
    <3>3. Moment(q.ids)
      BY <1>2, <3>1, <3>2 DEF FindsAtOnce, Simple
    <3> QED BY <1>0, <3>1, <3>3 DEF Moment, Records, Parents
  <2>4. ~Taken(k)
    BY <2>1 DEF Taken
  <2> QED BY <2>2, <2>3, <2>4
<1> QED BY <1>4, <1>6, <1>7

LEMMA MomentaryStays ==
    ASSUME Core, Recorded, Known, Linked, Momentary, [Next]_vars
    PROVE  Momentary'
<1>1. CASE UNCHANGED vars
  <2>1. Moment(q.ids)' <=> Moment(q.ids)
    BY <1>1 DEF vars, Moment, Records, Parents
  <2>2. Moment(q.files)' <=> Moment(q.files)
    BY <1>1 DEF vars, Moment, Records, Parents
  <2>3. Moment(Remaining)' <=> Moment(Remaining)
    <3>1. Remaining' = Remaining
      BY <1>1 DEF vars, Remaining, Newest, Equals, Parents, Likely, Ancestry, Awaits, Await, Pending
    <3> QED BY <1>1, <3>1 DEF vars, Moment, Records, Parents
  <2>4. \A k : Awaits(k)' <=> Awaits(k)
    BY <1>1 DEF vars, Awaits, Await, Pending
  <2>5. FiltersAtOnce' <=> FiltersAtOnce
    BY <1>1, <2>3, <2>4 DEF vars, FiltersAtOnce, Excused, Newcomer, Rounded
  <2>6. FindsAtOnce' <=> FindsAtOnce
    BY <1>1, <2>1 DEF vars, FindsAtOnce, Some, Pending
  <2>7. FilesAtOnce' <=> FilesAtOnce
    BY <1>1, <2>2, <2>4 DEF vars, FilesAtOnce
  <2>8. EdgesAtOnce' <=> EdgesAtOnce
    BY <1>1, <2>4 DEF vars, EdgesAtOnce, Parents
  <2>9. CountAtOnce' <=> CountAtOnce
    BY <1>1, <2>4 DEF vars, CountAtOnce
  <2> QED BY <1>1, <2>5, <2>6, <2>7, <2>8, <2>9 DEF vars, Momentary, Live
<1>2. ASSUME NEW op \in Operation, NEW of \in Seq(Id), NEW f \in FilterType, Begins(op, of, f)
      PROVE  Momentary'
  <2>1. /\ q'.op = op /\ Pending' = Makes(op, of, f) /\ q'.files = {}
    BY <1>2 DEF Begins
  <2>2. FiltersAtOnce'
    BY <2>1, Starting DEF Filtered, Finding, FiltersAtOnce, Awaits
  <2>3. FindsAtOnce'
    <3>1. op \in Simple => Some(Makes(op, of, f), {"closure", "kids", "all", "parents"})
      <4>1. op \in Simple => \E k \in {"closure", "kids", "all", "parents"} : Await(Makes(op, of, f), k)
        BY Starting DEF Simple
      <4> QED BY <4>1 DEF Some, Await
    <3> QED BY <2>1, <3>1 DEF FindsAtOnce
  <2>4. FilesAtOnce'
    <3>1. op = "artifacts" => Await(Makes(op, of, f), "files")
      <4>1. op = "artifacts" => Do("files", {of[1]}) \in Makes(op, of, f)
        BY Starting
      <4>2. Do("files", {of[1]}).do = "files"
        BY DEF Do
      <4> QED BY <4>1, <4>2 DEF Await
    <3> QED BY <2>1, <3>1 DEF FilesAtOnce, Awaits
  <2>5. EdgesAtOnce'
    BY <2>1, Starting DEF Many, EdgesAtOnce, Awaits
  <2>6. CountAtOnce'
    BY <2>1, Starting DEF CountAtOnce, Awaits
  <2> QED BY <2>2, <2>3, <2>4, <2>5, <2>6 DEF Momentary
<1>3. ASSUME NEW k \in Kinds, Outcome(k) PROVE Momentary'
  <2>0. Due(k) /\ q.out = "running" /\ Live
    BY <1>3 DEF Outcome, Due, Live
  <2>1. CASE Made(k)
    <3> SUFFICES ASSUME seen'.gone = {}
                 PROVE  (FiltersAtOnce /\ FindsAtOnce /\ FilesAtOnce /\ EdgesAtOnce /\ CountAtOnce)'
      BY DEF Momentary
    <3>1. seen.gone = {}
      BY <2>0, <2>1, MadeIs
    <3>2. FiltersAtOnce /\ FindsAtOnce /\ FilesAtOnce /\ EdgesAtOnce /\ CountAtOnce
      BY <2>0, <3>1 DEF Momentary
    <3> QED BY <2>0, <2>1, <3>1, <3>2, MadeFilters, MadeFinds, MadeFiles, MadeEdges, MadeCounts
  <2>2. CASE Refused(k)
    BY <2>2 DEF Refused, Ended, Momentary, Live
  <2>3. CASE Stopped(k) \/ Skipped(k) \/ Taken(k)
    BY <2>0, <2>3, StopsAtOnce
  <2> QED BY <1>3, <2>1, <2>2, <2>3 DEF Outcome
<1>4. CASE Deliver
  <2>1. /\ q.out = "running" /\ Live /\ Pending = {} /\ Pending' = {}
        /\ q'.op = q.op /\ q'.of = q.of /\ q'.f = q.f /\ q'.ids = q.ids
        /\ q'.edges = q.edges /\ q'.files = q.files
        /\ UNCHANGED <<present, link, ever, seen>>
    BY <1>4, AnswersOrNot DEF Live
  <2>2. \A k : ~Awaits(k) /\ ~Awaits(k)'
    BY <2>1 DEF Awaits, Await
  <2>3. Moment(Remaining)' <=> Moment(Remaining)
    <3>1. Remaining' = q.ids /\ Remaining = q.ids
      BY <2>1, <2>2 DEF Remaining
    <3> QED BY <2>1, <3>1 DEF Moment, Records, Parents
  <2>4. FiltersAtOnce' <=> FiltersAtOnce
    BY <2>1, <2>2, <2>3 DEF FiltersAtOnce, Excused, Newcomer, Rounded
  <2>5. FindsAtOnce' <=> FindsAtOnce
    BY <2>1 DEF FindsAtOnce, Some, Moment, Records, Parents
  <2>6. FilesAtOnce' <=> FilesAtOnce
    BY <2>1, <2>2 DEF FilesAtOnce, Moment, Records, Parents
  <2>7. EdgesAtOnce' <=> EdgesAtOnce
    BY <2>1, <2>2 DEF EdgesAtOnce, Parents
  <2>8. CountAtOnce' <=> CountAtOnce
    BY <2>1, <2>2 DEF CountAtOnce
  <2> QED BY <2>1, <2>4, <2>5, <2>6, <2>7, <2>8 DEF Momentary
<1>5. CASE Restarts
  BY <1>5 DEF Restarts, Idle, Momentary, Live
<1>6. CASE Commit \/ Prune
  BY <1>6, OthersAtOnce
<1> QED BY <1>1, <1>2, <1>3, <1>4, <1>5, <1>6, AnyStep

LEMMA BackedStays ==
    ASSUME Core, Recorded, Backed, [Next]_vars
    PROVE  Backed'
<1>1. CASE UNCHANGED vars
  BY <1>1 DEF vars, Backed, Awaits, Await, Pending, DeliveredRecords
<1>2. ASSUME NEW op \in Operation, NEW of \in Seq(Id), NEW f \in FilterType, Begins(op, of, f)
      PROVE  Backed'
  BY <1>2, Starting DEF Begins, Backed, Awaits
<1>3. ASSUME NEW k \in Kinds, Outcome(k) PROVE Backed'
  <2>0. Due(k) /\ q.out = "running" /\ q.out # "idle"
    BY <1>3 DEF Outcome, Due
  <2>1. q'.op = q.op
    BY <1>3, OutcomeIs
  <2> SUFFICES ASSUME q.op = "backup" PROVE Backed'
    BY <2>1 DEF Backed
  <2>2. k = "copy"
    BY <2>0, DueKind, KindsAre
  <2>3. Made(k)
    BY <1>3, <2>2 DEF Outcome, Refused, Stopped, Skipped, Taken
  <2>4. /\ q'.out = "running" /\ q'.ids = present /\ q'.rows = present /\ q'.entries = present
        /\ q'.files = present /\ q'.above = [n \in Id |-> Parents(n)]
        /\ UNCHANGED <<present, link, ever, seen>>
    <3>1. /\ IdsBy(k) = present /\ EntriesBy(k) = present /\ FilesBy(k) = present
          /\ AboveBy(k) = [n \in Id |-> Parents(n)]
      BY <2>2 DEF IdsBy, EntriesBy, FilesBy, AboveBy
    <3>2. RowsBy(k) = present
      BY <2>2, <3>1 DEF RowsBy
    <3> QED BY <2>0, <2>3, <3>1, <3>2, MadeIs
  <2>5. DeliveredRecords' = Records(present)
    BY <2>4, Store DEF Core, DeliveredRecords, Records
  <2>6. CanAsk(q.f)
    BY <2>0 DEF Core, Question, Worded, Artifacts, CanAsk, NoFilter
  <2>7. /\ AnswerNow(q.op, q.of, q.f) \in seen.right
        /\ AnswerNow(q.op, q.of, q.f).ok /\ AnswerNow(q.op, q.of, q.f).ids = present
        /\ AnswerNow(q.op, q.of, q.f).records = Records(present)
    BY <2>0, <2>6, NowIs DEF Recorded
  <2> QED BY <2>4, <2>5, <2>7 DEF Backed
<1>4. CASE Deliver
  BY <1>4, AnswersOrNot DEF Backed, Awaits, Await, DeliveredRecords
<1>5. CASE Restarts
  BY <1>5 DEF Restarts, Idle, Backed
<1>6. CASE Commit \/ Prune
  BY <1>6, OthersDo DEF Backed, Awaits, Await, Pending, DeliveredRecords
<1> QED BY <1>1, <1>2, <1>3, <1>4, <1>5, <1>6, AnyStep

LEMMA FailedStays ==
    ASSUME Core, Recorded, Known, Complete, Failed, [Next]_vars
    PROVE  Failed'
<1>1. CASE UNCHANGED vars
  BY <1>1 DEF vars, Failed
<1>2. ASSUME NEW op \in Operation, NEW of \in Seq(Id), NEW f \in FilterType, Begins(op, of, f)
      PROVE  Failed'
  BY <1>2 DEF Begins, Failed
<1>3. ASSUME NEW k \in Kinds, Outcome(k) PROVE Failed'
  <2>0. Due(k) /\ q.out = "running" /\ q.out # "idle"
    BY <1>3 DEF Outcome, Due
  <2>1. UNCHANGED <<present, link, ever, seen>>
    BY <1>3, OutcomeIs
  <2>2. /\ q.op \in Operation /\ k \in KindsOf(q.op) /\ Fits(q.op, q.of, q.f, Head(q.todo))
        /\ Head(q.todo).do = k /\ Head(q.todo) \in Pending
    BY <2>0, DueKind
  <2>3. CASE Refused(k)
    <3> SUFFICES ASSUME seen.gone = {} PROVE ~AnswerNow(q.op, q.of, q.f).ok
      BY <2>0, <2>1 DEF Failed, Recorded
    <3>1. q.ids \subseteq present /\ q.files \subseteq present
      BY AllThere
    <3>2. CASE k = "select"
      BY <2>0, <2>3, <3>2, NowIs DEF Refused
    <3>3. CASE k = "exists"
      BY <2>0, <2>2, <2>3, <3>3, NowIs DEF Refused, Fits, Missing
    <3>4. CASE k = "row"
      <4>1. q.op \in {"detail", "diff", "runs", "snapshot"} /\ Missing
        BY <2>3, <3>4 DEF Refused
      <4>2. Head(q.todo).on \subseteq Wanted
        BY <2>2, <3>4, <4>1, Planning DEF Planned, About
      <4>3. q.op \in {"detail", "diff"} /\ ~(Range(q.of) \subseteq present)
        BY <3>1, <4>1, <4>2 DEF Wanted, Of, Artifacts, Missing
      <4> QED BY <2>0, <4>3, NowIs
    <3>5. CASE k = "bytes"
      <4>1. Head(q.todo).on \subseteq q.files \ present
        BY <2>3, <3>5 DEF Refused
      <4>2. PICK n \in Id : Head(q.todo).on = {n}
        BY <2>2, <3>5 DEF Fits
      <4> QED BY <3>1, <4>1, <4>2
    <3> QED BY <2>3, <3>2, <3>3, <3>4, <3>5 DEF Refused
  <2>4. CASE ~Refused(k)
    BY <1>3, <2>0, <2>4, MadeIs DEF Outcome, Stopped, Skipped, Taken, Ended, Skips, Failed
  <2> QED BY <2>3, <2>4
<1>4. CASE Deliver
  <2>1. /\ q.out = "running" /\ Live /\ Pending = {} /\ q.left = {}
        /\ UNCHANGED <<present, link, ever, seen>>
        /\ q'.out = "ok" \/ (q.op = "page" /\ q.rows # q.ids)
    BY <1>4, AnswersOrNot DEF Live
  <2>2. ASSUME q.op = "page", seen.gone = {} PROVE q.rows = q.ids
    <3>1. Every("row") /\ Wanted = q.ids /\ Got("row") = q.rows
      BY <2>1, <2>2 DEF Complete, Needed, Rowless, Artifacts, Wanted, Of, Got
    <3>2. \A n \in q.ids : n \in q.rows
      BY <2>1, <2>2, <3>1 DEF Every, Covered, Awaits, Await, Waits
    <3> QED BY <3>1, <3>2 DEF Every
  <2> QED BY <2>1, <2>2 DEF Failed
<1>5. CASE Restarts
  BY <1>5 DEF Restarts, Idle, Failed
<1>6. CASE Commit \/ Prune
  BY <1>6, OthersDo DEF Failed
<1> QED BY <1>1, <1>2, <1>3, <1>4, <1>5, <1>6, AnyStep

-----------------------------------------------------------------------------
(* What an answer is.                                                      *)

\* A request that answered has nothing to read; while nobody pruned, it read
\* all it wanted.
LEMMA AllRead ==
    ASSUME Core, Known, Complete, Answered, seen.gone = {}
    PROVE  /\ \A k \in Reading : Needed(q.op, k) => Got(k) = Wanted
           /\ q.ids \subseteq present /\ q.rows \subseteq present
BY AnsweredIs, AllThere

\* Rows that belong to the store as it was, while nobody pruned, belong to it
\* as it is.
LEMMA PairsAreRecords ==
    ASSUME Core, Recorded, Paired, Answered, Complete
    PROVE  /\ \A n \in q.rows : Pair(n)
           /\ seen.gone = {} => DeliveredRecords = Records(q.rows)
<1>1. Pending = {} /\ Live
  BY AnsweredIs
<1>2. \A n \in q.rows : Pair(n)
  BY <1>1 DEF Paired, Waits, Awaits, Await
<1>3. ASSUME seen.gone = {} PROVE DeliveredRecords = Records(q.rows)
  <2>1. \A n \in q.rows : q.above[n] = Parents(n)
    BY <1>2, <1>3 DEF Pair, Recorded
  <2> QED BY <2>1 DEF DeliveredRecords, Records
<1> QED BY <1>2, <1>3

\* What is answered was the right answer at some time.
LEMMA DeliveredOnce ==
    ASSUME Core, Recorded, Known, Complete, Momentary, Answered, seen.gone = {}, ~Excused,
           q.op # "backup"
    PROVE  Moment(Delivered)
<1>1. /\ Pending = {} /\ q.op \in Operation /\ Live /\ q.out # "idle"
      /\ \A k : ~Awaits(k)
  BY AnsweredIs DEF Answered
<1>2. /\ \A k \in Reading : Needed(q.op, k) => Got(k) = Wanted
      /\ q.ids \subseteq present /\ q.rows \subseteq present
  BY AllRead
<1>3. FiltersAtOnce /\ FindsAtOnce /\ FilesAtOnce
  BY <1>1 DEF Momentary
<1>4. Remaining = q.ids
  BY <1>1 DEF Remaining
<1>5. q.op \in Filtered \union Simple => Moment(q.ids)
  BY <1>1, <1>3, <1>4 DEF FiltersAtOnce, FindsAtOnce, Some
<1>6. q.op \notin Rowless => q.rows = Wanted
  BY <1>2 DEF Needed, Got, Reading
<1>7. CASE q.op \in {"search", "stats"}
  BY <1>5, <1>7 DEF Filtered, Simple, Delivered, Artifacts
<1>8. CASE q.op = "artifacts"
  BY <1>1, <1>3, <1>8 DEF FilesAtOnce, Delivered, Artifacts
<1>9. CASE q.op = "from_parent"
  BY <1>2, <1>5, <1>9 DEF Needed, Got, Wanted, Of, Reading, Simple, Delivered, Artifacts
<1>10. CASE q.op \in {"detail", "diff"}
  <2>1. q.rows = Range(q.of) /\ Range(q.of) \subseteq present
    BY <1>2, <1>6, <1>10 DEF Rowless, Artifacts, Wanted, Of
  <2>2. CanAsk(q.f)
    BY <1>1, <1>10 DEF Core, Question, Worded, CanAsk, NoFilter
  <2>3. AnswerNow(q.op, q.of, q.f).ok /\ AnswerNow(q.op, q.of, q.f).ids = q.rows
    BY <1>1, <1>10, <2>1, <2>2, NowIs
  <2>4. Moment(q.rows)
    BY <1>1, <2>3, MomentNow
  <2> QED BY <1>10, <2>4 DEF Delivered, Artifacts
<1>11. CASE q.op \notin Rowless \union {"detail", "diff"}
  <2>1. q.rows = q.ids
    BY <1>6, <1>11 DEF Wanted, Of, Rowless, Artifacts
  <2>2. q.op \in Filtered \union Simple
    BY <1>1, <1>11 DEF Rowless, Artifacts, Filtered, Simple, Operation, Details, Wholes
  <2>3. Delivered = q.rows
    BY <1>11 DEF Delivered, Rowless
  <2> QED BY <1>5, <2>1, <2>2, <2>3
<1> QED BY <1>7, <1>8, <1>9, <1>10, <1>11 DEF Rowless, Artifacts

LEMMA AnswersAtOnce ==
    ASSUME Core, Recorded, Known, Complete, Paired, Momentary, Backed, Failed
    PROVE  OneMoment
<1> SUFFICES ASSUME q.out \in {"ok", "error"}, seen.gone = {} \/ q.op = "backup", ~Newcomer, ~Rounded
             PROVE  \E a \in seen.right :
                       /\ a.ok = Answered
                       /\ Answered =>
                          /\ a.ids = Delivered
                          /\ q.op \notin {"search", "stats"} \union Artifacts =>
                                a.records = DeliveredRecords
                          /\ q.op = "stats" =>
                                q.ids \subseteq q.files /\ \E b \in seen.right : b.ids = q.files
                          /\ q.op \in Details => q.entries = q.rows /\ q.files = q.rows
                          /\ q.op \in {"page", "snapshot"} =>
                                q.edges = {e \in Id \X Id : e[1] \in q.rows /\ e[2] \in q.above[e[1]]}
  BY DEF OneMoment
<1>0. \A a \in seen.right : a.ok \in BOOLEAN
  BY DEF Core, QType, SeenType, AnswerType
<1>1. CASE ~Answered
  <2>1. q.op # "backup" /\ seen.gone = {}
    BY <1>1 DEF Backed, Answered
  <2>2. PICK a \in seen.right : ~a.ok
    BY <1>1, <2>1 DEF Failed, Answered
  <2>3. a.ok = FALSE
    BY <1>0, <2>2
  <2> QED BY <1>1, <2>3 DEF Answered
<1>2. CASE Answered /\ q.op = "backup"
  <2>1. ~Awaits("copy")
    BY <1>2, AnsweredIs
  <2>2. q.entries = q.rows /\ q.files = q.rows
    BY <1>2, <2>1 DEF Backed
  <2>3. PICK a \in seen.right : a.ok /\ a.ids = q.rows /\ a.records = DeliveredRecords
    BY <1>2, <2>1 DEF Backed
  <2>4. Delivered = q.rows
    BY <1>2 DEF Delivered, Artifacts
  <2>5. a.ok = TRUE
    BY <1>0, <2>3
  <2> QED BY <1>2, <2>2, <2>3, <2>4, <2>5
<1>3. CASE Answered /\ q.op # "backup"
  <2>0. seen.gone = {} /\ ~Excused
    BY <1>3 DEF Excused
  <2>1. Live /\ q.op \in Operation /\ \A k : ~Awaits(k)
    BY <1>3, AnsweredIs
  <2>2. /\ \A k \in Reading : Needed(q.op, k) => Got(k) = Wanted
        /\ q.ids \subseteq present /\ q.rows \subseteq present
    BY <1>3, <2>0, AllRead
  <2>3. PICK a \in seen.right : a.ok /\ a.ids = Delivered /\ a.records = Records(Delivered)
    BY <1>3, <2>0, DeliveredOnce DEF Moment
  <2>4. a.ok = TRUE
    BY <1>0, <2>3
  <2>5. ASSUME q.op \notin {"search", "stats"} \union Artifacts PROVE a.records = DeliveredRecords
    BY <1>3, <2>0, <2>3, <2>5, PairsAreRecords DEF Delivered
  <2>6. ASSUME q.op = "stats"
        PROVE  q.ids \subseteq q.files /\ \E b \in seen.right : b.ids = q.files
    BY <2>0, <2>1, <2>6 DEF Momentary, CountAtOnce
  <2>7. ASSUME q.op \in Details PROVE q.entries = q.rows /\ q.files = q.rows
    BY <2>2, <2>7 DEF Needed, Details, Wholes, Rowless, Artifacts, Got, Reading
  <2>8. ASSUME q.op \in {"page", "snapshot"}
        PROVE  q.edges = {e \in Id \X Id : e[1] \in q.rows /\ e[2] \in q.above[e[1]]}
    <3>1. q.rows = q.ids
      BY <2>2, <2>8 DEF Needed, Rowless, Artifacts, Wanted, Of, Got, Reading
    <3>2. q.edges = {e \in q.ids \X Id : e[2] \in Parents(e[1])}
      BY <2>0, <2>1, <2>8 DEF Momentary, EdgesAtOnce
    <3>3. \A n \in q.rows : q.above[n] = Parents(n)
      BY <1>3, <2>0, PairsAreRecords DEF Pair, Recorded
    <3>4. q.rows \subseteq Id
      BY <2>2, Store DEF Core
    <3>5. \A e \in Id \X Id : e \in q.ids \X Id /\ e[2] \in Parents(e[1])
                                 <=> e[1] \in q.rows /\ e[2] \in q.above[e[1]]
      BY <3>1, <3>3
    <3>6. q.edges \subseteq Id \X Id
      BY DEF Core, QType, QueryType
    <3> QED BY <3>2, <3>1, <3>4, <3>5
  <2> QED BY <1>3, <2>3, <2>4, <2>5, <2>6, <2>7, <2>8
<1> QED BY <1>1, <1>2, <1>3

LEMMA ListsNothingElse ==
    ASSUME Core, Recorded, Known, Screened, Genuine, Complete, Paired, Momentary
    PROVE  NothingInvented
<1> SUFFICES ASSUME Answered
             PROVE  /\ \A n \in Delivered :
                          \/ \E a \in seen.right : n \in a.ids
                          \/ q.op \in {"detail", "diff"}
                          \/ Newcomer \/ Overtaken \/ Rounded
                    /\ \A n \in q.rows :
                          \/ <<n, q.above[n]>> \in seen.was
                          \/ q.op \in Gets /\ n \in seen.gone /\ q.above[n] = {}
  BY DEF NothingInvented
<1>1. Live /\ q.op \in Operation /\ \A k : ~Awaits(k)
  BY AnsweredIs
<1>2. \A n \in q.rows : <<n, q.above[n]>> \in seen.was \/ (q.op \in Gets /\ n \in seen.gone /\ q.above[n] = {})
  BY PairsAreRecords DEF Pair
<1>3. ASSUME NEW n \in Delivered, q.op \notin {"detail", "diff"}, ~Newcomer, ~Overtaken, ~Rounded
      PROVE  \E a \in seen.right : n \in a.ids
  <2>0. ~Excused
    BY <1>3 DEF Excused
  <2>1. CASE q.op = "latest"
    BY <1>3, <2>0, <2>1, DeliveredOnce DEF Overtaken, Moment
  <2>2. ASSUME q.op # "latest", Once(n) PROVE \E a \in seen.right : n \in a.ids
    BY <2>2 DEF Once
  <2>3. CASE q.op = "search"
    BY <1>1, <1>3, <2>0, <2>2, <2>3, SiftedOnce DEF Delivered, There, Artifacts, Filtered
  <2>4. CASE q.op = "stats"
    BY <1>1, <1>3, <2>2, <2>4 DEF Delivered, Artifacts, Genuine
  <2>5. CASE q.op \in Artifacts
    BY <1>1, <1>3, <2>2, <2>5 DEF Delivered, Artifacts, Genuine
  <2>6. CASE q.op \notin {"latest"} \union Rowless
    BY <1>1, <1>3, <2>0, <2>2, <2>6 DEF Delivered, Rowless, Genuine
  <2> QED BY <2>1, <2>3, <2>4, <2>5, <2>6 DEF Rowless
<1> QED BY <1>2, <1>3

LEMMA ReaderStarts == Init => Reader
<1>1. ASSUME q = Idle, seen = Unseen
      PROVE  Screened /\ Genuine /\ Linked /\ Fresh /\ Paired /\ Momentary /\ Backed /\ Failed
  <2>1. ~Live /\ q.op = "none" /\ q.out = "idle"
    BY <1>1 DEF Live, Idle
  <2> QED BY <2>1 DEF Screened, Genuine, Linked, Fresh, Paired, Momentary, Backed, Failed,
                      Artifacts
<1> QED BY <1>1, CoreStarts, IdleIsFine DEF Init, Reader

LEMMA ReaderStays == Reader /\ [Next]_vars => Reader'
BY CoreStays, RecordedStays, KnownStays, CompleteStays, ScreenedStays, GenuineStays,
   LinkedStays, FreshStays, PairedStays, MomentaryStays, BackedStays, FailedStays
DEF Reader

LEMMA ReaderHolds == Spec => []Reader
BY ReaderStarts, ReaderStays, PTL DEF Spec

\* While nobody prunes, a request answers as if all of it had happened at one
\* moment between its start and its end, however many nodes are committed
\* between its statements; a backup does so whatever happens.
THEOREM AnswersOfOneMoment == Spec => []OneMoment
<1>1. Reader => OneMoment
  BY AnswersAtOnce DEF Reader
<1> QED BY <1>1, ReaderHolds, PTL

\* Whatever is pruned meanwhile, a node is only listed if it was right to list
\* it at some moment, and with parents it really had.
THEOREM NothingIsInvented == Spec => []NothingInvented
<1>1. Reader => NothingInvented
  BY ListsNothingElse DEF Reader
<1> QED BY <1>1, ReaderHolds, PTL

-----------------------------------------------------------------------------
(* The walks of a request.                                                 *)

LEMMA OnwardKeepsOrder ==
    ASSUME NEW r, "order" \in DOMAIN r, NEW t
    PROVE  Onward(r, t).order = r.order
BY DEF Onward

\* Only the walk sets the order.
LEMMA OrderStays ==
    ASSUME Core, Statement
    PROVE  Closed \/ (~Due("closure") /\ q'.order = q.order)
<1>1. "order" \in DOMAIN q
  BY DEF Core, QType, QueryType
<1>2. \A r : "order" \in DOMAIN r /\ r.order = q.order =>
          (Proceed(r) \/ Stop(r) => q'.order = q.order)
  BY OnwardKeepsOrder DEF Proceed, Stop
<1>3. Fail \/ Skip => q'.order = q.order
  BY <1>1, OnwardKeepsOrder DEF Fail, Skip
<1>4. CASE SelectIds \/ AllNodeIds \/ MostRecent \/ Exists \/ Children
  BY <1>1, <1>2, <1>3, <1>4 DEF SelectIds, AllNodeIds, MostRecent, Exists, Children, Through, Due
<1>5. CASE FilterParents \/ FilterValues \/ SearchTerm \/ SearchSift
  BY <1>1, <1>2, <1>5 DEF FilterParents, FilterValues, SearchTerm, SearchSift, Keep, Due
<1>6. CASE ReadLinks \/ ReadLinksAgain \/ ReadParents \/ CopyAll
  BY <1>1, <1>2, <1>6 DEF ReadLinks, ReadLinksAgain, ReadParents, CopyAll, Through, Due
<1>7. CASE ReadRows \/ ReadRowsAgain \/ ReadRow
  BY <1>1, <1>2, <1>3, <1>7 DEF ReadRows, ReadRowsAgain, ReadRow, Through, Due
<1>8. CASE ReadEntries \/ ReadFiles \/ ReadBytes
  BY <1>1, <1>2, <1>3, <1>8 DEF ReadEntries, ReadFiles, ReadBytes, Due
<1> QED BY <1>4, <1>5, <1>6, <1>7, <1>8 DEF Statement

\* A lineage and a page make their statements, or fail.
LEMMA MadeOrFails ==
    ASSUME NEW k \in Kinds, Outcome(k), q.op \in {"lineage", "page"}
    PROVE  Due(k) /\ (Made(k) \/ q'.out = "error")
BY DEF Outcome, Refused, Ended, Stopped, Skipped, Taken

\* Edges are read before rows.
LEMMA LinksBeforeRows ==
    ASSUME Core, Due("rows")
    PROVE  Do("links", Found) \notin Pending /\ q.op \in Many
<1>1. /\ Pending = {Head(q.todo)} \union Rest /\ Head(q.todo).do = "rows"
      /\ q.op \in Operation /\ "rows" \in KindsOf(q.op) /\ \A x \in Rest : Before("rows", x.do)
  BY DueKind DEF Kinds
<1>2. Do("links", Found).do = "links"
  BY DEF Do
<1> QED BY <1>1, <1>2, Backwards, Makers

LEMMA OrderedStays ==
    ASSUME Core, Recorded, Known, Ordered, [Next]_vars
    PROVE  Ordered'
<1>1. CASE UNCHANGED vars
  BY <1>1 DEF vars, Ordered, Live, Awaits, Pending
<1>2. CASE AskStore \/ AskNode \/ AskDiff \/ AskFilter \/ AskAncestors \/ AskSearch
  <2>1. PICK op \in Operation, of \in Seq(Id), f \in FilterType : Begins(op, of, f)
    BY <1>2, AsksSomething
  <2>2. q'.op = op /\ Pending' = Makes(op, of, f)
    BY <2>1 DEF Begins
  <2> QED BY <2>2, Starting DEF Ordered, Awaits
<1>3. CASE Statement
  <2>1. PICK k \in Kinds : Outcome(k)
    BY <1>3, Outcomes
  <2>2. /\ UNCHANGED <<present, link, ever, seen>> /\ q'.op = q.op /\ Due(k) /\ Live
        /\ Head(q.todo).do = k
    BY <2>1, OutcomeIs DEF Outcome, Due, Live
  <2> SUFFICES ASSUME q.op = "lineage", Live', ~Awaits("closure")', seen.gone = {}
               PROVE  ListsInOrder(q'.order, q'.ids, link)
    BY <2>2 DEF Ordered
  <2>3. CASE Closed
    BY <2>3, GoesUp, Store, LineageIsRight DEF Moves, Core
  <2>4. CASE ~Due("closure") /\ q'.order = q.order
    <3>1. Made(k) /\ k # "closure"
      BY <2>1, <2>2, <2>4, MadeOrFails DEF Live
    <3>2. q'.ids = IdsBy(k) /\ ~Awaits("closure")
      BY <2>2, <3>1, MadeIs, StillPending DEF Awaits
    <3>3. k \in {"exists", "links", "rows"}
      BY <2>2, <3>1, DueKind, KindsAre
    <3>4. IdsBy(k) = q.ids
      BY <3>3, AllThere DEF IdsBy
    <3> QED BY <2>2, <2>4, <3>2, <3>4 DEF Ordered
  <2> QED BY <1>3, <2>3, <2>4, OrderStays
<1>4. CASE Deliver
  <2>1. /\ UNCHANGED <<present, link, ever, seen>> /\ q'.op = q.op /\ q'.ids = q.ids
        /\ q.out = "running" /\ Pending = {}
    BY <1>4, AnswersOrNot
  <2>2. q'.order = q.order
    BY <1>4 DEF Deliver, Fail, Core, QType, QueryType
  <2> QED BY <2>1, <2>2 DEF Ordered, Live, Awaits, Await
<1>5. CASE Forget
  BY <1>5 DEF Forget, Idle, Ordered, Live
<1>6. CASE Commit \/ Prune
  <2> SUFFICES ASSUME q.op = "lineage", Live, ~Awaits("closure"), seen'.gone = {}
               PROVE  ListsInOrder(q.order, q.ids, link')
    BY <1>6, OthersDo DEF Ordered, Live, Awaits, Pending
  <2>1. /\ seen.gone = {} /\ \A n \in present : Parents(n)' = Parents(n)
    BY <1>6, NobodyPrunes
  <2>2. q.ids \subseteq present /\ ListsInOrder(q.order, q.ids, link)
    BY <2>1, AllThere DEF Ordered
  <2>3. ASSUME NEW n \in q.ids, NEW p, <<n, p>> \in link' PROVE <<n, p>> \in link
    BY <2>1, <2>2, <2>3, Store DEF Parents, Above, Core, Stores
  <2>4. \A i \in 1..Len(q.order) : q.order[i] \in q.ids
    BY <2>2, LenProperties DEF Core, QType, QueryType, ListsInOrder, Range
  <2> QED BY <2>2, <2>3, <2>4 DEF ListsInOrder
<1> QED BY <1>1, <1>2, <1>3, <1>4, <1>5, <1>6 DEF Next, Request

LEMMA OlderParents == Stores => \A n, p : p \in Parents(n) => p < n
BY DEF Stores, Parents, Above

LEMMA BackwardStays ==
    ASSUME Core, Recorded, Known, Linked, Backward, [Next]_vars
    PROVE  Backward'
<1>0. (\A n, p : p \in Parents(n) => p < n) /\ (\A n, p : p \in Parents(n) => p < n)'
  <2>1. (Stores => \A n, p : p \in Parents(n) => p < n)'
    BY OlderParents, PTL
  <2> QED BY <2>1, OlderParents, CoreStays DEF Core
<1>1. CASE UNCHANGED vars
  BY <1>1 DEF vars, Backward
<1>2. ASSUME NEW op \in Operation, NEW of \in Seq(Id), NEW f \in FilterType, Begins(op, of, f)
      PROVE  Backward'
  BY <1>0, <1>2 DEF Begins, Backward, Records
<1>3. ASSUME NEW k \in Kinds, Outcome(k) PROVE Backward'
  <2>1. seen' = seen /\ Due(k)
    BY <1>3, OutcomeIs DEF Outcome
  <2>2. q'.edges = q.edges \/ (Made(k) /\ k = "rows")
    BY <1>3, <2>1, OutcomeIs, MadeIs, Leaves
  <2>3. CASE Made(k) /\ k = "rows"
    <3>1. q'.edges = {e \in (q.ids \intersect present) \X Id : e[2] \in q.above[e[1]]}
      BY <2>1, <2>3, MadeIs DEF EdgesBy, IdsBy
    <3>2. \A n \in q.ids \intersect present : <<n, q.above[n]>> \in seen.was
      BY <2>1, <2>3, LinksBeforeRows DEF Linked, Live, Due
    <3>3. \A n \in q.ids \intersect present : \A p \in q.above[n] : p < n
      BY <3>2 DEF Backward
    <3> QED BY <2>1, <3>1, <3>3 DEF Backward
  <2> QED BY <2>1, <2>2, <2>3 DEF Backward
<1>4. CASE Deliver
  BY <1>4, AnswersOrNot DEF Backward
<1>5. CASE Restarts
  BY <1>5 DEF Restarts, Idle, Unseen, Backward
<1>6. CASE Commit \/ Prune
  BY <1>0, <1>6, OthersDo DEF Backward, Records
<1> QED BY <1>1, <1>2, <1>3, <1>4, <1>5, <1>6, AnyStep

LEMMA RootedStays ==
    ASSUME Core, Recorded, Known, Rooted, [Next]_vars
    PROVE  Rooted'
<1>1. CASE UNCHANGED vars
  BY <1>1 DEF vars, Rooted, Live, Awaits, Pending, Parents
<1>2. ASSUME NEW op \in Operation, NEW of \in Seq(Id), NEW f \in FilterType, Begins(op, of, f)
      PROVE  Rooted'
  BY <1>2, Starting DEF Begins, Rooted, Awaits, Finding
<1>3. ASSUME NEW k \in Kinds, Outcome(k) PROVE Rooted'
  <2>1. q'.op = q.op /\ UNCHANGED <<present, link, ever, seen>> /\ Due(k) /\ Live
    BY <1>3, OutcomeIs DEF Outcome, Due, Live
  <2> SUFFICES ASSUME q.op = "page", Live', ~Awaits("select")'
               PROVE  /\ \A n \in q'.ids : Parents(n) \subseteq q'.ids \union seen.gone
                      /\ Do("links", Found) \notin Pending' =>
                            \A n \in q'.ids : q'.above[n] \subseteq q'.ids \union seen.gone
                      /\ \A e \in q'.edges : e[2] \in q'.ids \union seen.gone
    BY <2>1 DEF Rooted, Parents
  <2>2. Made(k)
    BY <1>3, MadeOrFails DEF Live
  <2>3. q'.ids = IdsBy(k) /\ q'.above = AboveBy(k) /\ q'.edges = EdgesBy(k)
    BY <2>1, <2>2, MadeIs
  <2>4. \A s \in Pending : s.do # k => s \in Pending'
    BY <2>1, <2>2, StillPending
  <2>5. /\ \A n : Parents(n) \subseteq present
        /\ Await(Pending, k) /\ k \in KindsOf("page") /\ Fits("page", q.of, q.f, Head(q.todo))
        /\ Head(q.todo).do = k /\ q.f = NoFilter /\ Planned("page", q.of, q.f, Pending, Wanted)
    BY <2>1, DueKind, Store DEF Core, Question, Worded, Plan
  <2>6. k \in {"select", "links", "rows", "relink", "again", "entries", "files"}
    BY <2>5, KindsAre DEF Fits, NoFilter
  <2>7. CASE k = "select"
    <3>1. IdsBy(k) = present
      BY <2>5, <2>7 DEF IdsBy, Equals, NoFilter
    <3>2. Do("links", Found) \in Pending'
      BY <2>4, <2>5, <2>7 DEF Planned, Reads, Many, Some, Await, Do
    <3>3. EdgesBy(k) = {}
      BY <2>5, <2>7 DEF EdgesBy, Core, Blank, Some, Await, Narrowing
    <3> QED BY <2>3, <2>5, <3>1, <3>2, <3>3
  <2>8. CASE k # "select"
    <3>1. /\ \A n \in q.ids : Parents(n) \subseteq q.ids \union seen.gone
          /\ Do("links", Found) \notin Pending =>
                \A n \in q.ids : q.above[n] \subseteq q.ids \union seen.gone
          /\ \A e \in q.edges : e[2] \in q.ids \union seen.gone
      BY <2>1, <2>4, <2>8 DEF Rooted, Awaits, Await
    <3>2. q.ids \subseteq Id
      BY DEF Core, QType, QueryType
    <3>3. CASE k = "rows"
      <4>1. IdsBy(k) = q.ids \intersect present /\ AboveBy(k) = q.above
        BY <3>3 DEF IdsBy, AboveBy
      <4>2. q.ids \subseteq IdsBy(k) \union seen.gone
        BY <4>1 DEF Known
      <4>3. EdgesBy(k) = {e \in IdsBy(k) \X Id : e[2] \in q.above[e[1]]}
        BY <3>3 DEF EdgesBy
      <4>4. \A n \in q.ids : q.above[n] \subseteq q.ids \union seen.gone
        BY <2>1, <3>1, <3>3, LinksBeforeRows
      <4> QED BY <2>3, <3>1, <4>1, <4>2, <4>3, <4>4
    <3>4. CASE k \in {"links", "relink"}
      <4>1. IdsBy(k) = q.ids /\ EdgesBy(k) = q.edges
        BY <3>4 DEF IdsBy, EdgesBy
      <4>2. On = q.ids \/ k = "relink"
        BY <2>5, <3>4 DEF On, Fits, Gets
      <4>3. \A n \in q.ids : AboveBy(k)[n] = Parents(n)
        BY <3>2, <3>4, <4>2 DEF AboveBy
      <4> QED BY <2>3, <3>1, <4>1, <4>3
    <3>5. CASE k \in {"again", "entries", "files"}
      BY <2>3, <2>4, <3>1, <3>5 DEF IdsBy, AboveBy, EdgesBy, Do
    <3> QED BY <2>6, <2>8, <3>3, <3>4, <3>5
  <2> QED BY <2>7, <2>8
<1>4. CASE Deliver
  BY <1>4, AnswersOrNot DEF Rooted, Live, Awaits, Await, Parents
<1>5. CASE Restarts
  BY <1>5 DEF Restarts, Idle, Rooted, Live
<1>6. CASE Commit \/ Prune
  <2>1. /\ UNCHANGED q /\ present' \intersect (ever \ present) = {}
        /\ \A n \in present \intersect present' : Parents(n)' \subseteq Parents(n)
        /\ seen.gone \subseteq seen'.gone /\ Stores'
    BY <1>6, OthersDo
  <2>2. \A n : n \notin present' => Parents(n)' = {}
    BY <2>1 DEF Stores, Parents, Above
  <2>3. q.ids \subseteq present \union seen.gone /\ seen.gone \subseteq ever \ present
    BY DEF Known, Recorded
  <2>4. \A n \in q.ids : Parents(n)' \subseteq Parents(n)
    BY <2>1, <2>2, <2>3
  <2> QED BY <2>1, <2>4 DEF Rooted, Live, Awaits, Pending
<1> QED BY <1>1, <1>2, <1>3, <1>4, <1>5, <1>6, AnyStep

\* On any store, whatever rows of the region are gone by then.
LEMMA PrunesRight ==
    ASSUME Stores, NEW region \in SUBSET Id, NEW t \in region, NEW above,
           \A n \in region : above[n] \subseteq Parents(n)
    PROVE  LET doomed == UNION {S \in SUBSET region : \A d \in S \ {t} : above[d] \subseteq S}
           IN  ListsInOrder(PruneList(region, above, t), doomed,
                            {e \in region \X region : e[1] \in above[e[2]]})
<1> DEFINE E == {e \in region \X region : e[2] \in above[e[1]]}
<1>1. region \subseteq Nat /\ IsFiniteSet(region)
  BY FS_Subset, QueriesAssumption
<1>2. \A e \in E : e[2] < e[1]
  BY OlderParents
<1>3. E \subseteq region \X region
  OBVIOUS
<1>4. IsFiniteSet(E)
  BY <1>1, <1>3, FS_Product, FS_Subset
<1>5. IsGraph(region, E)
  BY <1>1, <1>2, <1>3, <1>4 DEF IsGraph
<1> QED BY <1>1, <1>5, PruneListIsRight

\* The columns of a page.
LEMMA PageIsRight ==
    ASSUME Core, Edged, Complete, Walked, Answered, q.op = "page"
    PROVE  /\ Ends(q.edges) \subseteq q.rows \union seen.gone
           /\ LongestPaths(Levels(q.rows, q.edges), q.edges)
<1> DEFINE E == q.edges
<1> DEFINE N == q.rows \union Ends(E)
<1>1. Pending = {} /\ Live /\ q.ids \subseteq q.rows \union seen.gone
  BY AnsweredIs DEF Reading, Needed, Rowless, Artifacts, Got, Wanted, Of
<1>2. /\ q.rows \subseteq Id /\ q.ids \subseteq Id /\ E \subseteq q.ids \X Id /\ E \subseteq Id \X Id
      /\ seen.gone \subseteq Id
  BY DEF Edged, Core, QType, QueryType, SeenType
<1>3. (\A e \in E : e[2] \in q.ids \union seen.gone) /\ \A e \in E : e[2] < e[1]
  BY <1>1 DEF Walked, Rooted, Backward, Awaits, Await
<1>4. Ends(E) \subseteq q.rows \union seen.gone
  BY <1>1, <1>2, <1>3 DEF Ends
<1>5. IsFiniteSet(q.rows) /\ IsFiniteSet(E)
  BY <1>2, FS_Product, FS_Subset, QueriesAssumption
<1>6. IsGraph(N, E)
  BY <1>2, <1>3, <1>4, <1>5, QueriesAssumption DEF Ends, IsGraph
<1>7. LongestPaths(Levels(q.rows, E), E)
  BY <1>5, <1>6, ColumnsAreRight
<1> QED BY <1>4, <1>7

\* The loops do what they are for on every store and whatever happens
\* meanwhile: a lineage comes parents first, a page has columns that are
\* longest paths, and a prune takes what would keep no parent, children first.
THEOREM WalksAreRight == Spec => []WalksAgree
<1>1. Init => Reader /\ Edged /\ Walked
  <2>1. q = Idle /\ seen = Unseen => Edged /\ Walked
    BY DEF Idle, Unseen, Edged, Walked, Ordered, Backward, Rooted, Live
  <2> QED BY <2>1, ReaderStarts DEF Init
<1>2. Reader /\ Edged /\ Walked /\ [Next]_vars => Reader' /\ Edged' /\ Walked'
  BY ReaderStays, EdgedStays, OrderedStays, BackwardStays, RootedStays DEF Reader, Walked
<1>3. Reader /\ Edged /\ Walked => WalksAgree
  <2> SUFFICES ASSUME Reader, Edged, Walked PROVE WalksAgree
    OBVIOUS
  <2>1. ASSUME Answered, q.op = "lineage", seen.gone = {} PROVE ListsInOrder(q.order, q.rows, link)
    <3>1. Live /\ ~Awaits("closure")
      BY <2>1, AnsweredIs DEF Reader
    <3>2. q.rows = q.ids
      BY <2>1, AllRead DEF Reader, Reading, Needed, Rowless, Artifacts, Got, Wanted, Of
    <3> QED BY <2>1, <3>1, <3>2 DEF Walked, Ordered
  <2>2. Answered /\ q.op = "page" =>
            /\ Ends(q.edges) \subseteq q.rows \union seen.gone
            /\ LongestPaths(Levels(q.rows, q.edges), q.edges)
    BY PageIsRight DEF Reader
  <2> SUFFICES ASSUME NEW t \in present, NEW lost \in SUBSET (DescendantsIn(Id, link, t) \ {t})
               PROVE  LET region == DescendantsIn(Id, link, t)
                          above == [n \in region |-> IF n \in lost THEN {} ELSE Parents(n)]
                          doomed == UNION {S \in SUBSET region : \A d \in S \ {t} : above[d] \subseteq S}
                      IN  ListsInOrder(PruneList(region, above, t), doomed,
                                       {e \in region \X region : e[1] \in above[e[2]]})
    BY <2>1, <2>2, Zenon DEF WalksAgree
  <2> DEFINE region == DescendantsIn(Id, link, t)
  <2> DEFINE above == [n \in region |-> IF n \in lost THEN {} ELSE Parents(n)]
  <2>3. Stores /\ IsGraph(Id, link) /\ t \in Id
    BY Store DEF Reader, Core
  <2>4. region \in SUBSET Id /\ t \in region
    BY <2>3, DescendantsAre DEF IsGraph
  <2> HIDE DEF region
  <2>5. \A n \in region : above[n] \subseteq Parents(n)
    OBVIOUS
  <2> HIDE DEF above
  <2>6. LET doomed == UNION {S \in SUBSET region : \A d \in S \ {t} : above[d] \subseteq S}
        IN  ListsInOrder(PruneList(region, above, t), doomed,
                         {e \in region \X region : e[1] \in above[e[2]]})
    BY <2>3, <2>4, <2>5, PrunesRight
  <2> QED BY <2>6, Zenon DEF region, above
<1> QED BY <1>1, <1>2, <1>3, PTL DEF Spec
=============================================================================
