--------------------------- MODULE OpeningProofs ---------------------------
(***************************************************************************)
(* Theorems of Opening: any number of processes may open a root, die and   *)
(* try again. The inductive invariant follows each attempt: what a process *)
(* knows of the root at its pc, as long as no other was opening with it.   *)
(***************************************************************************)
EXTENDS Opening, TLAPS

\* What the root keeps being, and what holds at each place of the code.
Known == \A p \in Process :
    /\ pc[p] \in (Opening \ {"start"}) \union {"open"} => exists
    /\ pc[p] = "stamp" => writer = p
    /\ pc[p] = "version" => saw[p] = tables /\ tables # "none"
    /\ pc[p] \in {"policy", "insert", "open"} => tables = "all" /\ version = Current
    /\ pc[p] = "refused" => ~ours

\* What an attempt knows that no other process has disturbed.
Alone == \A p \in Process : ~raced[p] =>
    /\ pc[p] \in Opening => \A q \in Process \ {p} : pc[q] \notin Opening
    /\ pc[p] = "ddl" => tables = "none"
    /\ pc[p] = "insert" => stored = None
    /\ pc[p] # "failed"

Inductive ==
    /\ TypeOK
    /\ ours = IsStore
    /\ (stored # None => tables = "all")
    /\ (tables # "none" => exists)
    /\ Known
    /\ Alone
    /\ PolicyAgrees

LEMMA InitInductive == Init => Inductive
<1>1. SUFFICES ASSUME Init PROVE Inductive
  OBVIOUS
<1>2. TypeOK
  <2>1. /\ legacy \in BOOLEAN /\ exists \in BOOLEAN /\ tables \in Tables
        /\ version \in Stamp /\ stored \in Policy \union {None}
    BY <1>1, StampAssumption DEF Init, Tables
  <2>2. ours \in BOOLEAN
    BY <1>1 DEF Init, IsStore
  <2>3. /\ pc \in [Process -> Opening \union Ended] /\ saw \in [Process -> Tables]
        /\ asked \in [Process -> [Setting -> Value \union {None}]]
        /\ policy \in [Process -> Policy \union {None}]
        /\ warned \in [Process -> BOOLEAN] /\ raced \in [Process -> BOOLEAN]
        /\ tries \in 0..MaxTries
    BY <1>1, TriesAssumption DEF Init, Opening, Ended, Tables
  <2> QED
    BY <1>1, <2>1, <2>2, <2>3 DEF Init, TypeOK
<1>3. ours = IsStore /\ (stored # None => tables = "all") /\ (tables # "none" => exists)
  BY <1>1 DEF Init
<1>4. Known /\ Alone /\ PolicyAgrees
  BY <1>1 DEF Init, Known, Alone, PolicyAgrees, Opening
<1> QED
  BY <1>2, <1>3, <1>4 DEF Inductive

LEMMA NextInductive == Inductive /\ [Next]_vars => Inductive'
<1> SUFFICES ASSUME Inductive, [Next]_vars PROVE Inductive'
  OBVIOUS
<1> USE PolicyAssumption, ProcessAssumption, StampAssumption, CurrentAssumption,
        TriesAssumption
<1>1. ASSUME NEW p \in Process, Start(p) PROVE Inductive'
  <2> USE <1>1 DEF Start, Goto, root
  <2>1. TypeOK'
    <3>1. tries' \in 0..MaxTries
      BY DEF Inductive, TypeOK
    <3>2. raced' \in [Process -> BOOLEAN]
      OBVIOUS
    <3>3. pc' \in [Process -> Opening \union Ended] /\ pc[p] # "stamp"
      BY DEF Inductive, TypeOK, Opening, Ended
    <3>4. writer # None => pc'[writer] = "stamp"
      BY <3>3 DEF Inductive, TypeOK
    <3>5. asked' \in [Process -> [Setting -> Value \union {None}]]
      BY RequestAssumption DEF Inductive, TypeOK
    <3> QED
      BY <3>1, <3>2, <3>3, <3>4, <3>5 DEF Inductive, TypeOK
  <2>2. Known'
    BY DEF Inductive, TypeOK, Known, Opening, Ended
  <2>3. Alone'
    BY DEF Inductive, TypeOK, Alone, Opening, Ended
  <2>4. /\ PolicyAgrees' /\ (ours = IsStore)'
        /\ (stored # None => tables = "all")' /\ (tables # "none" => exists)'
    BY DEF Inductive, TypeOK, PolicyAgrees, IsStore, Opening, Ended
  <2> QED
    BY <2>1, <2>2, <2>3, <2>4 DEF Inductive
<1>2. ASSUME NEW p \in Process, RefuseLegacy(p) PROVE Inductive'
  <2> USE <1>2 DEF RefuseLegacy, Goto, root
  <2>1. ~IsStore
    BY DEF IsStore, Legacy, Inductive
  <2>2. ~ours
    BY <2>1 DEF Inductive
  <2>3. TypeOK' /\ Known'
    BY <2>2 DEF Inductive, TypeOK, Known, Opening, Ended, Tables
  <2>4. Alone' /\ PolicyAgrees' /\ (ours = IsStore)'
    BY DEF Inductive, TypeOK, Alone, PolicyAgrees, IsStore, Opening, Ended
  <2> QED
    BY <2>3, <2>4 DEF Inductive
<1>3. ASSUME NEW p \in Process, Connect(p) PROVE Inductive'
  BY <1>3 DEF Connect, Goto, Legacy, Inductive, TypeOK, Known, Alone,
      PolicyAgrees, IsStore, Opening, Ended, Tables
<1>4. ASSUME NEW p \in Process, ReadTables(p) PROVE Inductive'
  BY <1>4 DEF ReadTables, Goto, root, Inductive, TypeOK, Known, Alone,
      PolicyAgrees, IsStore, Opening, Ended, Tables
<1>5. ASSUME NEW p \in Process, CreateTables(p) PROVE Inductive'
  BY <1>5 DEF CreateTables, Goto, root, Inductive, TypeOK, Known, Alone,
      PolicyAgrees, IsStore, Opening, Ended, Tables
<1>6. ASSUME NEW p \in Process, CreateFails(p) PROVE Inductive'
  BY <1>6 DEF CreateFails, Goto, root, Inductive, TypeOK, Known, Alone,
      PolicyAgrees, IsStore, Opening, Ended, Tables
<1>7. ASSUME NEW p \in Process, CommitSchema(p) PROVE Inductive'
  BY <1>7 DEF CommitSchema, Goto, Inductive, TypeOK, Known, Alone,
      PolicyAgrees, IsStore, Opening, Ended, Tables
<1>8. ASSUME NEW p \in Process, CheckVersion(p) PROVE Inductive'
  BY <1>8 DEF CheckVersion, Verified, Goto, root, Inductive, TypeOK, Known, Alone,
      PolicyAgrees, IsStore, Opening, Ended, Tables
<1>9. ASSUME NEW p \in Process, ReadPolicy(p) PROVE Inductive'
  <2> USE <1>9 DEF ReadPolicy, Goto, root
  <2>1. Warns(asked[p]) \in BOOLEAN
    BY DEF Warns
  <2>2. TypeOK' /\ Known'
    BY <2>1 DEF Inductive, TypeOK, Known, Opening, Ended, Tables
  <2>3. Alone' /\ (ours = IsStore)'
    BY DEF Inductive, TypeOK, Alone, IsStore, Opening, Ended
  <2>4. PolicyAgrees'
    <3>1. /\ policy'[p] = stored /\ asked'[p] = asked[p]
          /\ warned'[p] = Warns(asked[p])
      BY DEF Inductive, TypeOK
    <3>2. Warns(asked[p]) = Unmet(asked[p], stored)
      BY DEF Warns, Heeded, Unmet
    <3> QED
      BY <3>1, <3>2 DEF Inductive, TypeOK, PolicyAgrees
  <2> QED
    BY <2>2, <2>3, <2>4 DEF Inductive
<1>10. ASSUME NEW p \in Process, NoPolicy(p) PROVE Inductive'
  BY <1>10 DEF NoPolicy, Goto, root, Inductive, TypeOK, Known, Alone,
      PolicyAgrees, IsStore, Opening, Ended, Tables
<1>11. ASSUME NEW p \in Process, InsertPolicy(p) PROVE Inductive'
  <2> USE <1>11 DEF InsertPolicy, MayInsert, Goto
  <2>1. Chosen(asked[p]) \in Policy
    BY DEF Inductive, TypeOK, Chosen, Heeded, Policy
  <2>2. TypeOK' /\ Known'
    BY <2>1 DEF Inductive, TypeOK, Known, Opening, Ended, Tables
  <2>3. Alone' /\ (ours = IsStore)' /\ (stored # None => tables = "all")'
    BY <2>1 DEF Inductive, TypeOK, Known, Alone, IsStore, Opening, Ended
  <2>4. PolicyAgrees'
    <3>1. /\ policy'[p] = Chosen(asked[p]) /\ asked'[p] = asked[p]
          /\ warned'[p] = FALSE
      BY DEF Inductive, TypeOK
    <3>2. Unmet(asked[p], Chosen(asked[p])) = FALSE
      BY DEF Unmet, Chosen, Heeded
    <3>3. \A q \in Process \ {p} : pc'[q] # "open"
      BY DEF Inductive, TypeOK, PolicyAgrees
    <3> QED
      BY <2>1, <3>1, <3>2, <3>3 DEF Inductive, TypeOK, PolicyAgrees
  <2> QED
    BY <2>2, <2>3, <2>4 DEF Inductive
<1>12. ASSUME NEW p \in Process, InsertFails(p) PROVE Inductive'
  BY <1>12 DEF InsertFails, MayInsert, Goto, root, Inductive, TypeOK, Known, Alone,
      PolicyAgrees, IsStore, Opening, Ended, Tables
<1>13. ASSUME NEW p \in Process, Close(p) PROVE Inductive'
  BY <1>13 DEF Close, Goto, root, Inductive, TypeOK, Known, Alone,
      PolicyAgrees, IsStore, Opening, Ended, Tables
<1>14. ASSUME NEW p \in Process, Die(p) PROVE Inductive'
  BY <1>14 DEF Die, Unlocked, Left, Goto, Inductive, TypeOK, Known, Alone,
      PolicyAgrees, IsStore, Opening, Ended, Tables
<1>15. ASSUME UNCHANGED vars PROVE Inductive'
  BY <1>15 DEF vars, Inductive, TypeOK, Known, Alone, PolicyAgrees, IsStore
<1> QED
  BY <1>1, <1>2, <1>3, <1>4, <1>5, <1>6, <1>7, <1>8, <1>9, <1>10, <1>11, <1>12,
     <1>13, <1>14, <1>15 DEF Next

LEMMA AlwaysInductive == Spec => []Inductive
BY InitInductive, NextInductive, PTL DEF Spec

\* Every variable keeps its type and the DDL lock its holder.
THEOREM OpeningTypeCorrect == Spec => []TypeOK
<1>1. Inductive => TypeOK
  BY DEF Inductive
<1> QED
  BY <1>1, AlwaysInductive, PTL

\* Open stores of one root work under one policy, however many open it, and a
\* caller is told if what it asked for is not in it, empty lists apart.
THEOREM OnePolicy == Spec => []PolicyAgrees
<1>1. Inductive => PolicyAgrees
  BY DEF Inductive
<1> QED
  BY <1>1, AlwaysInductive, PTL

\* No death, retry or race makes an opening refuse a root that was a store.
THEOREM NeverBricked == Spec => []RefusesOnlyForeign
<1>1. Inductive => RefusesOnlyForeign
  BY DEF Inductive, Known, RefusesOnlyForeign, IsStore
<1> QED
  BY <1>1, AlwaysInductive, PTL

\* An opening that meets no other opening succeeds or refuses.
THEOREM OpensAlone == Spec => []FailsOnlyIfRaced
<1>1. Inductive => FailsOnlyIfRaced
  BY DEF Inductive, TypeOK, Alone, FailsOnlyIfRaced
<1> QED
  BY <1>1, AlwaysInductive, PTL

LEMMA StepKeeps == Inductive /\ Inductive' /\ [Next]_vars => [KeepsWhatItFinds]_vars
<1> SUFFICES ASSUME Inductive, Next PROVE KeepsWhatItFinds
  BY DEF vars, root, KeepsWhatItFinds
<1> PICK p \in Process :
      \/ Start(p) \/ RefuseLegacy(p) \/ Connect(p) \/ ReadTables(p)
      \/ CreateTables(p) \/ CreateFails(p) \/ CommitSchema(p) \/ CheckVersion(p)
      \/ ReadPolicy(p) \/ NoPolicy(p) \/ InsertPolicy(p) \/ InsertFails(p)
      \/ Close(p) \/ Die(p)
  BY DEF Next
<1>1. CASE Connect(p)
  <2>1. ~IsStore => exists
    BY <1>1 DEF Connect, Legacy, Inductive, TypeOK, IsStore
  <2> QED
    BY <1>1, <2>1 DEF Connect, root, KeepsWhatItFinds, Inductive, TypeOK
<1>2. CASE CommitSchema(p)
  <2>1. tables = "none" /\ exists /\ stored = None
    BY <1>2, ProcessAssumption
    DEF CommitSchema, Inductive, TypeOK, Known, Opening
  <2> QED
    BY <1>2, <2>1 DEF CommitSchema, KeepsWhatItFinds, Inductive, IsStore
<1>3. CASE InsertPolicy(p)
  <2>1. ours /\ stored = None
    BY <1>3 DEF InsertPolicy, MayInsert, Inductive, Known, IsStore
  <2> QED
    BY <1>3, <2>1 DEF InsertPolicy, KeepsWhatItFinds
<1>4. CASE ~(Connect(p) \/ CommitSchema(p) \/ InsertPolicy(p))
  BY <1>4 DEF KeepsWhatItFinds, root, Start, RefuseLegacy, ReadTables,
     CreateTables, CreateFails, CheckVersion, ReadPolicy, NoPolicy, InsertFails,
     Close, Die, Left
<1> QED
  BY <1>1, <1>2, <1>3, <1>4

\* What a root holds already is never replaced, and a refused one is untouched.
THEOREM RootsKept == Spec => FoundIsKept
BY AlwaysInductive, StepKeeps, PTL DEF Spec, FoundIsKept
=============================================================================
