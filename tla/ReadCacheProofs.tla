-------------------------- MODULE ReadCacheProofs --------------------------
(***************************************************************************)
(* Theorems of ReadCache, for any processes, threads and artifacts. The    *)
(* inductive invariant says who may work where: a thread in a read belongs *)
(* to a store that is open or closing, and a process that never forked has *)
(* its session, its directories and its paths under its own pid. A second  *)
(* layer says what a store that never forked finds on disk while it works  *)
(* (Settled), and what it leaves there once it has closed (Tidy).          *)
(***************************************************************************)
EXTENDS ReadCache, TLAPS

Active == {"open", "wiping", "rmdir", "rmparent", "unmanaged", "closed"}
Within == {"mkcache", "mksession", "recache", "resession", "look", "fetch", "mknode",
           "write", "replace"}

\* Where a read may be, and what its locals then hold.
Busy == \A t \in Thread :
    /\ pc[t] \notin {"idle", "failed"} => mode[t[1]] \in Active /\ want[t] \in Artifact
    /\ pc[t] \in Within => dir[t] \in Session
    /\ pc[t] = "idle" => dir[t] = None
    /\ mode[t[1]] = "new" => pc[t] = "idle"

\* Whose sessions the processes and the threads work in.
Owned ==
    /\ \A p \in Process :
        /\ mode[p] = "new" => root[p] = None /\ deceased[p] = {} /\ p \notin forked
        /\ root[p] # None /\ p \notin forked => root[p][1] = p
        /\ root[p] # None /\ p \in forked => root[p][1] \in forked
    /\ \A t \in Thread :
        /\ dir[t] # None /\ t[1] \notin forked => dir[t][1] = t[1]
        /\ dir[t] # None /\ t[1] \in forked => dir[t][1] \in forked

\* What holds of the paths that were given out.
Held(r) ==
    /\ mode[r[1]] = "open"
    /\ r[1] \notin forked => r[2][1] = r[1] /\ <<r[2], r[3]>> \in files

Given == \A r \in returned : Held(r)

\* What an opening store has still to sweep.
Swept == \A p \in Process :
    /\ \A q \in deceased[p] : mode[q] = "dead"
    /\ \A s \in dirs : s[1] \in deceased[p] /\ s[1] \notin forked =>
        /\ mode[p] = "sweeping" => s \in todo[p]
        /\ mode[p] # "open"

Inductive == TypeOK /\ Busy /\ Owned /\ Given /\ Swept

LEMMA InitInductive == Init => Inductive
<1> SUFFICES ASSUME Init PROVE Inductive
  OBVIOUS
<1> USE DEF Init
<1>1. TypeOK
  BY DEF TypeOK, Mode, Control
<1>2. Busy /\ Owned /\ Given /\ Swept
  BY DEF Busy, Owned, Given, Swept, Active, Within
<1> QED
  BY <1>1, <1>2 DEF Inductive

LEMMA NextInductive == Inductive /\ [Next]_vars => Inductive'
<1> SUFFICES ASSUME Inductive, [Next]_vars PROVE Inductive'
  OBVIOUS
<1>0. TypeOK /\ Busy /\ Owned /\ Given /\ Swept
  BY DEF Inductive
<1>a. /\ \A t \in Thread : t[1] \in Process
      /\ None \notin Session /\ None \notin Artifact
  BY ThreadAssumption, NoneAssumption DEF Session
<1>1. ASSUME NEW t \in Thread, Ask(t) PROVE Inductive'
  <2> USE <1>0, <1>a, <1>1 DEF Ask, disk, process
  <2>1. TypeOK'
    BY DEF TypeOK, Busy, Mode, Control, Session, Within, Making
  <2>2. Busy'
    BY DEF TypeOK, Busy, Owned, Active, Within, Making
  <2>3. Owned'
    BY DEF TypeOK, Busy, Owned, Active, Within, Making
  <2>4. Given'
    BY DEF TypeOK, Busy, Owned, Given, Held, Active, Within
  <2>5. Swept'
    BY DEF TypeOK, Busy, Owned, Swept, Active, Within
  <2> QED
    BY <2>1, <2>2, <2>3, <2>4, <2>5 DEF Inductive
<1>2. ASSUME NEW t \in Thread, CheckRoot(t) PROVE Inductive'
  <2> USE <1>0, <1>a, <1>2 DEF CheckRoot, At, disk, process, history
  <2>1. TypeOK'
    BY DEF TypeOK, Busy, Mode, Control, Session, Within, Making
  <2>2. Busy'
    BY DEF TypeOK, Busy, Owned, Active, Within, Making
  <2>3. Owned'
    BY DEF TypeOK, Busy, Owned, Active, Within, Making
  <2>4. Given'
    BY DEF TypeOK, Busy, Owned, Given, Held, Active, Within
  <2>5. Swept'
    BY DEF TypeOK, Busy, Owned, Swept, Active, Within
  <2> QED
    BY <2>1, <2>2, <2>3, <2>4, <2>5 DEF Inductive
<1>3. ASSUME NEW t \in Thread, Name(t) PROVE Inductive'
  <2> USE <1>0, <1>a, <1>3 DEF Name, At, disk
  <2>1. TypeOK'
    BY DEF TypeOK, Busy, Mode, Control, Session, Within, Making
  <2>2. Busy'
    BY DEF TypeOK, Busy, Owned, Active, Within, Making
  <2>3. Owned'
    BY DEF TypeOK, Busy, Owned, Active, Within, Making
  <2>4. Given'
    BY DEF TypeOK, Busy, Owned, Given, Held, Active, Within
  <2>5. Swept'
    BY DEF TypeOK, Busy, Owned, Swept, Active, Within
  <2> QED
    BY <2>1, <2>2, <2>3, <2>4, <2>5 DEF Inductive
<1>4. ASSUME NEW t \in Thread, MkSession(t) PROVE Inductive'
  <2> USE <1>0, <1>a, <1>4 DEF MkSession, MakeDir, At, process, history
  <2>1. TypeOK'
    BY SMTT(30) DEF TypeOK, Busy, Mode, Control, Session, Within, Making
  <2>2. Busy'
    BY DEF TypeOK, Busy, Owned, Active, Within, Making
  <2>3. Owned'
    BY DEF TypeOK, Busy, Owned, Active, Within, Making
  <2>4. Given'
    BY DEF TypeOK, Busy, Owned, Given, Held, Active, Within
  <2>5. Swept'
    BY DEF TypeOK, Busy, Owned, Swept, Active, Within
  <2> QED
    BY <2>1, <2>2, <2>3, <2>4, <2>5 DEF Inductive
<1>5. ASSUME NEW t \in Thread, MkNode(t) PROVE Inductive'
  <2> USE <1>0, <1>a, <1>5 DEF MkNode, MakeDir, At, process, history
  <2>1. TypeOK'
    <3>1. dir[t] \in Session /\ pc' \in [Thread -> Control]
      BY DEF Busy, Within, TypeOK, Control, Making
    <3>2. dirs' \subseteq (IF cache THEN Session ELSE {}) /\ dirs \subseteq dirs'
      BY <3>1 DEF TypeOK
    <3>3. dir' \in [Thread -> Session \union {None}]
      BY <3>1 DEF TypeOK
    <3> QED
      BY <3>1, <3>2, <3>3 DEF TypeOK
  <2>2. Busy'
    BY DEF TypeOK, Busy, Owned, Active, Within, Making
  <2>3. Owned'
    BY DEF TypeOK, Busy, Owned, Active, Within, Making
  <2>4. Given'
    BY DEF TypeOK, Busy, Owned, Given, Held, Active, Within
  <2>5. Swept'
    BY DEF TypeOK, Busy, Owned, Swept, Active, Within
  <2> QED
    BY <2>1, <2>2, <2>3, <2>4, <2>5 DEF Inductive
<1>6. ASSUME NEW t \in Thread, MkCache(t) PROVE Inductive'
  <2> USE <1>0, <1>a, <1>6 DEF MkCache, MakeParent, At, process, history
  <2>1. TypeOK'
    BY DEF TypeOK, Busy, Mode, Control, Session, Within, Making
  <2>2. Busy'
    BY DEF TypeOK, Busy, Owned, Active, Within, Making
  <2>3. Owned'
    BY DEF TypeOK, Busy, Owned, Active, Within, Making
  <2>4. Given'
    BY DEF TypeOK, Busy, Owned, Given, Held, Active, Within
  <2>5. Swept'
    BY DEF TypeOK, Busy, Owned, Swept, Active, Within
  <2> QED
    BY <2>1, <2>2, <2>3, <2>4, <2>5 DEF Inductive
<1>7. ASSUME NEW t \in Thread, MkAgain(t) PROVE Inductive'
  <2> USE <1>0, <1>a, <1>7 DEF MkAgain, MakeAgain, At, process, history
  <2>1. TypeOK'
    BY DEF TypeOK, Busy, Mode, Control, Session, Within, Making
  <2>2. Busy'
    BY DEF TypeOK, Busy, Owned, Active, Within, Making
  <2>3. Owned'
    BY DEF TypeOK, Busy, Owned, Active, Within, Making
  <2>4. Given'
    BY DEF TypeOK, Busy, Owned, Given, Held, Active, Within
  <2>5. Swept'
    BY DEF TypeOK, Busy, Owned, Swept, Active, Within
  <2> QED
    BY <2>1, <2>2, <2>3, <2>4, <2>5 DEF Inductive
<1>8. ASSUME NEW t \in Thread, Take(t) PROVE Inductive'
  <2> USE <1>0, <1>a, <1>8 DEF Take, At, disk, process, history
  <2>1. TypeOK'
    BY DEF TypeOK, Busy, Mode, Control, Session, Within, Making
  <2>2. Busy'
    BY DEF TypeOK, Busy, Owned, Active, Within, Making
  <2>3. Owned'
    BY DEF TypeOK, Busy, Owned, Active, Within, Making
  <2>4. Given'
    BY DEF TypeOK, Busy, Owned, Given, Held, Active, Within
  <2>5. Swept'
    BY DEF TypeOK, Busy, Owned, Swept, Active, Within
  <2> QED
    BY <2>1, <2>2, <2>3, <2>4, <2>5 DEF Inductive
<1>9. ASSUME NEW t \in Thread, Hit(t) PROVE Inductive'
  <2> USE <1>0, <1>a, <1>9 DEF Hit, Return, Finished, disk, process
  <2>1. TypeOK'
    BY DEF TypeOK, Busy, Mode, Control, Session, Within, Making
  <2>2. Busy'
    BY DEF TypeOK, Busy, Owned, Active, Within, Making
  <2>3. Owned'
    BY DEF TypeOK, Busy, Owned, Active, Within, Making
  <2>4. Given'
    <3> SUFFICES ASSUME NEW r \in returned' PROVE Held(r)'
      BY DEF Given
    <3>1. CASE r \in returned
      <4>1. r[1] \in Process /\ r[2] \in Session /\ r[3] \in Artifact /\ Held(r)
        BY <3>1 DEF TypeOK, Given
      <4> QED
        BY <4>1 DEF Held, TypeOK, Session
    <3>2. CASE r \notin returned
      <4>1. r = <<t[1], dir[t], want[t]>> /\ mode[t[1]] = "open"
        BY <3>2
      <4>2. dir[t] \in Session
        BY DEF Busy, Within
      <4> QED
        BY <4>1, <4>2 DEF Held, Owned
    <3> QED
      BY <3>1, <3>2
  <2>5. Swept'
    BY DEF TypeOK, Busy, Owned, Swept, Active, Within
  <2> QED
    BY <2>1, <2>2, <2>3, <2>4, <2>5 DEF Inductive
<1>10. ASSUME NEW t \in Thread, Miss(t) PROVE Inductive'
  <2> USE <1>0, <1>a, <1>10 DEF Miss, At, disk, process, history
  <2>1. TypeOK'
    BY DEF TypeOK, Busy, Mode, Control, Session, Within, Making
  <2>2. Busy'
    BY DEF TypeOK, Busy, Owned, Active, Within, Making
  <2>3. Owned'
    BY DEF TypeOK, Busy, Owned, Active, Within, Making
  <2>4. Given'
    BY DEF TypeOK, Busy, Owned, Given, Held, Active, Within
  <2>5. Swept'
    BY DEF TypeOK, Busy, Owned, Swept, Active, Within
  <2> QED
    BY <2>1, <2>2, <2>3, <2>4, <2>5 DEF Inductive
<1>11. ASSUME NEW t \in Thread, Fetch(t) PROVE Inductive'
  <2> USE <1>0, <1>a, <1>11 DEF Fetch, At, disk, process, history
  <2>1. TypeOK'
    BY DEF TypeOK, Busy, Mode, Control, Session, Within, Making
  <2>2. Busy'
    BY DEF TypeOK, Busy, Owned, Active, Within, Making
  <2>3. Owned'
    BY DEF TypeOK, Busy, Owned, Active, Within, Making
  <2>4. Given'
    BY DEF TypeOK, Busy, Owned, Given, Held, Active, Within
  <2>5. Swept'
    BY DEF TypeOK, Busy, Owned, Swept, Active, Within
  <2> QED
    BY <2>1, <2>2, <2>3, <2>4, <2>5 DEF Inductive
<1>12. ASSUME NEW t \in Thread, Write(t) PROVE Inductive'
  <2> USE <1>0, <1>a, <1>12 DEF Write, At, Temp, process, history
  <2>1. TypeOK'
    BY DEF TypeOK, Busy, Mode, Control, Session, Within, Making
  <2>2. Busy'
    BY DEF TypeOK, Busy, Owned, Active, Within, Making
  <2>3. Owned'
    BY DEF TypeOK, Busy, Owned, Active, Within, Making
  <2>4. Given'
    BY DEF TypeOK, Busy, Owned, Given, Held, Active, Within
  <2>5. Swept'
    BY DEF TypeOK, Busy, Owned, Swept, Active, Within
  <2> QED
    BY <2>1, <2>2, <2>3, <2>4, <2>5 DEF Inductive
<1>13. ASSUME NEW t \in Thread, Replace(t) PROVE Inductive'
  <2> USE <1>0, <1>a, <1>13 DEF Replace, Return, Temp, process
  <2>1. TypeOK'
    BY DEF TypeOK, Busy, Mode, Control, Session, Within, Making
  <2>2. Busy'
    BY DEF TypeOK, Busy, Owned, Active, Within, Making
  <2>3. Owned'
    BY DEF TypeOK, Busy, Owned, Active, Within, Making
  <2>4. Given'
    <3> SUFFICES ASSUME NEW r \in returned' PROVE Held(r)'
      BY DEF Given
    <3>1. CASE r \in returned
      <4>1. r[1] \in Process /\ r[2] \in Session /\ r[3] \in Artifact /\ Held(r)
        BY <3>1 DEF TypeOK, Given
      <4>2. <<r[2], r[3]>> # <<dir[t], <<want[t], t>>>>
        BY <4>1, NameAssumption DEF Busy
      <4> QED
        BY <4>1, <4>2 DEF Held, TypeOK, Session
    <3>2. CASE r \notin returned
      <4>1. r = <<t[1], dir[t], want[t]>> /\ mode[t[1]] = "open"
        BY <3>2
      <4>2. dir[t] \in Session
        BY DEF Busy, Within
      <4> QED
        BY <4>1, <4>2 DEF Held, Owned
    <3> QED
      BY <3>1, <3>2
  <2>5. Swept'
    BY DEF TypeOK, Busy, Owned, Swept, Active, Within
  <2> QED
    BY <2>1, <2>2, <2>3, <2>4, <2>5 DEF Inductive
<1>14. ASSUME NEW t \in Thread, Fail(t) PROVE Inductive'
  <2> USE <1>0, <1>a, <1>14 DEF Fail, disk, process, history
  <2>1. TypeOK'
    BY DEF TypeOK, Busy, Mode, Control, Session, Within, Making
  <2>2. Busy'
    BY DEF TypeOK, Busy, Owned, Active, Within, Making
  <2>3. Owned'
    BY DEF TypeOK, Busy, Owned, Active, Within, Making
  <2>4. Given'
    BY DEF TypeOK, Busy, Owned, Given, Held, Active, Within
  <2>5. Swept'
    BY DEF TypeOK, Busy, Owned, Swept, Active, Within
  <2> QED
    BY <2>1, <2>2, <2>3, <2>4, <2>5 DEF Inductive
<1>15. ASSUME NEW p \in Process, LookForCache(p) PROVE Inductive'
  <2> USE <1>0, <1>a, <1>15 DEF LookForCache, Become, disk, thread
  <2>1. TypeOK'
    BY DEF TypeOK, Busy, Mode, Control, Session, Within, Making
  <2>2. Busy'
    BY DEF TypeOK, Busy, Owned, Active, Within, Making
  <2>3. Owned'
    BY DEF TypeOK, Busy, Owned, Active, Within, Making
  <2>4. Given'
    <3> SUFFICES ASSUME NEW r \in returned' PROVE Held(r)'
      BY DEF Given
    <3>1. r \in returned /\ r[1] \in Process /\ r[2] \in Session /\ r[3] \in Artifact
      BY DEF TypeOK
    <3>2. Held(r)
      BY <3>1 DEF Given
    <3> QED
      BY <3>1, <3>2 DEF Held, TypeOK, Owned, Session
  <2>5. Swept'
    BY DEF TypeOK, Busy, Owned, Swept, Active, Within
  <2> QED
    BY <2>1, <2>2, <2>3, <2>4, <2>5 DEF Inductive
<1>16. ASSUME NEW p \in Process, List(p) PROVE Inductive'
  <2> USE <1>0, <1>a, <1>16 DEF List, Become, disk, thread, history
  <2>1. TypeOK'
    BY DEF TypeOK, Busy, Mode, Control, Session, Within, Making
  <2>2. Busy'
    BY DEF TypeOK, Busy, Owned, Active, Within, Making
  <2>3. Owned'
    BY DEF TypeOK, Busy, Owned, Active, Within, Making
  <2>4. Given'
    <3> SUFFICES ASSUME NEW r \in returned' PROVE Held(r)'
      BY DEF Given
    <3>1. r \in returned /\ r[1] \in Process /\ r[2] \in Session /\ r[3] \in Artifact
      BY DEF TypeOK
    <3>2. Held(r)
      BY <3>1 DEF Given
    <3> QED
      BY <3>1, <3>2 DEF Held, TypeOK, Owned, Session
  <2>5. Swept'
    BY DEF TypeOK, Busy, Owned, Swept, Active, Within
  <2> QED
    BY <2>1, <2>2, <2>3, <2>4, <2>5 DEF Inductive
<1>17. ASSUME NEW p \in Process, Reap(p) PROVE Inductive'
  <2> USE <1>0, <1>a, <1>17 DEF Reap, Stale, Alive, thread, history
  <2>1. TypeOK'
    BY DEF TypeOK, Busy, Mode, Control, Session, Within, Making
  <2>2. Busy'
    BY DEF TypeOK, Busy, Owned, Active, Within, Making
  <2>3. Owned'
    BY DEF TypeOK, Busy, Owned, Active, Within, Making
  <2>4. Given'
    <3> SUFFICES ASSUME NEW r \in returned' PROVE Held(r)'
      BY DEF Given
    <3>1. r \in returned /\ r[1] \in Process /\ r[2] \in Session /\ r[3] \in Artifact
      BY DEF TypeOK
    <3>2. Held(r)
      BY <3>1 DEF Given
    <3> QED
      BY <3>1, <3>2 DEF Held, TypeOK, Owned, Session
  <2>5. Swept'
    BY DEF TypeOK, Busy, Owned, Swept, Active, Within
  <2> QED
    BY <2>1, <2>2, <2>3, <2>4, <2>5 DEF Inductive
<1>18. ASSUME NEW p \in Process, Opened(p) PROVE Inductive'
  <2> USE <1>0, <1>a, <1>18 DEF Opened, Become, disk, thread, history
  <2>1. TypeOK'
    BY DEF TypeOK, Busy, Mode, Control, Session, Within, Making
  <2>2. Busy'
    BY DEF TypeOK, Busy, Owned, Active, Within, Making
  <2>3. Owned'
    BY DEF TypeOK, Busy, Owned, Active, Within, Making
  <2>4. Given'
    <3> SUFFICES ASSUME NEW r \in returned' PROVE Held(r)'
      BY DEF Given
    <3>1. r \in returned /\ r[1] \in Process /\ r[2] \in Session /\ r[3] \in Artifact
      BY DEF TypeOK
    <3>2. Held(r)
      BY <3>1 DEF Given
    <3> QED
      BY <3>1, <3>2 DEF Held, TypeOK, Owned, Session
  <2>5. Swept'
    BY DEF TypeOK, Busy, Owned, Swept, Active, Within
  <2> QED
    BY <2>1, <2>2, <2>3, <2>4, <2>5 DEF Inductive
<1>19. ASSUME NEW p \in Process, Close(p) PROVE Inductive'
  <2> USE <1>0, <1>a, <1>19 DEF Close, Become, Reading, disk, thread
  <2>1. TypeOK'
    BY DEF TypeOK, Busy, Mode, Control, Session, Within, Making
  <2>2. Busy'
    BY DEF TypeOK, Busy, Owned, Active, Within, Making
  <2>3. Owned'
    BY DEF TypeOK, Busy, Owned, Active, Within, Making
  <2>4. Given'
    <3> SUFFICES ASSUME NEW r \in returned' PROVE Held(r)'
      BY DEF Given
    <3>1. r \in returned /\ r[1] \in Process /\ r[2] \in Session /\ r[3] \in Artifact
      BY DEF TypeOK
    <3>2. Held(r)
      BY <3>1 DEF Given
    <3> QED
      BY <3>1, <3>2 DEF Held, TypeOK, Owned, Session
  <2>5. Swept'
    BY DEF TypeOK, Busy, Owned, Swept, Active, Within
  <2> QED
    BY <2>1, <2>2, <2>3, <2>4, <2>5 DEF Inductive
<1>20. ASSUME NEW p \in Process, WipeFiles(p) PROVE Inductive'
  <2> USE <1>0, <1>a, <1>20 DEF WipeFiles, Become, Found, thread, history
  <2>1. TypeOK'
    BY DEF TypeOK, Busy, Mode, Control, Session, Within, Making
  <2>2. Busy'
    BY DEF TypeOK, Busy, Owned, Active, Within, Making
  <2>3. Owned'
    BY DEF TypeOK, Busy, Owned, Active, Within, Making
  <2>4. Given'
    <3> SUFFICES ASSUME NEW r \in returned' PROVE Held(r)'
      BY DEF Given
    <3>1. r \in returned /\ r[1] \in Process /\ r[2] \in Session /\ r[3] \in Artifact
      BY DEF TypeOK
    <3>2. Held(r)
      BY <3>1 DEF Given
    <3> QED
      BY <3>1, <3>2 DEF Held, TypeOK, Owned, Session
  <2>5. Swept'
    BY DEF TypeOK, Busy, Owned, Swept, Active, Within
  <2> QED
    BY <2>1, <2>2, <2>3, <2>4, <2>5 DEF Inductive
<1>21. ASSUME NEW p \in Process, RemoveDir(p) PROVE Inductive'
  <2> USE <1>0, <1>a, <1>21 DEF RemoveDir, Become, thread, history
  <2>1. TypeOK'
    BY DEF TypeOK, Busy, Mode, Control, Session, Within, Making
  <2>2. Busy'
    BY DEF TypeOK, Busy, Owned, Active, Within, Making
  <2>3. Owned'
    BY DEF TypeOK, Busy, Owned, Active, Within, Making
  <2>4. Given'
    <3> SUFFICES ASSUME NEW r \in returned' PROVE Held(r)'
      BY DEF Given
    <3>1. r \in returned /\ r[1] \in Process /\ r[2] \in Session /\ r[3] \in Artifact
      BY DEF TypeOK
    <3>2. Held(r)
      BY <3>1 DEF Given
    <3> QED
      BY <3>1, <3>2 DEF Held, TypeOK, Owned, Session
  <2>5. Swept'
    BY DEF TypeOK, Busy, Owned, Swept, Active, Within
  <2> QED
    BY <2>1, <2>2, <2>3, <2>4, <2>5 DEF Inductive
<1>22. ASSUME NEW p \in Process, RemoveParent(p) PROVE Inductive'
  <2> USE <1>0, <1>a, <1>22 DEF RemoveParent, Become, Vacant, thread
  <2>1. TypeOK'
    BY DEF TypeOK, Busy, Mode, Control, Session, Within, Making
  <2>2. Busy'
    BY DEF TypeOK, Busy, Owned, Active, Within, Making
  <2>3. Owned'
    BY DEF TypeOK, Busy, Owned, Active, Within, Making
  <2>4. Given'
    <3> SUFFICES ASSUME NEW r \in returned' PROVE Held(r)'
      BY DEF Given
    <3>1. r \in returned /\ r[1] \in Process /\ r[2] \in Session /\ r[3] \in Artifact
      BY DEF TypeOK
    <3>2. Held(r)
      BY <3>1 DEF Given
    <3> QED
      BY <3>1, <3>2 DEF Held, TypeOK, Owned, Session
  <2>5. Swept'
    BY DEF TypeOK, Busy, Owned, Swept, Active, Within
  <2> QED
    BY <2>1, <2>2, <2>3, <2>4, <2>5 DEF Inductive
<1>23. ASSUME NEW p \in Process, CloseManager(p) PROVE Inductive'
  <2> USE <1>0, <1>a, <1>23 DEF CloseManager, Become, disk, thread, history
  <2>1. TypeOK'
    BY DEF TypeOK, Busy, Mode, Control, Session, Within, Making
  <2>2. Busy'
    BY DEF TypeOK, Busy, Owned, Active, Within, Making
  <2>3. Owned'
    BY DEF TypeOK, Busy, Owned, Active, Within, Making
  <2>4. Given'
    <3> SUFFICES ASSUME NEW r \in returned' PROVE Held(r)'
      BY DEF Given
    <3>1. r \in returned /\ r[1] \in Process /\ r[2] \in Session /\ r[3] \in Artifact
      BY DEF TypeOK
    <3>2. Held(r)
      BY <3>1 DEF Given
    <3> QED
      BY <3>1, <3>2 DEF Held, TypeOK, Owned, Session
  <2>5. Swept'
    BY DEF TypeOK, Busy, Owned, Swept, Active, Within
  <2> QED
    BY <2>1, <2>2, <2>3, <2>4, <2>5 DEF Inductive
<1>24. ASSUME NEW p \in Process, Exit(p) PROVE Inductive'
  <2> USE <1>0, <1>a, <1>24 DEF Exit, Become, Reading, disk, thread, history
  <2>1. TypeOK'
    BY DEF TypeOK, Busy, Mode, Control, Session, Within, Making
  <2>2. Busy'
    BY DEF TypeOK, Busy, Owned, Active, Within, Making
  <2>3. Owned'
    BY DEF TypeOK, Busy, Owned, Active, Within, Making
  <2>4. Given'
    <3> SUFFICES ASSUME NEW r \in returned' PROVE Held(r)'
      BY DEF Given
    <3>1. r \in returned /\ r[1] \in Process /\ r[2] \in Session /\ r[3] \in Artifact
      BY DEF TypeOK
    <3>2. Held(r)
      BY <3>1 DEF Given
    <3> QED
      BY <3>1, <3>2 DEF Held, TypeOK, Owned, Session
  <2>5. Swept'
    BY DEF TypeOK, Busy, Owned, Swept, Active, Within
  <2> QED
    BY <2>1, <2>2, <2>3, <2>4, <2>5 DEF Inductive
<1>25. ASSUME NEW p \in Process, Kill(p) PROVE Inductive'
  <2> USE <1>0, <1>a, <1>25 DEF Kill, Alive, disk
  <2>1. TypeOK'
    BY DEF TypeOK, Busy, Mode, Control, Session, Within, Making
  <2>2. Busy'
    BY DEF TypeOK, Busy, Owned, Active, Within, Making
  <2>3. Owned'
    BY DEF TypeOK, Busy, Owned, Active, Within, Making
  <2>4. Given'
    <3> SUFFICES ASSUME NEW r \in returned' PROVE Held(r)'
      BY DEF Given
    <3>1. r \in returned /\ r[1] \in Process /\ r[2] \in Session /\ r[3] \in Artifact
      BY DEF TypeOK
    <3>2. Held(r)
      BY <3>1 DEF Given
    <3> QED
      BY <3>1, <3>2 DEF Held, TypeOK, Owned, Session
  <2>5. Swept'
    BY DEF TypeOK, Busy, Owned, Swept, Active, Within
  <2> QED
    BY <2>1, <2>2, <2>3, <2>4, <2>5 DEF Inductive
<1>26. ASSUME NEW p \in Process, NEW q \in Process, Fork(p, q) PROVE Inductive'
  <2> USE <1>0, <1>a, <1>26 DEF Fork, disk, thread
  <2>1. TypeOK'
    BY DEF TypeOK, Busy, Mode, Control, Session, Within, Making
  <2>2. Busy'
    BY DEF TypeOK, Busy, Owned, Active, Within, Making
  <2>3. Owned'
    BY DEF TypeOK, Busy, Owned, Active, Within, Making
  <2>4. Given'
    <3> SUFFICES ASSUME NEW r \in returned' PROVE Held(r)'
      BY DEF Given
    <3>1. r \in returned /\ r[1] \in Process /\ r[2] \in Session /\ r[3] \in Artifact
      BY DEF TypeOK
    <3>2. Held(r)
      BY <3>1 DEF Given
    <3> QED
      BY <3>1, <3>2 DEF Held, TypeOK, Owned, Session
  <2>5. Swept'
    BY DEF TypeOK, Busy, Owned, Swept, Active, Within
  <2> QED
    BY <2>1, <2>2, <2>3, <2>4, <2>5 DEF Inductive
<1>27. ASSUME NEW a \in Artifact, Prune(a) PROVE Inductive'
  <2> USE <1>0, <1>a, <1>27 DEF Prune, process, thread, history
  <2>1. TypeOK'
    BY DEF TypeOK, Busy, Mode, Control, Session, Within, Making
  <2>2. Busy'
    BY DEF TypeOK, Busy, Owned, Active, Within, Making
  <2>3. Owned'
    BY DEF TypeOK, Busy, Owned, Active, Within, Making
  <2>4. Given'
    BY DEF TypeOK, Busy, Owned, Given, Held, Active, Within
  <2>5. Swept'
    BY DEF TypeOK, Busy, Owned, Swept, Active, Within
  <2> QED
    BY <2>1, <2>2, <2>3, <2>4, <2>5 DEF Inductive
<1>28. ASSUME UNCHANGED vars PROVE Inductive'
  BY <1>0, <1>28 DEF vars, disk, process, thread, history, Inductive, TypeOK, Busy, Owned,
     Given, Held, Swept
<1> QED
  BY <1>1, <1>2, <1>3, <1>4, <1>5, <1>6, <1>7, <1>8, <1>9, <1>10, <1>11,
     <1>12, <1>13, <1>14, <1>15, <1>16, <1>17, <1>18, <1>19, <1>20, <1>21,
     <1>22, <1>23, <1>24, <1>25, <1>26, <1>27, <1>28 DEF Next

LEMMA AlwaysInductive == Spec => []Inductive
BY InitInductive, NextInductive, PTL DEF Spec

\* Every variable keeps its type, and every copy its place on the disk.
THEOREM CacheTypeCorrect == Spec => []TypeOK
<1>1. Inductive => TypeOK
  BY DEF Inductive
<1> QED
  BY <1>1, AlwaysInductive, PTL

\* No session, sweep or thread takes away a path an open store gave out.
THEOREM PathsStayReadable == Spec => []PathsReadable
<1>1. Inductive => PathsReadable
  BY DEF Inductive, Given, Held, PathsReadable
<1> QED
  BY <1>1, AlwaysInductive, PTL

\* Opening a store clears the sessions of the dead.
THEOREM SweepCleans == Spec => []SweptClean
<1>1. Inductive => SweptClean
  BY DEF Inductive, Swept, SweptClean
<1> QED
  BY <1>1, AlwaysInductive, PTL

-----------------------------------------------------------------------------
(* What a read stands on. Each part names the histories that undo it.      *)

\* A store whose threads read is open, unless it was closed under them.
Quiet == \A t \in Thread :
    pc[t] \notin {"idle", "failed"} /\ t[1] \notin late => mode[t[1]] = "open"

\* Past "name" the process has a session.
Rooted == \A t \in Thread :
    pc[t] \notin {"idle", "failed", "check", "name"} /\ t[1] \notin late => root[t[1]] # None

\* Between the parent and the directory only the end of a session takes .cache.
Roofed == \A t \in Thread :
    pc[t] \in {"mksession", "resession"} /\ t \notin undercut => cache

\* The directory and the temporary file are where the thread left them.
Placed == \A t \in Thread : t[1] \notin late \union forked =>
    /\ pc[t] \in {"write", "replace"} => dir[t] \in dirs
    /\ pc[t] = "replace" => <<dir[t], Temp(t)>> \in files

\* What a session leaves: the parts that need its one beginning.
Plain(p) == p \notin doubled \union late \union forked

\* The session is named once, and every thread works in it.
Lone == \A t \in Thread :
    /\ pc[t] = "failed" => dir[t] = None
    /\ Plain(t[1]) =>
        /\ pc[t] = "name" => root[t[1]] = None
        /\ dir[t] # None => dir[t] = root[t[1]]

\* Its directory is there from the first read to rmdir, or for good after a kill.
Home == \A s \in dirs : Plain(s[1]) =>
    \/ mode[s[1]] = "dead"
    \/ mode[s[1]] \in {"open", "wiping", "rmdir"} /\ root[s[1]] = s

\* Nobody writes into it between the two halves of rmtree.
Wiped == \A p \in Process :
    mode[p] = "rmdir" /\ Plain(p) => \A f \in files : f[1] # root[p]

Settled == Quiet /\ Rooted /\ Roofed /\ Placed /\ FailsOnlyIf
Tidy == Lone /\ Home /\ Wiped

LEMMA InitSettled == Init => Settled /\ Tidy
BY DEF Init, Settled, Tidy, Quiet, Rooted, Roofed, Placed, FailsOnlyIf, Lone, Home, Wiped, Plain

LEMMA NextSettled == Inductive /\ Settled /\ Tidy /\ [Next]_vars => (Settled /\ Tidy)'
<1> SUFFICES ASSUME Inductive, Settled, Tidy, [Next]_vars PROVE (Settled /\ Tidy)'
  OBVIOUS
<1>0. /\ TypeOK /\ Busy /\ Owned
      /\ Quiet /\ Rooted /\ Roofed /\ Placed /\ FailsOnlyIf
      /\ Lone /\ Home /\ Wiped
  BY DEF Inductive, Settled, Tidy
<1>a. /\ \A t \in Thread : t[1] \in Process
      /\ None \notin Session /\ None \notin Artifact
  BY ThreadAssumption, NoneAssumption DEF Session
<1>1. ASSUME NEW t \in Thread, Ask(t) PROVE (Settled /\ Tidy)'
  <2> USE <1>0, <1>a, <1>1 DEF Ask, disk, process
  <2>1. Quiet' /\ Rooted' /\ Roofed' /\ Placed' /\ Lone' /\ Home' /\ Wiped'
    BY DEF Quiet, Rooted, Roofed, Placed, Temp, Lone, Plain, Home, Wiped
  <2>2. FailsOnlyIf'
    BY DEF TypeOK, Busy, FailsOnlyIf, Quiet, Rooted, Roofed, Placed, Making
  <2> QED
    BY <2>1, <2>2 DEF Settled, Tidy
<1>2. ASSUME NEW t \in Thread, CheckRoot(t) PROVE (Settled /\ Tidy)'
  <2> USE <1>0, <1>a, <1>2 DEF CheckRoot, At, disk, process, history
  <2>1. Quiet' /\ Rooted' /\ Roofed' /\ Placed' /\ FailsOnlyIf' /\ Lone' /\ Home' /\ Wiped'
    BY DEF Quiet, Rooted, Roofed, Placed, Temp, FailsOnlyIf, Lone, Plain, Home, Wiped
  <2> QED
    BY <2>1 DEF Settled, Tidy
<1>3. ASSUME NEW t \in Thread, Name(t) PROVE (Settled /\ Tidy)'
  <2> USE <1>0, <1>a, <1>3 DEF Name, At, disk
  <2>1. Quiet' /\ Roofed' /\ Placed' /\ FailsOnlyIf'
    BY DEF Quiet, Roofed, Placed, Temp, FailsOnlyIf
  <2>2. Rooted'
    <3>1. <<t[1], named[t[1]] + 1>> \in Session
      BY DEF TypeOK, Session
    <3> QED
      BY <3>1 DEF TypeOK, Rooted
  <2>3. Lone'
    BY DEF TypeOK, Busy, Lone, Quiet, Rooted, Plain, Making
  <2>4. Home'
    BY DEF TypeOK, Busy, Home, Lone, Quiet, Owned, Plain, Making, Active
  <2>5. Wiped'
    BY DEF TypeOK, Busy, Wiped, Lone, Quiet, Owned, Plain, Making, Session
  <2> QED
    BY <2>1, <2>2, <2>3, <2>4, <2>5 DEF Settled, Tidy
<1>4. ASSUME NEW t \in Thread, MkSession(t) PROVE (Settled /\ Tidy)'
  <2> USE <1>0, <1>a, <1>4 DEF MkSession, MakeDir, At, process, history
  <2>1. Wiped'
    BY DEF Wiped, Plain
  <2>2. Quiet'
    BY DEF TypeOK, Busy, Quiet
  <2>3. Rooted'
    BY DEF TypeOK, Busy, Rooted, Quiet, Making
  <2>4. Roofed'
    BY DEF TypeOK, Busy, Roofed, Making
  <2>5. Placed'
    BY DEF TypeOK, Busy, Placed, Quiet, Owned, Within, Temp, Active
  <2>6. FailsOnlyIf'
    BY DEF TypeOK, Busy, FailsOnlyIf, Quiet, Rooted, Roofed, Placed, Making
  <2>7. Lone'
    BY DEF TypeOK, Busy, Lone, Quiet, Rooted, Plain, Making
  <2>8. Home'
    BY DEF TypeOK, Busy, Home, Lone, Quiet, Owned, Plain, Making, Active
  <2> QED
    BY <2>1, <2>2, <2>3, <2>4, <2>5, <2>6, <2>7, <2>8 DEF Settled, Tidy
<1>5. ASSUME NEW t \in Thread, MkNode(t) PROVE (Settled /\ Tidy)'
  <2> USE <1>0, <1>a, <1>5 DEF MkNode, MakeDir, At, process, history
  <2>1. Wiped'
    BY DEF Wiped, Plain
  <2>2. Quiet'
    BY DEF TypeOK, Busy, Quiet
  <2>3. Rooted'
    BY DEF TypeOK, Busy, Rooted, Quiet, Making
  <2>4. Roofed'
    BY DEF TypeOK, Busy, Roofed, Making
  <2>5. Placed'
    BY DEF TypeOK, Busy, Placed, Quiet, Owned, Within, Temp, Active
  <2>6. FailsOnlyIf'
    BY DEF TypeOK, Busy, FailsOnlyIf, Quiet, Rooted, Roofed, Placed, Making
  <2>7. Lone'
    BY DEF TypeOK, Busy, Lone, Quiet, Rooted, Plain, Making
  <2>8. Home'
    BY DEF TypeOK, Busy, Home, Lone, Quiet, Owned, Plain, Making, Active
  <2> QED
    BY <2>1, <2>2, <2>3, <2>4, <2>5, <2>6, <2>7, <2>8 DEF Settled, Tidy
<1>6. ASSUME NEW t \in Thread, MkCache(t) PROVE (Settled /\ Tidy)'
  <2> USE <1>0, <1>a, <1>6 DEF MkCache, MakeParent, At, process, history
  <2>1. Roofed' /\ Home' /\ Wiped'
    BY DEF Roofed, Home, Plain, Wiped
  <2>2. Quiet'
    BY DEF TypeOK, Busy, Quiet
  <2>3. Rooted'
    BY DEF TypeOK, Busy, Rooted, Quiet, Making
  <2>4. Placed'
    BY DEF TypeOK, Busy, Placed, Quiet, Owned, Within, Temp, Active
  <2>5. FailsOnlyIf'
    BY DEF TypeOK, Busy, FailsOnlyIf, Quiet, Rooted, Roofed, Placed, Making
  <2>6. Lone'
    BY DEF TypeOK, Busy, Lone, Quiet, Rooted, Plain, Making
  <2> QED
    BY <2>1, <2>2, <2>3, <2>4, <2>5, <2>6 DEF Settled, Tidy
<1>7. ASSUME NEW t \in Thread, MkAgain(t) PROVE (Settled /\ Tidy)'
  <2> USE <1>0, <1>a, <1>7 DEF MkAgain, MakeAgain, At, process, history
  <2>1. Roofed' /\ Wiped'
    BY DEF Roofed, Wiped, Plain
  <2>2. Quiet'
    BY DEF TypeOK, Busy, Quiet
  <2>3. Rooted'
    BY DEF TypeOK, Busy, Rooted, Quiet, Making
  <2>4. Placed'
    BY DEF TypeOK, Busy, Placed, Quiet, Owned, Within, Temp, Active
  <2>5. FailsOnlyIf'
    BY DEF TypeOK, Busy, FailsOnlyIf, Quiet, Rooted, Roofed, Placed, Making
  <2>6. Lone'
    BY DEF TypeOK, Busy, Lone, Quiet, Rooted, Plain, Making
  <2>7. Home'
    <3> SUFFICES ASSUME NEW s \in dirs', Plain(s[1])
                 PROVE  (mode[s[1]] = "open" /\ root[s[1]] = s) \/ s \in dirs
      BY DEF Home, Plain
    <3>1. CASE s \notin dirs
      <4>1. s = dir[t] /\ dir[t] \in Session
        BY <3>1 DEF Busy, Within
      <4>2. t[1] \notin forked /\ s[1] = t[1]
        BY <4>1 DEF Owned, Plain
      <4> QED
        BY <4>1, <4>2 DEF Lone, Quiet, Plain
    <3> QED
      BY <3>1
  <2> QED
    BY <2>1, <2>2, <2>3, <2>4, <2>5, <2>6, <2>7 DEF Settled, Tidy
<1>8. ASSUME NEW t \in Thread, Take(t) PROVE (Settled /\ Tidy)'
  <2> USE <1>0, <1>a, <1>8 DEF Take, At, disk, process, history
  <2>1. Quiet' /\ Rooted' /\ Roofed' /\ Placed' /\ FailsOnlyIf' /\ Lone' /\ Home' /\ Wiped'
    BY DEF Quiet, Rooted, Roofed, Placed, Temp, FailsOnlyIf, Lone, Plain, Home, Wiped
  <2> QED
    BY <2>1 DEF Settled, Tidy
<1>9. ASSUME NEW t \in Thread, Hit(t) PROVE (Settled /\ Tidy)'
  <2> USE <1>0, <1>a, <1>9 DEF Hit, Return, Finished, disk, process
  <2>1. Quiet' /\ Rooted' /\ Roofed' /\ Placed' /\ FailsOnlyIf' /\ Lone' /\ Home' /\ Wiped'
    BY DEF Quiet, Rooted, Roofed, Placed, Temp, FailsOnlyIf, Lone, Plain, Home, Wiped
  <2> QED
    BY <2>1 DEF Settled, Tidy
<1>10. ASSUME NEW t \in Thread, Miss(t) PROVE (Settled /\ Tidy)'
  <2> USE <1>0, <1>a, <1>10 DEF Miss, At, disk, process, history
  <2>1. Quiet' /\ Rooted' /\ Roofed' /\ Placed' /\ FailsOnlyIf' /\ Lone' /\ Home' /\ Wiped'
    BY DEF Quiet, Rooted, Roofed, Placed, Temp, FailsOnlyIf, Lone, Plain, Home, Wiped
  <2> QED
    BY <2>1 DEF Settled, Tidy
<1>11. ASSUME NEW t \in Thread, Fetch(t) PROVE (Settled /\ Tidy)'
  <2> USE <1>0, <1>a, <1>11 DEF Fetch, At, disk, process, history
  <2>1. Quiet' /\ Rooted' /\ Roofed' /\ Placed' /\ FailsOnlyIf' /\ Lone' /\ Home' /\ Wiped'
    BY DEF Quiet, Rooted, Roofed, Placed, Temp, FailsOnlyIf, Lone, Plain, Home, Wiped
  <2> QED
    BY <2>1 DEF Settled, Tidy
<1>12. ASSUME NEW t \in Thread, Write(t) PROVE (Settled /\ Tidy)'
  <2> USE <1>0, <1>a, <1>12 DEF Write, At, Temp, process, history
  <2>1. Quiet' /\ Rooted' /\ Roofed' /\ Placed' /\ FailsOnlyIf' /\ Lone' /\ Home'
    BY DEF Quiet, Rooted, Roofed, Placed, Temp, FailsOnlyIf, Lone, Plain, Home
  <2>2. Wiped'
    BY DEF TypeOK, Busy, Wiped, Lone, Quiet, Owned, Plain, Making, Session
  <2> QED
    BY <2>1, <2>2 DEF Settled, Tidy
<1>13. ASSUME NEW t \in Thread, Replace(t) PROVE (Settled /\ Tidy)'
  <2> USE <1>0, <1>a, <1>13 DEF Replace, Return, Temp, process
  <2>1. Quiet' /\ Rooted' /\ Roofed' /\ FailsOnlyIf' /\ Lone' /\ Home' /\ Wiped'
    BY DEF Quiet, Rooted, Roofed, FailsOnlyIf, Lone, Plain, Home, Wiped
  <2>2. Placed'
    BY DEF TypeOK, Busy, Placed, Quiet, Owned, Within, Temp, Active
  <2> QED
    BY <2>1, <2>2 DEF Settled, Tidy
<1>14. ASSUME NEW t \in Thread, Fail(t) PROVE (Settled /\ Tidy)'
  <2> USE <1>0, <1>a, <1>14 DEF Fail, disk, process, history
  <2>1. Quiet' /\ Rooted' /\ Roofed' /\ Placed' /\ Home' /\ Wiped'
    BY DEF Quiet, Rooted, Roofed, Placed, Temp, Home, Plain, Wiped
  <2>2. FailsOnlyIf'
    BY DEF TypeOK, Busy, FailsOnlyIf, Quiet, Rooted, Roofed, Placed, Making
  <2>3. Lone'
    BY DEF TypeOK, Busy, Lone, Quiet, Rooted, Plain, Making
  <2> QED
    BY <2>1, <2>2, <2>3 DEF Settled, Tidy
<1>15. ASSUME NEW p \in Process, LookForCache(p) PROVE (Settled /\ Tidy)'
  <2> USE <1>0, <1>a, <1>15 DEF LookForCache, Become, disk, thread
  <2>1. Quiet' /\ Rooted' /\ Roofed' /\ Placed' /\ FailsOnlyIf' /\ Lone' /\ Home' /\ Wiped'
    BY DEF Quiet, Rooted, Roofed, Placed, Temp, FailsOnlyIf, Lone, Plain, Home, Wiped
  <2> QED
    BY <2>1 DEF Settled, Tidy
<1>16. ASSUME NEW p \in Process, List(p) PROVE (Settled /\ Tidy)'
  <2> USE <1>0, <1>a, <1>16 DEF List, Become, disk, thread, history
  <2>1. Quiet' /\ Rooted' /\ Roofed' /\ Placed' /\ FailsOnlyIf' /\ Lone' /\ Home' /\ Wiped'
    BY DEF Quiet, Rooted, Roofed, Placed, Temp, FailsOnlyIf, Lone, Plain, Home, Wiped
  <2> QED
    BY <2>1 DEF Settled, Tidy
<1>17. ASSUME NEW p \in Process, Reap(p) PROVE (Settled /\ Tidy)'
  <2> USE <1>0, <1>a, <1>17 DEF Reap, Stale, Alive, thread, history
  <2>1. Quiet' /\ Rooted' /\ Roofed' /\ FailsOnlyIf' /\ Lone' /\ Home' /\ Wiped'
    BY DEF Quiet, Rooted, Roofed, FailsOnlyIf, Lone, Plain, Home, Wiped
  <2>2. Placed'
    BY DEF TypeOK, Busy, Placed, Quiet, Owned, Within, Temp, Active
  <2> QED
    BY <2>1, <2>2 DEF Settled, Tidy
<1>18. ASSUME NEW p \in Process, Opened(p) PROVE (Settled /\ Tidy)'
  <2> USE <1>0, <1>a, <1>18 DEF Opened, Become, disk, thread, history
  <2>1. Quiet' /\ Rooted' /\ Roofed' /\ Placed' /\ FailsOnlyIf' /\ Lone' /\ Home' /\ Wiped'
    BY DEF Quiet, Rooted, Roofed, Placed, Temp, FailsOnlyIf, Lone, Plain, Home, Wiped
  <2> QED
    BY <2>1 DEF Settled, Tidy
<1>19. ASSUME NEW p \in Process, Close(p) PROVE (Settled /\ Tidy)'
  <2> USE <1>0, <1>a, <1>19 DEF Close, Become, Reading, disk, thread
  <2>1. Quiet' /\ Rooted' /\ Roofed' /\ Placed' /\ FailsOnlyIf' /\ Lone' /\ Wiped'
    BY DEF Quiet, Rooted, Roofed, Placed, Temp, FailsOnlyIf, Lone, Plain, Wiped
  <2>2. Home'
    BY DEF TypeOK, Busy, Home, Lone, Quiet, Owned, Plain, Making, Active
  <2> QED
    BY <2>1, <2>2 DEF Settled, Tidy
<1>20. ASSUME NEW p \in Process, WipeFiles(p) PROVE (Settled /\ Tidy)'
  <2> USE <1>0, <1>a, <1>20 DEF WipeFiles, Become, Found, thread, history
  <2>1. Quiet' /\ Rooted' /\ Roofed' /\ FailsOnlyIf' /\ Lone' /\ Home' /\ Wiped'
    BY DEF Quiet, Rooted, Roofed, FailsOnlyIf, Lone, Plain, Home, Wiped
  <2>2. Placed'
    BY DEF TypeOK, Busy, Placed, Quiet, Owned, Within, Temp, Active
  <2> QED
    BY <2>1, <2>2 DEF Settled, Tidy
<1>21. ASSUME NEW p \in Process, RemoveDir(p) PROVE (Settled /\ Tidy)'
  <2> USE <1>0, <1>a, <1>21 DEF RemoveDir, Become, thread, history
  <2>1. Quiet' /\ Rooted' /\ Roofed' /\ FailsOnlyIf' /\ Lone' /\ Wiped'
    BY DEF Quiet, Rooted, Roofed, FailsOnlyIf, Lone, Plain, Wiped
  <2>2. Placed'
    BY DEF TypeOK, Busy, Placed, Quiet, Owned, Within, Temp, Active
  <2>3. Home'
    <3> SUFFICES ASSUME NEW s \in dirs', Plain(s[1])
                 PROVE  s[1] # p
      BY DEF Home, Plain, TypeOK
    <3>1. ASSUME s[1] = p PROVE root[p] = s /\ \A f \in files : f[1] # s
      BY <3>1 DEF Home, Wiped
    <3> QED
      BY <3>1
  <2> QED
    BY <2>1, <2>2, <2>3 DEF Settled, Tidy
<1>22. ASSUME NEW p \in Process, RemoveParent(p) PROVE (Settled /\ Tidy)'
  <2> USE <1>0, <1>a, <1>22 DEF RemoveParent, Become, Vacant, thread
  <2>1. Quiet' /\ Placed' /\ FailsOnlyIf' /\ Home' /\ Wiped'
    BY DEF Quiet, Placed, Temp, FailsOnlyIf, Home, Plain, Wiped
  <2>2. Rooted'
    BY DEF TypeOK, Busy, Rooted, Quiet, Making
  <2>3. Roofed'
    BY DEF TypeOK, Busy, Roofed, Making
  <2>4. Lone'
    BY DEF TypeOK, Busy, Lone, Quiet, Rooted, Plain, Making
  <2> QED
    BY <2>1, <2>2, <2>3, <2>4 DEF Settled, Tidy
<1>23. ASSUME NEW p \in Process, CloseManager(p) PROVE (Settled /\ Tidy)'
  <2> USE <1>0, <1>a, <1>23 DEF CloseManager, Become, disk, thread, history
  <2>1. Quiet' /\ Rooted' /\ Roofed' /\ Placed' /\ FailsOnlyIf' /\ Lone' /\ Home' /\ Wiped'
    BY DEF Quiet, Rooted, Roofed, Placed, Temp, FailsOnlyIf, Lone, Plain, Home, Wiped
  <2> QED
    BY <2>1 DEF Settled, Tidy
<1>24. ASSUME NEW p \in Process, Exit(p) PROVE (Settled /\ Tidy)'
  <2> USE <1>0, <1>a, <1>24 DEF Exit, Become, Reading, disk, thread, history
  <2>1. Quiet' /\ Rooted' /\ Roofed' /\ Placed' /\ FailsOnlyIf' /\ Lone' /\ Home' /\ Wiped'
    BY DEF Quiet, Rooted, Roofed, Placed, Temp, FailsOnlyIf, Lone, Plain, Home, Wiped
  <2> QED
    BY <2>1 DEF Settled, Tidy
<1>25. ASSUME NEW p \in Process, Kill(p) PROVE (Settled /\ Tidy)'
  <2> USE <1>0, <1>a, <1>25 DEF Kill, Alive, disk
  <2>1. Quiet' /\ Rooted' /\ Roofed' /\ Placed' /\ FailsOnlyIf' /\ Lone'
    BY DEF Quiet, Rooted, Roofed, Placed, Temp, FailsOnlyIf, Lone, Plain
  <2>2. Home'
    BY DEF TypeOK, Busy, Home, Lone, Quiet, Owned, Plain, Making, Active
  <2>3. Wiped'
    BY DEF TypeOK, Busy, Wiped, Lone, Quiet, Owned, Plain, Making, Session
  <2> QED
    BY <2>1, <2>2, <2>3 DEF Settled, Tidy
<1>26. ASSUME NEW p \in Process, NEW q \in Process, Fork(p, q) PROVE (Settled /\ Tidy)'
  <2> USE <1>0, <1>a, <1>26 DEF Fork, disk, thread
  <2>1. Quiet' /\ Roofed' /\ Placed' /\ FailsOnlyIf' /\ Lone' /\ Home' /\ Wiped'
    BY DEF Quiet, Roofed, Placed, Temp, FailsOnlyIf, Lone, Plain, Home, Wiped
  <2>2. Rooted'
    BY DEF TypeOK, Busy, Rooted, Quiet, Making
  <2> QED
    BY <2>1, <2>2 DEF Settled, Tidy
<1>27. ASSUME NEW a \in Artifact, Prune(a) PROVE (Settled /\ Tidy)'
  <2> USE <1>0, <1>a, <1>27 DEF Prune, process, thread, history
  <2>1. Quiet' /\ Rooted' /\ Roofed' /\ Placed' /\ FailsOnlyIf' /\ Lone' /\ Home' /\ Wiped'
    BY DEF Quiet, Rooted, Roofed, Placed, Temp, FailsOnlyIf, Lone, Plain, Home, Wiped
  <2> QED
    BY <2>1 DEF Settled, Tidy
<1>28. ASSUME UNCHANGED vars PROVE (Settled /\ Tidy)'
  BY <1>0, <1>28 DEF vars, disk, process, thread, history, Settled, Tidy, Quiet, Rooted, Roofed,
     Placed, Temp, FailsOnlyIf, Lone, Home, Wiped, Plain
<1> QED
  BY <1>1, <1>2, <1>3, <1>4, <1>5, <1>6, <1>7, <1>8, <1>9, <1>10, <1>11, <1>12, <1>13, <1>14, <1>15, <1>16, <1>17, <1>18, <1>19, <1>20, <1>21, <1>22, <1>23, <1>24, <1>25, <1>26, <1>27, <1>28 DEF Next

LEMMA AlwaysSettled == Spec => [](Settled /\ Tidy)
BY InitSettled, AlwaysInductive, NextSettled, PTL DEF Spec

\* A read of an open store fails only for the reasons FailsOnlyIf names.
THEOREM ReadsSucceed == Spec => []FailsOnlyIf
<1>1. Settled => FailsOnlyIf
  BY DEF Settled
<1> QED
  BY <1>1, AlwaysSettled, PTL

\* A session that ends in order takes its directory with it.
THEOREM ExitLeavesNothing == Spec => []LeavesNothing
<1>1. Tidy => LeavesNothing
  BY DEF Tidy, Home, Plain, LeavesNothing
<1> QED
  BY <1>1, AlwaysSettled, PTL
=============================================================================
