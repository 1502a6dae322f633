---------------------------- MODULE ScratchProofs ----------------------------
(***************************************************************************)
(* Proofs about Scratch.tla, for every set of ids and sessions: a running  *)
(* block is never touched, and files survive kills and sweeps, but for     *)
(* nodes a sweep met before their seed was whole (torn).                   *)
(***************************************************************************)
EXTENDS Scratch, TLAPS

Making == {"place", "seed", "fill", "rename"}
Running == {"block", "commit", "discard"}
OwnerPoints == Making \union {"truncate", "rewrite"} \union Running

\* s makes, runs or finishes a block of its own.
Owner(s) == ~at[s].adopting /\ at[s].pc \in OwnerPoints

SeedValue == Session \union {Bare, Torn}

\* The tables of TypeOK.
TablesInv ==
    /\ IsTable(parent, Id, Id \union {None})
    /\ IsTable(row, Issued, [healthy : BOOLEAN, files : BOOLEAN])
    /\ IsTable(dir, Issued, [seed : SeedValue, files : BOOLEAN])
    /\ IsTable(staging, Issued \X Session, SeedValue)
    /\ owed \subseteq Issued
    /\ torn \subseteq Issued
    /\ pruned \subseteq Issued

\* Where a session is agrees with what it works on.
PlaceInv(s) ==
    /\ at[s] \in Local
    /\ (at[s].cur = None) = (at[s].pc \in {"off", "sweep", "reap", "open", "dead"})
    /\ at[s].cur \in Issued \union {None}
    /\ at[s].dirs \subseteq Issued
    /\ at[s].pc \in {"files", "adopt", "failed"} => at[s].adopting
    /\ at[s].pc \in Running => ~at[s].adopting

\* The directory of a block is absent until it is renamed into place, and then
\* carries the seed of its process; it is made and seeded in place, and may be
\* missing later, only if a sweep took its staging directory.
OwnInv(s) ==
    LET n == at[s].cur IN
    Owner(s) =>
      /\ at[s].pc \in Making => n \notin DOMAIN dir
      /\ at[s].pc # "discard" => n \notin Present
      /\ n \in DOMAIN dir => dir[n].seed \in {s, Bare, Torn}
      /\ n \notin torn =>
           /\ at[s].pc \in {"seed", "fill", "rename"} => <<n, s>> \in DOMAIN staging
           /\ at[s].pc \notin {"truncate", "rewrite"}
           /\ at[s].pc \in Running => n \in DOMAIN dir /\ dir[n].seed = s

\* Whoever is about to delete a directory deletes nothing that is owed.
DeleteInv(s) ==
    LET n == at[s].cur IN
    /\ at[s].pc = "litter" => n \in torn \/ ~HasFiles(n)
    /\ at[s].pc = "remove" => (n \in owed \ torn => n \in Present \/ ~HasFiles(n))
    /\ at[s].pc = "discard" => (n \in owed => n \in Present)

SessionInv(s) == PlaceInv(s) /\ OwnInv(s) /\ DeleteInv(s)

\* t leaves the node of a block of s alone: only a sweep that took the node for
\* litter works on it too, or has listed it before it was in place.
Apart(s, t) ==
    LET n == at[s].cur IN
    /\ at[t].cur = n => at[t].pc = "litter" /\ n \in torn
    /\ n \in at[t].dirs => n \in torn \/ at[s].pc \in Running

AloneInv == \A s, t \in Session : s # t /\ Owner(s) => Apart(s, t)

\* Only the staging directory of a dead process is reaped, or one that was met
\* before its seed was whole.
Doomed(g) == at[g[2]].pc = "dead" \/ g[1] \in torn
ReapInv ==
    /\ \A g \in DOMAIN staging : at[g[2]].pc # "off"
    /\ \A s \in Session :
         at[s].pc = "reap" => at[s].stage \in Id \X Session /\ Doomed(at[s].stage)

\* What the disk holds of one id.
FilesInv(n) ==
    /\ n \in owed \ torn => Kept(n)
    /\ n \in Present /\ n \in owed \ torn => row[n].files
    /\ n \in DOMAIN dir /\ dir[n].seed = Bare => ~dir[n].files \/ n \in torn

IInv ==
    /\ TablesInv
    /\ at \in [Session -> Local]
    /\ \A s \in Session : SessionInv(s)
    /\ AloneInv
    /\ ReapInv
    /\ \A n \in Id : FilesInv(n)

-----------------------------------------------------------------------------
\* The inductive invariant gives the types.
LEMMA TypeFromInv == IInv => TypeOK
BY DEF IInv, TablesInv, SeedValue, TypeOK, SessionInv, PlaceInv

\* With no session started and an empty store, the invariant holds.
LEMMA InitInv == Init => IInv
<1> SUFFICES ASSUME Init PROVE IInv
  OBVIOUS
<1>1. /\ DOMAIN row = {} /\ DOMAIN dir = {} /\ DOMAIN staging = {} /\ DOMAIN parent = {}
      /\ row \in [{} -> {None}] /\ dir \in [{} -> {None}]
      /\ staging \in [{} -> {None}] /\ parent \in [{} -> {None}]
      /\ owed = {} /\ torn = {} /\ pruned = {}
  BY DEF Init
<1>2. Off \in Local
  BY DEF Off, Local, Control
<1>3. TablesInv
  BY <1>1 DEF TablesInv, IsTable, Issued
<1>4. ASSUME NEW s \in Session PROVE SessionInv(s) /\ ~Owner(s) /\ at[s].pc # "reap"
  BY <1>1, <1>2 DEF Init, SessionInv, PlaceInv, OwnInv, DeleteInv, Owner, OwnerPoints, Making,
     Running, Off, Issued
<1>5. AloneInv /\ ReapInv
  BY <1>1, <1>4 DEF AloneInv, ReapInv
<1>6. \A n \in Id : FilesInv(n)
  BY <1>1 DEF FilesInv, Present
<1>7. at \in [Session -> Local]
  BY <1>2 DEF Init
<1> QED
  BY <1>3, <1>4, <1>5, <1>6, <1>7 DEF IInv

-----------------------------------------------------------------------------
\* What the disk holds of n, and whether it is owed, is left alone.
Untouched(n) ==
    /\ n \in DOMAIN dir' <=> n \in DOMAIN dir
    /\ n \in DOMAIN dir => dir'[n] = dir[n]
    /\ n \in DOMAIN row' <=> n \in DOMAIN row
    /\ n \in DOMAIN row => row'[n] = row[n]
    /\ n \in owed' <=> n \in owed

\* Of the staging directories only those of s are made or taken, and doomed ones.
OthersStaging(s) ==
    /\ \A g \in DOMAIN staging' : g \in DOMAIN staging \/ g[2] = s
    /\ \A g \in DOMAIN staging : g \in DOMAIN staging' \/ g[2] = s \/ Doomed(g)

\* A step of s that touches the node it works on, at most, and gives it no
\* files unless the node is its own.
StepOf(s) ==
    /\ at[s].pc # "dead" /\ at'[s].pc # "off"
    /\ at' = [at EXCEPT ![s] = at'[s]]
    /\ \A n \in Id \ {at[s].cur} : Untouched(n)
    /\ OthersStaging(s)
    /\ Issued \subseteq Issued' /\ Present \subseteq Present' /\ torn \subseteq torn'
    /\ (at[s].cur \in DOMAIN dir' /\ dir'[at[s].cur].files) => HasFiles(at[s].cur) \/ Owner(s)
    /\ at[s].cur \in owed' => at[s].cur \in owed \/ Owner(s)
    /\ at[s].pc = "litter" /\ at[s].cur \in DOMAIN dir' => Untouched(at[s].cur)
    /\ at[s].pc = "litter" => UNCHANGED row

\* The blocks of others and that of s, if any, are still apart.
StaysApart(s) ==
    \A t \in Session \ {s} : (Owner(t) => Apart(t, s)') /\ (Owner(s)' => Apart(s, t)')

\* Such a step keeps the invariant of the others, so that of s is left to show.
LEMMA StepInv ==
    ASSUME IInv, NEW s \in Session, StepOf(s), TablesInv', SessionInv(s)',
           StaysApart(s),
           at'[s].pc = "reap" =>
             /\ at'[s].stage \in Id \X Session
             /\ at[at'[s].stage[2]].pc = "dead" \/ at'[s].stage[1] \in torn',
           \A n \in Id : n = at[s].cur => FilesInv(n)'
    PROVE  IInv'
<1>1. /\ TablesInv /\ at \in [Session -> Local] /\ AloneInv /\ ReapInv
      /\ \A t \in Session : SessionInv(t)
      /\ \A n \in Id : FilesInv(n)
  BY DEF IInv
<1>2. /\ \A t \in Session \ {s} : at'[t] = at[t]
      /\ at' \in [Session -> Local]
  BY <1>1 DEF StepOf, SessionInv, PlaceInv
<1>3. ASSUME NEW t \in Session, t # s PROVE SessionInv(t)'
  <2> DEFINE n == at[t].cur
  <2>1. at'[t] = at[t] /\ PlaceInv(t) /\ OwnInv(t) /\ DeleteInv(t)
    BY <1>1, <1>2, <1>3 DEF SessionInv
  <2>2. PlaceInv(t)'
    BY <2>1, <1>2 DEF PlaceInv, StepOf
  <2>3. n \in Id \union {None}
    BY <1>1, <2>1 DEF PlaceInv, TablesInv, IsTable, Issued
  <2>4. Owner(t) => n \in Id
    BY <2>1, <2>3 DEF Owner, OwnerPoints, Making, Running, PlaceInv
  <2>5. OwnInv(t)'
    <3> SUFFICES ASSUME Owner(t) PROVE OwnInv(t)'
      BY <2>1 DEF OwnInv, Owner
    <3>1. CASE n # at[s].cur
      <4>1. Untouched(n) /\ torn \subseteq torn'
        BY <2>4, <3>1 DEF StepOf
      <4>2. <<n, t>> \in DOMAIN staging => <<n, t>> \in DOMAIN staging' \/ n \in torn
        BY <1>3 DEF StepOf, OthersStaging, Doomed, Owner, OwnerPoints, Making, Running
      <4>3. Present' = Present \/ (n \in Present <=> n \in Present')
        BY <4>1 DEF Untouched, Present
      <4> QED
        BY <2>1, <4>1, <4>2, <4>3 DEF OwnInv, Untouched, Owner
    <3>2. CASE n = at[s].cur
      <4>1. at[s].pc = "litter" /\ n \in torn
        BY <1>1, <1>3, <3>2 DEF AloneInv, Apart
      <4>2. /\ n \in DOMAIN dir' => n \in DOMAIN dir /\ dir'[n] = dir[n]
            /\ UNCHANGED row /\ n \in torn'
        BY <3>2, <4>1 DEF StepOf, Untouched
      <4> QED
        BY <2>1, <4>2 DEF OwnInv, Present, Owner
    <3> QED
      BY <3>1, <3>2
  <2>6. DeleteInv(t)'
    <3>1. CASE n = at[s].cur
      <4>1. Owner(s) => at[t].pc = "litter" /\ n \in torn
        BY <1>1, <1>3, <3>1 DEF AloneInv, Apart
      <4>2. at[t].pc = "discard" => Owner(t)
        BY <2>1 DEF PlaceInv, Owner, OwnerPoints, Running
      <4>3. Owner(t) => at[s].pc = "litter"
        BY <1>1, <1>3, <3>1 DEF AloneInv, Apart
      <4>4. at[s].pc = "litter" => ~Owner(s)
        BY DEF Owner, OwnerPoints, Making, Running
      <4> QED
        BY <2>1, <3>1, <4>1, <4>2, <4>3, <4>4 DEF DeleteInv, StepOf, HasFiles, Present
    <3>2. CASE n # at[s].cur
      <4>1. n \in Id => Untouched(n)
        BY <3>2 DEF StepOf
      <4>2. at[t].pc \in {"litter", "remove", "discard"} => n \in Id
        BY <2>1, <2>3 DEF PlaceInv
      <4> QED
        BY <2>1, <4>1, <4>2 DEF DeleteInv, StepOf, HasFiles, Present, Untouched
    <3> QED
      BY <3>1, <3>2
  <2> QED
    BY <2>2, <2>5, <2>6 DEF SessionInv
<1>4. AloneInv'
  <2> SUFFICES ASSUME NEW u \in Session, NEW t \in Session, u # t, Owner(u)'
               PROVE  Apart(u, t)'
    BY DEF AloneInv
  <2>1. CASE u = s \/ t = s
    BY <1>2, <2>1 DEF StaysApart, Owner
  <2>2. CASE u # s /\ t # s
    BY <1>1, <1>2, <2>2 DEF AloneInv, Apart, Owner, StepOf
  <2> QED
    BY <2>1, <2>2
<1>5. ReapInv'
  <2>1. ASSUME NEW g \in DOMAIN staging' PROVE at'[g[2]].pc # "off"
    BY <1>1, <1>2 DEF StepOf, OthersStaging, ReapInv, TablesInv, IsTable
  <2>2. ASSUME NEW t \in Session, at'[t].pc = "reap"
        PROVE  at'[t].stage \in Id \X Session /\ Doomed(at[t].stage)'
    <3>1. /\ at'[t].stage \in Id \X Session
          /\ at[at'[t].stage[2]].pc = "dead" \/ at'[t].stage[1] \in torn'
      BY <1>1, <1>2, <2>2 DEF ReapInv, Doomed, StepOf
    <3>2. at[at'[t].stage[2]].pc = "dead" => at'[at'[t].stage[2]].pc = "dead"
      BY <1>2, <3>1 DEF StepOf
    <3> QED
      BY <3>1, <3>2 DEF Doomed
  <2> QED
    BY <2>1, <2>2 DEF ReapInv
<1>6. ASSUME NEW n \in Id PROVE FilesInv(n)'
  <2>1. CASE n # at[s].cur
    <3>1. Untouched(n) /\ torn \subseteq torn' /\ FilesInv(n)
      BY <1>1, <2>1 DEF StepOf
    <3> QED
      BY <3>1 DEF FilesInv, Untouched, Kept, HasFiles, Present
  <2>2. CASE n = at[s].cur
    BY <2>2 DEF FilesInv, Kept, HasFiles
  <2> QED
    BY <2>1, <2>2
<1> QED
  BY <1>2, <1>3, <1>4, <1>5, <1>6 DEF IInv

\* A step of s that takes up no other node, and lists none, leaves blocks apart.
LEMMA ApartInv ==
    ASSUME IInv, NEW s \in Session, at' = [at EXCEPT ![s] = at'[s]], PlaceInv(s)',
           torn \subseteq torn', at'[s].dirs \subseteq at[s].dirs,
           \/ at'[s].cur = None
           \/ at'[s].cur = at[s].cur /\ at[s].pc # "litter",
           Owner(s)' => Owner(s) /\ (at[s].pc \in Running => at'[s].pc \in Running)
    PROVE  StaysApart(s)
<1>1. /\ AloneInv /\ at \in [Session -> Local]
      /\ \A t \in Session : PlaceInv(t)
  BY DEF IInv, SessionInv
<1> SUFFICES ASSUME NEW t \in Session \ {s}
             PROVE  (Owner(t) => Apart(t, s)') /\ (Owner(s)' => Apart(s, t)')
  BY DEF StaysApart
<1>2. at'[t] = at[t]
  BY <1>1
<1>3. ASSUME Owner(t) PROVE Apart(t, s)'
  <2>1. Apart(t, s) /\ at[t].cur # None
    BY <1>1, <1>3 DEF AloneInv, PlaceInv, Owner, OwnerPoints, Making, Running
  <2> QED
    BY <1>2, <2>1 DEF Apart
<1>4. ASSUME Owner(s)' PROVE Apart(s, t)'
  <2>1. at'[s].cur # None /\ Apart(s, t)
    BY <1>1, <1>4 DEF AloneInv, PlaceInv, Owner, OwnerPoints, Making, Running
  <2> QED
    BY <1>2, <1>4, <2>1 DEF Apart
<1> QED
  BY <1>3, <1>4

\* A step of s that changes nothing but where s is.
LEMMA QuietInv ==
    ASSUME IInv, NEW s \in Session, UNCHANGED <<Disk, History>>,
           at[s].pc # "dead", at'[s].pc \notin {"off", "reap"},
           at' = [at EXCEPT ![s] = at'[s]], SessionInv(s)', StaysApart(s)
    PROVE  IInv'
<1>1. /\ TablesInv /\ \A n \in Id : FilesInv(n)
      /\ \A t \in Session : PlaceInv(t)
  BY DEF IInv, SessionInv
<1>2. UNCHANGED <<row, dir, staging, parent, owed, torn, pruned>>
  BY DEF Disk, History
<1>3. TablesInv'
  BY <1>1, <1>2 DEF TablesInv, IsTable, Issued
<1>4. StepOf(s)
  BY <1>2 DEF StepOf, Untouched, OthersStaging, Issued, Present, HasFiles
<1>5. ASSUME NEW n \in Id PROVE FilesInv(n)'
  BY <1>1, <1>2 DEF FilesInv, Kept, HasFiles, Present
<1> QED
  BY <1>3, <1>4, <1>5, StepInv

\* A session that is not working on a node, or just looking at one.
LEMMA RestInv ==
    ASSUME IInv, NEW s \in Session, NEW v, v \in Local, Becomes(s, v),
           at[s].pc # "dead", v.pc \in {"sweep", "open", "dead"}, v.cur = None,
           v.dirs \subseteq at[s].dirs, UNCHANGED <<Disk, History>>
    PROVE  IInv'
<1>1. at'[s] = v /\ at' = [at EXCEPT ![s] = at'[s]] /\ PlaceInv(s)
  BY DEF Becomes, IInv, SessionInv
<1>2. UNCHANGED <<parent, torn>>
  BY DEF History
<1>3. SessionInv(s)' /\ ~Owner(s)'
  BY <1>1, <1>2 DEF SessionInv, PlaceInv, OwnInv, DeleteInv, Owner, OwnerPoints, Making,
     Running, Issued
<1>4. StaysApart(s)
  BY <1>1, <1>2, <1>3, ApartInv DEF SessionInv
<1> QED
  BY <1>1, <1>3, <1>4, QuietInv

\* The states a session returns to are states, and work on no node.
LEMMA RestStates ==
    ASSUME IInv, NEW s \in Session
    PROVE  /\ Ready \in Local /\ Ready.pc = "open" /\ Ready.cur = None
           /\ Ready.dirs = {}
           /\ NextEntry(s) \in Local /\ NextEntry(s).pc = "sweep" /\ NextEntry(s).cur = None
           /\ NextEntry(s).dirs = at[s].dirs
           /\ at[s].pc = "sweep" => at[s].cur = None
<1>1. at[s] \in Local /\ (at[s].pc = "sweep" => at[s].cur = None)
  BY DEF IInv, SessionInv, PlaceInv
<1>2. Ready \in Local /\ Ready.pc = "open" /\ Ready.cur = None /\ Ready.dirs = {}
  BY DEF Ready, Off, Local, Control
<1>3. /\ NextEntry(s) \in Local /\ NextEntry(s).pc = "sweep" /\ NextEntry(s).cur = None
      /\ NextEntry(s).dirs = at[s].dirs
  BY <1>1 DEF NextEntry, Local, Control
<1> QED
  BY <1>1, <1>2, <1>3

-----------------------------------------------------------------------------
\* The steps that leave the disk and the history alone.
LEMMA QuietStepsInv ==
    ASSUME IInv, NEW s \in Session,
           \/ \E ok \in BOOLEAN : Finish(s, ok)
           \/ CommitFails(s)
           \/ OpenStore(s)
           \/ \E g \in Id \X Session : LeaveStaging(s, g)
           \/ \E n \in Id : SkipEntry(s, n)
           \/ CheckRow(s)
           \/ LookForFiles(s)
           \/ AdoptFails(s)
           \/ Swept(s)
           \/ Die(s)
    PROVE  IInv'
<1>1. /\ at[s] \in Local /\ SessionInv(s) /\ TablesInv
      /\ at \in [Session -> Local]
  BY DEF IInv, SessionInv, PlaceInv
<1>2. CASE \E ok \in BOOLEAN : Finish(s, ok)
  <2> PICK ok \in BOOLEAN : Finish(s, ok)
    BY <1>2
  <2>1. /\ at'[s] = [at[s] EXCEPT !.pc = "commit", !.ok = ok]
        /\ at' = [at EXCEPT ![s] = at'[s]]
        /\ at[s].pc = "block" /\ UNCHANGED <<Disk, History>>
        /\ UNCHANGED <<row, dir, staging, parent, owed, torn, pruned>>
    BY <1>1 DEF Finish, Becomes, Disk, History
  <2>2. /\ at'[s] \in Local /\ at'[s].pc = "commit"
        /\ at'[s].cur = at[s].cur /\ at'[s].adopting = at[s].adopting
        /\ at'[s].dirs = at[s].dirs
    BY <1>1, <2>1 DEF Local, Control
  <2>3. SessionInv(s)'
    BY <1>1, <2>1, <2>2 DEF SessionInv, PlaceInv, OwnInv, DeleteInv, Owner, OwnerPoints, Making,
         Running, Issued, Present
  <2>4. StaysApart(s)
    BY <2>1, <2>2, <2>3, ApartInv DEF SessionInv, Owner, OwnerPoints, Running
  <2> QED
    BY <2>1, <2>2, <2>3, <2>4, QuietInv
<1>3. CASE CommitFails(s)
  BY <1>3, RestInv, RestStates DEF CommitFails
<1>4. CASE OpenStore(s)
  <2> DEFINE v == [Off EXCEPT !.pc = "sweep", !.dirs = DOMAIN dir, !.stages = DOMAIN staging]
  <2>1. v \in Local /\ v.pc = "sweep" /\ v.cur = None /\ v.dirs = DOMAIN dir
    BY ZenonT(60), <1>1 DEF Off, Local, Control, TablesInv, IsTable, Issued
  <2>2. /\ at'[s] = v /\ at' = [at EXCEPT ![s] = at'[s]] /\ at[s].pc = "off"
        /\ UNCHANGED <<Disk, History>>
        /\ UNCHANGED <<row, dir, staging, parent, owed, torn, pruned>>
    BY <1>1, <1>4 DEF OpenStore, Becomes, Disk, History
  <2> HIDE DEF v
  <2>3. SessionInv(s)' /\ ~Owner(s)'
    BY <1>1, <2>1, <2>2 DEF SessionInv, PlaceInv, OwnInv, DeleteInv, Owner, OwnerPoints, Making,
         Running, Issued, TablesInv, IsTable
  <2>4. ASSUME NEW t \in Session \ {s}, Owner(t) PROVE Apart(t, s)'
    <3>1. OwnInv(t) /\ PlaceInv(t) /\ at'[t] = at[t]
      BY <1>1, <2>2 DEF IInv, SessionInv
    <3>2. at[t].cur # None
      BY <2>4, <3>1 DEF PlaceInv, Owner, OwnerPoints, Making, Running
    <3>3. at[t].cur \in DOMAIN dir => at[t].cur \in torn \/ at[t].pc \in Running
      BY <2>4, <3>1 DEF OwnInv, Owner, OwnerPoints
    <3> QED
      BY <2>1, <2>2, <3>1, <3>2, <3>3 DEF Apart
  <2>5. StaysApart(s)
    BY <2>3, <2>4 DEF StaysApart
  <2> QED
    BY <2>1, <2>2, <2>3, <2>5, QuietInv
<1>5. CASE \E g \in Id \X Session : LeaveStaging(s, g)
  <2> PICK g \in Id \X Session : LeaveStaging(s, g)
    BY <1>5
  <2> DEFINE v == [at[s] EXCEPT !.stages = @ \ {g}]
  <2>1. /\ v \in Local /\ v.pc = "sweep" /\ v.cur = None /\ at[s].pc # "dead"
        /\ v.dirs \subseteq at[s].dirs
    BY <1>1, RestStates DEF LeaveStaging, Local
  <2>2. Becomes(s, v) /\ UNCHANGED <<Disk, History>>
    BY DEF LeaveStaging
  <2> HIDE DEF v
  <2> QED
    BY <2>1, <2>2, RestInv
<1>6. CASE \E n \in Id : SkipEntry(s, n)
  <2> PICK n \in Id : SkipEntry(s, n)
    BY <1>6
  <2> DEFINE v == [at[s] EXCEPT !.dirs = @ \ {n}]
  <2>1. /\ v \in Local /\ v.pc = "sweep" /\ v.cur = None /\ at[s].pc # "dead"
        /\ v.dirs \subseteq at[s].dirs
    BY <1>1, RestStates DEF SkipEntry, Entry, Local
  <2>2. Becomes(s, v) /\ UNCHANGED <<Disk, History>>
    BY DEF SkipEntry
  <2> HIDE DEF v
  <2> QED
    BY <2>1, <2>2, RestInv
<1>7. CASE CheckRow(s)
  <2> DEFINE gone == [at[s] EXCEPT !.pc = "remove"]
             mine == [at[s] EXCEPT !.pc = "place", !.adopting = TRUE]
  <2>1. /\ at[s].pc = "check"
        /\ UNCHANGED <<Disk, History>>
        /\ UNCHANGED <<row, dir, staging, parent, owed, torn, pruned>>
        /\ (Becomes(s, gone) /\ at[s].cur \in Present) \/ Becomes(s, mine)
    BY <1>7 DEF CheckRow, Goto, Disk, History
  <2>2. /\ gone \in Local /\ gone.cur = at[s].cur /\ gone.pc = "remove"
        /\ mine \in Local /\ mine.cur = at[s].cur /\ mine.pc = "place" /\ mine.adopting
        /\ gone.dirs = at[s].dirs /\ mine.dirs = at[s].dirs
    BY <1>1 DEF Local, Control
  <2>3. /\ at' = [at EXCEPT ![s] = at'[s]]
        /\ (at'[s] = gone /\ at[s].cur \in Present) \/ at'[s] = mine
    BY <1>1, <2>1 DEF Becomes
  <2>4. /\ at' = [at EXCEPT ![s] = at'[s]] /\ at[s].pc = "check"
        /\ UNCHANGED <<Disk, History>>
        /\ UNCHANGED <<row, dir, staging, parent, owed, torn, pruned>>
        /\ at'[s] \in Local /\ at'[s].cur = at[s].cur /\ at'[s].dirs = at[s].dirs
        /\ \/ at'[s].pc = "remove" /\ at[s].cur \in Present
           \/ at'[s].pc = "place" /\ at'[s].adopting
    BY <2>1, <2>2, <2>3
  <2>5. SessionInv(s)' /\ ~Owner(s)'
    BY <1>1, <2>4 DEF SessionInv, PlaceInv, OwnInv, DeleteInv, Owner, OwnerPoints, Making,
         Running, Issued, Present
  <2>6. StaysApart(s)
    BY <2>4, <2>5, ApartInv DEF SessionInv
  <2> QED
    BY <2>4, <2>5, <2>6, QuietInv
<1>8. CASE LookForFiles(s)
  <2>1. /\ at' = [at EXCEPT ![s] = at'[s]] /\ at[s].pc = "files"
        /\ UNCHANGED <<Disk, History>>
        /\ UNCHANGED <<row, dir, staging, parent, owed, torn, pruned>>
        /\ at'[s] \in Local /\ at'[s].cur = at[s].cur
        /\ at'[s].adopting = at[s].adopting /\ at'[s].dirs = at[s].dirs
        /\ \/ at'[s].pc = "remove" /\ ~HasFiles(at[s].cur)
           \/ at'[s].pc = "adopt"
    BY <1>1, <1>8 DEF LookForFiles, Becomes, Goto, Local, Control, Disk, History
  <2>2. SessionInv(s)' /\ ~Owner(s)'
    BY <1>1, <2>1 DEF SessionInv, PlaceInv, OwnInv, DeleteInv, Owner, OwnerPoints, Making,
         Running, Issued, Present, HasFiles
  <2>3. StaysApart(s)
    BY <2>1, <2>2, ApartInv DEF SessionInv
  <2> QED
    BY <2>1, <2>2, <2>3, QuietInv
<1>9. CASE AdoptFails(s)
  BY <1>9, RestInv, RestStates DEF AdoptFails
<1>10. CASE Swept(s)
  BY <1>10, RestInv, RestStates DEF Swept
<1>11. CASE Die(s)
  <2> DEFINE v == [Off EXCEPT !.pc = "dead"]
  <2>1. v \in Local /\ v.pc = "dead" /\ v.cur = None /\ v.dirs = {}
    BY DEF Off, Local, Control
  <2>2. Becomes(s, v) /\ at[s].pc # "dead" /\ UNCHANGED <<Disk, History>>
    BY <1>11 DEF Die, Alive
  <2> HIDE DEF v
  <2> QED
    BY <2>1, <2>2, RestInv
<1> QED
  BY <1>2, <1>3, <1>4, <1>5, <1>6, <1>7, <1>8, <1>9, <1>10, <1>11

-----------------------------------------------------------------------------
\* A session deletes the directory of its node, which holds nothing owed any
\* more, and is done with it.
LEMMA DropInv ==
    ASSUME IInv, NEW s \in Session, NEW v, v \in Local, Becomes(s, v),
           at[s].pc # "dead", at[s].cur # None, v.pc \in {"sweep", "open"}, v.cur = None,
           v.dirs \subseteq at[s].dirs, dir' = Without(dir, at[s].cur),
           UNCHANGED <<row, staging, parent, torn, pruned>>,
           owed' \in {owed, owed \ {at[s].cur}},
           at[s].cur \in owed' \ torn => at[s].cur \in Present /\ row[at[s].cur].files
    PROVE  IInv'
<1> DEFINE c == at[s].cur
<1>1. /\ TablesInv /\ AloneInv /\ at \in [Session -> Local]
      /\ \A n \in Id : FilesInv(n)
      /\ \A t \in Session : PlaceInv(t)
  BY DEF IInv, SessionInv
<1>2. at'[s] = v /\ at' = [at EXCEPT ![s] = at'[s]]
  BY <1>1 DEF Becomes
<1>3. /\ DOMAIN dir' = DOMAIN dir \ {c}
      /\ \A n \in DOMAIN dir \ {c} : dir'[n] = dir[n]
      /\ IsTable(dir', Issued, [seed : SeedValue, files : BOOLEAN])
  <2> DEFINE R == [seed : SeedValue, files : BOOLEAN]
  <2>1. IsTable(dir, Issued, R)
    BY <1>1 DEF TablesInv
  <2> HIDE DEF R
  <2>2. /\ IsTable(Without(dir, c), Issued, R)
        /\ DOMAIN Without(dir, c) = DOMAIN dir \ {c}
        /\ \A x \in DOMAIN dir \ {c} : Without(dir, c)[x] = dir[x]
    BY <2>1 DEF Without, Restrict, IsTable
  <2> QED
    BY <2>2 DEF R
<1>4. TablesInv'
  BY <1>1, <1>3 DEF TablesInv, IsTable, Issued
<1>5. StepOf(s)
  BY <1>2, <1>3 DEF StepOf, Untouched, OthersStaging, Issued, Present
<1>6. SessionInv(s)' /\ ~Owner(s)'
  BY <1>1, <1>2 DEF SessionInv, PlaceInv, OwnInv, DeleteInv, Owner, OwnerPoints, Making, Running,
     Issued
<1>7. StaysApart(s)
  BY <1>2, <1>6, ApartInv DEF SessionInv
<1>8. ASSUME NEW n \in Id, n = c PROVE FilesInv(n)'
  BY <1>3, <1>8 DEF FilesInv, Kept, Present
<1>9. at'[s].pc # "reap"
  BY <1>2
<1> QED
  BY <1>4, <1>5, <1>6, <1>7, <1>8, <1>9, StepInv

\* The steps that delete a directory. What a block without files drops was never
\* owed, nor is what a twin stands for; after a commit the row has the files;
\* and the sweep deletes what has no files, has a row, or was torn.
LEMMA DropStepsInv ==
    ASSUME IInv, NEW s \in Session,
           \/ Abandon(s)
           \/ \E m \in Id : Rebind(s, m)
           \/ Discard(s)
           \/ DeleteLitter(s)
           \/ Remove(s)
    PROVE  IInv'
<1> DEFINE c == at[s].cur
<1>1. /\ SessionInv(s) /\ TablesInv /\ c \in Id \union {None}
      /\ \A n \in Id : FilesInv(n)
  BY DEF IInv, SessionInv, PlaceInv, TablesInv, IsTable, Issued
<1>2. at[s].pc \in {"block", "discard", "litter", "remove"} => at[s].pc # "dead" /\ c \in Id
  BY <1>1 DEF SessionInv, PlaceInv
<1>3. c # None <=> c \in Id
  BY <1>1, ScratchNoneAssumption
<1>4. CASE Abandon(s)
  <2>1. /\ at[s].pc = "block" /\ ~HasFiles(c) /\ dir' = Without(dir, c)
        /\ Becomes(s, Ready) /\ UNCHANGED <<row, staging, parent, owed, torn, pruned>>
    BY <1>4 DEF Abandon, History
  <2>2. c \in owed \ torn => c \in Present /\ row[c].files
    BY <1>1, <1>2, <2>1 DEF FilesInv, Kept
  <2> QED
    BY <1>2, <1>3, <2>1, <2>2, DropInv, RestStates
<1>5. CASE \E m \in Id : Rebind(s, m)
  <2>1. /\ at[s].pc = "block" /\ dir' = Without(dir, c) /\ owed' = owed \ {c}
        /\ Becomes(s, Ready) /\ UNCHANGED <<row, staging, parent, torn, pruned>>
    BY <1>5 DEF Rebind
  <2> QED
    BY <1>2, <1>3, <2>1, DropInv, RestStates
<1>6. CASE Discard(s)
  <2>1. /\ at[s].pc = "discard" /\ dir' = Without(dir, c)
        /\ Becomes(s, Ready) /\ UNCHANGED <<row, staging, parent, owed, torn, pruned>>
    BY <1>6 DEF Discard, History
  <2>2. c \in owed \ torn => c \in Present /\ row[c].files
    BY <1>1, <1>2, <2>1 DEF SessionInv, DeleteInv, FilesInv
  <2> QED
    BY <1>2, <1>3, <2>1, <2>2, DropInv, RestStates
<1>7. CASE DeleteLitter(s)
  <2>1. /\ at[s].pc = "litter" /\ dir' = Without(dir, c)
        /\ Becomes(s, NextEntry(s)) /\ UNCHANGED <<row, staging, parent, owed, torn, pruned>>
    BY <1>7 DEF DeleteLitter, History
  <2>2. c \in owed \ torn => c \in Present /\ row[c].files
    BY <1>1, <1>2, <2>1 DEF SessionInv, DeleteInv, FilesInv, Kept
  <2> QED
    BY <1>2, <1>3, <2>1, <2>2, DropInv, RestStates
<1>8. CASE Remove(s)
  <2>1. /\ at[s].pc = "remove" /\ dir' = Without(dir, c)
        /\ Becomes(s, NextEntry(s)) /\ UNCHANGED <<row, staging, parent, owed, torn, pruned>>
    BY <1>8 DEF Remove, History
  <2>2. c \in owed \ torn => c \in Present /\ row[c].files
    BY <1>1, <1>2, <2>1 DEF SessionInv, DeleteInv, FilesInv, Kept
  <2> QED
    BY <1>2, <1>3, <2>1, <2>2, DropInv, RestStates
<1> QED
  BY <1>4, <1>5, <1>6, <1>7, <1>8

-----------------------------------------------------------------------------
\* A step in the making of a workspace: the directory of the node may appear,
\* without files, or change its seed.
LEMMA WorkspaceInv ==
    ASSUME IInv, NEW s \in Session, at[s].pc \notin {"dead", "litter"},
           at[s].pc \notin Running, at[s].cur # None,
           at' = [at EXCEPT ![s] = at'[s]], at'[s].cur = at[s].cur, at'[s].dirs = at[s].dirs,
           at'[s].pc \notin {"off", "reap"}, Owner(s)' => Owner(s),
           UNCHANGED <<row, parent, owed, torn, pruned>>,
           IsTable(staging', Issued \X Session, SeedValue), OthersStaging(s),
           IsTable(dir', Issued, [seed : SeedValue, files : BOOLEAN]),
           DOMAIN dir \subseteq DOMAIN dir', DOMAIN dir' \subseteq DOMAIN dir \union {at[s].cur},
           \A n \in DOMAIN dir \ {at[s].cur} : dir'[n] = dir[n],
           at[s].cur \in DOMAIN dir' =>
             /\ dir'[at[s].cur].files <=> HasFiles(at[s].cur)
             /\ dir'[at[s].cur].seed = Bare => ~dir'[at[s].cur].files \/ at[s].cur \in torn,
           SessionInv(s)'
    PROVE  IInv'
<1> DEFINE c == at[s].cur
<1>1. /\ TablesInv /\ AloneInv /\ \A n \in Id : FilesInv(n)
  BY DEF IInv
<1>2. TablesInv'
  BY <1>1 DEF TablesInv, Issued
<1>3. StepOf(s)
  BY <1>1 DEF StepOf, Untouched, Issued, Present, HasFiles
<1>4. StaysApart(s)
  BY ApartInv DEF SessionInv
<1>5. ASSUME NEW n \in Id, n = c PROVE FilesInv(n)'
  BY <1>1, <1>5 DEF FilesInv, Kept, HasFiles, Present
<1> QED
  BY <1>2, <1>3, <1>4, <1>5, StepInv

\* The constructor of a workspace. A block finds its staging directory gone, and
\* is made in place like an adoption, only if a sweep took it (torn).
LEMMA WorkspaceStepInv ==
    ASSUME IInv, NEW s \in Session, WorkspaceStep(s)
    PROVE  IInv'
<1> DEFINE c == at[s].cur
           R == [seed : SeedValue, files : BOOLEAN]
<1>1. /\ at[s] \in Local /\ SessionInv(s) /\ at \in [Session -> Local]
      /\ IsTable(dir, Issued, R) /\ IsTable(staging, Issued \X Session, SeedValue)
      /\ \A n \in Id : FilesInv(n)
  BY DEF IInv, SessionInv, PlaceInv, TablesInv
<1>2. /\ at[s].pc \in {"place", "seed", "fill", "rename", "truncate", "rewrite"}
      /\ UNCHANGED <<row, parent, owed, torn, pruned>>
  BY DEF WorkspaceStep, Place, OpenSeed, FillSeed, Rename, RenameFails, Truncate, Rewrite,
     History
<1>3. /\ c \in Issued /\ c \in Id /\ c # None
      /\ at[s].pc \notin {"dead", "litter"} /\ at[s].pc \notin Running
      /\ at[s].adopting \/ Owner(s)
  BY <1>1, <1>2, ScratchNoneAssumption DEF SessionInv, PlaceInv, IInv, TablesInv, IsTable,
     Issued, Running, Owner, OwnerPoints, Making
<1>4. ASSUME NEW w \in Control, Goto(s, w)
      PROVE  /\ at' = [at EXCEPT ![s] = at'[s]] /\ at'[s] \in Local
             /\ at'[s].pc = w /\ at'[s].cur = c /\ at'[s].adopting = at[s].adopting
             /\ at'[s].dirs = at[s].dirs
  BY <1>1, <1>4 DEF Goto, Becomes, Local
<1>5. \A n \in DOMAIN dir : dir[n] \in R
  BY <1>1 DEF IsTable
<1>6. c \in DOMAIN dir =>
        (dir[c].seed = Bare => ~dir[c].files \/ c \in torn) /\ (dir[c].files <=> HasFiles(c))
  <2>1. c \in DOMAIN dir => (dir[c].files <=> HasFiles(c))
    BY DEF HasFiles
  <2> QED
    BY <1>1, <1>3, <2>1 DEF FilesInv
<1>7. Bare \in SeedValue /\ Torn \in SeedValue /\ s \in SeedValue /\ Bare # Torn /\ Bare # s
  BY ScratchNoneAssumption DEF SeedValue, Bare, Torn
<1>8. ASSUME UNCHANGED <<dir, staging>>, Raise(s) PROVE IInv'
  <2>1. UNCHANGED <<Disk, History>>
    BY <1>2, <1>8 DEF Disk, History
  <2>2. CASE ~at[s].adopting
    <3>1. Becomes(s, Ready)
      BY <1>8, <2>2 DEF Raise
    <3> QED
      BY <1>3, <2>1, <3>1, RestInv, RestStates
  <2>3. CASE at[s].adopting
    <3>1. Goto(s, "failed") /\ "failed" \in Control
      BY <1>8, <2>3 DEF Raise, Control
    <3>2. /\ at' = [at EXCEPT ![s] = at'[s]] /\ at'[s] \in Local /\ at'[s].adopting
          /\ at'[s].pc = "failed" /\ at'[s].cur = c /\ at'[s].dirs = at[s].dirs
      BY <1>4, <2>3, <3>1
    <3>3. SessionInv(s)' /\ ~Owner(s)'
      BY <1>1, <1>2, <1>3, <3>2 DEF SessionInv, PlaceInv, OwnInv, DeleteInv, Owner, Running,
         Issued
    <3>4. StaysApart(s)
      BY <1>2, <1>3, <3>2, <3>3, ApartInv DEF SessionInv
    <3> QED
      BY <1>3, <2>1, <3>2, <3>3, <3>4, QuietInv
  <2> QED
    BY <2>2, <2>3
<1>9. CASE Place(s)
  <2>1. /\ at[s].pc = "place" /\ UNCHANGED dir
        /\ \/ Goto(s, "truncate") /\ UNCHANGED staging /\ c \in DOMAIN dir
           \/ Goto(s, "seed") /\ staging' = With(staging, <<c, s>>, Bare) /\ c \notin DOMAIN dir
    BY <1>9 DEF Place
  <2>2. CASE c \in DOMAIN dir
    <3>1. Goto(s, "truncate") /\ UNCHANGED staging /\ at[s].adopting
      BY <1>1, <1>3, <2>1, <2>2 DEF SessionInv, OwnInv, Making
    <3>2. "truncate" \in Control
      BY DEF Control
    <3>3. /\ at' = [at EXCEPT ![s] = at'[s]] /\ at'[s] \in Local /\ at'[s].adopting
          /\ at'[s].pc = "truncate" /\ at'[s].cur = c /\ at'[s].dirs = at[s].dirs
      BY <1>4, <3>1, <3>2
    <3>4. SessionInv(s)' /\ ~Owner(s)'
      BY <1>1, <1>2, <1>3, <3>3 DEF SessionInv, PlaceInv, OwnInv, DeleteInv, Owner, Running,
         Issued
    <3> QED
      BY <1>1, <1>2, <1>3, <1>6, <2>1, <3>1, <3>3, <3>4, WorkspaceInv DEF OthersStaging
  <2>3. CASE c \notin DOMAIN dir
    <3>1. Goto(s, "seed") /\ staging' = With(staging, <<c, s>>, Bare)
      BY <2>1, <2>3
    <3>2. "seed" \in Control
      BY DEF Control
    <3>3. /\ at' = [at EXCEPT ![s] = at'[s]] /\ at'[s] \in Local
          /\ at'[s].pc = "seed" /\ at'[s].cur = c /\ at'[s].adopting = at[s].adopting
          /\ at'[s].dirs = at[s].dirs
      BY <1>4, <3>1, <3>2
    <3>4. /\ IsTable(staging', Issued \X Session, SeedValue)
          /\ DOMAIN staging' = DOMAIN staging \union {<<c, s>>}
      <4> DEFINE D == Issued \X Session
                 k == <<c, s>>
      <4>1. IsTable(staging, D, SeedValue) /\ k \in D /\ staging' = With(staging, k, Bare)
        BY <1>1, <1>3, <3>1
      <4> HIDE DEF D, k
      <4>2. IsTable(staging', D, SeedValue) /\ DOMAIN staging' = DOMAIN staging \union {k}
        BY <1>7, <4>1 DEF With, IsTable
      <4> QED
        BY <4>2 DEF D, k
    <3>5. SessionInv(s)' /\ (Owner(s)' => Owner(s))
      BY <1>1, <1>2, <1>3, <2>1, <2>3, <3>3, <3>4 DEF SessionInv, PlaceInv, OwnInv, DeleteInv,
         Owner, OwnerPoints, Making, Running, Issued, Present
    <3>6. OthersStaging(s)
      BY <3>4 DEF OthersStaging
    <3> QED
      BY <1>1, <1>2, <1>3, <1>6, <2>1, <3>3, <3>4, <3>5, <3>6, WorkspaceInv
  <2> QED
    BY <2>2, <2>3
<1>10. CASE OpenSeed(s)
  <2>1. at[s].pc = "seed" /\ UNCHANGED dir
    BY <1>10 DEF OpenSeed
  <2>2. CASE <<c, s>> \in DOMAIN staging
    <3>1. Goto(s, "fill") /\ staging' = [staging EXCEPT ![<<c, s>>] = Torn]
      BY <1>10, <2>2 DEF OpenSeed
    <3>2. "fill" \in Control
      BY DEF Control
    <3>3. /\ at' = [at EXCEPT ![s] = at'[s]] /\ at'[s] \in Local
          /\ at'[s].pc = "fill" /\ at'[s].cur = c /\ at'[s].adopting = at[s].adopting
          /\ at'[s].dirs = at[s].dirs
      BY <1>4, <3>1, <3>2
    <3>4. /\ IsTable(staging', Issued \X Session, SeedValue)
          /\ DOMAIN staging' = DOMAIN staging
      BY <1>1, <1>7, <3>1 DEF IsTable
    <3>5. SessionInv(s)' /\ (Owner(s)' => Owner(s))
      BY <1>1, <1>2, <1>3, <2>1, <2>2, <3>3, <3>4 DEF SessionInv, PlaceInv, OwnInv, DeleteInv,
         Owner, OwnerPoints, Making, Running, Issued, Present
    <3>6. OthersStaging(s)
      BY <3>4 DEF OthersStaging
    <3> QED
      BY <1>1, <1>2, <1>3, <1>6, <2>1, <3>3, <3>4, <3>5, <3>6, WorkspaceInv
  <2>3. CASE <<c, s>> \notin DOMAIN staging
    BY <1>8, <1>10, <2>1, <2>3 DEF OpenSeed
  <2> QED
    BY <2>2, <2>3
<1>11. CASE FillSeed(s)
  <2>1. /\ at[s].pc = "fill" /\ UNCHANGED dir /\ Goto(s, "rename")
        /\ staging' = IF <<c, s>> \in DOMAIN staging
                      THEN [staging EXCEPT ![<<c, s>>] = s] ELSE staging
    BY <1>11 DEF FillSeed
  <2>2. "rename" \in Control
    BY DEF Control
  <2>3. /\ at' = [at EXCEPT ![s] = at'[s]] /\ at'[s] \in Local
        /\ at'[s].pc = "rename" /\ at'[s].cur = c /\ at'[s].adopting = at[s].adopting
        /\ at'[s].dirs = at[s].dirs
    BY <1>4, <2>1, <2>2
  <2>4. /\ IsTable(staging', Issued \X Session, SeedValue)
        /\ DOMAIN staging' = DOMAIN staging
    BY <1>1, <1>7, <2>1 DEF IsTable
  <2>5. SessionInv(s)' /\ (Owner(s)' => Owner(s))
    BY <1>1, <1>2, <1>3, <2>1, <2>3, <2>4 DEF SessionInv, PlaceInv, OwnInv, DeleteInv,
       Owner, OwnerPoints, Making, Running, Issued, Present
  <2>6. OthersStaging(s)
    BY <2>4 DEF OthersStaging
  <2> QED
    BY <1>1, <1>2, <1>3, <1>6, <2>1, <2>3, <2>4, <2>5, <2>6, WorkspaceInv
<1>12. CASE Rename(s)
  <2> DEFINE w == IF at[s].adopting THEN "files" ELSE "block"
             d == [seed |-> s, files |-> FALSE]
  <2>1. /\ at[s].pc = "rename" /\ ~HasFiles(c)
        /\ dir' = With(dir, c, d) /\ staging' = Without(staging, <<c, s>>)
        /\ Goto(s, w)
    BY <1>12 DEF Rename, Placed, HasFiles, IsEmpty
  <2>2. w \in Control
    BY DEF Control
  <2>3. /\ at' = [at EXCEPT ![s] = at'[s]] /\ at'[s] \in Local
        /\ at'[s].pc = w /\ at'[s].cur = c /\ at'[s].adopting = at[s].adopting
        /\ at'[s].dirs = at[s].dirs
    BY <1>4, <2>1, <2>2
  <2>4. /\ IsTable(staging', Issued \X Session, SeedValue)
        /\ DOMAIN staging' = DOMAIN staging \ {<<c, s>>}
    BY <1>1, <2>1 DEF Without, Restrict, IsTable
  <2>5. /\ IsTable(dir', Issued, R) /\ DOMAIN dir' = DOMAIN dir \union {c}
        /\ dir'[c] = d /\ \A n \in DOMAIN dir \ {c} : dir'[n] = dir[n]
    <3>1. d \in R
      BY <1>7
    <3> HIDE DEF R, d
    <3> QED
      BY <1>1, <1>3, <2>1, <3>1 DEF With, IsTable
  <2>6. SessionInv(s)' /\ (Owner(s)' => Owner(s))
    BY <1>1, <1>2, <1>3, <2>1, <2>3, <2>5 DEF SessionInv, PlaceInv, OwnInv, DeleteInv, Owner,
       OwnerPoints, Making, Running, Issued, Present
  <2>7. OthersStaging(s)
    BY <2>4 DEF OthersStaging
  <2>8. at'[s].pc \notin {"off", "reap"}
    BY <2>3
  <2>9. (dir'[c].files <=> HasFiles(c)) /\ (dir'[c].seed = Bare => ~dir'[c].files)
    <3>1. dir'[c].files = FALSE
      BY <2>5
    <3> QED
      BY <2>1, <3>1
  <2> HIDE DEF w, d
  <2> QED
    BY <1>1, <1>2, <1>3, <2>1, <2>3, <2>4, <2>5, <2>6, <2>7, <2>8, <2>9, WorkspaceInv
<1>13. CASE RenameFails(s)
  <2> DEFINE d == [seed |-> Bare, files |-> FALSE]
  <2>1. /\ at[s].pc = "rename" /\ staging' = Without(staging, <<c, s>>)
        /\ <<c, s>> \notin DOMAIN staging \/ c \in DOMAIN dir
        /\ dir' = IF c \in DOMAIN dir THEN dir ELSE With(dir, c, d)
        /\ Goto(s, "truncate")
    BY <1>13 DEF RenameFails
  <2>2. "truncate" \in Control
    BY DEF Control
  <2>3. /\ at' = [at EXCEPT ![s] = at'[s]] /\ at'[s] \in Local
        /\ at'[s].pc = "truncate" /\ at'[s].cur = c /\ at'[s].adopting = at[s].adopting
        /\ at'[s].dirs = at[s].dirs
    BY <1>4, <2>1, <2>2
  <2>4. Owner(s) => c \in torn /\ c \notin DOMAIN dir /\ c \notin Present
    BY <1>1, <2>1 DEF SessionInv, OwnInv, Making
  <2>5. /\ IsTable(staging', Issued \X Session, SeedValue)
        /\ DOMAIN staging' = DOMAIN staging \ {<<c, s>>}
    BY <1>1, <2>1 DEF Without, Restrict, IsTable
  <2>6. /\ IsTable(dir', Issued, R) /\ DOMAIN dir' = DOMAIN dir \union {c}
        /\ c \notin DOMAIN dir => dir'[c] = d
        /\ c \in DOMAIN dir => dir' = dir
        /\ \A n \in DOMAIN dir \ {c} : dir'[n] = dir[n]
    <3>1. d \in R
      BY <1>7
    <3> HIDE DEF R, d
    <3>2. CASE c \in DOMAIN dir
      BY <1>1, <2>1, <3>2
    <3>3. CASE c \notin DOMAIN dir
      BY <1>1, <1>3, <2>1, <3>1, <3>3 DEF With, IsTable
    <3> QED
      BY <3>2, <3>3
  <2>7. SessionInv(s)' /\ (Owner(s)' => Owner(s))
    <3>1. Owner(s)' => Owner(s)
      BY <1>3, <2>3 DEF Owner
    <3>2. Owner(s) => dir'[c].seed = Bare /\ c \notin Present' /\ c \in torn'
      BY <1>2, <2>4, <2>6 DEF Present
    <3> QED
      BY <1>1, <1>2, <1>3, <2>3, <3>1, <3>2 DEF SessionInv, PlaceInv, OwnInv, DeleteInv, Making,
         Running, Issued
  <2>8. OthersStaging(s)
    BY <2>5 DEF OthersStaging
  <2>9. (dir'[c].files <=> HasFiles(c)) /\ (dir'[c].seed = Bare => ~dir'[c].files \/ c \in torn)
    <3>1. CASE c \in DOMAIN dir
      BY <1>6, <2>6, <3>1
    <3>2. CASE c \notin DOMAIN dir
      <4>1. dir'[c].files = FALSE
        BY <2>6, <3>2
      <4> QED
        BY <3>2, <4>1 DEF HasFiles
    <3> QED
      BY <3>1, <3>2
  <2> HIDE DEF d
  <2> QED
    BY <1>1, <1>2, <1>3, <2>1, <2>3, <2>5, <2>6, <2>7, <2>8, <2>9, WorkspaceInv
<1>14. CASE Truncate(s)
  <2>1. at[s].pc = "truncate" /\ UNCHANGED staging
    BY <1>14 DEF Truncate
  <2>2. CASE c \in DOMAIN dir
    <3>1. Goto(s, "rewrite") /\ dir' = [dir EXCEPT ![c].seed = Torn]
      BY <1>14, <2>2 DEF Truncate
    <3>2. "rewrite" \in Control
      BY DEF Control
    <3>3. /\ at' = [at EXCEPT ![s] = at'[s]] /\ at'[s] \in Local
          /\ at'[s].pc = "rewrite" /\ at'[s].cur = c /\ at'[s].adopting = at[s].adopting
          /\ at'[s].dirs = at[s].dirs
      BY <1>4, <3>1, <3>2
    <3>4. /\ IsTable(dir', Issued, R) /\ DOMAIN dir' = DOMAIN dir
          /\ dir'[c].files = dir[c].files /\ dir'[c].seed = Torn
          /\ \A n \in DOMAIN dir \ {c} : dir'[n] = dir[n]
      BY <1>1, <1>5, <1>7, <2>2, <3>1 DEF IsTable
    <3>5. SessionInv(s)' /\ (Owner(s)' => Owner(s))
      BY <1>1, <1>2, <1>3, <2>1, <3>3, <3>4 DEF SessionInv, PlaceInv, OwnInv, DeleteInv, Owner,
         OwnerPoints, Making, Running, Issued, Present
    <3>6. (dir'[c].files <=> HasFiles(c)) /\ (dir'[c].seed = Bare => ~dir'[c].files)
      BY <1>6, <1>7, <2>2, <3>4
    <3> QED
      BY <1>1, <1>2, <1>3, <2>1, <3>3, <3>4, <3>5, <3>6, WorkspaceInv DEF OthersStaging
  <2>3. CASE c \notin DOMAIN dir
    BY <1>8, <1>14, <2>1, <2>3 DEF Truncate
  <2> QED
    BY <2>2, <2>3
<1>15. CASE Rewrite(s)
  <2> DEFINE w == IF at[s].adopting THEN "files" ELSE "block"
  <2>1. /\ at[s].pc = "rewrite" /\ UNCHANGED staging /\ Goto(s, w)
        /\ dir' = IF c \in DOMAIN dir THEN [dir EXCEPT ![c].seed = s] ELSE dir
    BY <1>15 DEF Rewrite, Placed
  <2>2. w \in Control
    BY DEF Control
  <2>3. /\ at' = [at EXCEPT ![s] = at'[s]] /\ at'[s] \in Local
        /\ at'[s].pc = w /\ at'[s].cur = c /\ at'[s].adopting = at[s].adopting
        /\ at'[s].dirs = at[s].dirs
    BY <1>4, <2>1, <2>2
  <2>4. /\ IsTable(dir', Issued, R) /\ DOMAIN dir' = DOMAIN dir
        /\ c \in DOMAIN dir => dir'[c].files = dir[c].files /\ dir'[c].seed = s
        /\ \A n \in DOMAIN dir \ {c} : dir'[n] = dir[n]
    BY <1>1, <1>5, <1>7, <2>1 DEF IsTable
  <2>5. SessionInv(s)' /\ (Owner(s)' => Owner(s))
    BY <1>1, <1>2, <1>3, <2>1, <2>3, <2>4 DEF SessionInv, PlaceInv, OwnInv, DeleteInv, Owner,
       OwnerPoints, Making, Running, Issued, Present
  <2>6. c \in DOMAIN dir' =>
          (dir'[c].files <=> HasFiles(c)) /\ (dir'[c].seed = Bare => ~dir'[c].files)
    BY <1>6, <1>7, <2>4
  <2>7. at'[s].pc \notin {"off", "reap"}
    BY <2>3
  <2> HIDE DEF w
  <2> QED
    BY <1>1, <1>2, <1>3, <2>1, <2>3, <2>4, <2>5, <2>6, <2>7, WorkspaceInv DEF OthersStaging
<1> QED
  BY <1>9, <1>10, <1>11, <1>12, <1>13, <1>14, <1>15 DEF WorkspaceStep

-----------------------------------------------------------------------------
\* A new id is nobody else's.
LEMMA CreateNodeInv ==
    ASSUME IInv, NEW s \in Session, NEW n \in Id, NEW p \in Id \union {None},
           CreateNode(s, n, p)
    PROVE  IInv'
<1> DEFINE v == [Ready EXCEPT !.pc = "place", !.cur = n]
<1>1. /\ TablesInv /\ at \in [Session -> Local] /\ \A t \in Session : SessionInv(t)
  BY DEF IInv
<1>2. /\ at[s].pc = "open" /\ n \notin Issued /\ n \notin Present /\ n \notin DOMAIN dir
      /\ Becomes(s, v) /\ parent' = With(parent, n, p)
      /\ UNCHANGED <<row, dir, staging, owed, torn, pruned>>
  BY DEF CreateNode, Disk
<1>3. v \in Local /\ v.pc = "place" /\ v.cur = n /\ ~v.adopting /\ v.dirs = {}
  BY DEF Ready, Off, Local, Control
<1>4. at'[s] = v /\ at' = [at EXCEPT ![s] = at'[s]]
  BY <1>1, <1>2 DEF Becomes
<1> HIDE DEF v
<1>5. IsTable(parent', Id, Id \union {None}) /\ Issued' = Issued \union {n}
  BY <1>1, <1>2 DEF TablesInv, With, IsTable, Issued
<1>6. TablesInv'
  BY <1>1, <1>2, <1>5 DEF TablesInv, IsTable
<1>7. at[s].cur = None
  BY <1>1, <1>2 DEF SessionInv, PlaceInv
<1>8. StepOf(s)
  BY <1>2, <1>3, <1>4, <1>5 DEF StepOf, Untouched, OthersStaging, Present, HasFiles
<1>9. SessionInv(s)'
  BY <1>2, <1>3, <1>4, <1>5, ScratchNoneAssumption DEF SessionInv, PlaceInv, OwnInv, DeleteInv,
     Making, Running, Present
<1>10. ASSUME NEW t \in Session \ {s} PROVE Apart(t, s)' /\ Apart(s, t)'
  <2>1. at'[t] = at[t] /\ at[t].cur # n /\ n \notin at[t].dirs
    BY <1>1, <1>2, <1>4, ScratchNoneAssumption DEF SessionInv, PlaceInv
  <2> QED
    BY <1>3, <1>4, <2>1 DEF Apart
<1>11. StaysApart(s)
  BY <1>10 DEF StaysApart
<1> QED
  BY <1>3, <1>4, <1>6, <1>7, <1>8, <1>9, <1>11, ScratchNoneAssumption, StepInv

\* The files of a block go where its seed is, if no sweep took that for litter.
LEMMA WriteFileInv ==
    ASSUME IInv, NEW s \in Session, WriteFile(s)
    PROVE  IInv'
<1> DEFINE c == at[s].cur
           R == [seed : SeedValue, files : BOOLEAN]
           d == [seed |-> IF c \in DOMAIN dir THEN dir[c].seed ELSE Bare, files |-> TRUE]
<1>1. /\ TablesInv /\ at \in [Session -> Local] /\ SessionInv(s)
      /\ IsTable(dir, Issued, R)
  BY DEF IInv, TablesInv
<1>2. /\ at[s].pc = "block" /\ owed' = owed \union {c} /\ dir' = With(dir, c, d)
      /\ UNCHANGED <<row, staging, at, parent, torn, pruned>>
  BY DEF WriteFile
<1>3. /\ Owner(s) /\ c \notin Present /\ c \in Issued /\ c \in Id
      /\ c \in DOMAIN dir => dir[c].seed \in {s, Bare, Torn}
      /\ c \notin torn => c \in DOMAIN dir /\ dir[c].seed = s
  BY <1>1, <1>2, ScratchNoneAssumption DEF SessionInv, PlaceInv, OwnInv, Owner, OwnerPoints,
     Running, TablesInv, IsTable, Issued
<1>4. /\ d \in R /\ d.files = TRUE /\ d.seed \in {s, Bare, Torn}
      /\ c \notin torn => d.seed = s
  BY <1>3 DEF SeedValue
<1> HIDE DEF R, d
<1>5. /\ IsTable(dir', Issued, R) /\ DOMAIN dir' = DOMAIN dir \union {c}
      /\ dir'[c] = d /\ \A n \in DOMAIN dir \ {c} : dir'[n] = dir[n]
  BY <1>1, <1>2, <1>3, <1>4 DEF With, IsTable
<1>6. TablesInv'
  BY <1>1, <1>2, <1>3, <1>5 DEF TablesInv, IsTable, Issued, R
<1>7. StepOf(s)
  BY <1>1, <1>2, <1>3, <1>5 DEF StepOf, Untouched, OthersStaging, Present, Issued
<1>8. SessionInv(s)'
  BY <1>1, <1>2, <1>3, <1>4, <1>5 DEF SessionInv, PlaceInv, OwnInv, DeleteInv, Owner, OwnerPoints,
     Making, Running, Issued, Present
<1>9. StaysApart(s)
  BY <1>1, <1>2, <1>8, ApartInv DEF SessionInv, Owner
<1>10. ASSUME NEW n \in Id, n = c PROVE FilesInv(n)'
  BY <1>2, <1>3, <1>4, <1>5, <1>10, ScratchNoneAssumption DEF FilesInv, Kept, HasFiles, Present
<1> QED
  BY <1>2, <1>6, <1>7, <1>8, <1>9, <1>10, StepInv

\* A row is inserted with the files that are there.
LEMMA InsertInv ==
    ASSUME IInv, NEW s \in Session, NEW h \in BOOLEAN,
           \/ at[s].pc = "commit" /\ Goto(s, "discard")
           \/ at[s].pc = "adopt" /\ Goto(s, "remove"),
           Insert(at[s].cur, h)
    PROVE  IInv'
<1> DEFINE c == at[s].cur
           R == [healthy : BOOLEAN, files : BOOLEAN]
           r == [healthy |-> h, files |-> HasFiles(c)]
<1>1. /\ TablesInv /\ at \in [Session -> Local] /\ SessionInv(s) /\ AloneInv
      /\ \A n \in Id : FilesInv(n)
  BY DEF IInv
<1>2. /\ c \notin Present /\ row' = With(row, c, r)
      /\ UNCHANGED <<dir, staging, parent, owed, torn, pruned>>
  BY DEF Insert, MayInsert, History
<1>3. /\ at' = [at EXCEPT ![s] = at'[s]] /\ at'[s] \in Local
      /\ at'[s].cur = c /\ at'[s].adopting = at[s].adopting /\ at'[s].dirs = at[s].dirs
      /\ \/ at[s].pc = "commit" /\ at'[s].pc = "discard"
         \/ at[s].pc = "adopt" /\ at'[s].pc = "remove"
  BY <1>1 DEF Goto, Becomes, Local, Control
<1>4. c \in Issued /\ c \in Id
  BY <1>1, <1>3, ScratchNoneAssumption DEF SessionInv, PlaceInv, TablesInv, IsTable, Issued
<1>5. r \in R /\ (r.files <=> HasFiles(c))
  <2>1. HasFiles(c) \in BOOLEAN
    BY <1>1 DEF HasFiles, TablesInv, IsTable
  <2> QED
    BY <2>1
<1>6. /\ IsTable(row', Issued, R) /\ Present' = Present \union {c} /\ row'[c] = r
      /\ \A n \in Present \ {c} : row'[n] = row[n]
  <2>1. IsTable(row, Issued, R)
    BY <1>1 DEF TablesInv
  <2> HIDE DEF R, r
  <2> QED
    BY <1>2, <1>4, <1>5, <2>1 DEF With, IsTable, Present
<1> HIDE DEF r
<1>7. TablesInv'
  BY <1>1, <1>2, <1>6 DEF TablesInv, IsTable, Issued
<1>8. StepOf(s)
  BY <1>2, <1>3, <1>6 DEF StepOf, Untouched, OthersStaging, Present, Issued, HasFiles
<1>9. SessionInv(s)' /\ (Owner(s)' => Owner(s))
  BY <1>1, <1>2, <1>3, <1>4, <1>6 DEF SessionInv, PlaceInv, OwnInv, DeleteInv, Owner,
     OwnerPoints, Making, Running, Issued
<1>10. ASSUME NEW n \in Id, n = c PROVE FilesInv(n)'
  BY <1>1, <1>2, <1>5, <1>6, <1>10 DEF FilesInv, Kept, HasFiles, Present
<1>11. StaysApart(s)
  BY <1>2, <1>3, <1>9, ApartInv DEF SessionInv, Running
<1> QED
  BY <1>3, <1>7, <1>8, <1>9, <1>10, <1>11, StepInv

\* A prune takes rows, and what it takes is no longer owed.
LEMMA PruneInv ==
    ASSUME IInv, NEW s \in Session, NEW t \in Id, Prune(s, t)
    PROVE  IInv'
<1> DEFINE B == Below(t)
<1>1. /\ TablesInv /\ at \in [Session -> Local] /\ AloneInv /\ ReapInv
      /\ \A u \in Session : SessionInv(u)
      /\ \A n \in Id : FilesInv(n)
  BY DEF IInv
<1>2. /\ row' = Restrict(row, Present \ B) /\ owed' = owed \ B
      /\ pruned' = pruned \union B
      /\ UNCHANGED <<dir, staging, at, parent, torn>>
  BY DEF Prune
<1>3. B \subseteq Present
  BY DEF Below
<1> HIDE DEF B
<1>4. /\ Present' = Present \ B /\ \A n \in Present \ B : row'[n] = row[n]
      /\ IsTable(row', Issued, [healthy : BOOLEAN, files : BOOLEAN])
  BY <1>1, <1>2 DEF Restrict, Present, TablesInv, IsTable
<1>5. TablesInv'
  BY <1>1, <1>2, <1>3, <1>4 DEF TablesInv, IsTable, Issued, Present
<1>6. ASSUME NEW u \in Session PROVE SessionInv(u)'
  BY <1>1, <1>2, <1>4 DEF SessionInv, PlaceInv, OwnInv, DeleteInv, Owner, Issued, HasFiles
<1>7. AloneInv' /\ ReapInv'
  BY <1>1, <1>2 DEF AloneInv, Apart, ReapInv, Doomed, Owner
<1>8. ASSUME NEW n \in Id PROVE FilesInv(n)'
  BY <1>1, <1>2, <1>4 DEF FilesInv, Kept, HasFiles
<1> QED
  BY <1>1, <1>2, <1>5, <1>6, <1>7, <1>8 DEF IInv

\* What is condemned and reaped was left in staging by a dead process, or was met
\* before its seed was whole.
LEMMA StagingInv ==
    ASSUME IInv, NEW s \in Session,
           (\E g \in Id \X Session : CondemnStaging(s, g)) \/ ReapStaging(s)
    PROVE  IInv'
<1>1. /\ TablesInv /\ at \in [Session -> Local] /\ SessionInv(s) /\ ReapInv
      /\ \A t \in Session : PlaceInv(t)
      /\ at[s] \in Local
  BY DEF IInv, SessionInv, PlaceInv
<1>2. CASE \E g \in Id \X Session : CondemnStaging(s, g)
  <2> PICK g \in Id \X Session : CondemnStaging(s, g)
    BY <1>2
  <2> DEFINE v == [at[s] EXCEPT !.pc = "reap", !.stages = @ \ {g}, !.stage = g]
  <2>1. /\ at[s].pc = "sweep" /\ g \in DOMAIN staging /\ Becomes(s, v)
        /\ torn' = IF Alive(g[2]) THEN torn \union {g[1]} ELSE torn
        /\ UNCHANGED <<row, dir, staging, parent, owed, pruned>>
    BY DEF CondemnStaging, Disk
  <2>2. /\ at[g[2]].pc = "dead" \/ g[1] \in torn'
        /\ torn \subseteq torn' /\ torn' \subseteq Issued
    <3>1. ~Alive(g[2]) => at[g[2]].pc = "dead"
      BY <1>1, <2>1 DEF ReapInv, Alive
    <3>2. g[1] \in Issued /\ torn \subseteq Issued
      BY <1>1, <2>1 DEF TablesInv, IsTable
    <3> QED
      BY <2>1, <3>1, <3>2
  <2>3. at[s].cur = None
    BY <1>1, <2>1 DEF SessionInv, PlaceInv
  <2>4. v \in Local /\ v.pc = "reap" /\ v.stage = g /\ v.cur = None /\ v.dirs = at[s].dirs
    BY <1>1, <2>3 DEF Local, Control
  <2>5. at'[s] = v /\ at' = [at EXCEPT ![s] = at'[s]]
    BY <1>1, <2>1 DEF Becomes
  <2> HIDE DEF v
  <2>6. TablesInv'
    BY <1>1, <2>1, <2>2 DEF TablesInv, IsTable, Issued
  <2>7. StepOf(s)
    BY <2>1, <2>2, <2>4, <2>5 DEF StepOf, Untouched, OthersStaging, Issued, Present, HasFiles
  <2>8. SessionInv(s)' /\ ~Owner(s)'
    BY <1>1, <2>1, <2>4, <2>5 DEF SessionInv, PlaceInv, OwnInv, DeleteInv, Owner, OwnerPoints,
       Making, Running, Issued
  <2>9. StaysApart(s)
    BY <2>2, <2>4, <2>5, <2>8, ApartInv DEF SessionInv
  <2> QED
    BY <2>2, <2>3, <2>4, <2>5, <2>6, <2>7, <2>8, <2>9, ScratchNoneAssumption, StepInv
<1>3. CASE ReapStaging(s)
  <2> DEFINE g == at[s].stage
             v == NextEntry(s)
  <2>1. /\ at[s].pc = "reap" /\ Becomes(s, v) /\ staging' = Without(staging, g)
        /\ UNCHANGED <<row, dir, parent, owed, torn, pruned>>
    BY <1>3 DEF ReapStaging, History
  <2>2. Doomed(g) /\ at[s].cur = None
    BY <1>1, <2>1 DEF ReapInv, SessionInv, PlaceInv
  <2>3. v \in Local /\ v.pc = "sweep" /\ v.cur = None /\ v.dirs = at[s].dirs
    BY RestStates
  <2>4. at'[s] = v /\ at' = [at EXCEPT ![s] = at'[s]]
    BY <1>1, <2>1 DEF Becomes
  <2>5. /\ IsTable(staging', Issued \X Session, SeedValue)
        /\ DOMAIN staging' = DOMAIN staging \ {g}
    BY <1>1, <2>1 DEF Without, Restrict, IsTable, TablesInv
  <2> HIDE DEF v
  <2>6. TablesInv'
    BY <1>1, <2>1, <2>5 DEF TablesInv, Issued
  <2>7. OthersStaging(s)
    BY <2>2, <2>5 DEF OthersStaging
  <2>8. StepOf(s)
    BY <2>1, <2>3, <2>4, <2>7 DEF StepOf, Untouched, Issued, Present, HasFiles
  <2>9. SessionInv(s)' /\ ~Owner(s)'
    BY <1>1, <2>1, <2>3, <2>4 DEF SessionInv, PlaceInv, OwnInv, DeleteInv, Owner, OwnerPoints,
       Making, Running, Issued
  <2>10. StaysApart(s)
    BY <2>1, <2>3, <2>4, <2>9, ApartInv DEF SessionInv
  <2> QED
    BY <2>2, <2>3, <2>4, <2>6, <2>8, <2>9, <2>10, ScratchNoneAssumption, StepInv
<1> QED
  BY <1>2, <1>3

\* The sweep takes up an entry without a seed that can be read, or whose owner
\* is dead: never that of a running block, unless it was met half seeded.
LEMMA MeetInv ==
    ASSUME IInv, NEW s \in Session, NEW n \in Id, MeetLitter(s, n) \/ MeetOrphan(s, n)
    PROVE  IInv'
<1> DEFINE orphan == n \in DOMAIN dir /\ dir[n].seed \in Session
           w == IF orphan THEN "check" ELSE "litter"
           v == [at[s] EXCEPT !.pc = w, !.dirs = @ \ {n}, !.cur = n]
           met == n \in DOMAIN dir /\ dir[n].seed = Torn
<1>1. /\ TablesInv /\ at \in [Session -> Local] /\ SessionInv(s) /\ AloneInv
      /\ \A t \in Session : PlaceInv(t) /\ OwnInv(t)
      /\ \A m \in Id : FilesInv(m)
      /\ at[s] \in Local
  BY DEF IInv, SessionInv, PlaceInv
<1>2. /\ at[s].pc = "sweep" /\ n \in at[s].dirs /\ Becomes(s, v)
      /\ orphan => ~Alive(dir[n].seed)
      /\ torn' = IF met THEN torn \union {n} ELSE torn
      /\ UNCHANGED <<row, dir, staging, parent, owed, pruned>>
  <2>1. CASE MeetLitter(s, n)
    BY <2>1 DEF MeetLitter, Meets, Entry, Disk
  <2>2. CASE MeetOrphan(s, n)
    BY <2>2, ScratchNoneAssumption DEF MeetOrphan, Meets, Entry, Disk, History
  <2> QED
    BY <2>1, <2>2
<1>3. at[s].cur = None /\ n \in Issued /\ n # None
  BY <1>1, <1>2, ScratchNoneAssumption DEF PlaceInv
<1>4. w = (IF orphan THEN "check" ELSE "litter")
  OBVIOUS
<1> HIDE DEF w
<1>5. v \in Local /\ v.pc = w /\ v.cur = n /\ v.dirs \subseteq at[s].dirs
  BY <1>1, <1>4 DEF Local, Control
<1>6. at'[s] = v /\ at' = [at EXCEPT ![s] = at'[s]]
  BY <1>1, <1>2 DEF Becomes
<1> HIDE DEF v
<1>7. n \in DOMAIN dir => dir[n].seed \in Session \union {Bare, Torn}
  BY <1>1 DEF TablesInv, IsTable, SeedValue
<1>8. TablesInv'
  BY <1>1, <1>2, <1>3 DEF TablesInv, IsTable, Issued
<1>9. StepOf(s)
  BY <1>2, <1>4, <1>5, <1>6 DEF StepOf, Untouched, OthersStaging, Issued, Present, HasFiles
<1>10. w = "litter" => n \in torn' \/ ~HasFiles(n)
  BY <1>1, <1>2, <1>4, <1>7 DEF FilesInv, HasFiles
<1>11. SessionInv(s)' /\ ~Owner(s)'
  BY <1>1, <1>2, <1>3, <1>4, <1>5, <1>6, <1>10 DEF SessionInv, PlaceInv, OwnInv, DeleteInv, Owner,
     OwnerPoints, Making, Running, Issued, HasFiles
<1>12. ASSUME NEW t \in Session \ {s}, Owner(t) PROVE Apart(t, s)'
  <2>1. at'[t] = at[t] /\ OwnInv(t) /\ Apart(t, s) /\ Alive(t)
    BY <1>1, <1>6, <1>12 DEF AloneInv, Alive, Owner, OwnerPoints, Making, Running
  <2>2. ASSUME at[t].cur = n PROVE w = "litter" /\ n \in torn'
    <3>1. n \in DOMAIN dir => dir[n].seed \in {t, Bare, Torn}
      BY <1>12, <2>1, <2>2 DEF OwnInv
    <3>2. ~orphan
      BY <1>2, <2>1, <3>1, ScratchNoneAssumption
    <3>3. n \notin torn => at[t].pc \in Running
      BY <1>2, <2>1, <2>2 DEF Apart
    <3>4. n \notin torn => n \in DOMAIN dir /\ dir[n].seed = t
      BY <1>12, <2>1, <2>2, <3>3 DEF OwnInv
    <3> QED
      BY <1>2, <1>4, <3>2, <3>4
  <2> QED
    BY <1>2, <1>5, <1>6, <2>1, <2>2 DEF Apart
<1>13. StaysApart(s)
  BY <1>11, <1>12 DEF StaysApart
<1>14. w # "reap"
  BY <1>4
<1> QED
  BY <1>3, <1>5, <1>6, <1>8, <1>9, <1>11, <1>13, <1>14, ScratchNoneAssumption, StepInv

-----------------------------------------------------------------------------
\* The invariant depends on the variables only.
LEMMA StutterInv == IInv /\ UNCHANGED vars => IInv'
BY DEF IInv, TablesInv, SessionInv, PlaceInv, OwnInv, DeleteInv, AloneInv, Apart, ReapInv,
   Doomed, FilesInv, Owner, Kept, HasFiles, Present, Issued, vars

\* Every step of every session keeps the invariant.
LEMMA NextInv ==
    ASSUME IInv, Next
    PROVE  IInv'
<1> PICK s \in Session : WorkspaceStep(s) \/ BlockStep(s) \/ SweepStep(s) \/ Die(s)
  BY DEF Next
<1>1. CASE WorkspaceStep(s)
  BY <1>1, WorkspaceStepInv
<1>2. CASE BlockStep(s)
  <2>1. CASE \E n \in Id, p \in Id \union {None} : CreateNode(s, n, p)
    BY <2>1, CreateNodeInv
  <2>2. CASE WriteFile(s)
    BY <2>2, WriteFileInv
  <2>3. CASE Abandon(s) \/ (\E m \in Id : Rebind(s, m)) \/ Discard(s)
    BY <2>3, DropStepsInv
  <2>4. CASE (\E ok \in BOOLEAN : Finish(s, ok)) \/ CommitFails(s)
    BY <2>4, QuietStepsInv
  <2>5. CASE Commit(s)
    <3>1. at[s].ok \in BOOLEAN
      BY DEF IInv, SessionInv, PlaceInv, Local
    <3> QED
      BY <2>5, <3>1, InsertInv DEF Commit
  <2>6. CASE \E t \in Id : Prune(s, t)
    BY <2>6, PruneInv
  <2> QED
    BY <1>2, <2>1, <2>2, <2>3, <2>4, <2>5, <2>6 DEF BlockStep
<1>3. CASE SweepStep(s)
  <2>1. CASE \/ OpenStore(s)
             \/ \E g \in Id \X Session : LeaveStaging(s, g)
             \/ \E n \in Id : SkipEntry(s, n)
             \/ CheckRow(s) \/ LookForFiles(s) \/ AdoptFails(s) \/ Swept(s)
    BY <2>1, QuietStepsInv
  <2>2. CASE (\E g \in Id \X Session : CondemnStaging(s, g)) \/ ReapStaging(s)
    BY <2>2, StagingInv
  <2>3. CASE \E n \in Id : MeetLitter(s, n) \/ MeetOrphan(s, n)
    BY <2>3, MeetInv
  <2>4. CASE DeleteLitter(s) \/ Remove(s)
    BY <2>4, DropStepsInv
  <2>5. CASE Adopt(s)
    BY <2>5, InsertInv DEF Adopt
  <2> QED
    BY <1>3, <2>1, <2>2, <2>3, <2>4, <2>5 DEF SweepStep
<1>4. CASE Die(s)
  BY <1>4, QuietStepsInv
<1> QED
  BY <1>1, <1>2, <1>3, <1>4

\* The inductive invariant holds in every state of every execution.
THEOREM ScratchInvariance == Spec => []IInv
<1>1. IInv /\ [Next]_vars => IInv'
  BY NextInv, StutterInv
<1> QED
  BY InitInv, <1>1, PTL DEF Spec

\* The tables, the directories and the sessions keep their types.
THEOREM ScratchTypeCorrect == Spec => []TypeOK
BY ScratchInvariance, TypeFromInv, PTL

\* No open, sweep or kill elsewhere touches the directory of a running block
\* (docs/caveats.md:39), unless a sweep met the node before its seed was whole.
THEOREM LiveBlocksSafe == Spec => []LiveBlockUntouched
<1>1. IInv => LiveBlockUntouched
  BY DEF IInv, SessionInv, PlaceInv, OwnInv, Owner, OwnerPoints, Running, LiveBlockUntouched
<1> QED
  BY ScratchInvariance, <1>1, PTL

\* Whatever is killed, and whoever sweeps, files are lost only of a node that a
\* sweep met before its seed was whole.
THEOREM WorkSurvives == Spec => []WorkKeptUnlessTorn
<1>1. IInv => WorkKeptUnlessTorn
  BY DEF IInv, TablesInv, IsTable, Issued, FilesInv, WorkKeptUnlessTorn
<1> QED
  BY ScratchInvariance, <1>1, PTL

=============================================================================
