------------------------------ MODULE Scratch ------------------------------
(***************************************************************************)
(* The scratch directories of a store and what survives a hard kill        *)
(* (ingest/workspace.py, ingest/packing.py, store.create_node, and the     *)
(* sweep at every store open, maintenance.py). A session is one process    *)
(* that opens the store, runs blocks and prunes, and may be killed between *)
(* any two steps; its pid is the session itself, so that the reuse of a    *)
(* pid by the operating system is left out.                                *)
(*                                                                         *)
(* A step is one file-system call or one transaction: write_text is two,   *)
(* the open that leaves an empty file and the write; a rmtree is one. The  *)
(* clock is left out: a staging directory without a seed may be old enough *)
(* or not whenever a sweep looks at it. A node has at most one parent here *)
(* and a prune is one step: joins and the races of prune are in            *)
(* Lineage.tla.                                                            *)
(***************************************************************************)
EXTENDS Naturals, Functions

CONSTANTS
    Id,       \* node ids
    Session,  \* processes that open the store, each once
    None

VARIABLES
    row,      \* the table node: present ids -> health, whether it has files
    dir,      \* .scratch/<id>: ids -> the seed's pid, whether it has files
    staging,  \* .scratch/.staging-*: <<id, maker>> -> the seed's pid
    at,       \* each session: where it is and what it works on
    parent,   \* every id issued -> the parent named in its seed
    owed,     \* history: ids with files nobody discarded or pruned
    torn,     \* history: ids a sweep took for litter before their seed was whole
    pruned    \* history: ids a prune deleted

vars == <<row, dir, staging, at, parent, owed, torn, pruned>>

-----------------------------------------------------------------------------
Bare == "no seed"
Torn == "truncated seed"

ASSUME ScratchNoneAssumption ==
    /\ None \notin Id /\ None \notin Session
    /\ Bare \notin Session /\ Torn \notin Session

Off == [pc |-> "off", dirs |-> {}, stages |-> {}, cur |-> None,
        stage |-> <<None, None>>, adopting |-> FALSE, ok |-> TRUE]

Control == {"off", "sweep", "reap", "litter", "check", "place", "seed", "fill",
            "rename", "truncate", "rewrite", "files", "adopt", "remove", "open", "block",
            "commit", "discard", "failed", "dead"}

Alive(s) == at[s].pc \notin {"off", "dead"}
Present == DOMAIN row
Issued == DOMAIN parent
HasFiles(n) == n \in DOMAIN dir /\ dir[n].files
IsEmpty(n) == dir[n].seed = Bare /\ ~dir[n].files

With(f, k, v) == [x \in DOMAIN f \union {k} |-> IF x = k THEN v ELSE f[x]]
Without(f, k) == Restrict(f, DOMAIN f \ {k})

Init ==
    /\ row = [n \in {} |-> None]
    /\ dir = [n \in {} |-> None]
    /\ staging = [g \in {} |-> None]
    /\ at = [s \in Session |-> Off]
    /\ parent = [n \in {} |-> None]
    /\ owed = {} /\ torn = {} /\ pruned = {}

Becomes(s, state) == at' = [at EXCEPT ![s] = state]
Goto(s, where) == Becomes(s, [at[s] EXCEPT !.pc = where])
History == <<parent, owed, torn, pruned>>
Disk == <<row, dir, staging>>

NextEntryForgetsNothing(s) == [at[s] EXCEPT !.pc = "sweep"]

\* Back to the sweep's loop, or to the user's code.
NextEntry(s) == [at[s] EXCEPT !.pc = "sweep", !.cur = None, !.stage = <<None, None>>,
                              !.adopting = FALSE]
Ready == [Off EXCEPT !.pc = "open"]

-----------------------------------------------------------------------------
\* NodeWorkspace(...), for a new node and for one that is adopted.

\* A directory that is there is re-seeded in place; otherwise the node is
\* assembled in a staging directory ...
PlaceWithoutStaging(s) ==
    LET n == at[s].cur IN
    /\ at[s].pc = "place"
    /\ dir' = IF n \in DOMAIN dir THEN dir ELSE With(dir, n, [seed |-> Bare, files |-> FALSE])
    /\ Goto(s, "truncate")
    /\ UNCHANGED <<row, staging, History>>

Place(s) ==
    LET n == at[s].cur IN
    /\ at[s].pc = "place"
    /\ IF n \in DOMAIN dir
       THEN Goto(s, "truncate") /\ UNCHANGED staging
       ELSE Goto(s, "seed") /\ staging' = With(staging, <<n, s>>, Bare)
    /\ UNCHANGED <<row, dir, History>>

\* An OSError leaves the constructor: create_node raises before the block has
\* run, an adoption takes the opening of the store down with it.
Raise(s) ==
    IF at[s].adopting THEN Goto(s, "failed") ELSE Becomes(s, Ready)

\* ... where write_text opens its seed (unless a sweep took it for old
\* litter) ...
OpenSeed(s) ==
    LET g == <<at[s].cur, s>> IN
    /\ at[s].pc = "seed"
    /\ IF g \in DOMAIN staging
       THEN Goto(s, "fill") /\ staging' = [staging EXCEPT ![g] = Torn]
       ELSE Raise(s) /\ UNCHANGED staging
    /\ UNCHANGED <<row, dir, History>>

\* ... and writes it, to an unlinked file if a sweep came in between ...
FillSeed(s) ==
    LET g == <<at[s].cur, s>> IN
    /\ at[s].pc = "fill"
    /\ staging' = IF g \in DOMAIN staging THEN [staging EXCEPT ![g] = s] ELSE staging
    /\ Goto(s, "rename")
    /\ UNCHANGED <<row, dir, History>>

Placed(s) == Goto(s, IF at[s].adopting THEN "files" ELSE "block")

\* ... and renamed into place, where nothing or an empty directory is ...
Rename(s) ==
    LET n == at[s].cur IN
    /\ at[s].pc = "rename"
    /\ <<n, s>> \in DOMAIN staging
    /\ n \in DOMAIN dir => IsEmpty(n)
    /\ dir' = With(dir, n, [seed |-> s, files |-> FALSE])
    /\ staging' = Without(staging, <<n, s>>)
    /\ Placed(s)
    /\ UNCHANGED <<row, History>>

\* ... or, if the rename fails (as it may for an empty directory: Windows
\* refuses it), made in place and seeded there.
RenameFails(s) ==
    LET n == at[s].cur IN
    /\ at[s].pc = "rename"
    /\ <<n, s>> \notin DOMAIN staging \/ n \in DOMAIN dir
    /\ dir' = IF n \in DOMAIN dir THEN dir ELSE With(dir, n, [seed |-> Bare, files |-> FALSE])
    /\ staging' = Without(staging, <<n, s>>)
    /\ Goto(s, "truncate")
    /\ UNCHANGED <<row, History>>

\* write_text opens the seed, which truncates it ...
Truncate(s) ==
    LET n == at[s].cur IN
    /\ at[s].pc = "truncate"
    /\ IF n \in DOMAIN dir
       THEN Goto(s, "rewrite") /\ dir' = [dir EXCEPT ![n].seed = Torn]
       ELSE Raise(s) /\ UNCHANGED dir
    /\ UNCHANGED <<row, staging, History>>

\* ... and writes it; if the directory went meanwhile, to an unlinked file.
Rewrite(s) ==
    LET n == at[s].cur IN
    /\ at[s].pc = "rewrite"
    /\ dir' = IF n \in DOMAIN dir THEN [dir EXCEPT ![n].seed = s] ELSE dir
    /\ Placed(s)
    /\ UNCHANGED <<row, staging, History>>

WorkspaceStep(s) ==
    \/ Place(s) \/ OpenSeed(s) \/ FillSeed(s)
    \/ Rename(s) \/ RenameFails(s)
    \/ Truncate(s) \/ Rewrite(s)

-----------------------------------------------------------------------------
\* create_node: a parent that is present, an id nobody has had.
CreateNode(s, n, p) ==
    /\ at[s].pc = "open"
    /\ n \notin Issued \union Present \union DOMAIN dir
    /\ p \in Present \union {None}
    /\ Becomes(s, [Ready EXCEPT !.pc = "place", !.cur = n])
    /\ parent' = With(parent, n, p)
    /\ UNCHANGED <<Disk, owed, torn, pruned>>

\* The block writes an artifact; resolve makes the directories it needs.
WriteFile(s) ==
    LET n == at[s].cur IN
    /\ at[s].pc = "block"
    /\ dir' = With(dir, n, [seed |-> IF n \in DOMAIN dir THEN dir[n].seed ELSE Bare,
                            files |-> TRUE])
    /\ owed' = owed \union {n}
    /\ UNCHANGED <<row, staging, at, parent, torn, pruned>>

\* _finalize of an untouched block.
Abandon(s) ==
    /\ at[s].pc = "block" /\ ~HasFiles(at[s].cur)
    /\ dir' = Without(dir, at[s].cur)
    /\ Becomes(s, Ready)
    /\ UNCHANGED <<row, staging, History>>

\* _finalize of a clean run with a twin (_reuse_identical_node).
Rebind(s, m) ==
    LET n == at[s].cur IN
    /\ at[s].pc = "block"
    /\ m \in Present /\ row[m].healthy /\ parent[m] = parent[n]
    /\ row[m].files = HasFiles(n)
    /\ dir' = Without(dir, n)
    /\ owed' = owed \ {n}
    /\ Becomes(s, Ready)
    /\ UNCHANGED <<row, staging, parent, torn, pruned>>

\* _finalize of anything else: files, or metadata alone; it returned (ok) or
\* raised.
Finish(s, ok) ==
    /\ at[s].pc = "block"
    /\ Becomes(s, [at[s] EXCEPT !.pc = "commit", !.ok = ok])
    /\ UNCHANGED <<Disk, History>>

\* add_node: the primary key and the foreign key of the edge.
MayInsert(n) == n \notin Present /\ parent[n] \in Present \union {None}

\* ingest_node up to the end of its transaction, with the files it finds.
Insert(n, healthy) ==
    /\ MayInsert(n)
    /\ row' = With(row, n, [healthy |-> healthy, files |-> HasFiles(n)])
    /\ UNCHANGED <<dir, staging, History>>

Commit(s) ==
    /\ at[s].pc = "commit"
    /\ Insert(at[s].cur, at[s].ok)
    /\ Goto(s, "discard")

CommitFails(s) ==
    /\ at[s].pc = "commit"
    /\ Becomes(s, Ready)
    /\ UNCHANGED <<Disk, History>>

\* workspace.discard, once the node is durable.
Discard(s) ==
    /\ at[s].pc = "discard"
    /\ dir' = Without(dir, at[s].cur)
    /\ Becomes(s, Ready)
    /\ UNCHANGED <<row, staging, History>>

\* prune(t): t and everything below it.
Below(t) ==
    {n \in Present :
       \A S \in SUBSET Present :
         (t \in S /\ \A c \in Present : parent[c] \in S => c \in S) => n \in S}

Prune(s, t) ==
    /\ at[s].pc = "open" /\ t \in Present
    /\ row' = Restrict(row, Present \ Below(t))
    /\ owed' = owed \ Below(t)
    /\ pruned' = pruned \union Below(t)
    /\ UNCHANGED <<dir, staging, at, parent, torn>>

BlockStep(s) ==
    \/ \E n \in Id, p \in Id \union {None} : CreateNode(s, n, p)
    \/ WriteFile(s)
    \/ Abandon(s)
    \/ \E m \in Id : Rebind(s, m)
    \/ \E ok \in BOOLEAN : Finish(s, ok)
    \/ Commit(s)
    \/ CommitFails(s)
    \/ Discard(s)
    \/ \E t \in Id : Prune(s, t)

-----------------------------------------------------------------------------
\* LineageStore(root): the sweep lists .scratch once.
OpenStore(s) ==
    /\ at[s].pc = "off"
    /\ Becomes(s, [Off EXCEPT !.pc = "sweep", !.dirs = DOMAIN dir,
                              !.stages = DOMAIN staging])
    /\ UNCHANGED <<Disk, History>>

\* A staging directory (they sort first) is left alone if its seed names a live
\* process, or while it has no seed and is young (_STAGING_GRACE_SECONDS).
LeaveStaging(s, g) ==
    /\ at[s].pc = "sweep" /\ g \in at[s].stages
    /\ g \in DOMAIN staging =>
         staging[g] = Bare \/ (staging[g] \in Session /\ Alive(staging[g]))
    /\ Becomes(s, [at[s] EXCEPT !.stages = @ \ {g}])
    /\ UNCHANGED <<Disk, History>>

\* It is litter if its seed names a dead process, if it has none and is old, and,
\* old or not, if its seed is there and cannot be parsed (JSONDecodeError).
CondemnStaging(s, g) ==
    /\ at[s].pc = "sweep" /\ g \in at[s].stages
    /\ g \in DOMAIN staging
    /\ staging[g] \in Session => ~Alive(staging[g])
    /\ Becomes(s, [at[s] EXCEPT !.pc = "reap", !.stages = @ \ {g}, !.stage = g])
    /\ torn' = IF Alive(g[2]) THEN torn \union {g[1]} ELSE torn
    /\ UNCHANGED <<Disk, parent, owed, pruned>>

ReapStaging(s) ==
    /\ at[s].pc = "reap"
    /\ staging' = Without(staging, at[s].stage)
    /\ Becomes(s, NextEntry(s))
    /\ UNCHANGED <<row, dir, History>>

\* The seed of an entry is read and its pid probed. What is gone, or belongs to
\* a live process, is passed over ...
Entry(s, n) == at[s].pc = "sweep" /\ at[s].stages = {} /\ n \in at[s].dirs

Meets(s, n, where) ==
    Becomes(s, [at[s] EXCEPT !.pc = where, !.dirs = @ \ {n}, !.cur = n])

SkipEntry(s, n) ==
    /\ Entry(s, n)
    /\ n \in DOMAIN dir => dir[n].seed \in Session /\ Alive(dir[n].seed)
    /\ Becomes(s, [at[s] EXCEPT !.dirs = @ \ {n}])
    /\ UNCHANGED <<Disk, History>>

\* ... what has no seed that can be read is litter, a directory that went after
\* is_dir included ...
MeetLitter(s, n) ==
    /\ Entry(s, n)
    /\ n \in DOMAIN dir => dir[n].seed \notin Session
    /\ Meets(s, n, "litter")
    /\ torn' = IF n \in DOMAIN dir /\ dir[n].seed = Torn THEN torn \union {n} ELSE torn
    /\ UNCHANGED <<Disk, parent, owed, pruned>>

\* ... and the rest has lost its owner.
MeetOrphan(s, n) ==
    /\ Entry(s, n)
    /\ n \in DOMAIN dir /\ dir[n].seed \in Session /\ ~Alive(dir[n].seed)
    /\ Meets(s, n, "check")
    /\ UNCHANGED <<Disk, History>>

\* Unseeded or unreadable: deleted.
DeleteLitter(s) ==
    /\ at[s].pc = "litter"
    /\ dir' = Without(dir, at[s].cur)
    /\ Becomes(s, NextEntry(s))
    /\ UNCHANGED <<row, staging, History>>

\* Its owner is dead: if the node is durable the directory is a leftover, else
\* a workspace is made of it.
CheckRow(s) ==
    /\ at[s].pc = "check"
    /\ IF at[s].cur \in Present
       THEN Goto(s, "remove")
       ELSE Becomes(s, [at[s] EXCEPT !.pc = "place", !.adopting = TRUE])
    /\ UNCHANGED <<Disk, History>>

\* No files, no evidence.
LookForFiles(s) ==
    /\ at[s].pc = "files"
    /\ Goto(s, IF HasFiles(at[s].cur) THEN "adopt" ELSE "remove")
    /\ UNCHANGED <<Disk, History>>

\* The files become an unhealthy node, then the directory is discarded ...
Adopt(s) ==
    /\ at[s].pc = "adopt"
    /\ Insert(at[s].cur, FALSE)
    /\ Goto(s, "remove")

AdoptFailsAndRemoves(s) ==
    /\ at[s].pc = "adopt"
    /\ Goto(s, "remove")
    /\ UNCHANGED <<Disk, History>>

\* ... or anything fails and it is kept as it is.
AdoptFails(s) ==
    /\ at[s].pc = "adopt"
    /\ Becomes(s, NextEntry(s))
    /\ UNCHANGED <<Disk, History>>

Remove(s) ==
    /\ at[s].pc = "remove"
    /\ dir' = Without(dir, at[s].cur)
    /\ Becomes(s, NextEntry(s))
    /\ UNCHANGED <<row, staging, History>>

Swept(s) ==
    /\ at[s].pc = "sweep" /\ at[s].dirs = {} /\ at[s].stages = {}
    /\ Becomes(s, Ready)
    /\ UNCHANGED <<Disk, History>>

SweepStep(s) ==
    \/ OpenStore(s)
    \/ \E g \in Id \X Session :
         LeaveStaging(s, g) \/ CondemnStaging(s, g)
    \/ ReapStaging(s)
    \/ \E n \in Id : SkipEntry(s, n) \/ MeetLitter(s, n) \/ MeetOrphan(s, n)
    \/ DeleteLitter(s) \/ CheckRow(s) \/ LookForFiles(s)
    \/ Adopt(s) \/ AdoptFails(s) \/ Remove(s)
    \/ Swept(s)

-----------------------------------------------------------------------------
\* The process ends, or is killed: the disk stays as it is.
Die(s) ==
    /\ Alive(s)
    /\ Becomes(s, [Off EXCEPT !.pc = "dead"])
    /\ UNCHANGED <<Disk, History>>

Next == \E s \in Session : WorkspaceStep(s) \/ BlockStep(s) \/ SweepStep(s) \/ Die(s)

Spec == Init /\ [][Next]_vars
-----------------------------------------------------------------------------
IsTable(f, D, R) == DOMAIN f \subseteq D /\ f \in [DOMAIN f -> R]

Local == [pc : Control, dirs : SUBSET Id, stages : SUBSET (Id \X Session),
          cur : Id \union {None},
          stage : (Id \union {None}) \X (Session \union {None}),
          adopting : BOOLEAN, ok : BOOLEAN]

\* The tables, the directories and the sessions keep their types; whatever has
\* a row or a directory was issued, and whoever works on an entry has one.
TypeOK ==
    /\ IsTable(parent, Id, Id \union {None})
    /\ IsTable(row, Issued, [healthy : BOOLEAN, files : BOOLEAN])
    /\ IsTable(dir, Issued,
               [seed : Session \union {Bare, Torn}, files : BOOLEAN])
    /\ IsTable(staging, Issued \X Session, Session \union {Bare, Torn})
    /\ at \in [Session -> Local]
    /\ \A s \in Session :
         (at[s].cur = None) = (at[s].pc \in {"off", "sweep", "reap", "open", "dead"})
    /\ owed \subseteq Issued
    /\ torn \subseteq Issued
    /\ pruned \subseteq Issued

\* "The sweep never touches a node another process is still writing"
\* (docs/caveats.md:39): while a block runs, its directory is there under the
\* seed of its own process, however many stores are opened meanwhile. It holds
\* but for a block whose staging directory a sweep took for litter between the
\* open and the write of its seed (maintenance.py:185), or, the process being
\* late, before: the block then runs in a directory made in place, unseeded for
\* a moment, which a third open deletes.
LiveBlockUntouched ==
    \A s \in Session :
      at[s].pc \in {"block", "commit"} /\ at[s].cur \notin torn =>
        /\ at[s].cur \in DOMAIN dir
        /\ dir[at[s].cur].seed = s

\* The files of n are where they can be found again.
Kept(n) == HasFiles(n) \/ (n \in Present /\ row[n].files)

\* "Partial work stays evidence even across a SIGKILL" (workspace.py:11): files
\* a block wrote, and nobody discarded or pruned, are in a row or in scratch.
WorkKept == \A n \in owed : Kept(n)

\* ... which holds, whatever is killed and whoever sweeps, save for a node whose
\* seed a sweep met half written, in place or in staging, or not yet there after
\* the grace period.
WorkKeptUnlessTorn == \A n \in owed \ torn : Kept(n)

\* "prune is permanent ... There is no undo" (docs/caveats.md:21-23).
PruneIsPermanent == pruned \intersect Present = {}
=============================================================================
