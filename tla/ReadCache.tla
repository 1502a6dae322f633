----------------------------- MODULE ReadCache -----------------------------
(***************************************************************************)
(* The session read cache: ChunkStore.reassemble, _cache_dir, clear_cache  *)
(* (db/chunk_store.py 376-417), the sweep of dead sessions at store open   *)
(* (_sweep_stale_cache, maintenance.py 189-211) and LineageStore._release. *)
(* Threads of a process share _cache_root; processes share the directory   *)
(* .cache, where each session has a directory tagged with its pid; a fork  *)
(* copies _cache_root. A step is one call of the file system or one access *)
(* to a shared attribute. Reading the chunks is one step: Chunks.tla opens *)
(* it up. A pid is not used twice.                                         *)
(***************************************************************************)
EXTENDS Naturals, FiniteSets

CONSTANTS
    Process,        \* the pids
    Thread,         \* the threads <<pid, number>>
    Artifact,
    None,
    MaxSessions     \* process -> bound on the directories it names

ASSUME ThreadAssumption == Thread \subseteq Process \X Nat
ASSUME NoneAssumption == None \notin Process \X Nat /\ None \notin Artifact
ASSUME NameAssumption == \A a \in Artifact, t \in Thread \union {None} : <<a, t>> \notin Artifact
ASSUME SessionAssumption == MaxSessions \in [Process -> Nat]

VARIABLES
    stored,     \* the artifacts the database still has
    cache,      \* whether .cache exists
    dirs,       \* the session directories in it
    files,      \* what they hold: <<session, name>>
    mode,       \* how far each process is with opening and closing its store
    root,       \* process -> _cache_root
    todo,       \* process -> the entries its sweep has still to look at
    pc,         \* where each thread is in reassemble
    want,       \* the artifact it reads
    dir,        \* the directory it works in
    named,      \* history: how many sessions each process has named
    returned,   \* history: the paths given to open stores: <<pid, session, artifact>>
    deceased,   \* history: the processes that were dead when each began to sweep
    forked,     \* history: processes that inherited a session or passed one on
    doubled,    \* history: processes two of whose threads began a session at once
    late,       \* history: processes that read while they closed, or after
    undercut    \* history: threads that lost .cache while they made a directory in it

disk == <<stored, cache, dirs, files>>
process == <<mode, root, todo>>
thread == <<pc, want, dir>>
history == <<named, returned, deceased, forked, doubled, late, undercut>>
vars == <<disk, process, thread, history>>

-----------------------------------------------------------------------------
Session == Process \X Nat
Mode == {"new", "listing", "sweeping", "unopened", "open", "wiping", "rmdir",
         "rmparent", "unmanaged", "closed", "exited", "dead"}
Making == {"mkdir", "mkcache", "mksession", "recache", "resession"}
Control == {"idle", "failed", "check", "name", "take", "look", "fetch", "mknode",
            "write", "replace"} \union Making

Alive(p) == mode[p] \notin {"new", "exited", "dead"}

OneTemp(t) == <<want[t], None>>

\* A temporary name has the thread in it (a uuid, line 388); files count by name.
Temp(t) == <<want[t], t>>

Init ==
    /\ stored = Artifact /\ cache = FALSE /\ dirs = {} /\ files = {}
    /\ mode = [p \in Process |-> "new"]
    /\ root = [p \in Process |-> None]
    /\ todo = [p \in Process |-> {}]
    /\ pc = [t \in Thread |-> "idle"]
    /\ want = [t \in Thread |-> None]
    /\ dir = [t \in Thread |-> None]
    /\ named = [p \in Process |-> 0]
    /\ deceased = [p \in Process |-> {}]
    /\ returned = {} /\ forked = {} /\ doubled = {} /\ late = {} /\ undercut = {}

-----------------------------------------------------------------------------
\* A thread's call of reassemble.

At(t, here, there) == pc[t] = here /\ pc' = [pc EXCEPT ![t] = there]

\* A read may come at any time, even from a node of a store that is closed.
Ask(t) ==
    /\ mode[t[1]] \in {"open", "closed"}
    /\ pc[t] \in {"idle", "failed"}
    /\ pc' = [pc EXCEPT ![t] = "check"]
    /\ \E a \in Artifact : want' = [want EXCEPT ![t] = a]
    /\ late' = IF mode[t[1]] = "open" THEN late ELSE late \union {t[1]}
    /\ undercut' = undercut \ {t}
    /\ UNCHANGED <<disk, process, dir, named, returned, deceased, forked, doubled>>

CheckRoot(t) ==
    /\ At(t, "check", IF root[t[1]] = None THEN "name" ELSE "take")
    /\ UNCHANGED <<disk, process, want, dir, history>>

Name(t) == LET p == t[1] IN
    /\ named[p] < MaxSessions[p]
    /\ At(t, "name", "mkdir")
    /\ named' = [named EXCEPT ![p] = @ + 1]
    /\ root' = [root EXCEPT ![p] = <<p, named'[p]>>]
    /\ doubled' = IF \E o \in Thread \ {t} : o[1] = p /\ pc[o] \in {"name"} \union Making
                  THEN doubled \union {p} ELSE doubled
    /\ UNCHANGED <<disk, mode, todo, want, dir, returned, deceased, forked, late,
                   undercut>>

\* Path.mkdir(parents=True) tries the directory first, then .cache, then again.
MakeDir(t, here, target, done, parent) ==
    /\ target # None /\ dir' = [dir EXCEPT ![t] = target]
    /\ IF cache \/ target \in dirs
       THEN At(t, here, done) /\ dirs' = dirs \union {target}
       ELSE At(t, here, parent) /\ UNCHANGED dirs
    /\ UNCHANGED <<stored, cache, files, process, want, history>>

MakeParent(t, here, there) ==
    /\ At(t, here, there)
    /\ cache' = TRUE
    /\ UNCHANGED <<stored, dirs, files, process, want, dir, history>>

MakeAgain(t, here, there) ==
    /\ cache /\ At(t, here, there)
    /\ dirs' = dirs \union {dir[t]}
    /\ UNCHANGED <<stored, cache, files, process, want, dir, history>>

MkSession(t) == MakeDir(t, "mkdir", root[t[1]], "take", "mkcache")
MkNode(t) == MakeDir(t, "mknode", dir[t], "write", "recache")
MkCache(t) == MakeParent(t, "mkcache", "mksession") \/ MakeParent(t, "recache", "resession")
MkAgain(t) == MakeAgain(t, "mksession", "take") \/ MakeAgain(t, "resession", "write")

\* _cache_dir reads the attribute a second time to return it.
Take(t) ==
    /\ root[t[1]] # None
    /\ At(t, "take", "look")
    /\ dir' = [dir EXCEPT ![t] = root[t[1]]]
    /\ UNCHANGED <<disk, process, want, history>>

Return(t) ==
    /\ returned' = IF mode[t[1]] = "open"
                   THEN returned \union {<<t[1], dir[t], want[t]>>} ELSE returned
    /\ pc' = [pc EXCEPT ![t] = "idle"]
    /\ want' = [want EXCEPT ![t] = None] /\ dir' = [dir EXCEPT ![t] = None]
    /\ UNCHANGED <<process, named, deceased, forked, doubled, late, undercut>>

AnyCopy(t) == {f \in files : f[1] = dir[t] /\ f[2] \in {want[t]} \union ({want[t]} \X Thread)}

\* The copies reassemble takes for finished.
Finished(t) == {f \in files : f = <<dir[t], want[t]>>}

Hit(t) ==
    /\ pc[t] = "look" /\ Finished(t) # {} /\ Return(t)
    /\ UNCHANGED disk

Miss(t) ==
    /\ Finished(t) = {} /\ At(t, "look", "fetch")
    /\ UNCHANGED <<disk, process, want, dir, history>>

\* artifact_bytes.
Fetch(t) ==
    /\ want[t] \in stored /\ mode[t[1]] # "closed"
    /\ At(t, "fetch", "mknode")
    /\ UNCHANGED <<disk, process, want, dir, history>>

Write(t) ==
    /\ dir[t] \in dirs
    /\ At(t, "write", "replace")
    /\ files' = files \union {<<dir[t], Temp(t)>>}
    /\ UNCHANGED <<stored, cache, dirs, process, want, dir, history>>

Replace(t) ==
    /\ <<dir[t], Temp(t)>> \in files
    /\ pc[t] = "replace" /\ Return(t)
    /\ files' = (files \ {<<dir[t], Temp(t)>>}) \union {<<dir[t], want[t]>>}
    /\ UNCHANGED <<stored, cache, dirs>>

\* An exception leaves reassemble: an attribute that is None again, a manager
\* that is closed, an artifact that is pruned, a directory or a file that is gone.
Fail(t) ==
    /\ \/ pc[t] \in {"mkdir", "take"} /\ root[t[1]] = None
       \/ pc[t] \in {"mksession", "resession"} /\ ~cache
       \/ pc[t] = "fetch" /\ (want[t] \notin stored \/ mode[t[1]] = "closed")
       \/ pc[t] = "write" /\ dir[t] \notin dirs
       \/ pc[t] = "replace" /\ <<dir[t], Temp(t)>> \notin files
    /\ pc' = [pc EXCEPT ![t] = "failed"]
    /\ dir' = [dir EXCEPT ![t] = None]
    /\ UNCHANGED <<disk, process, want, history>>

-----------------------------------------------------------------------------
\* Opening: the sweep.

Become(p, here, there) == mode[p] = here /\ mode' = [mode EXCEPT ![p] = there]

LookForCache(p) ==
    /\ Become(p, "new", IF cache THEN "listing" ELSE "open")
    /\ deceased' = [deceased EXCEPT ![p] = {q \in Process : mode[q] = "dead"}]
    /\ UNCHANGED <<disk, root, todo, thread, named, returned, forked, doubled, late, undercut>>

\* iterdir() raises if another session's end has taken .cache away.
List(p) ==
    /\ Become(p, "listing", IF cache THEN "sweeping" ELSE "unopened")
    /\ todo' = [todo EXCEPT ![p] = dirs]
    /\ UNCHANGED <<disk, root, thread, history>>

Current(s) == Alive(s[1])

Stale(s) == ~Alive(s[1])

Reap(p) ==
    /\ mode[p] = "sweeping"
    /\ \E s \in todo[p] :
        /\ todo' = [todo EXCEPT ![p] = @ \ {s}]
        /\ IF Stale(s)
           THEN dirs' = dirs \ {s} /\ files' = {f \in files : f[1] # s}
           ELSE UNCHANGED <<dirs, files>>
    /\ UNCHANGED <<stored, cache, mode, root, thread, history>>

Opened(p) ==
    /\ todo[p] = {} /\ Become(p, "sweeping", "open")
    /\ UNCHANGED <<disk, root, todo, thread, history>>

-----------------------------------------------------------------------------
\* Closing: clear_cache, then the manager. At exit clear_cache runs once more.

Reading(p) == \E t \in Thread : t[1] = p /\ pc[t] \notin {"idle", "failed"}

Close(p) ==
    /\ Become(p, "open", IF root[p] = None THEN "unmanaged" ELSE "wiping")
    /\ late' = IF Reading(p) THEN late \union {p} ELSE late
    /\ returned' = {r \in returned : r[1] # p}
    /\ UNCHANGED <<disk, root, todo, thread, named, deceased, forked, doubled, undercut>>

FoundStored(p) == {f \in files : f[1] = root[p] /\ f[2] \in stored}

\* The files rmtree finds in the session directory.
Found(p) == {f \in files : f[1] = root[p]}

WipeFiles(p) ==
    /\ Become(p, "wiping", "rmdir")
    /\ files' = files \ Found(p)
    /\ UNCHANGED <<stored, cache, dirs, root, todo, thread, history>>

RemoveDir(p) ==
    /\ Become(p, "rmdir", "rmparent")
    /\ dirs' = IF \E f \in files : f[1] = root[p] THEN dirs ELSE dirs \ {root[p]}
    /\ UNCHANGED <<stored, cache, files, root, todo, thread, history>>

AlwaysVacant == TRUE

\* rmdir() takes .cache only from under no session.
Vacant == dirs = {}

RemoveParent(p) ==
    /\ Become(p, "rmparent", "unmanaged")
    /\ cache' = ~Vacant
    /\ root' = [root EXCEPT ![p] = None]
    /\ undercut' = IF Vacant THEN undercut \union {t \in Thread : pc[t] \in Making}
                   ELSE undercut
    /\ UNCHANGED <<stored, dirs, files, todo, thread, named, returned, deceased,
                   forked, doubled, late>>

CloseManager(p) ==
    /\ Become(p, "unmanaged", "closed")
    /\ UNCHANGED <<disk, root, todo, thread, history>>

Exit(p) ==
    /\ ~Reading(p)
    /\ Become(p, "closed", IF root[p] = None THEN "exited" ELSE "wiping")
    /\ UNCHANGED <<disk, root, todo, thread, history>>

-----------------------------------------------------------------------------
\* Around it: a kill, a fork, a prune.

Kill(p) ==
    /\ Alive(p)
    /\ mode' = [mode EXCEPT ![p] = "dead"]
    /\ root' = [root EXCEPT ![p] = None] /\ todo' = [todo EXCEPT ![p] = {}]
    /\ pc' = [t \in Thread |-> IF t[1] = p THEN "idle" ELSE pc[t]]
    /\ want' = [t \in Thread |-> IF t[1] = p THEN None ELSE want[t]]
    /\ dir' = [t \in Thread |-> IF t[1] = p THEN None ELSE dir[t]]
    /\ returned' = {r \in returned : r[1] # p}
    /\ UNCHANGED <<disk, named, deceased, forked, doubled, late, undercut>>

Fork(p, q) ==
    /\ mode[p] = "open" /\ mode[q] = "new"
    /\ mode' = [mode EXCEPT ![q] = "open"]
    /\ root' = [root EXCEPT ![q] = root[p]]
    /\ forked' = forked \union {p, q}
    /\ UNCHANGED <<disk, todo, thread, named, returned, deceased, doubled, late, undercut>>

Prune(a) ==
    /\ a \in stored /\ stored' = stored \ {a}
    /\ UNCHANGED <<cache, dirs, files, process, thread, history>>

Next ==
    \/ \E t \in Thread :
        \/ Ask(t) \/ CheckRoot(t) \/ Name(t) \/ MkSession(t) \/ MkCache(t) \/ MkAgain(t)
        \/ Take(t) \/ Hit(t) \/ Miss(t) \/ Fetch(t) \/ MkNode(t) \/ Write(t) \/ Replace(t) \/ Fail(t)
    \/ \E p \in Process :
        \/ LookForCache(p) \/ List(p) \/ Reap(p) \/ Opened(p)
        \/ Close(p) \/ WipeFiles(p) \/ RemoveDir(p) \/ RemoveParent(p) \/ CloseManager(p)
        \/ Exit(p) \/ Kill(p)
    \/ \E p, q \in Process : Fork(p, q)
    \/ \E a \in Artifact : Prune(a)

Spec == Init /\ [][Next]_vars

-----------------------------------------------------------------------------
\* Every variable keeps its type; a file lies in a session directory, and that in
\* .cache, through all that is removed meanwhile.
TypeOK ==
    /\ stored \subseteq Artifact /\ cache \in BOOLEAN
    /\ dirs \subseteq IF cache THEN Session ELSE {}
    /\ files \subseteq dirs \X (Artifact \union (Artifact \X (Thread \union {None})))
    /\ mode \in [Process -> Mode]
    /\ root \in [Process -> Session \union {None}]
    /\ todo \in [Process -> SUBSET Session]
    /\ pc \in [Thread -> Control]
    /\ want \in [Thread -> Artifact \union {None}]
    /\ dir \in [Thread -> Session \union {None}]
    /\ named \in [Process -> Nat]
    /\ returned \subseteq Process \X Session \X Artifact
    /\ deceased \in [Process -> SUBSET Process]
    /\ forked \subseteq Process /\ doubled \subseteq Process /\ late \subseteq Process
    /\ undercut \subseteq Thread

\* A path a process was given stays readable as long as its store is open:
\* no other thread, sweep or closing session takes the file away, though a prune
\* may take its node (chunk_store.py 376-391, maintenance.py 196). A process that
\* forked is the exception: parent and child clear one session.
PathsReadable == \A r \in returned :
    mode[r[1]] = "open" /\ r[1] \notin forked => <<r[2], r[3]>> \in files

\* A read fails only if its artifact is pruned, its store was closing meanwhile,
\* the session is shared with a fork, or the end of another session removed .cache
\* while the first read was making its directory (chunk_store.py 404, 416).
FailsOnlyIf == \A t \in Thread : pc[t] = "failed" =>
    \/ want[t] \notin stored \/ t[1] \in late \union forked \/ t \in undercut

\* An open store has swept away the directories of every process that was dead
\* when it began, unless a forked child of one goes on with its session
\* (maintenance.py 189-211).
SweptClean == \A p \in Process : mode[p] = "open" =>
    \A s \in dirs : s[1] \in deceased[p] => s[1] \in forked

\* A process that exits leaves no session directory behind, unless two threads
\* began its session at once, it read while it closed, or it forked
\* (chunk_store.py 408-417, store.py 173-179).
LeavesNothing == \A s \in dirs :
    mode[s[1]] = "exited" => s[1] \in doubled \union late \union forked
=============================================================================
