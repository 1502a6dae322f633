------------------------------ MODULE Opening ------------------------------
(***************************************************************************)
(* Processes open one store root at once: _refuse_legacy_root, the check   *)
(* or creation of the schema (db/schema.py) and the stored policy          *)
(* (LineageStore._load_or_create_config), with deaths in between and new   *)
(* attempts. The root starts as any root an ancestree may be pointed at.   *)
(*                                                                         *)
(* SQLite's part: the DDL script is one transaction that takes the write   *)
(* lock at its first CREATE; a CREATE of a table that exists fails, as     *)
(* does one that waits too long for the lock; a death rolls back.          *)
(***************************************************************************)
EXTENDS Integers

CONSTANTS
    Process,
    Setting,        \* what a policy sets: rules, gen_triggers and the two flags
    Lists,          \* rules and gen_triggers, whose default is the empty one
    Value,          \* the values of the settings
    Request,        \* what callers ask for: per setting a value, or None
    Default,        \* the value of each setting where nothing is asked for
    None,           \* nothing asked for; no policy stored; nobody
    Current,        \* SCHEMA_VERSION
    Stamp,          \* the values PRAGMA user_version may have
    MaxTries        \* bound on the attempts of all processes

Policy == [Setting -> Value]

ASSUME PolicyAssumption == /\ Default \in Policy /\ Lists \subseteq Setting
                           /\ None \notin Policy /\ None \notin Value
ASSUME RequestAssumption == Request \subseteq [Setting -> Value \union {None}]
ASSUME ProcessAssumption == None \notin Process
ASSUME StampAssumption == Stamp \subseteq Int /\ 0 \in Stamp /\ Current \in Stamp
ASSUME CurrentAssumption == Current # 0
ASSUME TriesAssumption == MaxTries \in Nat

VARIABLES
    legacy,     \* whether the root holds a 0.1.x store
    exists,     \* whether ancestree.db exists
    tables,     \* its tables: "none", "foreign", "partial" or "all"
    version,    \* its user_version
    stored,     \* its policy row
    writer,     \* the process inside the DDL transaction, or None
    pc,         \* where each process is
    asked,      \* what each asked for
    saw,        \* the tables each saw
    policy,     \* the policy each open store works under
    warned,     \* whether its caller was told that another policy holds
    tries,      \* history: the attempts so far
    raced,      \* history: whether another process was opening during the attempt
    ours        \* history: whether the root was empty or a current store at first

root == <<legacy, exists, tables, version, stored>>
vars == <<legacy, exists, tables, version, stored, writer, pc, asked, saw,
          policy, warned, tries, raced, ours>>

-----------------------------------------------------------------------------
Tables == {"none", "foreign", "partial", "all"}
Opening == {"start", "tables", "ddl", "stamp", "version", "policy", "insert"}
Ended == {"idle", "open", "failed", "refused", "dead"}

\* A root without tables becomes a store; one with tables must be a current one.
IsStore == \/ tables = "none" /\ (legacy => exists)
           \/ tables = "all" /\ version = Current

Init ==
    /\ legacy \in BOOLEAN
    /\ \/ exists = FALSE /\ tables = "none" /\ version = 0 /\ stored = None
       \/ /\ exists = TRUE /\ tables \in Tables /\ version \in Stamp
          /\ stored \in IF tables = "all" THEN Policy \union {None} ELSE {None}
    /\ ours = IsStore
    /\ writer = None
    /\ pc = [p \in Process |-> "idle"]
    /\ asked = [p \in Process |-> [x \in Setting |-> None]]
    /\ saw = [p \in Process |-> "none"]
    /\ policy = [p \in Process |-> None]
    /\ warned = [p \in Process |-> FALSE]
    /\ tries = 0
    /\ raced = [p \in Process |-> FALSE]

-----------------------------------------------------------------------------
\* An empty rules or gen_triggers is false, so it counts as nothing asked for.
Heeded(x, v) == v # None /\ ~(x \in Lists /\ v = Default[x])

Chosen(a) == [x \in Setting |-> IF Heeded(x, a[x]) THEN a[x] ELSE Default[x]]

\* A warning says that a setting asked for has another value in the store.
Warns(a) == \E x \in Setting : Heeded(x, a[x]) /\ a[x] # stored[x]

Goto(p, there) == pc' = [pc EXCEPT ![p] = there]

\* LineageStore(root, ...), by a process that has no store open.
Start(p) ==
    /\ pc[p] \in Ended \ {"open"} /\ tries < MaxTries
    /\ Goto(p, "start")
    /\ \E a \in Request : asked' = [asked EXCEPT ![p] = a]
    /\ tries' = tries + 1
    /\ raced' = [q \in Process |->
                    IF q = p THEN \E o \in Process \ {p} : pc[o] \in Opening
                             ELSE raced[q] \/ pc[q] \in Opening]
    /\ UNCHANGED <<root, writer, saw, policy, warned, ours>>

NeverLegacy == FALSE

Legacy == legacy /\ ~exists

RefuseLegacy(p) ==
    /\ pc[p] = "start" /\ Legacy
    /\ Goto(p, "refused")
    /\ UNCHANGED <<root, writer, asked, saw, policy, warned, tries, raced, ours>>

\* sqlite3.connect makes the file.
Connect(p) ==
    /\ pc[p] = "start" /\ ~Legacy
    /\ Goto(p, "tables")
    /\ exists' = TRUE
    /\ UNCHANGED <<legacy, tables, version, stored, writer, asked, saw, policy,
                   warned, tries, raced, ours>>

ReadTables(p) ==
    /\ pc[p] = "tables"
    /\ saw' = [saw EXCEPT ![p] = tables]
    /\ Goto(p, IF tables = "none" THEN "ddl" ELSE "version")
    /\ UNCHANGED <<root, writer, asked, policy, warned, tries, raced, ours>>

CreateTables(p) ==
    /\ pc[p] = "ddl" /\ writer = None /\ tables = "none"
    /\ writer' = p
    /\ Goto(p, "stamp")
    /\ UNCHANGED <<root, asked, saw, policy, warned, tries, raced, ours>>

\* OperationalError: "table config already exists" or "database is locked".
CreateFails(p) ==
    /\ pc[p] = "ddl" /\ (writer # None \/ tables # "none")
    /\ Goto(p, "failed")
    /\ UNCHANGED <<root, writer, asked, saw, policy, warned, tries, raced, ours>>

CommitSchema(p) ==
    /\ pc[p] = "stamp"
    /\ tables' = "all" /\ version' = Current /\ writer' = None
    /\ Goto(p, "policy")
    /\ UNCHANGED <<legacy, exists, stored, asked, saw, policy, warned, tries,
                   raced, ours>>

Verified(p) == version = Current /\ saw[p] = "all"

CheckVersion(p) ==
    /\ pc[p] = "version"
    /\ Goto(p, IF Verified(p) THEN "policy" ELSE "refused")
    /\ UNCHANGED <<root, writer, asked, saw, policy, warned, tries, raced, ours>>

ReadPolicy(p) ==
    /\ pc[p] = "policy" /\ stored # None
    /\ policy' = [policy EXCEPT ![p] = stored]
    /\ warned' = [warned EXCEPT ![p] = Warns(asked[p])]
    /\ Goto(p, "open")
    /\ UNCHANGED <<root, writer, asked, saw, tries, raced, ours>>

NoPolicy(p) ==
    /\ pc[p] = "policy" /\ stored = None
    /\ Goto(p, "insert")
    /\ UNCHANGED <<root, writer, asked, saw, policy, warned, tries, raced, ours>>

MayReplace == TRUE

MayInsert == stored = None

InsertPolicy(p) ==
    /\ pc[p] = "insert" /\ MayInsert
    /\ stored' = Chosen(asked[p])
    /\ policy' = [policy EXCEPT ![p] = stored']
    /\ warned' = [warned EXCEPT ![p] = FALSE]
    /\ Goto(p, "open")
    /\ UNCHANGED <<legacy, exists, tables, version, writer, asked, saw, tries,
                   raced, ours>>

\* IntegrityError: the key of the row is taken.
InsertFails(p) ==
    /\ pc[p] = "insert" /\ ~MayInsert
    /\ Goto(p, "failed")
    /\ UNCHANGED <<root, writer, asked, saw, policy, warned, tries, raced, ours>>

Close(p) ==
    /\ pc[p] = "open"
    /\ Goto(p, "idle")
    /\ UNCHANGED <<root, writer, asked, saw, policy, warned, tries, raced, ours>>

StillLocked(p) == writer

\* What a death leaves of the lock and of an unfinished DDL transaction.
Unlocked(p) == IF writer = p THEN None ELSE writer

LeftPartial(p) == IF writer = p THEN "partial" ELSE tables

Left(p) == tables

Die(p) ==
    /\ pc[p] \in Opening \union {"open"}
    /\ Goto(p, "dead")
    /\ writer' = Unlocked(p) /\ tables' = Left(p)
    /\ UNCHANGED <<legacy, exists, version, stored, asked, saw, policy, warned,
                   tries, raced, ours>>

Next == \E p \in Process :
    \/ Start(p) \/ RefuseLegacy(p) \/ Connect(p) \/ ReadTables(p)
    \/ CreateTables(p) \/ CreateFails(p) \/ CommitSchema(p) \/ CheckVersion(p)
    \/ ReadPolicy(p) \/ NoPolicy(p) \/ InsertPolicy(p) \/ InsertFails(p)
    \/ Close(p) \/ Die(p)

Spec == Init /\ [][Next]_vars

-----------------------------------------------------------------------------
\* Every variable keeps its type, and the write lock is held by a process in
\* the DDL transaction of a root without tables.
TypeOK ==
    /\ legacy \in BOOLEAN /\ exists \in BOOLEAN /\ tables \in Tables
    /\ version \in Stamp /\ stored \in Policy \union {None}
    /\ writer \in Process \union {None}
    /\ (writer # None => pc[writer] = "stamp" /\ tables = "none")
    /\ pc \in [Process -> Opening \union Ended]
    /\ asked \in [Process -> [Setting -> Value \union {None}]]
    /\ saw \in [Process -> Tables]
    /\ policy \in [Process -> Policy \union {None}]
    /\ warned \in [Process -> BOOLEAN]
    /\ tries \in 0..MaxTries
    /\ raced \in [Process -> BOOLEAN] /\ ours \in BOOLEAN

\* A policy in force differs from what was asked for, in more than an empty list.
Unmet(a, pol) == \E x \in Setting :
    /\ a[x] \notin {None, pol[x]}
    /\ (x \in Lists => a[x] # Default[x])

\* However the openings of one root interleave and wherever they die, all open
\* stores work under the one policy in the database. A caller is told exactly if
\* a setting it asked for has another value there; only empty rules or triggers
\* go unheeded without a word, although store.py 9-11 says that different values
\* warn (store.py 181-240).
PolicyAgrees == \A p \in Process : pc[p] = "open" =>
    /\ stored # None /\ policy[p] = stored
    /\ warned[p] = Unmet(asked[p], policy[p])

\* An opening is refused exactly where it should be: never on a root that was
\* empty or a current store, whatever died there, and nothing else is opened.
RefusesOnlyForeign == \A p \in Process :
    /\ (pc[p] = "refused" => ~ours)
    /\ (pc[p] = "open" => ours)

\* An opening fails on an error of SQLite only if another process was opening
\* the root meanwhile: what an earlier attempt left never makes a later one fail.
FailsOnlyIfRaced == \A p \in Process : pc[p] = "failed" => raced[p]

\* A root that is no current store is left as it was, without even a new file
\* (store.py 57-77, schema.py 194-217); a policy or a stamp is never replaced.
KeepsWhatItFinds ==
    /\ (~ours => UNCHANGED root)
    /\ (stored # None => stored' = stored)
    /\ (tables # "none" => version' = version)

FoundIsKept == [][KeepsWhatItFinds]_vars
=============================================================================
