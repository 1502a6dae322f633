----------------------------- MODULE Connection -----------------------------
(***************************************************************************)
(* ConnectionManager (db/connection.py): a connection per thread, write()  *)
(* blocks that nest and join the outermost transaction, the RLock between  *)
(* the threads of a process, close(), and a fork. The threads of a process *)
(* share its manager; a fork by one of them leaves one thread, Kid, in a   *)
(* child that holds a copy of the manager, and both go on over one file.   *)
(*                                                                         *)
(* SQLite's part: BEGIN IMMEDIATE gives one connection at a time the write *)
(* lock and fails after the busy timeout; a statement outside a            *)
(* transaction commits by itself; closing a connection rolls it back.      *)
(***************************************************************************)
EXTENDS Naturals, Sequences, SequencesExt

CONSTANTS
    Thread,         \* the threads of the parent process
    Kid,            \* the one thread of the forked child
    Main,           \* the thread of the parent that receives signals
    Parent, Child,  \* the two pids
    None,           \* Python's None
    Ghost,          \* the owner of a lock whose thread a fork left behind
    MaxDepth,       \* bound on the nesting of write()
    MaxStatements,  \* bound on the statements of each thread
    MaxCalls        \* bound on the calls of read, write and close by each thread

ASSUME ThreadAssumption == Main \in Thread /\ Kid \notin Thread
ASSUME PidAssumption == Parent # Child
ASSUME NoneAssumption ==
    /\ None \notin Thread \union {Kid, Ghost} /\ Ghost \notin Thread \union {Kid}
    /\ None \notin (Thread \union {Kid}) \X {1, 2}
ASSUME BoundAssumption ==
    /\ MaxDepth \in Nat \ {0} /\ MaxStatements \in Nat
    /\ MaxCalls \in [Thread \union {Kid} -> Nat]

VARIABLES
    table,        \* what is committed: statements <<thread, number>>
    txn,          \* the connection in a write transaction, or None
    work,         \* the statements of that transaction
    open,         \* the open connections <<thread that made it, 1 or 2>>
    registry,     \* pid -> the connections its manager remembers
    closed,       \* pid -> the manager's _closed
    lock,         \* pid -> the RLock: owner and count
    slot,         \* thread -> _local.slot: a connection, or None
    nest,         \* thread -> _txn.slot: a pid and a depth
    failed,       \* thread -> _txn.failed
    pc,           \* where each thread is
    frame,        \* thread -> the connections of its write() calls, outermost first
    raising,      \* thread -> whether an exception leaves its innermost block
    mine,         \* history: what the thread's outermost block has executed
    how,          \* history: how its last outermost block ended
    calls,        \* history: how many calls each thread has made
    interrupted   \* history: threads that were interrupted right after BEGIN

vars == <<table, txn, work, open, registry, closed, lock, slot, nest, failed,
          pc, frame, raising, mine, how, calls, interrupted>>

-----------------------------------------------------------------------------
Actor == Thread \union {Kid}
Pid == {Parent, Child}
Conn == Actor \X {1, 2}
Item == Actor \X (1..MaxStatements)
Home(a) == IF a = Kid THEN Child ELSE Parent

\* The pid a connection was made in, kept beside it in slot and registry.
MadeBy(c) == Home(c[1])

Free == [owner |-> None, count |-> 0]
Control == {"unborn", "idle", "entered", "acquire", "begin", "body", "exit",
            "closing"}

AnyDepth(a) == nest[a].depth

\* write() counts the depth of its own process only.
Depth(a) == IF nest[a].pid = Home(a) THEN nest[a].depth ELSE 0

AnySlot(a) == slot[a] # None

\* read() takes a connection of its own process only.
HasConnection(a) == slot[a] # None /\ MadeBy(slot[a]) = Home(a)

-----------------------------------------------------------------------------
Init ==
    /\ table = {} /\ txn = None /\ work = {} /\ open = {}
    /\ registry = [p \in Pid |-> {}]
    /\ closed = [p \in Pid |-> FALSE]
    /\ lock = [p \in Pid |-> Free]
    /\ slot = [a \in Actor |-> None]
    /\ nest = [a \in Actor |-> [pid |-> Home(a), depth |-> 0]]
    /\ failed = [a \in Actor |-> FALSE]
    /\ pc = [a \in Actor |-> IF a = Kid THEN "unborn" ELSE "idle"]
    /\ frame = [a \in Actor |-> <<>>]
    /\ raising = [a \in Actor |-> FALSE]
    /\ mine = [a \in Actor |-> {}]
    /\ how = [a \in Actor |-> "none"]
    /\ calls = [a \in Actor |-> 0]
    /\ interrupted = {}

Data == <<table, txn, work>>
Manager == <<open, registry, closed>>
Flags == <<failed, raising>>
History == <<mine, how, calls, interrupted>>

Goto(a, where) == pc' = [pc EXCEPT ![a] = where]

ReleaseTooFar(p) ==
    lock' = [lock EXCEPT ![p] =
               IF @.count = 1 THEN Free ELSE [owner |-> @.owner, count |-> @.count - 2]]

ReleaseOnlyInner(p) ==
    lock' = [lock EXCEPT ![p].count = IF @ = 1 THEN 1 ELSE @ - 1]

\* One level of the with statement over the lock ends.
Release(p) ==
    lock' = [lock EXCEPT ![p] =
               IF @.count = 1 THEN Free ELSE [owner |-> @.owner, count |-> @.count - 1]]

PopFrame(a) == frame' = [frame EXCEPT ![a] = Front(@)]

NoRollBack(c) == UNCHANGED <<table, txn, work>>

\* The transaction of c, if it has one, leaves nothing behind.
RollBack(c) ==
    /\ txn' = IF txn = c THEN None ELSE txn
    /\ work' = IF txn = c THEN {} ELSE work
    /\ UNCHANGED table

EndsAs(a, h) == how' = [how EXCEPT ![a] = h]

-----------------------------------------------------------------------------
\* read() or write() of an open manager, from outside a block or from inside:
\* nothing but the closed flag has been looked at.
Enter(a) ==
    /\ pc[a] \in {"idle", "body"} /\ ~closed[Home(a)]
    /\ Len(frame[a]) < MaxDepth /\ calls[a] < MaxCalls[a]
    /\ Goto(a, "entered")
    /\ calls' = [calls EXCEPT ![a] = @ + 1]
    /\ how' = [how EXCEPT ![a] = IF pc[a] = "idle" THEN "none" ELSE @]
    /\ UNCHANGED <<Data, Manager, lock, slot, nest, Flags, frame, mine, interrupted>>

\* "This ConnectionManager has been closed."
Refused(a) ==
    /\ pc[a] = "body" /\ closed[Home(a)]
    /\ Goto(a, "exit")
    /\ raising' = [raising EXCEPT ![a] = TRUE]
    /\ UNCHANGED <<Data, Manager, lock, slot, nest, failed, frame, History>>

\* The rest of read(): the thread's connection, or a new one, which the
\* registry remembers. The call was a read() and is over, or a write().
UseConnection(a, c) ==
    /\ \/ /\ Goto(a, IF frame[a] = <<>> THEN "idle" ELSE "body")
          /\ UNCHANGED frame
       \/ /\ Goto(a, "acquire")
          /\ frame' = [frame EXCEPT ![a] = Append(@, c)]
    /\ UNCHANGED <<Data, closed, lock, nest, Flags, History>>

Reuse(a) ==
    /\ pc[a] = "entered" /\ HasConnection(a)
    /\ UseConnection(a, slot[a])
    /\ UNCHANGED <<open, registry, slot>>

Connect(a, c) ==
    /\ pc[a] = "entered" /\ ~HasConnection(a)
    /\ c[1] = a /\ c \notin open
    /\ \A i \in 1..Len(frame[a]) : frame[a][i] # c
    /\ open' = open \union {c}
    /\ registry' = [registry EXCEPT ![Home(a)] = @ \union {c}]
    /\ slot' = [slot EXCEPT ![a] = c]
    /\ UseConnection(a, c)

\* The RLock; inside a block the transaction is already open.
Acquire(a) ==
    /\ pc[a] = "acquire" /\ lock[Home(a)].owner \in {None, a}
    /\ lock' = [lock EXCEPT ![Home(a)] = [owner |-> a, count |-> @.count + 1]]
    /\ Goto(a, IF Depth(a) = 0 THEN "begin" ELSE "body")
    /\ nest' = IF Depth(a) = 0 THEN nest
               ELSE [nest EXCEPT ![a] = [pid |-> Home(a), depth |-> Depth(a) + 1]]
    /\ UNCHANGED <<Data, Manager, slot, Flags, frame, History>>

\* BEGIN IMMEDIATE on an open connection while no other has the write lock.
CanBegin(a) == Last(frame[a]) \in open /\ txn = None

Begin(a) ==
    /\ pc[a] = "begin" /\ CanBegin(a)
    /\ txn' = Last(frame[a])
    /\ failed' = [failed EXCEPT ![a] = FALSE]
    /\ nest' = [nest EXCEPT ![a] = [pid |-> Home(a), depth |-> 1]]
    /\ Goto(a, "body")
    /\ EndsAs(a, "running")
    /\ UNCHANGED <<table, work, Manager, lock, slot, raising, frame, mine, calls,
                   interrupted>>

LeaveUnstarted(a) ==
    /\ Release(Home(a)) /\ PopFrame(a) /\ Goto(a, "idle")
    /\ UNCHANGED <<table, work, Manager, slot, nest, Flags, mine, how, calls>>

\* The busy timeout, a transaction this connection is already in, or a
\* connection closed meanwhile.
BeginFails(a) ==
    /\ pc[a] = "begin" /\ ~CanBegin(a)
    /\ LeaveUnstarted(a)
    /\ UNCHANGED <<txn, interrupted>>

\* A signal arrives during BEGIN: KeyboardInterrupt is raised once it returns,
\* before the depth is counted and outside the try.
BeginInterrupted(a) ==
    /\ pc[a] = "begin" /\ CanBegin(a) /\ a \in {Main, Kid}
    /\ LeaveUnstarted(a)
    /\ txn' = Last(frame[a])
    /\ interrupted' = interrupted \union {a}
-----------------------------------------------------------------------------
\* The body's next statement, on a connection that is open.
Fresh(a) == {n \in 1..MaxStatements : <<a, n>> \notin table \union mine[a]}

Execute(a, i) ==
    /\ pc[a] = "body" /\ Last(frame[a]) \in open
    /\ i[1] = a /\ i[2] \in Fresh(a) /\ \A n \in Fresh(a) : i[2] <= n
    /\ mine' = [mine EXCEPT ![a] = @ \union {i}]
    /\ IF txn = Last(frame[a])
         THEN work' = work \union {i} /\ UNCHANGED table
         ELSE table' = table \union {i} /\ UNCHANGED work
    /\ UNCHANGED <<txn, Manager, lock, slot, nest, Flags, pc, frame, how,
                   calls, interrupted>>

\* The body ends, normally or (a failed statement, the user's own code) with an
\* exception.
Leave(a) ==
    /\ pc[a] = "body"
    /\ Goto(a, "exit")
    /\ \E r \in BOOLEAN : raising' = [raising EXCEPT ![a] = r]
    /\ UNCHANGED <<Data, Manager, lock, slot, nest, failed, frame, History>>

ForgetInner(a) == UNCHANGED failed

PoisonInner(a) == failed' = [failed EXCEPT ![a] = failed[a] \/ raising[a]]

\* A nested block only steps out; its exception poisons the transaction and is
\* caught by the code around it, or goes on.
ExitInner(a, caught) ==
    /\ pc[a] = "exit" /\ Depth(a) > 1
    /\ PoisonInner(a)
    /\ nest' = [nest EXCEPT ![a] = [pid |-> Home(a), depth |-> Depth(a) - 1]]
    /\ Release(Home(a)) /\ PopFrame(a)
    /\ Goto(a, IF raising[a] /\ ~caught THEN "exit" ELSE "body")
    /\ raising' = [raising EXCEPT ![a] = @ /\ ~caught]
    /\ how' = [how EXCEPT ![a] = IF raising[a] THEN "hurt" ELSE @]
    /\ UNCHANGED <<Data, Manager, slot, mine, calls, interrupted>>

ExitOutermost(a, h) ==
    /\ pc[a] = "exit" /\ Depth(a) = 1
    /\ failed' = [failed EXCEPT ![a] = @ \/ raising[a]]
    /\ nest' = [nest EXCEPT ![a] = [pid |-> Home(a), depth |-> 0]]
    /\ raising' = [raising EXCEPT ![a] = FALSE]
    /\ Release(Home(a)) /\ PopFrame(a) /\ Goto(a, "idle")
    /\ EndsAs(a, h)
    /\ mine' = [mine EXCEPT ![a] = {}]
    /\ UNCHANGED <<Manager, slot, calls, interrupted>>

\* COMMIT. A signal that arrives during it raises once it is done: the ROLLBACK
\* finds no transaction, and the block raises although all of it is kept.
Commit(a) ==
    /\ \/ ExitOutermost(a, "ok")
       \/ ExitOutermost(a, "interrupted") /\ a \in {Main, Kid}
    /\ ~(failed[a] \/ raising[a]) /\ Last(frame[a]) \in open
    /\ table' = table \union work
    /\ txn' = None /\ work' = {}

\* COMMIT raises: so does the block, after a ROLLBACK.
CommitFails(a) ==
    /\ ExitOutermost(a, "raised")
    /\ ~(failed[a] \/ raising[a])
    /\ RollBack(Last(frame[a]))

\* ROLLBACK. It raises when the connection has been closed; otherwise the block
\* ends as its body did: normally, if an inner exception was caught.
Abort(a) ==
    /\ ExitOutermost(a, IF raising[a] \/ Last(frame[a]) \notin open THEN "raised" ELSE "swallowed")
    /\ failed[a] \/ raising[a]
    /\ RollBack(Last(frame[a]))

-----------------------------------------------------------------------------
\* close(), called outside any block: the flag, and then every connection of
\* this process that the registry knows.
Close(a) ==
    /\ pc[a] = "idle" /\ calls[a] < MaxCalls[a]
    /\ Goto(a, "closing")
    /\ calls' = [calls EXCEPT ![a] = @ + 1]
    /\ closed' = [closed EXCEPT ![Home(a)] = TRUE]
    /\ UNCHANGED <<Data, open, registry, lock, slot, nest, Flags, frame, mine, how,
                   interrupted>>

RegisteredAny(p) == registry[p]

Registered(p) == {c \in registry[p] : MadeBy(c) = p}

CloseAll(a) ==
    LET p == Home(a)
        gone == Registered(p)
    IN
    /\ pc[a] = "closing"
    /\ Goto(a, "idle")
    /\ open' = open \ gone
    /\ txn' = IF txn \in gone THEN None ELSE txn
    /\ work' = IF txn \in gone THEN {} ELSE work
    /\ registry' = [registry EXCEPT ![p] = {}]
    /\ slot' = [b \in Actor |-> IF Home(b) = p THEN None ELSE slot[b]]
    /\ UNCHANGED <<table, closed, lock, nest, Flags, frame, History>>

\* Of the parent's threads, only the one that forks exists in the child.
Inherited(t, owner) ==
    CASE owner = t -> Kid [] owner = None -> None [] OTHER -> Ghost

\* t forks, outside or inside a block of its own; the child runs code of its
\* own and never unwinds the frames it inherits.
Fork(t) ==
    /\ pc[Kid] = "unborn" /\ t \in Thread /\ pc[t] \in {"idle", "body"}
    /\ Goto(Kid, "idle")
    /\ slot' = [slot EXCEPT ![Kid] = slot[t]]
    /\ nest' = [nest EXCEPT ![Kid] = nest[t]]
    /\ failed' = [failed EXCEPT ![Kid] = failed[t]]
    /\ closed' = [closed EXCEPT ![Child] = closed[Parent]]
    /\ registry' = [registry EXCEPT ![Child] = registry[Parent]]
    /\ lock' = [lock EXCEPT ![Child] =
                  [owner |-> Inherited(t, lock[Parent].owner), count |-> lock[Parent].count]]
    /\ UNCHANGED <<Data, open, raising, frame, History>>

-----------------------------------------------------------------------------
Step(a) ==
    \/ Enter(a) \/ Refused(a) \/ Reuse(a)
    \/ \E c \in Conn : Connect(a, c)
    \/ Acquire(a)
    \/ Begin(a) \/ BeginFails(a) \/ BeginInterrupted(a)
    \/ \E i \in Item : Execute(a, i)
    \/ Leave(a)
    \/ \E caught \in BOOLEAN : ExitInner(a, caught)
    \/ Commit(a) \/ CommitFails(a) \/ Abort(a)
    \/ Close(a) \/ CloseAll(a)

Next == (\E a \in Actor : Step(a)) \/ (\E t \in Thread : Fork(t))

Spec == Init /\ [][Next]_vars

\* What goes on by itself once begun: read() finds or makes a connection, BEGIN
\* returns or times out, a block that was left exits, a close finishes.
Progress(a) ==
    \/ Reuse(a)
    \/ \E c \in Conn : Connect(a, c)
    \/ Begin(a) \/ BeginFails(a) \/ BeginInterrupted(a)
    \/ \E caught \in BOOLEAN : ExitInner(a, caught)
    \/ Commit(a) \/ CommitFails(a) \/ Abort(a)
    \/ CloseAll(a)

\* No body runs for ever, whatever it nests, and a lock that is released again
\* and again is not always won by somebody else.
Fairness ==
    \A a \in Actor :
      /\ WF_vars(Progress(a)) /\ WF_vars(Leave(a)) /\ SF_vars(Acquire(a))
      /\ SF_vars(Leave(a) /\ Depth(a) = 1)

FairSpec == Spec /\ Fairness

-----------------------------------------------------------------------------
\* Every variable stays in its type.
TypeOK ==
    /\ table \subseteq Item /\ work \subseteq Item
    /\ txn \in Conn \union {None}
    /\ open \subseteq Conn
    /\ registry \in [Pid -> SUBSET Conn]
    /\ closed \in [Pid -> BOOLEAN]
    /\ lock \in [Pid -> [owner : Actor \union {None, Ghost}, count : Nat]]
    /\ slot \in [Actor -> Conn \union {None}]
    /\ nest \in [Actor -> [pid : Pid, depth : Nat]]
    /\ failed \in [Actor -> BOOLEAN] /\ raising \in [Actor -> BOOLEAN]
    /\ pc \in [Actor -> Control]
    /\ frame \in [Actor -> Seq(Conn)]
    /\ mine \in [Actor -> SUBSET Item]
    /\ how \in [Actor -> {"none", "running", "hurt", "ok", "interrupted", "raised",
                       "swallowed"}]
    /\ calls \in [Actor -> Nat]
    /\ interrupted \subseteq Actor

\* An outermost block that commits keeps everything it executed, also when a
\* signal makes it raise after that; one that raises otherwise, or in which a
\* nested block raised, caught or not, keeps nothing, unless the manager was
\* closed under it.
Ends(a, h) == how[a] \in {"running", "hurt"} /\ how'[a] = h

TruthfulEnds ==
    \A a \in Actor :
      /\ Ends(a, "ok") \/ Ends(a, "interrupted") =>
           how[a] = "running" /\ mine[a] \subseteq table'
      /\ Ends(a, "raised") \/ Ends(a, "swallowed") =>
           mine[a] \intersect table' = {} \/ closed[Home(a)]
EndsTruthfully == [][TruthfulEnds]_vars

\* A transaction is open only inside a write() of the thread whose connection
\* it is, and that thread holds its process's lock: "an exception anywhere
\* ... rolls back at the outermost exit" (connection.py:115-117).
OpenIn(a, c) ==
    /\ \E i \in 1..Len(frame[a]) : frame[a][i] = c
    /\ lock[Home(a)].owner = a
NoStrayTransaction == txn # None => OpenIn(txn[1], txn)

\* ... and it strays from there only when its thread was interrupted between
\* BEGIN and the try.
StrayOnlyIfInterrupted == NoStrayTransaction \/ txn[1] \in interrupted

\* A process neither uses nor closes a connection made by another one.
InheritedUntouched ==
    [][/\ \A c \in open \ open' : \E a \in Actor : pc[a] = "closing" /\ Home(a) = MadeBy(c)
       /\ \A a \in Actor : Len(frame'[a]) > Len(frame[a]) => MadeBy(Last(frame'[a])) = Home(a)]_vars

\* A thread that waits for the lock gets it, unless it is in a child that was
\* forked while another thread held it.
WritersProceed ==
    \A a \in Actor :
      pc[a] = "acquire" ~> pc[a] # "acquire" \/ lock[Home(a)].owner = Ghost

\* Every transaction ends, except one left open by an interrupt.
TransactionsEnd ==
    \A a \in Actor :
      txn \in {a} \X {1, 2} ~> txn \notin {a} \X {1, 2} \/ a \in interrupted

Serial == INSTANCE SerialTxn WITH closing <- closed[Parent] \/ closed[Child]

\* Whatever the threads, nesting, failures, forks: transactions one at a time,
\* whole or not at all, and no statement outside one before a close().
RefinesSerial == Serial!SerialSpec
=============================================================================
