-------------------------- MODULE ConnectionProofs --------------------------
(***************************************************************************)
(* Proofs about Connection.tla, for any number of threads and any bounds:  *)
(* types, who may hold a transaction open, that blocks end truthfully,     *)
(* that no process touches an inherited connection, and that write()       *)
(* implements SerialTxn.                                                   *)
(***************************************************************************)
EXTENDS Connection, SequenceTheorems, TLAPS

\* The frames of a thread are those its depth counts, and the one of a write()
\* that has not begun yet.
ShapeInv(a) ==
    /\ pc[a] \in {"unborn", "idle", "closing"} => Depth(a) = 0 /\ Len(frame[a]) = 0
    /\ pc[a] = "entered" => Len(frame[a]) = Depth(a)
    /\ pc[a] \in {"acquire", "begin"} => Len(frame[a]) = Depth(a) + 1
    /\ pc[a] = "begin" => Depth(a) = 0
    /\ pc[a] \in {"body", "exit"} => Len(frame[a]) = Depth(a) /\ Depth(a) > 0
    /\ a # Kid => nest[a].pid = Home(a)

\* A thread's connections are its own; only the child's slot may be inherited.
OwnInv(a) ==
    /\ \A i \in 1..Len(frame[a]) : frame[a][i][1] = a
    /\ slot[a] # None => slot[a][1] = a \/ (a = Kid /\ slot[a][1] # Kid)

CloseInv(a) ==
    /\ pc[a] = "closing" => closed[Home(a)]
    /\ a = Kid /\ pc[a] = "unborn" => ~closed[Child]

\* Until close(), a thread's connection stays, and its frames all use it.
SlotInv(a) ==
    ~closed[Home(a)] =>
      /\ HasConnection(a) => slot[a] \in open
      /\ \A i \in 1..Len(frame[a]) : frame[a][i] = slot[a]

\* The connection of an outermost block, while open, has the transaction.
TxnInv(a) ==
    Depth(a) > 0 /\ frame[a][1] \in open => txn = frame[a][1]

\* A thread in a transaction holds its process's lock often enough.
LockInv(a) ==
    /\ Depth(a) > 0 \/ pc[a] = "begin" => lock[Home(a)].owner = a
    /\ Depth(a) > 0 => lock[Home(a)].count >= Depth(a)
    /\ pc[a] = "begin" => lock[Home(a)].count >= 1

\* What a thread executed is in the open transaction, or slipped into the table
\* after a close.
MineInv(a) ==
    /\ \A i \in mine[a] : i[1] = a
    /\ Depth(a) = 0 => mine[a] = {}
    /\ Depth(a) > 0 /\ frame[a][1] \in open => mine[a] \subseteq work \union table
    /\ ~closed[Home(a)] => mine[a] \intersect table = {}

\* A nested failure is remembered until the outermost exit.
HurtInv(a) ==
    /\ Depth(a) > 0 => how[a] \in {"running", "hurt"}
    /\ Depth(a) = 0 => how[a] \notin {"running", "hurt"}
    /\ how[a] = "hurt" => failed[a]

ThreadInv(a) ==
    /\ ShapeInv(a) /\ OwnInv(a) /\ CloseInv(a) /\ SlotInv(a) /\ TxnInv(a)
    /\ LockInv(a) /\ MineInv(a) /\ HurtInv(a)

\* A transaction belongs to an outermost block or was left by an interrupt.
StrayInv ==
    txn # None => \/ txn[1] \in interrupted
                  \/ Depth(txn[1]) > 0 /\ frame[txn[1]][1] = txn

WorkInv == \A i \in work : txn # None /\ i[1] = txn[1]

IInv == TypeOK /\ (\A a \in Actor : ThreadInv(a)) /\ StrayInv /\ WorkInv

-----------------------------------------------------------------------------
\* Pushing and popping a frame, element by element.
LEMMA FrontFacts ==
    ASSUME NEW S, NEW s \in Seq(S), Len(s) > 0
    PROVE  /\ Front(s) \in Seq(S) /\ Len(Front(s)) = Len(s) - 1
           /\ \A i \in 1..Len(s) - 1 : Front(s)[i] = s[i]
  <1>. DEFINE n == Len(s) - 1
  <1>1. n \in Int /\ n >= 0 /\ n = Len(s) - 1 /\ \A i \in 1..n : s[i] \in S
    OBVIOUS
  <1>2. /\ SubSeq(s, 1, n) \in Seq(S)
        /\ Len(SubSeq(s, 1, n)) = IF 1 <= n THEN n - 1 + 1 ELSE 0
        /\ \A i \in 1..n - 1 + 1 : SubSeq(s, 1, n)[i] = s[1 + i - 1]
    BY <1>1, SubSeqProperties
  <1>. HIDE DEF n
  <1>3. n - 1 + 1 = n /\ \A i \in 1..n : 1 + i - 1 = i
    BY <1>1
  <1>4. Len(SubSeq(s, 1, n)) = n
    BY <1>1, <1>2, <1>3
  <1>5. Front(s) = SubSeq(s, 1, n)
    BY DEF Front, n
  <1>. QED
    BY <1>1, <1>2, <1>3, <1>4, <1>5

LEMMA PopFacts ==
    ASSUME TypeOK, NEW a \in Actor, Len(frame[a]) > 0, PopFrame(a)
    PROVE  /\ frame' \in [Actor -> Seq(Conn)]
           /\ Len(frame'[a]) = Len(frame[a]) - 1
           /\ \A i \in 1..Len(frame[a]) - 1 : frame'[a][i] = frame[a][i]
           /\ \A b \in Actor \ {a} : frame'[b] = frame[b]
  <1>1. frame[a] \in Seq(Conn)
    BY DEF TypeOK
  <1>2. /\ Front(frame[a]) \in Seq(Conn) /\ Len(Front(frame[a])) = Len(frame[a]) - 1
        /\ \A i \in 1..Len(frame[a]) - 1 : Front(frame[a])[i] = frame[a][i]
    BY <1>1, FrontFacts
  <1>. QED
    BY <1>2 DEF TypeOK, PopFrame

LEMMA PushFacts ==
    ASSUME TypeOK, NEW a \in Actor, NEW c \in Conn,
           frame' = [frame EXCEPT ![a] = Append(@, c)]
    PROVE  /\ frame' \in [Actor -> Seq(Conn)]
           /\ Len(frame'[a]) = Len(frame[a]) + 1
           /\ frame'[a][Len(frame[a]) + 1] = c
           /\ \A i \in 1..Len(frame[a]) : frame'[a][i] = frame[a][i]
           /\ \A b \in Actor \ {a} : frame'[b] = frame[b]
  <1>1. frame[a] \in Seq(Conn)
    BY DEF TypeOK
  <1>2. /\ Append(frame[a], c) \in Seq(Conn)
        /\ Len(Append(frame[a], c)) = Len(frame[a]) + 1
        /\ Append(frame[a], c)[Len(frame[a]) + 1] = c
        /\ \A i \in 1..Len(frame[a]) : Append(frame[a], c)[i] = frame[a][i]
    BY <1>1
  <1>. QED
    BY <1>2 DEF TypeOK

LEMMA DepthType == ASSUME TypeOK, NEW a \in Actor PROVE Depth(a) \in Nat
  BY DEF TypeOK, Depth

LEMMA HomeFacts ==
    /\ \A a \in Actor : Home(a) \in Pid
    /\ \A a \in Actor, b \in Actor : Home(a) = Home(b) => (a = Kid) = (b = Kid)
    /\ \A c \in Conn : c # None /\ c[1] \in Actor /\ MadeBy(c) \in Pid
  BY PidAssumption, NoneAssumption DEF Home, Pid, Actor, Conn, MadeBy

-----------------------------------------------------------------------------
LEMMA TypeInit == Init => TypeOK
  BY PidAssumption, BoundAssumption
     DEF Init, TypeOK, Pid, Actor, Conn, Item, Home, Free, Control

\* What follows from the invariant where a block begins or ends.
LEMMA TopFrame ==
    ASSUME IInv, NEW a \in Actor, pc[a] \in {"begin", "body", "exit"}
    PROVE  /\ Len(frame[a]) \in Nat \ {0} /\ Last(frame[a]) \in Conn
           /\ Last(frame[a]) = frame[a][Len(frame[a])]
           /\ Last(frame[a])[1] = a
  <1>1. Len(frame[a]) \in Nat \ {0} /\ frame[a] \in Seq(Conn)
    BY DepthType DEF IInv, TypeOK, ThreadInv, ShapeInv
  <1>2. Last(frame[a]) = frame[a][Len(frame[a])]
    BY DEF Last
  <1>3. frame[a][Len(frame[a])] \in Conn
    BY <1>1
  <1>. QED
    BY <1>1, <1>2, <1>3 DEF IInv, ThreadInv, OwnInv

LEMMA Popped ==
    ASSUME IInv, NEW a \in Actor, pc[a] \in {"begin", "exit"}, PopFrame(a)
    PROVE  /\ frame' \in [Actor -> Seq(Conn)]
           /\ Len(frame'[a]) = Len(frame[a]) - 1
           /\ \A i \in 1..Len(frame'[a]) : frame'[a][i] = frame[a][i]
           /\ \A b \in Actor \ {a} : frame'[b] = frame[b]
  BY TopFrame, PopFacts DEF IInv

LEMMA Pushed ==
    ASSUME IInv, NEW a \in Actor, NEW c \in Conn, pc[a] = "entered", UseConnection(a, c)
    PROVE  /\ frame' \in [Actor -> Seq(Conn)]
           /\ pc' \in [Actor -> Control]
           /\ \/ pc'[a] \in {"idle", "body"} /\ (pc'[a] = "idle" <=> Len(frame[a]) = 0)
                 /\ frame'[a] = frame[a]
              \/ /\ pc'[a] = "acquire"
                 /\ Len(frame'[a]) = Len(frame[a]) + 1
                 /\ frame'[a][Len(frame[a]) + 1] = c
                 /\ \A i \in 1..Len(frame[a]) : frame'[a][i] = frame[a][i]
           /\ \A b \in Actor \ {a} : frame'[b] = frame[b]
  <1>1. frame[a] \in Seq(Conn) /\ TypeOK
    BY DEF IInv, TypeOK
  <1>2. frame[a] = <<>> <=> Len(frame[a]) = 0
    BY <1>1
  <1>. QED
    BY ZenonT(60), <1>1, <1>2, PushFacts DEF UseConnection, TypeOK, Goto, Control

LEMMA Released ==
    ASSUME IInv, NEW a \in Actor, pc[a] \in {"begin", "exit"}, Release(Home(a))
    PROVE  /\ lock' \in [Pid -> [owner : Actor \union {None, Ghost}, count : Nat]]
           /\ \A p \in Pid \ {Home(a)} : lock'[p] = lock[p]
           /\ lock[Home(a)].owner = a /\ lock[Home(a)].count >= 1
           /\ lock[Home(a)].count > 1 => /\ lock'[Home(a)].owner = a
                                        /\ lock'[Home(a)].count = lock[Home(a)].count - 1
  <1>1. lock[Home(a)].owner = a /\ lock[Home(a)].count >= 1
    BY DepthType, HomeFacts DEF IInv, TypeOK, ThreadInv, ShapeInv, LockInv
  <1>. QED
    BY <1>1, HomeFacts DEF IInv, TypeOK, Release, Free

\* A step of one thread leaves the local state of the others alone.
LEMMA Others ==
    ASSUME IInv, NEW a \in Actor, Step(a), NEW b \in Actor, b # a
    PROVE  /\ pc'[b] = pc[b] /\ nest'[b] = nest[b] /\ frame'[b] = frame[b]
           /\ mine'[b] = mine[b] /\ how'[b] = how[b] /\ failed'[b] = failed[b]
           /\ slot'[b] = slot[b] \/ (closed[Home(b)] /\ slot'[b] = None)
           /\ Depth(b)' = Depth(b)
  <1>. USE DEF Data, Manager, Flags, History, Goto, IInv, TypeOK
  <1>1. CASE Enter(a) \/ Refused(a) \/ Leave(a) \/ Close(a)
    BY <1>1 DEF Enter, Refused, Leave, Close, Depth
  <1>2. CASE Reuse(a) \/ \E c \in Conn : Connect(a, c)
    BY <1>2 DEF Reuse, Connect, UseConnection, Depth
  <1>3. CASE Acquire(a)
    BY <1>3 DEF Acquire, Depth
  <1>4. CASE Begin(a) \/ BeginFails(a) \/ BeginInterrupted(a)
    BY <1>4 DEF Begin, BeginFails, BeginInterrupted, LeaveUnstarted, PopFrame, EndsAs, Depth
  <1>5. CASE \E i \in Item : Execute(a, i)
    BY <1>5 DEF Execute, Depth
  <1>6. CASE \E caught \in BOOLEAN : ExitInner(a, caught)
    BY <1>6 DEF ExitInner, PoisonInner, PopFrame, Depth
  <1>7. CASE Commit(a) \/ CommitFails(a) \/ Abort(a)
    BY <1>7 DEF Commit, CommitFails, Abort, ExitOutermost, EndsAs, PopFrame, Depth
  <1>8. CASE CloseAll(a)
    BY <1>8 DEF CloseAll, Depth, ThreadInv, CloseInv
  <1>. QED
    BY <1>1, <1>2, <1>3, <1>4, <1>5, <1>6, <1>7, <1>8 DEF Step

-----------------------------------------------------------------------------
LEMMA TypeStep == IInv /\ [Next]_vars => TypeOK'
  <1>. SUFFICES ASSUME IInv, [Next]_vars PROVE TypeOK'
    OBVIOUS
  <1>0. TypeOK
    BY DEF IInv
  <1>. USE HomeFacts, <1>0 DEF Data, Manager, Flags, History, Goto
  <1>1. ASSUME NEW a \in Actor, Enter(a) \/ Refused(a) \/ Leave(a) \/ Close(a) PROVE TypeOK'
    <2>1. CASE Enter(a)
      <3>1. how' \in [Actor -> {"none", "running", "hurt", "ok", "interrupted", "raised", "swallowed"}]
        BY <2>1 DEF Enter, TypeOK
      <3>2. pc' \in [Actor -> Control] /\ calls' \in [Actor -> Nat]
        BY <2>1 DEF Enter, TypeOK, Control
      <3>. QED
        BY <2>1, <3>1, <3>2 DEF Enter, TypeOK
    <2>2. CASE Refused(a) \/ Leave(a)
      <3>1. raising' \in [Actor -> BOOLEAN]
        BY <2>2 DEF Refused, Leave, TypeOK
      <3>2. pc' \in [Actor -> Control]
        BY <2>2 DEF Refused, Leave, TypeOK, Control
      <3>. QED
        BY <2>2, <3>1, <3>2 DEF Refused, Leave, TypeOK
    <2>3. CASE Close(a)
      BY <2>3 DEF Close, TypeOK, Control
    <2>. QED
      BY <1>1, <2>1, <2>2, <2>3
  <1>2. ASSUME NEW a \in Actor, Reuse(a) PROVE TypeOK'
    <2>1. slot[a] \in Conn /\ pc[a] = "entered"
      BY <1>2 DEF Reuse, HasConnection, TypeOK
    <2>. QED
      BY <1>2, <2>1, Pushed DEF Reuse, UseConnection, TypeOK
  <1>3. ASSUME NEW a \in Actor, NEW c \in Conn, Connect(a, c) PROVE TypeOK'
    <2>1. pc[a] = "entered" /\ UseConnection(a, c)
      BY <1>3 DEF Connect
    <2>2. frame' \in [Actor -> Seq(Conn)] /\ pc' \in [Actor -> Control]
      BY <2>1, Pushed
    <2>. QED
      BY <1>3, <2>2 DEF Connect, UseConnection, TypeOK
  <1>4. ASSUME NEW a \in Actor, Acquire(a) PROVE TypeOK'
    <2>1. lock' \in [Pid -> [owner : Actor \union {None, Ghost}, count : Nat]]
      BY <1>4 DEF Acquire, TypeOK
    <2>2. nest' \in [Actor -> [pid : Pid, depth : Nat]]
      BY <1>4, DepthType DEF Acquire, TypeOK
    <2>. QED
      BY <1>4, <2>1, <2>2 DEF Acquire, TypeOK, Control
  <1>5. ASSUME NEW a \in Actor, Begin(a) PROVE TypeOK'
    <2>1. Last(frame[a]) \in Conn
      BY <1>5, TopFrame DEF Begin
    <2>. QED
      BY <1>5, <2>1 DEF Begin, EndsAs, TypeOK, Control
  <1>6. ASSUME NEW a \in Actor, BeginFails(a) \/ BeginInterrupted(a) PROVE TypeOK'
    <2>1. /\ Last(frame[a]) \in Conn /\ frame' \in [Actor -> Seq(Conn)]
          /\ lock' \in [Pid -> [owner : Actor \union {None, Ghost}, count : Nat]]
      BY <1>6, TopFrame, Popped, Released DEF BeginFails, BeginInterrupted, LeaveUnstarted
    <2>. QED
      BY <1>6, <2>1 DEF BeginFails, BeginInterrupted, LeaveUnstarted, TypeOK, Control
  <1>7. ASSUME NEW a \in Actor, NEW i \in Item, Execute(a, i) PROVE TypeOK'
    BY <1>7 DEF Execute, TypeOK
  <1>8. ASSUME NEW a \in Actor, NEW caught \in BOOLEAN, ExitInner(a, caught) PROVE TypeOK'
    <2>1. /\ frame' \in [Actor -> Seq(Conn)]
          /\ lock' \in [Pid -> [owner : Actor \union {None, Ghost}, count : Nat]]
      BY <1>8, Popped, Released DEF ExitInner
    <2>2. Depth(a) - 1 \in Nat
      BY <1>8, DepthType DEF ExitInner
    <2>3. nest' \in [Actor -> [pid : Pid, depth : Nat]]
      BY <1>8, <2>2 DEF ExitInner, TypeOK
    <2>4. failed' \in [Actor -> BOOLEAN] /\ raising' \in [Actor -> BOOLEAN]
      BY <1>8 DEF ExitInner, PoisonInner, TypeOK
    <2>5. pc' \in [Actor -> Control]
      BY <1>8 DEF ExitInner, TypeOK, Control
    <2>. QED
      BY <1>8, <2>1, <2>3, <2>4, <2>5 DEF ExitInner, TypeOK
  <1>9. ASSUME NEW a \in Actor, NEW h \in {"ok", "interrupted", "raised", "swallowed"}, ExitOutermost(a, h)
        PROVE /\ frame' \in [Actor -> Seq(Conn)]
              /\ lock' \in [Pid -> [owner : Actor \union {None, Ghost}, count : Nat]]
              /\ nest' \in [Actor -> [pid : Pid, depth : Nat]]
              /\ failed' \in [Actor -> BOOLEAN] /\ raising' \in [Actor -> BOOLEAN]
              /\ pc' \in [Actor -> Control]
              /\ how' \in [Actor -> {"none", "running", "hurt", "ok", "interrupted", "raised", "swallowed"}]
              /\ mine' \in [Actor -> SUBSET Item]
              /\ open' = open /\ registry' = registry /\ closed' = closed
              /\ slot' = slot /\ calls' = calls /\ interrupted' = interrupted
    <2>1. /\ frame' \in [Actor -> Seq(Conn)]
          /\ lock' \in [Pid -> [owner : Actor \union {None, Ghost}, count : Nat]]
      BY <1>9, Popped, Released DEF ExitOutermost
    <2>2. nest' \in [Actor -> [pid : Pid, depth : Nat]]
      BY <1>9 DEF ExitOutermost, TypeOK
    <2>3. failed' \in [Actor -> BOOLEAN] /\ raising' \in [Actor -> BOOLEAN]
      BY <1>9 DEF ExitOutermost, TypeOK
    <2>. QED
      BY <1>9, <2>1, <2>2, <2>3 DEF ExitOutermost, EndsAs, TypeOK, Control
  <1>10. ASSUME NEW a \in Actor, Commit(a) PROVE TypeOK'
    BY <1>10, <1>9 DEF Commit, TypeOK
  <1>11. ASSUME NEW a \in Actor, CommitFails(a) \/ Abort(a) PROVE TypeOK'
    BY <1>11, <1>9 DEF CommitFails, Abort, RollBack, TypeOK
  <1>12. ASSUME NEW a \in Actor, CloseAll(a) PROVE TypeOK'
    BY <1>12 DEF CloseAll, Registered, TypeOK, Control
  <1>13. ASSUME NEW t \in Thread, Fork(t) PROVE TypeOK'
    <2>1. t \in Actor /\ Kid \in Actor /\ Child \in Pid /\ Parent \in Pid
      BY DEF Actor, Pid
    <2>2. Inherited(t, lock[Parent].owner) \in Actor \union {None, Ghost}
      BY <2>1 DEF Inherited
    <2>. QED
      BY <1>13, <2>1, <2>2 DEF Fork, TypeOK, Control
  <1>14. ASSUME UNCHANGED vars PROVE TypeOK'
    BY <1>14 DEF vars, TypeOK
  <1>. QED
    BY <1>1, <1>2, <1>3, <1>4, <1>5, <1>6, <1>7, <1>8, <1>10, <1>11, <1>12, <1>13, <1>14
       DEF Next, Step

-----------------------------------------------------------------------------
\* What a step does to the depth and the frames of its own thread.
LEMMA OwnDepth ==
    ASSUME IInv, NEW a \in Actor, Step(a)
    PROVE  \/ /\ Depth(a)' = Depth(a) /\ frame'[a] = frame[a]
              /\ \/ Enter(a) \/ Refused(a) \/ Leave(a) \/ Close(a) \/ CloseAll(a)
                 \/ \E i \in Item : Execute(a, i)
           \/ /\ Depth(a)' = Depth(a)
              /\ \E c \in Conn :
                   /\ UseConnection(a, c) /\ pc[a] = "entered"
                   /\ \/ Reuse(a) /\ c = slot[a] /\ slot'[a] = slot[a] /\ open' = open
                      \/ Connect(a, c)
           \/ /\ Acquire(a) /\ frame'[a] = frame[a]
              /\ Depth(a)' = IF Depth(a) = 0 THEN 0 ELSE Depth(a) + 1
           \/ /\ Begin(a) /\ frame'[a] = frame[a] /\ Depth(a)' = 1
           \/ /\ BeginFails(a) \/ BeginInterrupted(a)
              /\ Depth(a) = 0 /\ Depth(a)' = 0
           \/ /\ \E caught \in BOOLEAN : ExitInner(a, caught)
              /\ Depth(a) > 1 /\ Depth(a)' = Depth(a) - 1
           \/ /\ Commit(a) \/ CommitFails(a) \/ Abort(a)
              /\ Depth(a) = 1 /\ Depth(a)' = 0
  <1>. USE DEF IInv, TypeOK, Data, Manager, Flags, History
  <1>1. ASSUME nest' = nest PROVE Depth(a)' = Depth(a)
    BY <1>1 DEF Depth
  <1>2. ASSUME NEW d \in Nat, nest' = [nest EXCEPT ![a] = [pid |-> Home(a), depth |-> d]]
        PROVE Depth(a)' = d
    BY <1>2 DEF Depth
  <1>3. CASE Enter(a) \/ Refused(a) \/ Leave(a) \/ Close(a) \/ CloseAll(a)
    BY <1>1, <1>3 DEF Enter, Refused, Leave, Close, CloseAll
  <1>4. CASE \E i \in Item : Execute(a, i)
    BY <1>1, <1>4 DEF Execute
  <1>5. CASE Reuse(a)
    BY <1>1, <1>5 DEF Reuse, UseConnection, HasConnection
  <1>6. CASE \E c \in Conn : Connect(a, c)
    BY <1>1, <1>6 DEF Connect, UseConnection
  <1>7. CASE Acquire(a)
    <2>1. CASE Depth(a) = 0
      BY <1>1, <1>7, <2>1 DEF Acquire
    <2>2. CASE Depth(a) # 0
      <3>1. Depth(a) + 1 \in Nat
        BY DepthType
      <3>2. nest' = [nest EXCEPT ![a] = [pid |-> Home(a), depth |-> Depth(a) + 1]]
        BY <1>7, <2>2 DEF Acquire
      <3>3. Depth(a)' = Depth(a) + 1
        BY <1>2, <3>1, <3>2
      <3>. QED
        BY <1>7, <2>2, <3>3 DEF Acquire
    <2>. QED
      BY <2>1, <2>2
  <1>8. CASE Begin(a)
    BY <1>2, <1>8 DEF Begin
  <1>9. CASE BeginFails(a) \/ BeginInterrupted(a)
    BY <1>1, <1>9 DEF BeginFails, BeginInterrupted, LeaveUnstarted, ThreadInv, ShapeInv
  <1>10. CASE \E caught \in BOOLEAN : ExitInner(a, caught)
    <2>1. Depth(a) > 1 /\ Depth(a) - 1 \in Nat
      BY <1>10, DepthType DEF ExitInner
    <2>2. nest' = [nest EXCEPT ![a] = [pid |-> Home(a), depth |-> Depth(a) - 1]]
      BY <1>10 DEF ExitInner
    <2>. QED
      BY <1>2, <1>10, <2>1, <2>2
  <1>11. CASE Commit(a) \/ CommitFails(a) \/ Abort(a)
    <2>1. Depth(a) = 1 /\ nest' = [nest EXCEPT ![a] = [pid |-> Home(a), depth |-> 0]]
      BY <1>11 DEF Commit, CommitFails, Abort, ExitOutermost
    <2>. QED
      BY <1>2, <1>11, <2>1
  <1>. QED
    BY <1>3, <1>4, <1>5, <1>6, <1>7, <1>8, <1>9, <1>10, <1>11 DEF Step

LEMMA InnerDepth ==
    ASSUME IInv, NEW a \in Actor, NEW caught \in BOOLEAN, ExitInner(a, caught)
    PROVE  Depth(a)' = Depth(a) - 1
  <1>1. nest' = [nest EXCEPT ![a] = [pid |-> Home(a), depth |-> Depth(a) - 1]]
    BY DEF ExitInner
  <1>2. nest'[a] = [pid |-> Home(a), depth |-> Depth(a) - 1]
    BY <1>1 DEF IInv, TypeOK
  <1>3. Depth(a)' = IF nest'[a].pid = Home(a) THEN nest'[a].depth ELSE 0
    BY DEF Depth, Home
  <1>. QED
    BY <1>2, <1>3

\* A fork makes the child's thread and changes nothing of the others.
LEMMA Forked ==
    ASSUME IInv, NEW t \in Thread, Fork(t)
    PROVE  /\ \A b \in Thread : /\ pc'[b] = pc[b] /\ Depth(b)' = Depth(b) /\ slot'[b] = slot[b]
                                /\ failed'[b] = failed[b] /\ closed'[Home(b)] = closed[Home(b)]
                                /\ lock'[Home(b)] = lock[Home(b)] /\ Home(b) = Parent
           /\ pc[Kid] = "unborn" /\ pc'[Kid] = "idle" /\ Depth(Kid) = 0 /\ Depth(Kid)' = 0
           /\ slot'[Kid] = slot[t] /\ ~closed[Child]
           /\ UNCHANGED <<table, txn, work, open, frame, raising, mine, how, calls, interrupted>>
  <1>1. t \in Actor /\ Kid \in Actor /\ Child \in Pid /\ Parent \in Pid /\ Home(t) = Parent
        /\ Home(Kid) = Child /\ Child # Parent /\ pc[Kid] = "unborn"
    BY PidAssumption, ThreadAssumption DEF Actor, Pid, Home, Fork
  <1>2. \A b \in Thread : b \in Actor /\ b # Kid /\ Home(b) = Parent
    BY ThreadAssumption DEF Actor, Home
  <1>3. Depth(Kid) = 0 /\ ~closed[Child] /\ ThreadInv(t)
    BY <1>1 DEF IInv, ThreadInv, ShapeInv, CloseInv
  <1>4. nest[t].pid = Parent
    BY <1>1, <1>2 DEF IInv, ThreadInv, ShapeInv
  <1>5. nest'[Kid] = nest[t] /\ slot'[Kid] = slot[t] /\ pc'[Kid] = "idle"
    BY <1>1 DEF Fork, Goto, IInv, TypeOK
  <1>6. Depth(Kid)' = 0
    BY <1>1, <1>4, <1>5 DEF Depth, Home
  <1>7. \A b \in Thread : /\ pc'[b] = pc[b] /\ nest'[b] = nest[b] /\ slot'[b] = slot[b]
                         /\ closed'[Home(b)] = closed[Home(b)]
                         /\ lock'[Home(b)] = lock[Home(b)]
    BY <1>1, <1>2 DEF Fork, Goto, IInv, TypeOK, Manager
  <1>8. \A b \in Thread : failed'[b] = failed[b]
    BY <1>1, <1>2 DEF Fork, IInv, TypeOK
  <1>9. \A b \in Thread : Depth(b)' = Depth(b)
    BY <1>7 DEF Depth
  <1>. QED
    BY <1>1, <1>2, <1>3, <1>5, <1>6, <1>7, <1>8, <1>9 DEF Fork, Data, Manager, Flags, History

-----------------------------------------------------------------------------
\* The parts of the invariant, one lemma each: for the thread that moves by the
\* kind of its step, for the others by Others.
LEMMA ShapeStep ==
    ASSUME IInv, NEW a \in Actor, Step(a), NEW b \in Actor
    PROVE  ShapeInv(b)'
  <1>1. ShapeInv(a) /\ ShapeInv(b) /\ Depth(a) \in Nat
    BY DepthType DEF IInv, ThreadInv
  <1>2. CASE b # a
    BY <1>1, <1>2, Others DEF ShapeInv, Home
  <1>. SUFFICES ASSUME b = a PROVE ShapeInv(a)'
    BY <1>2
  <1>3. pc \in [Actor -> Control] /\ nest \in [Actor -> [pid : Pid, depth : Nat]]
    BY DEF IInv, TypeOK
  <1>. USE <1>1, <1>3 DEF Goto
  <1>4. a # Kid => nest'[a].pid = Home(a)
    <2>1. nest' = nest \/ \E d : nest' = [nest EXCEPT ![a] = [pid |-> Home(a), depth |-> d]]
      BY OwnDepth DEF Enter, Refused, Leave, Close, CloseAll, Execute, Reuse, Connect, UseConnection,
         Acquire, Begin, BeginFails, BeginInterrupted, LeaveUnstarted, ExitInner, Commit,
         CommitFails, Abort, ExitOutermost, Step
    <2>. QED
      BY <2>1 DEF ShapeInv
  <1>5. CASE /\ Depth(a)' = Depth(a) /\ frame'[a] = frame[a]
             /\ \/ Enter(a) \/ Refused(a) \/ Leave(a) \/ Close(a) \/ CloseAll(a)
                \/ \E i \in Item : Execute(a, i)
    BY <1>4, <1>5 DEF ShapeInv, Enter, Refused, Leave, Close, CloseAll, Execute, Home
  <1>6. CASE Depth(a)' = Depth(a) /\ \E c \in Conn : UseConnection(a, c) /\ pc[a] = "entered"
    <2>1. /\ pc[a] = "entered" /\ Len(frame[a]) = Depth(a)
          /\ \/ pc'[a] \in {"idle", "body"} /\ (pc'[a] = "idle" <=> Len(frame[a]) = 0)
                /\ frame'[a] = frame[a]
             \/ pc'[a] = "acquire" /\ Len(frame'[a]) = Len(frame[a]) + 1
      BY <1>6, Pushed DEF ShapeInv
    <2>. QED
      BY <1>4, <1>6, <2>1 DEF ShapeInv, Home
  <1>7. CASE /\ Acquire(a) /\ frame'[a] = frame[a]
             /\ Depth(a)' = IF Depth(a) = 0 THEN 0 ELSE Depth(a) + 1
    <2>1. pc[a] = "acquire" /\ Len(frame[a]) = Depth(a) + 1
      BY <1>7 DEF ShapeInv, Acquire
    <2>2. CASE Depth(a) = 0
      <3>1. pc'[a] = "begin" /\ Depth(a)' = 0
        BY <1>7, <2>2 DEF Acquire
      <3>. QED
        BY <1>4, <1>7, <2>1, <2>2, <3>1 DEF ShapeInv, Home
    <2>3. CASE Depth(a) # 0
      <3>1. pc'[a] = "body" /\ Depth(a)' = Depth(a) + 1
        BY <1>7, <2>3 DEF Acquire
      <3>. QED
        BY <1>4, <1>7, <2>1, <3>1 DEF ShapeInv, Home
    <2>. QED
      BY <2>2, <2>3
  <1>8. CASE Begin(a) /\ frame'[a] = frame[a] /\ Depth(a)' = 1
    BY <1>4, <1>8 DEF ShapeInv, Begin, Home
  <1>9. CASE (BeginFails(a) \/ BeginInterrupted(a)) /\ Depth(a) = 0 /\ Depth(a)' = 0
    <2>1. Len(frame'[a]) = Len(frame[a]) - 1
      BY <1>9, Popped DEF BeginFails, BeginInterrupted, LeaveUnstarted
    <2>. QED
      BY <1>4, <1>9, <2>1 DEF ShapeInv, BeginFails, BeginInterrupted, LeaveUnstarted, Home
  <1>10. CASE (\E caught \in BOOLEAN : ExitInner(a, caught)) /\ Depth(a) > 1 /\ Depth(a)' = Depth(a) - 1
    <2>1. Len(frame'[a]) = Len(frame[a]) - 1
      BY <1>10, Popped DEF ExitInner
    <2>. QED
      BY <1>4, <1>10, <2>1 DEF ShapeInv, ExitInner, Home
  <1>11. CASE (Commit(a) \/ CommitFails(a) \/ Abort(a)) /\ Depth(a) = 1 /\ Depth(a)' = 0
    <2>1. pc[a] = "exit" /\ pc'[a] = "idle" /\ PopFrame(a)
      BY <1>11 DEF Commit, CommitFails, Abort, ExitOutermost
    <2>2. Len(frame'[a]) = Len(frame[a]) - 1
      BY <2>1, Popped
    <2>. QED
      BY <1>4, <1>11, <2>1, <2>2 DEF ShapeInv, Home
  <1>. QED
    BY <1>5, <1>6, <1>7, <1>8, <1>9, <1>10, <1>11, OwnDepth

\* The frames of a are a prefix of what they were, or have one more.
LEMMA FramesMove ==
    ASSUME IInv, NEW a \in Actor, Step(a)
    PROVE  \/ \A i \in 1..Len(frame'[a]) : i \in 1..Len(frame[a]) /\ frame'[a][i] = frame[a][i]
           \/ \E c \in Conn :
                /\ UseConnection(a, c) /\ pc[a] = "entered" /\ pc'[a] = "acquire"
                /\ \/ Reuse(a) /\ c = slot[a] /\ slot'[a] = slot[a] /\ open' = open
                   \/ Connect(a, c)
                /\ Len(frame'[a]) = Len(frame[a]) + 1
                /\ frame'[a][Len(frame[a]) + 1] = c
                /\ \A i \in 1..Len(frame[a]) : frame'[a][i] = frame[a][i]
  <1>1. Len(frame[a]) \in Nat
    BY DEF IInv, TypeOK
  <1>2. CASE frame'[a] = frame[a]
    BY <1>2
  <1>3. ASSUME NEW c \in Conn, UseConnection(a, c), pc[a] = "entered",
               \/ Reuse(a) /\ c = slot[a] /\ slot'[a] = slot[a] /\ open' = open
               \/ Connect(a, c)
        PROVE \/ frame'[a] = frame[a]
              \/ /\ pc'[a] = "acquire" /\ Len(frame'[a]) = Len(frame[a]) + 1
                 /\ frame'[a][Len(frame[a]) + 1] = c
                 /\ \A i \in 1..Len(frame[a]) : frame'[a][i] = frame[a][i]
    BY <1>3, Pushed
  <1>4. ASSUME PopFrame(a), pc[a] \in {"begin", "exit"}
        PROVE \A i \in 1..Len(frame'[a]) : i \in 1..Len(frame[a]) /\ frame'[a][i] = frame[a][i]
    BY <1>1, <1>4, Popped
  <1>. QED
    BY <1>2, <1>3, <1>4, OwnDepth DEF BeginFails, BeginInterrupted, LeaveUnstarted, ExitInner,
       Commit, CommitFails, Abort, ExitOutermost

LEMMA SlotMoves ==
    ASSUME IInv, NEW a \in Actor, Step(a)
    PROVE  \/ slot'[a] = slot[a]
           \/ \E c \in Conn : Connect(a, c) /\ slot'[a] = c
           \/ CloseAll(a) /\ slot'[a] = None
  BY DEF Step, Enter, Refused, Leave, Close, CloseAll, Execute, Reuse, Connect, UseConnection,
     Acquire, Begin, BeginFails, BeginInterrupted, LeaveUnstarted, ExitInner, Commit,
     CommitFails, Abort, ExitOutermost, IInv, TypeOK, Manager, Data

LEMMA OwnStep ==
    ASSUME IInv, NEW a \in Actor, Step(a), NEW b \in Actor
    PROVE  OwnInv(b)'
  <1>1. OwnInv(a) /\ OwnInv(b)
    BY DEF IInv, ThreadInv
  <1>2. CASE b # a
    BY <1>1, <1>2, Others DEF OwnInv
  <1>3. slot'[a] # None => slot'[a][1] = a \/ (a = Kid /\ slot'[a][1] # Kid)
    BY <1>1, SlotMoves DEF OwnInv, Connect
  <1>4. ASSUME NEW c \in Conn, (Reuse(a) /\ c = slot[a]) \/ Connect(a, c) PROVE c[1] = a
    BY <1>1, <1>4, HomeFacts, PidAssumption DEF OwnInv, Reuse, Connect, HasConnection, MadeBy, Home
  <1>5. \A i \in 1..Len(frame'[a]) : frame'[a][i][1] = a
    <2>1. Len(frame[a]) \in Nat
      BY DEF IInv, TypeOK
    <2>2. ASSUME NEW c \in Conn, NEW i \in 1..Len(frame'[a]), Len(frame'[a]) = Len(frame[a]) + 1
          PROVE i \in 1..Len(frame[a]) \/ i = Len(frame[a]) + 1
      BY <2>1, <2>2
    <2>. QED
      BY <1>1, <1>4, <2>2, FramesMove DEF OwnInv
  <1>. QED
    BY <1>2, <1>3, <1>5 DEF OwnInv

LEMMA CloseStep ==
    ASSUME IInv, NEW a \in Actor, Step(a), NEW b \in Actor
    PROVE  CloseInv(b)' /\ (closed[Home(b)] => closed'[Home(b)])
  <1>1. CloseInv(a) /\ CloseInv(b) /\ pc[a] # "unborn" /\ pc'[a] # "unborn"
    BY DEF IInv, TypeOK, ThreadInv, Step, Enter, Refused, Leave, Close, CloseAll, Execute, Reuse,
       Connect, UseConnection, Acquire, Begin, BeginFails, BeginInterrupted, LeaveUnstarted,
       ExitInner, Commit, CommitFails, Abort, ExitOutermost, Goto
  <1>2. CASE Close(a)
    BY <1>1, <1>2, HomeFacts, PidAssumption
       DEF CloseInv, Close, IInv, TypeOK, Goto, Home, Pid, Actor
  <1>3. CASE ~Close(a)
    <2>1. closed' = closed
      BY <1>3 DEF Step, Enter, Refused, Leave, CloseAll, Execute, Reuse, Connect, UseConnection,
         Acquire, Begin, BeginFails, BeginInterrupted, LeaveUnstarted, ExitInner, Commit,
         CommitFails, Abort, ExitOutermost, Manager
    <2>2. pc'[a] # "closing"
      BY <1>3 DEF IInv, TypeOK, Step, Enter, Refused, Leave, CloseAll, Execute, Reuse,
         Connect, UseConnection, Acquire, Begin, BeginFails, BeginInterrupted, LeaveUnstarted,
         ExitInner, Commit, CommitFails, Abort, ExitOutermost, Goto
    <2>. QED
      BY <1>1, <2>1, <2>2, Others DEF CloseInv
  <1>. QED
    BY <1>2, <1>3


\* A connection of a process is closed only when its manager is.
LEMMA OpenMoves ==
    ASSUME IInv, NEW a \in Actor, Step(a)
    PROVE  /\ \/ open \subseteq open'
              \/ CloseAll(a) /\ closed[Home(a)] /\ \A c \in open \ open' : MadeBy(c) = Home(a)
           /\ \A c \in open' \ open : c[1] = a /\ \A i \in 1..Len(frame[a]) : frame[a][i] # c
  <1>1. CASE CloseAll(a)
    <2>1. closed[Home(a)]
      BY <1>1 DEF CloseAll, IInv, ThreadInv, CloseInv
    <2>. QED
      BY <1>1, <2>1 DEF CloseAll, Registered
  <1>2. CASE \E c \in Conn : Connect(a, c)
    BY <1>2 DEF Connect
  <1>3. CASE ~CloseAll(a) /\ ~(\E c \in Conn : Connect(a, c))
    <2>1. open' = open
      BY <1>3 DEF Step, Enter, Refused, Leave, Close, Execute, Reuse, Acquire, Begin, BeginFails,
         BeginInterrupted, LeaveUnstarted, ExitInner, Commit, CommitFails, Abort,
         ExitOutermost, Manager
    <2>. QED
      BY <2>1
  <1>. QED
    BY <1>1, <1>2, <1>3

LEMMA TypeMoves == ASSUME IInv, NEW a \in Actor, Step(a) PROVE TypeOK'
  BY TypeStep DEF Next

LEMMA SlotStep ==
    ASSUME IInv, NEW a \in Actor, Step(a), NEW b \in Actor
    PROVE  SlotInv(b)'
  <1>. SUFFICES ASSUME ~closed'[Home(b)] PROVE SlotInv(b)'
    BY DEF SlotInv, Home
  <1>0. ~closed[Home(b)]
    BY CloseStep
  <1>1. ~(CloseAll(a) /\ Home(a) = Home(b))
    BY <1>0 DEF IInv, ThreadInv, CloseInv, CloseAll
  <1>2. HasConnection(b) => slot[b] \in open
    BY <1>0 DEF IInv, ThreadInv, SlotInv
  <1>3. \A i \in 1..Len(frame[b]) : frame[b][i] = slot[b]
    BY <1>0 DEF IInv, ThreadInv, SlotInv
  <1>4. slot'[b] = slot[b] \/ (b = a /\ \E c \in Conn : Connect(a, c) /\ slot'[a] = c)
    BY <1>0, <1>1, SlotMoves, Others
  <1>5. CASE slot'[b] = slot[b]
    <2>1. slot[b] # None /\ MadeBy(slot[b]) = Home(b) => slot[b] \in open'
      BY <1>1, <1>2, OpenMoves DEF HasConnection
    <2>2. \A i \in 1..Len(frame'[b]) : frame'[b][i] = slot[b]
      <3>1. CASE b # a
        BY <1>3, <3>1, Others
      <3>2. CASE b = a
        <4>1. ASSUME NEW c \in Conn, (Reuse(a) /\ c = slot[a]) \/ Connect(a, c) PROVE c = slot[a]
          BY <4>1, <1>5, <3>2 DEF Connect, IInv, TypeOK
        <4>2. CASE \A i \in 1..Len(frame'[a]) : i \in 1..Len(frame[a]) /\ frame'[a][i] = frame[a][i]
          BY <1>3, <3>2, <4>2
        <4>3. ASSUME NEW c \in Conn, (Reuse(a) /\ c = slot[a]) \/ Connect(a, c),
                     Len(frame'[a]) = Len(frame[a]) + 1,
                     frame'[a][Len(frame[a]) + 1] = c,
                     \A i \in 1..Len(frame[a]) : frame'[a][i] = frame[a][i]
              PROVE \A i \in 1..Len(frame'[a]) : frame'[a][i] = slot[a]
          <5>1. Len(frame[a]) \in Nat /\ c = slot[a]
            BY <4>1, <4>3 DEF IInv, TypeOK
          <5>2. ASSUME NEW i \in 1..Len(frame'[a]) PROVE frame'[a][i] = slot[a]
            <6>1. i \in 1..Len(frame[a]) \/ i = Len(frame[a]) + 1
              BY <4>3, <5>1, <5>2
            <6>. QED
              BY <1>3, <3>2, <4>3, <5>1, <6>1
          <5>. QED
            BY <5>2
        <4>. QED
          BY <3>2, <4>2, <4>3, FramesMove
      <3>. QED
        BY <3>1, <3>2
    <2>. QED
      BY <1>5, <2>1, <2>2 DEF SlotInv, HasConnection, MadeBy, Home
  <1>6. ASSUME b = a, NEW c \in Conn, Connect(a, c), slot'[a] = c PROVE SlotInv(b)'
    <2>1. ~HasConnection(a) /\ c \in open' /\ pc[a] = "entered" /\ UseConnection(a, c) /\ c[1] = a
      BY <1>6 DEF Connect
    <2>2. Len(frame[a]) = 0
      <3>1. Len(frame[a]) \in Nat /\ OwnInv(a)
        BY DEF IInv, TypeOK, ThreadInv
      <3>2. SUFFICES ASSUME Len(frame[a]) # 0 PROVE FALSE
        OBVIOUS
      <3>3. frame[a] \in Seq(Conn) /\ 1 \in 1..Len(frame[a])
        BY <3>1, <3>2 DEF IInv, TypeOK
      <3>4. frame[a][1] = slot[a] /\ frame[a][1][1] = a /\ frame[a][1] \in Conn
        BY <1>3, <1>6, <3>1, <3>3 DEF OwnInv
      <3>. QED
        BY <2>1, <3>4, HomeFacts DEF HasConnection, MadeBy
    <2>3. \A i \in 1..Len(frame'[a]) : frame'[a][i] = c
      BY <2>1, <2>2, Pushed
    <2>. QED
      BY <1>6, <2>1, <2>3 DEF SlotInv
  <1>. QED
    BY <1>4, <1>5, <1>6

\* The connection of an outermost block keeps its place.
LEMMA HeadMoves ==
    ASSUME IInv, NEW a \in Actor, Step(a), NEW b \in Actor, Depth(b)' > 0
    PROVE  /\ frame'[b][1] = frame[b][1] /\ frame[b][1] \in Conn /\ frame[b][1][1] = b
           /\ frame'[b][1] \in open' => frame[b][1] \in open
           /\ Depth(b) > 0 \/ (b = a /\ Begin(a) /\ frame[a][1] = Last(frame[a]))
  <1>1. /\ ShapeInv(b) /\ OwnInv(b) /\ Depth(b) \in Nat /\ frame[b] \in Seq(Conn)
        /\ Len(frame[b]) \in Nat /\ pc[b] \in Control
    BY SMTT(30), DepthType DEF IInv, ThreadInv, TypeOK
  <1>2. ShapeInv(b)' /\ pc'[b] \in Control /\ Len(frame'[b]) \in Nat
    BY ShapeStep, TypeMoves DEF TypeOK
  <1>3. Len(frame'[b]) > 0
    <2>1. Depth(b)' \in Nat
      BY TypeMoves DEF Depth, TypeOK, Home
    <2>. QED
      BY <1>2, <2>1 DEF ShapeInv, Control
  <1>4. Depth(b) > 0 \/ (b = a /\ Begin(a))
    BY <1>1, OwnDepth, Others
  <1>5. Len(frame[b]) > 0
    BY <1>1, <1>4 DEF ShapeInv, Control, Begin
  <1>6. frame'[b][1] = frame[b][1]
    BY <1>1, <1>2, <1>3, <1>5, FramesMove, Others
  <1>7. frame[b][1] \in Conn /\ frame[b][1][1] = b
    BY <1>1, <1>5 DEF OwnInv
  <1>8. frame'[b][1] \in open' => frame[b][1] \in open
    <2>1. SUFFICES ASSUME frame[b][1] \in open' \ open PROVE FALSE
      BY <1>6
    <2>2. frame[b][1][1] = a /\ \A i \in 1..Len(frame[a]) : frame[a][i] # frame[b][1]
      BY <2>1, OpenMoves
    <2>. QED
      BY <1>1, <1>5, <1>7, <2>2
  <1>9. Begin(a) /\ b = a => frame[a][1] = Last(frame[a])
    BY <1>1 DEF ShapeInv, Begin, Last
  <1>. QED
    BY <1>4, <1>6, <1>7, <1>8, <1>9

\* Who moves the transaction, and how.
LEMMA TxnMoves ==
    ASSUME IInv, NEW a \in Actor, Step(a)
    PROVE  \/ UNCHANGED <<table, txn, work>> /\ UNCHANGED interrupted
           \/ \E i \in Item : Execute(a, i)
           \/ /\ Begin(a) \/ BeginInterrupted(a)
              /\ txn = None /\ txn' = Last(frame[a]) /\ UNCHANGED <<table, work>>
           \/ Commit(a)
           \/ CommitFails(a) \/ Abort(a)
           \/ CloseAll(a)
  BY DEF Step, Enter, Refused, Leave, Close, Reuse, Connect, UseConnection, Acquire, Begin,
     BeginFails, BeginInterrupted, LeaveUnstarted, CanBegin, ExitInner, Data, History

\* A block that commits commits its own transaction.
LEMMA CommitOwn ==
    ASSUME IInv, NEW a \in Actor
    PROVE  /\ pc[a] = "exit" /\ Depth(a) = 1 => Last(frame[a]) = frame[a][1]
           /\ Commit(a) => txn = Last(frame[a])
  <1>1. pc[a] = "exit" /\ Depth(a) = 1 => Last(frame[a]) = frame[a][1]
    BY TopFrame DEF IInv, ThreadInv, ShapeInv
  <1>2. Commit(a) => txn = Last(frame[a])
    BY <1>1 DEF Commit, ExitOutermost, IInv, ThreadInv, TxnInv
  <1>. QED
    BY <1>1, <1>2

LEMMA TxnStep ==
    ASSUME IInv, NEW a \in Actor, Step(a), NEW b \in Actor
    PROVE  /\ TxnInv(b)'
           /\ Depth(b) > 0 /\ Depth(b)' > 0 /\ frame'[b][1] \in open' => txn' = txn
  <1>. SUFFICES ASSUME Depth(b)' > 0, frame'[b][1] \in open'
                PROVE  txn' = frame'[b][1] /\ (Depth(b) > 0 => txn' = txn)
    BY DEF TxnInv
  <1>1. /\ frame'[b][1] = frame[b][1] /\ frame[b][1] \in Conn /\ frame[b][1][1] = b
        /\ frame[b][1] \in open
        /\ Depth(b) > 0 \/ (b = a /\ Begin(a) /\ frame[a][1] = Last(frame[a]))
    BY HeadMoves
  <1>2. CASE b = a /\ Begin(a)
    BY <1>1, <1>2, DepthType DEF Begin, IInv, ThreadInv, ShapeInv, TypeOK
  <1>3. CASE ~(b = a /\ Begin(a))
    <2>1. Depth(b) > 0 /\ txn = frame[b][1] /\ txn # None /\ txn[1] = b
      BY <1>1, <1>3, HomeFacts DEF IInv, ThreadInv, TxnInv
    <2>2. (Commit(a) \/ CommitFails(a) \/ Abort(a)) => a # b
      BY OwnDepth DEF Commit, CommitFails, Abort, ExitOutermost, Enter, Refused, Leave, Close,
         CloseAll, Execute, UseConnection, Acquire, Begin, BeginFails, BeginInterrupted,
         LeaveUnstarted, ExitInner
    <2>3. ~Commit(a)
      BY <2>1, <2>2, CommitOwn, TopFrame DEF Commit, ExitOutermost
    <2>4. CASE CommitFails(a) \/ Abort(a)
      <3>1. Last(frame[a])[1] = a
        BY <2>4, TopFrame DEF CommitFails, Abort, ExitOutermost
      <3>. QED
        BY <1>1, <2>1, <2>2, <2>4, <3>1 DEF CommitFails, Abort, RollBack
    <2>5. CASE CloseAll(a)
      BY <1>1, <2>1, <2>5 DEF CloseAll
    <2>6. CASE \E i \in Item : Execute(a, i)
      BY <1>1, <2>1, <2>6 DEF Execute
    <2>. QED
      BY <1>1, <2>1, <2>3, <2>4, <2>5, <2>6, TxnMoves
  <1>. QED
    BY <1>2, <1>3

\* The lock changes only for its owner, or when it is free.
LEMMA LockMoves ==
    ASSUME IInv, NEW a \in Actor, Step(a)
    PROVE  \/ lock' = lock /\ ~Acquire(a)
           \/ Acquire(a)
           \/ /\ Release(Home(a)) /\ pc[a] \in {"begin", "exit"}
              /\ \/ BeginFails(a) \/ BeginInterrupted(a) \/ Commit(a) \/ CommitFails(a) \/ Abort(a)
                 \/ \E caught \in BOOLEAN : ExitInner(a, caught)
  BY DEF Step, Enter, Refused, Leave, Close, CloseAll, Execute, Reuse, Connect, UseConnection,
     Acquire, Begin, BeginFails, BeginInterrupted, LeaveUnstarted, ExitInner, Commit,
     CommitFails, Abort, ExitOutermost, Goto, IInv, TypeOK

LEMMA LockOthers ==
    ASSUME IInv, NEW a \in Actor, Step(a), NEW b \in Actor, b # a
    PROVE  LockInv(b)'
  <1>1. LockInv(b) /\ pc'[b] = pc[b] /\ Depth(b)' = Depth(b) /\ Home(b)' = Home(b)
    BY Others DEF IInv, ThreadInv, Home
  <1>2. CASE ~(Depth(b) > 0 \/ pc[b] = "begin")
    BY <1>1, <1>2 DEF LockInv
  <1>3. CASE Depth(b) > 0 \/ pc[b] = "begin"
    <2>1. lock[Home(b)].owner = b
      BY <1>1, <1>3 DEF LockInv
    <2>2. lock'[Home(b)] = lock[Home(b)]
      <3>1. CASE Acquire(a)
        <4>1. lock[Home(a)].owner \in {None, a} /\ b # None
          BY <3>1, NoneAssumption DEF Acquire, Actor
        <4>. QED
          BY <2>1, <3>1, <4>1, HomeFacts DEF Acquire, IInv, TypeOK
      <3>2. CASE Release(Home(a)) /\ pc[a] \in {"begin", "exit"}
        BY <2>1, <3>2, Released, HomeFacts
      <3>. QED
        BY <3>1, <3>2, LockMoves
    <2>. QED
      BY <1>1, <2>2 DEF LockInv
  <1>. QED
    BY <1>2, <1>3

LEMMA LockOwn == ASSUME IInv, NEW a \in Actor, Step(a) PROVE LockInv(a)'
  <1>1. LockInv(a) /\ ShapeInv(a) /\ Depth(a) \in Nat /\ Home(a)' = Home(a) /\ Home(a) \in Pid
        /\ lock[Home(a)].count \in Nat
    BY DepthType, HomeFacts DEF IInv, ThreadInv, Home, TypeOK
  <1>2. CASE lock' = lock /\ ~Acquire(a)
    <2>1. (Depth(a)' = Depth(a) /\ pc'[a] # "begin") \/ (Begin(a) /\ Depth(a)' = 1 /\ pc'[a] = "body")
      <3>1. Depth(a)' = Depth(a) \/ (Begin(a) /\ Depth(a)' = 1)
        <4>1. ASSUME Release(Home(a)), pc[a] \in {"begin", "exit"} PROVE FALSE
          BY <1>1, <1>2, <4>1, Released DEF Release, Free, IInv, TypeOK, LockInv
        <4>. QED
          BY <1>2, <4>1, OwnDepth DEF BeginFails, BeginInterrupted, LeaveUnstarted, ExitInner, Commit,
             CommitFails, Abort, ExitOutermost
      <3>2. pc'[a] = "begin" => pc[a] = "begin" /\ FALSE
        BY <1>2 DEF Step, Enter, Refused, Leave, Close, CloseAll, Execute, Reuse, Connect,
           UseConnection, Begin, BeginFails, BeginInterrupted, LeaveUnstarted, ExitInner,
           Commit, CommitFails, Abort, ExitOutermost, Goto, IInv, TypeOK
      <3>. QED
        BY <3>1, <3>2 DEF Begin, Goto, IInv, TypeOK
    <2>. QED
      BY <1>1, <1>2, <2>1 DEF LockInv, Begin
  <1>3. CASE Acquire(a)
    <2>1. /\ lock'[Home(a)].owner = a /\ lock'[Home(a)].count = lock[Home(a)].count + 1
          /\ Depth(a)' = IF Depth(a) = 0 THEN 0 ELSE Depth(a) + 1
      <3>1. Depth(a)' = IF Depth(a) = 0 THEN 0 ELSE Depth(a) + 1
        BY <1>3, OwnDepth DEF Enter, Refused, Leave, Close, CloseAll, Execute, Acquire, Begin,
           BeginFails, BeginInterrupted, ExitInner, Commit, CommitFails, Abort, ExitOutermost,
           UseConnection
      <3>. QED
        BY <1>1, <1>3, <3>1 DEF Acquire, IInv, TypeOK
    <2>. QED
      BY <1>1, <2>1 DEF LockInv
  <1>4. CASE BeginFails(a) \/ BeginInterrupted(a) \/ Commit(a) \/ CommitFails(a) \/ Abort(a)
    <2>1. Depth(a)' = 0 /\ pc'[a] = "idle"
      <3>1. pc'[a] = "idle"
        BY <1>4 DEF BeginFails, BeginInterrupted, LeaveUnstarted, Commit, CommitFails, Abort,
           ExitOutermost, Goto, IInv, TypeOK
      <3>2. ShapeInv(a)'
        BY ShapeStep
      <3>. QED
        BY <3>1, <3>2 DEF ShapeInv
    <2>. QED
      BY <2>1 DEF LockInv
  <1>5. ASSUME NEW caught \in BOOLEAN, ExitInner(a, caught) PROVE LockInv(a)'
    <2>1. Depth(a) > 1 /\ pc'[a] # "begin" /\ Release(Home(a)) /\ pc[a] = "exit"
      BY <1>5 DEF ExitInner, Goto, IInv, TypeOK
    <2>2. Depth(a)' = Depth(a) - 1
      BY <1>5, InnerDepth
    <2>3. lock[Home(a)].count >= Depth(a)
      BY <1>1, <2>1 DEF LockInv
    <2>4. lock'[Home(a)].owner = a /\ lock'[Home(a)].count = lock[Home(a)].count - 1
      BY <1>1, <2>1, <2>3, Released
    <2>. QED
      BY <1>1, <2>1, <2>2, <2>3, <2>4 DEF LockInv
  <1>. QED
    BY <1>2, <1>3, <1>4, <1>5, LockMoves

\* What a step does to the history of its own thread.
LEMMA MineMoves ==
    ASSUME IInv, NEW a \in Actor, Step(a)
    PROVE  \/ mine'[a] = mine[a] /\ ~(\E i \in Item : Execute(a, i))
           \/ \E i \in Item : Execute(a, i) /\ mine'[a] = mine[a] \union {i}
           \/ /\ Commit(a) \/ CommitFails(a) \/ Abort(a)
              /\ mine'[a] = {}
  BY DEF Step, Enter, Refused, Leave, Close, CloseAll, Execute, Reuse, Connect, UseConnection,
     Acquire, Begin, BeginFails, BeginInterrupted, LeaveUnstarted, ExitInner, Commit,
     CommitFails, Abort, ExitOutermost, Goto, IInv, TypeOK, History

\* The statements of a block whose transaction is open stay in it.
LEMMA WorkKept ==
    ASSUME IInv, NEW a \in Actor, Step(a), NEW b \in Actor,
           Depth(b)' > 0, Depth(b) > 0, frame'[b][1] \in open'
    PROVE  work \union table \subseteq work' \union table'
  <1>1. frame'[b][1] = frame[b][1] /\ frame[b][1] \in Conn /\ frame[b][1] \in open
        /\ txn = frame[b][1] /\ txn' = txn /\ txn # None
    BY HeadMoves, TxnStep, HomeFacts DEF IInv, ThreadInv, TxnInv
  <1>2. CASE Commit(a)
    BY <1>2 DEF Commit
  <1>3. CASE CommitFails(a) \/ Abort(a)
    BY <1>1, <1>3 DEF CommitFails, Abort, RollBack
  <1>4. CASE CloseAll(a)
    BY <1>1, <1>4 DEF CloseAll
  <1>5. CASE \E i \in Item : Execute(a, i)
    BY <1>5 DEF Execute
  <1>. QED
    BY <1>1, <1>2, <1>3, <1>4, <1>5, TxnMoves

\* Until its manager is closed a block executes in its transaction.
LEMMA ExecuteInside ==
    ASSUME IInv, NEW a \in Actor, NEW i \in Item, Execute(a, i)
    PROVE  /\ i[1] = a /\ i \notin table /\ Depth(a) > 0
           /\ \/ txn = Last(frame[a]) /\ work' = work \union {i} /\ table' = table
              \/ closed[Home(a)] /\ work' = work /\ table' = table \union {i}
  <1>1. i[1] = a /\ i \notin table /\ pc[a] = "body" /\ Last(frame[a]) \in open
    BY DEF Execute, Fresh, Item
  <1>2. Depth(a) > 0 /\ Len(frame[a]) = Depth(a) /\ Depth(a) \in Nat
    BY <1>1, DepthType DEF IInv, ThreadInv, ShapeInv
  <1>3. CASE ~closed[Home(a)]
    <2>1. Last(frame[a]) = frame[a][Len(frame[a])] /\ Len(frame[a]) \in 1..Len(frame[a])
          /\ 1 \in 1..Len(frame[a])
      BY <1>1, <1>2, TopFrame
    <2>2. Last(frame[a]) = frame[a][1]
      BY <1>3, <2>1 DEF IInv, ThreadInv, SlotInv
    <2>. QED
      BY <1>1, <1>2, <2>2 DEF Execute, IInv, ThreadInv, TxnInv
  <1>. QED
    BY <1>1, <1>2, <1>3 DEF Execute

\* What becomes permanent in a step.
LEMMA TableMoves ==
    ASSUME IInv, NEW a \in Actor, Step(a)
    PROVE  \A i \in table' \ table :
             /\ i[1] = a
             /\ Commit(a) \/ (closed[Home(a)] /\ \E j \in Item : Execute(a, j))
  <1>1. CASE Commit(a)
    <2>1. txn[1] = a
      BY <1>1, CommitOwn, TopFrame DEF Commit, ExitOutermost
    <2>. QED
      BY <1>1, <2>1 DEF Commit, IInv, WorkInv
  <1>2. CASE \E i \in Item : Execute(a, i)
    BY <1>2, ExecuteInside
  <1>. QED
    BY <1>1, <1>2, TxnMoves DEF CommitFails, Abort, RollBack, CloseAll

LEMMA MineStep == ASSUME IInv, NEW a \in Actor, Step(a), NEW b \in Actor PROVE MineInv(b)'
  <1>1. MineInv(b) /\ MineInv(a) /\ Depth(b) \in Nat /\ Home(b)' = Home(b)
    BY DepthType DEF IInv, ThreadInv, Home
  <1>2. \/ mine'[b] = mine[b] /\ ~(b = a /\ \E i \in Item : Execute(a, i))
        \/ b = a /\ \E i \in Item : Execute(a, i) /\ mine'[a] = mine[a] \union {i}
        \/ b = a /\ (Commit(a) \/ CommitFails(a) \/ Abort(a)) /\ mine'[b] = {}
    BY MineMoves, Others
  <1>3. \A i \in mine'[b] : i[1] = b
    BY <1>1, <1>2, ExecuteInside DEF MineInv
  <1>4. Depth(b)' = 0 => mine'[b] = {}
    <2>1. CASE mine'[b] = mine[b]
      <3>1. Depth(b)' = 0 /\ Depth(b) # 0 => b = a /\ (Commit(a) \/ CommitFails(a) \/ Abort(a))
        BY <1>1, OwnDepth, Others
      <3>2. b = a /\ (Commit(a) \/ CommitFails(a) \/ Abort(a)) => mine'[b] = {}
        BY DEF Commit, CommitFails, Abort, ExitOutermost, IInv, TypeOK
      <3>. QED
        BY <1>1, <2>1, <3>1, <3>2 DEF MineInv
    <2>2. ASSUME b = a, NEW i \in Item, Execute(a, i) PROVE Depth(b)' # 0
      <3>1. Depth(a)' = Depth(a)
        BY <2>2 DEF Execute, Depth
      <3>. QED
        BY <1>1, <2>2, <3>1, ExecuteInside
    <2>. QED
      BY <1>2, <2>1, <2>2
  <1>5. Depth(b)' > 0 /\ frame'[b][1] \in open' => mine'[b] \subseteq work' \union table'
    <2>. SUFFICES ASSUME Depth(b)' > 0, frame'[b][1] \in open'
                  PROVE mine'[b] \subseteq work' \union table'
      OBVIOUS
    <2>1. Depth(b) > 0 => mine[b] \subseteq work' \union table'
      BY <1>1, WorkKept, HeadMoves DEF MineInv
    <2>2. Depth(b) = 0 => mine[b] = {}
      BY <1>1 DEF MineInv
    <2>3. mine[b] \subseteq work' \union table'
      BY <1>1, <2>1, <2>2
    <2>4. ASSUME NEW i \in Item, Execute(a, i) PROVE i \in work' \union table'
      BY <2>4, ExecuteInside
    <2>. QED
      BY <1>2, <2>3, <2>4
  <1>6. ~closed'[Home(b)] => mine'[b] \intersect table' = {}
    <2>. SUFFICES ASSUME ~closed'[Home(b)], NEW i \in mine'[b], i \in table' PROVE FALSE
      OBVIOUS
    <2>1. ~closed[Home(b)] /\ mine[b] \intersect table = {}
      BY <1>1, CloseStep DEF MineInv
    <2>2. CASE i \in table
      <3>1. i \notin mine[b]
        BY <2>1, <2>2
      <3>. QED
        BY <1>2, <2>2, <3>1, ExecuteInside
    <2>3. CASE i \notin table
      <3>1. i[1] = b /\ i[1] = a
        BY <1>3, <2>3, TableMoves
      <3>2. Commit(a)
        BY <2>1, <2>3, <3>1, TableMoves
      <3>. QED
        BY <3>1, <3>2 DEF Commit, ExitOutermost, IInv, TypeOK
    <2>. QED
      BY <2>2, <2>3
  <1>. QED
    BY <1>1, <1>3, <1>4, <1>5, <1>6 DEF MineInv

LEMMA HurtStep == ASSUME IInv, NEW a \in Actor, Step(a), NEW b \in Actor PROVE HurtInv(b)'
  <1>1. HurtInv(a) /\ HurtInv(b) /\ ShapeInv(a) /\ Depth(a) \in Nat
    BY DepthType DEF IInv, ThreadInv
  <1>2. CASE b # a
    BY <1>1, <1>2, Others DEF HurtInv
  <1>3. ASSUME b = a, how'[a] = how[a], failed'[a] = failed[a],
               (Depth(a)' > 0) = (Depth(a) > 0), (Depth(a)' = 0) = (Depth(a) = 0)
        PROVE HurtInv(b)'
    BY <1>1, <1>3 DEF HurtInv
  <1>. SUFFICES ASSUME b = a PROVE HurtInv(a)'
    BY <1>2
  <1>4. CASE Enter(a)
    <2>1. Depth(a)' = Depth(a)
      BY <1>4 DEF Enter, Depth
    <2>2. failed'[a] = failed[a] /\ how'[a] = IF pc[a] = "idle" THEN "none" ELSE how[a]
      BY <1>4 DEF Enter, Flags, IInv, TypeOK
    <2>3. pc[a] = "idle" => Depth(a) = 0
      BY <1>1 DEF ShapeInv
    <2>. QED
      BY <1>1, <2>1, <2>2, <2>3 DEF HurtInv
  <1>5. CASE Begin(a)
    <2>1. Depth(a)' = 1 /\ how'[a] = "running"
      BY <1>5 DEF Begin, EndsAs, Depth, IInv, TypeOK, Home
    <2>. QED
      BY <2>1 DEF HurtInv
  <1>6. ASSUME NEW caught \in BOOLEAN, ExitInner(a, caught) PROVE HurtInv(a)'
    <2>1. Depth(a) > 1 /\ how'[a] = (IF raising[a] THEN "hurt" ELSE how[a])
      BY <1>6 DEF ExitInner, IInv, TypeOK
    <2>2. failed[a] \/ raising[a] => failed'[a]
      BY <1>6 DEF ExitInner, PoisonInner, IInv, TypeOK
    <2>3. Depth(a)' = Depth(a) - 1
      BY <1>6, InnerDepth
    <2>4. how[a] \in {"running", "hurt"}
      BY <1>1, <2>1 DEF HurtInv
    <2>. QED
      BY <1>1, <2>1, <2>2, <2>3, <2>4 DEF HurtInv
  <1>7. CASE Commit(a) \/ CommitFails(a) \/ Abort(a)
    <2>1. Depth(a)' = 0 /\ how'[a] \in {"ok", "interrupted", "raised", "swallowed"}
      BY <1>7 DEF Commit, CommitFails, Abort, ExitOutermost, EndsAs, Depth, IInv, TypeOK, Home
    <2>. QED
      BY <2>1 DEF HurtInv
  <1>8. CASE Acquire(a)
    <2>1. Depth(a)' = IF Depth(a) = 0 THEN 0 ELSE Depth(a) + 1
      BY <1>8, OwnDepth DEF Enter, Refused, Leave, Close, CloseAll, Execute, Acquire, Begin,
         BeginFails, BeginInterrupted, LeaveUnstarted, ExitInner, Commit, CommitFails, Abort,
         ExitOutermost, UseConnection
    <2>2. how'[a] = how[a] /\ failed'[a] = failed[a]
      BY <1>8 DEF Acquire, Flags, History
    <2>. QED
      BY <1>1, <2>1, <2>2 DEF HurtInv
  <1>9. CASE \/ Refused(a) \/ Reuse(a) \/ (\E c \in Conn : Connect(a, c)) \/ BeginFails(a)
             \/ BeginInterrupted(a) \/ (\E i \in Item : Execute(a, i)) \/ Leave(a)
             \/ Close(a) \/ CloseAll(a)
    <2>1. nest' = nest /\ how' = how /\ failed' = failed
      BY <1>9 DEF Refused, Reuse, Connect, UseConnection, BeginFails, BeginInterrupted,
         LeaveUnstarted, Execute, Leave, Close, CloseAll, Flags, History
    <2>. QED
      BY <1>1, <2>1 DEF HurtInv, Depth, Home
  <1>. QED
    BY <1>4, <1>5, <1>6, <1>7, <1>8, <1>9 DEF Step

LEMMA StrayStep == ASSUME IInv, NEW a \in Actor, Step(a) PROVE StrayInv'
  <1>0. ASSUME \A c \in Conn : txn' = c => \/ c[1] \in interrupted'
                                           \/ Depth(c[1])' > 0 /\ frame'[c[1]][1] = c
        PROVE StrayInv'
    BY <1>0, TypeMoves DEF StrayInv, TypeOK, Depth, Home
  <1>. SUFFICES ASSUME NEW c \in Conn, txn' = c
                PROVE  c[1] \in interrupted' \/ (Depth(c[1])' > 0 /\ frame'[c[1]][1] = c)
    BY <1>0
  <1>1. interrupted \subseteq interrupted'
    BY DEF Step, Enter, Refused, Leave, Close, CloseAll, Execute, Reuse, Connect, UseConnection,
       Acquire, Begin, BeginFails, BeginInterrupted, LeaveUnstarted, ExitInner, Commit,
       CommitFails, Abort, ExitOutermost, History
  <1>2. CASE Begin(a)
    <2>1. c = Last(frame[a]) /\ c[1] = a /\ Last(frame[a]) = frame[a][1]
      BY <1>2, TopFrame DEF Begin, IInv, ThreadInv, ShapeInv
    <2>2. nest'[a] = [pid |-> Home(a), depth |-> 1] /\ frame' = frame
      BY <1>2 DEF Begin, IInv, TypeOK
    <2>3. Depth(a)' = 1
      BY <2>2 DEF Depth, Home
    <2>. QED
      BY <2>1, <2>2, <2>3
  <1>3. CASE BeginInterrupted(a)
    <2>1. c = Last(frame[a]) /\ Last(frame[a])[1] = a /\ a \in interrupted'
      BY <1>3, TopFrame DEF BeginInterrupted
    <2>. QED
      BY <2>1
  <1>4. CASE txn' = txn /\ ~(Begin(a) \/ BeginInterrupted(a))
    <2>1. PICK b \in Actor : b = c[1]
      BY HomeFacts
    <2>2. CASE b \in interrupted
      BY <1>1, <2>1, <2>2
    <2>3. CASE Depth(b) > 0 /\ frame[b][1] = c
      <3>1. ASSUME b = a, Commit(a) \/ CommitFails(a) \/ Abort(a) PROVE FALSE
        <4>1. Last(frame[a]) = c
          BY <2>3, <3>1, CommitOwn DEF Commit, CommitFails, Abort, ExitOutermost
        <4>. QED
          BY <1>4, <3>1, <4>1, HomeFacts DEF Commit, CommitFails, Abort, RollBack
      <3>2. Depth(b) \in Nat
        BY DepthType DEF IInv
      <3>3. Depth(b)' > 0
        BY <1>4, <2>3, <3>1, <3>2, OwnDepth, Others
      <3>4. frame'[b][1] = frame[b][1]
        BY <3>3, HeadMoves
      <3>. QED
        BY <2>1, <2>3, <3>3, <3>4
    <2>. QED
      BY <1>4, <2>1, <2>2, <2>3, HomeFacts DEF IInv, StrayInv
  <1>5. txn' = txn \/ Begin(a) \/ BeginInterrupted(a)
    <2>1. CommitFails(a) \/ Abort(a) \/ CloseAll(a) \/ Commit(a) => txn' = txn \/ txn' = None
      BY DEF CommitFails, Abort, RollBack, CloseAll, Commit
    <2>. QED
      BY <2>1, TxnMoves, HomeFacts DEF Execute
  <1>6. Begin(a) \/ BeginInterrupted(a) => txn' # txn
    BY HomeFacts DEF Begin, BeginInterrupted, CanBegin
  <1>. QED
    BY <1>2, <1>3, <1>4, <1>5, <1>6

LEMMA WorkStep == ASSUME IInv, NEW a \in Actor, Step(a) PROVE WorkInv'
  <1>1. CASE \E i \in Item : Execute(a, i)
    <2>1. PICK i \in Item : Execute(a, i)
      BY <1>1
    <2>2. i[1] = a /\ txn' = txn /\ Last(frame[a]) # None /\ Last(frame[a])[1] = a
      BY <2>1, TopFrame, HomeFacts DEF Execute
    <2>3. work' = work \/ (work' = work \union {i} /\ txn = Last(frame[a]))
      BY <2>1, ExecuteInside
    <2>. QED
      BY <2>2, <2>3 DEF IInv, WorkInv
  <1>2. CASE Begin(a) \/ BeginInterrupted(a)
    BY <1>2, TxnMoves DEF IInv, WorkInv, Begin, BeginInterrupted, CanBegin, LeaveUnstarted
  <1>3. CASE UNCHANGED <<table, txn, work>>
    BY <1>3 DEF IInv, WorkInv
  <1>4. CASE Commit(a)
    BY <1>4 DEF Commit, WorkInv
  <1>5. CASE CommitFails(a) \/ Abort(a) \/ CloseAll(a)
    BY <1>5 DEF CommitFails, Abort, RollBack, CloseAll, WorkInv, IInv
  <1>. QED
    BY <1>1, <1>2, <1>3, <1>4, <1>5, TxnMoves

-----------------------------------------------------------------------------
LEMMA ForkStep == ASSUME IInv, NEW t \in Thread, Fork(t) PROVE IInv'
  <1>1. TypeOK'
    BY TypeStep DEF Next
  <1>2. ASSUME NEW b \in Thread PROVE ThreadInv(b)'
    <2>1. b \in Actor /\ b # Kid /\ Home(b)' = Home(b) /\ ThreadInv(b)
      BY ThreadAssumption DEF IInv, Actor, Home
    <2>2. /\ pc'[b] = pc[b] /\ Depth(b)' = Depth(b) /\ slot'[b] = slot[b] /\ nest'[b] = nest[b]
          /\ failed'[b] = failed[b] /\ closed'[Home(b)] = closed[Home(b)]
          /\ lock'[Home(b)] = lock[Home(b)] /\ Home(b) = Parent
          /\ UNCHANGED <<table, txn, work, open, frame, raising, mine, how>>
      <3>1. nest'[b] = nest[b]
        BY <2>1 DEF Fork, IInv, TypeOK
      <3>. QED
        BY <3>1, Forked
    <2>3. ShapeInv(b)' /\ OwnInv(b)' /\ CloseInv(b)'
      BY <2>1, <2>2 DEF ThreadInv, ShapeInv, OwnInv, CloseInv
    <2>4. SlotInv(b)'
      BY <2>1, <2>2 DEF ThreadInv, SlotInv, HasConnection, MadeBy, Home
    <2>5. TxnInv(b)' /\ LockInv(b)' /\ HurtInv(b)'
      BY <2>1, <2>2 DEF ThreadInv, TxnInv, LockInv, HurtInv
    <2>6. MineInv(b)'
      BY <2>1, <2>2 DEF ThreadInv, MineInv
    <2>. QED
      BY <2>3, <2>4, <2>5, <2>6 DEF ThreadInv
  <1>3. ThreadInv(Kid)'
    <2>1. /\ Kid \in Actor /\ t \in Actor /\ t # Kid /\ ThreadInv(Kid) /\ ThreadInv(t)
          /\ Home(Kid) = Child /\ Home(Kid)' = Child /\ Home(t) = Parent
      BY ThreadAssumption DEF IInv, Actor, Home
    <2>2. /\ pc[Kid] = "unborn" /\ pc'[Kid] = "idle" /\ Depth(Kid) = 0 /\ Depth(Kid)' = 0
          /\ slot'[Kid] = slot[t] /\ frame' = frame /\ mine' = mine /\ how' = how
      BY Forked
    <2>3. Len(frame[Kid]) = 0 /\ mine[Kid] = {} /\ how[Kid] \notin {"running", "hurt"}
      BY <2>1, <2>2 DEF ThreadInv, ShapeInv, MineInv, HurtInv
    <2>4. slot[t] # None => slot[t][1] = t
      BY <2>1 DEF ThreadInv, OwnInv
    <2>5. ~HasConnection(Kid)'
      BY <2>1, <2>2, <2>4, PidAssumption DEF HasConnection, MadeBy, Home
    <2>6. ShapeInv(Kid)' /\ OwnInv(Kid)' /\ CloseInv(Kid)' /\ SlotInv(Kid)'
      BY <2>1, <2>2, <2>3, <2>4, <2>5 DEF ShapeInv, OwnInv, CloseInv, SlotInv
    <2>7. TxnInv(Kid)' /\ LockInv(Kid)' /\ MineInv(Kid)' /\ HurtInv(Kid)'
      BY <2>2, <2>3 DEF TxnInv, LockInv, MineInv, HurtInv
    <2>. QED
      BY <2>6, <2>7 DEF ThreadInv
  <1>4. StrayInv' /\ WorkInv'
    <2>1. UNCHANGED <<table, txn, work, frame, interrupted>>
      BY Forked
    <2>2. WorkInv'
      BY <2>1 DEF IInv, WorkInv
    <2>3. txn # None => txn[1] \in Thread \union {Kid}
      BY HomeFacts DEF IInv, TypeOK, Actor
    <2>4. Depth(Kid) = 0 /\ \A b \in Thread : Depth(b)' = Depth(b)
      BY Forked
    <2>. QED
      BY <2>1, <2>2, <2>3, <2>4 DEF IInv, StrayInv
  <1>. QED
    BY <1>1, <1>2, <1>3, <1>4 DEF IInv, Actor

LEMMA StutterStep == ASSUME IInv, UNCHANGED vars PROVE IInv'
  <1>1. /\ UNCHANGED <<table, txn, work, open, registry, closed, lock, slot, nest>>
        /\ UNCHANGED <<failed, pc, frame, raising, mine, how, calls, interrupted>>
    BY DEF vars
  <1>2. TypeOK' /\ StrayInv' /\ WorkInv'
    BY <1>1 DEF IInv, TypeOK, StrayInv, WorkInv, Depth, Home
  <1>3. ASSUME NEW a \in Actor PROVE ThreadInv(a)'
    <2>1. ThreadInv(a) /\ Depth(a)' = Depth(a) /\ Home(a)' = Home(a)
      BY <1>1 DEF IInv, Depth, Home
    <2>2. ShapeInv(a)' /\ OwnInv(a)' /\ CloseInv(a)' /\ SlotInv(a)'
      BY <1>1, <2>1 DEF ThreadInv, ShapeInv, OwnInv, CloseInv, SlotInv, HasConnection, MadeBy, Home
    <2>3. TxnInv(a)' /\ LockInv(a)' /\ MineInv(a)' /\ HurtInv(a)'
      BY <1>1, <2>1 DEF ThreadInv, TxnInv, LockInv, MineInv, HurtInv
    <2>. QED
      BY <2>2, <2>3 DEF ThreadInv
  <1>. QED
    BY <1>2, <1>3 DEF IInv

LEMMA InvInit == Init => IInv
  <1>. SUFFICES ASSUME Init PROVE IInv
    OBVIOUS
  <1>1. TypeOK
    BY TypeInit
  <1>2. ASSUME NEW a \in Actor PROVE ThreadInv(a)
    <2>1. /\ Depth(a) = 0 /\ Len(frame[a]) = 0 /\ pc[a] \in {"unborn", "idle"} /\ slot[a] = None
          /\ mine[a] = {} /\ how[a] = "none" /\ nest[a].pid = Home(a) /\ ~closed[Home(a)]
          /\ ~closed[Child]
      BY HomeFacts DEF Init, Depth, Pid
    <2>. QED
      BY <2>1 DEF ThreadInv, ShapeInv, OwnInv, CloseInv, SlotInv, HasConnection, TxnInv, LockInv,
         MineInv, HurtInv
  <1>. QED
    BY <1>1, <1>2 DEF IInv, Init, StrayInv, WorkInv

LEMMA InvStep == IInv /\ [Next]_vars => IInv'
  <1>1. ASSUME IInv, NEW a \in Actor, Step(a) PROVE IInv'
    <2>1. ASSUME NEW b \in Actor PROVE ThreadInv(b)'
      <3>1. LockInv(b)'
        BY <1>1, LockOwn, LockOthers
      <3>. QED
        BY <1>1, <3>1, ShapeStep, OwnStep, CloseStep, SlotStep, TxnStep, MineStep, HurtStep
           DEF ThreadInv
    <2>. QED
      BY <1>1, <2>1, TypeMoves, StrayStep, WorkStep DEF IInv
  <1>. QED
    BY <1>1, ForkStep, StutterStep DEF Next

LEMMA Invariance == Spec => []IInv
  BY InvInit, InvStep, PTL DEF Spec

\* Every reachable state is well typed.
THEOREM ConnectionTypeCorrect == Spec => []TypeOK
  <1>1. IInv => TypeOK
    BY DEF IInv
  <1>. QED
    BY <1>1, Invariance, PTL

\* Whatever the threads, nesting, failures, closes and forks, an open
\* transaction belongs to a block in progress whose thread holds the lock, or
\* was left by an interrupt right after BEGIN.
THEOREM StrayTransactions == Spec => []StrayOnlyIfInterrupted
  <1>1. ASSUME IInv PROVE StrayOnlyIfInterrupted
    <2>. SUFFICES ASSUME txn # None, txn[1] \notin interrupted PROVE OpenIn(txn[1], txn)
      BY DEF StrayOnlyIfInterrupted, NoStrayTransaction
    <2>1. PICK a \in Actor : a = txn[1]
      BY <1>1, HomeFacts DEF IInv, TypeOK
    <2>2. Depth(a) > 0 /\ frame[a][1] = txn
      BY <1>1, <2>1 DEF IInv, StrayInv
    <2>3. TypeOK /\ ThreadInv(a) /\ Depth(a) \in Nat
      BY <1>1, DepthType DEF IInv
    <2>4. pc[a] \in Control /\ Len(frame[a]) \in Nat
      BY <2>3 DEF TypeOK
    <2>5. Len(frame[a]) > 0
      BY <2>2, <2>3, <2>4 DEF ThreadInv, ShapeInv, Control
    <2>6. lock[Home(a)].owner = a
      BY <2>2, <2>3 DEF ThreadInv, LockInv
    <2>. QED
      BY <2>1, <2>2, <2>4, <2>5, <2>6 DEF OpenIn
  <1>. QED
    BY <1>1, Invariance, PTL

-----------------------------------------------------------------------------
\* An outermost block that commits had no failed block inside it and keeps all
\* of its statements; one that raises or ends after a caught failure keeps
\* none, unless its manager was closed meanwhile.
THEOREM BlocksEndTruthfully == Spec => EndsTruthfully
  <1>1. ASSUME IInv, NEW a \in Actor, Step(a) PROVE TruthfulEnds
    <2>. SUFFICES ASSUME NEW b \in Actor
                  PROVE  /\ Ends(b, "ok") \/ Ends(b, "interrupted") => how[b] = "running" /\ mine[b] \subseteq table'
                         /\ Ends(b, "raised") \/ Ends(b, "swallowed") =>
                              mine[b] \intersect table' = {} \/ closed[Home(b)]
      BY DEF TruthfulEnds
    <2>1. ASSUME NEW h \in {"ok", "interrupted", "raised", "swallowed"}, Ends(b, h)
          PROVE b = a /\ (Commit(a) \/ CommitFails(a) \/ Abort(a))
      <3>1. b = a
        BY <1>1, <2>1, Others DEF Ends
      <3>2. ASSUME ~(Commit(a) \/ CommitFails(a) \/ Abort(a))
            PROVE how'[a] \in {how[a], "none", "running", "hurt"}
        BY <1>1, <3>2 DEF Step, Enter, Refused, Leave, Close, CloseAll, Execute, Reuse, Connect,
           UseConnection, Acquire, Begin, EndsAs, BeginFails, BeginInterrupted, LeaveUnstarted,
           ExitInner, History, IInv, TypeOK
      <3>. QED
        BY <2>1, <3>1, <3>2 DEF Ends
    <2>2. Ends(b, "ok") \/ Ends(b, "interrupted") => how[b] = "running" /\ mine[b] \subseteq table'
      <3>. SUFFICES ASSUME Ends(b, "ok") \/ Ends(b, "interrupted") PROVE how[b] = "running" /\ mine[b] \subseteq table'
        OBVIOUS
      <3>1. b = a /\ Commit(a)
        BY <1>1, <2>1 DEF CommitFails, Abort, ExitOutermost, EndsAs, Ends, IInv, TypeOK
      <3>2. how[b] = "running"
        BY <1>1, <3>1 DEF Commit, Ends, IInv, ThreadInv, HurtInv
      <3>3. Depth(a) = 1 /\ frame[a][1] \in open
        BY <1>1, <3>1, CommitOwn DEF Commit, ExitOutermost
      <3>. QED
        BY <1>1, <3>1, <3>2, <3>3 DEF Commit, IInv, ThreadInv, MineInv
    <2>3. Ends(b, "raised") \/ Ends(b, "swallowed") =>
            mine[b] \intersect table' = {} \/ closed[Home(b)]
      <3>. SUFFICES ASSUME Ends(b, "raised") \/ Ends(b, "swallowed"), ~closed[Home(b)]
                    PROVE  mine[b] \intersect table' = {}
        OBVIOUS
      <3>1. CommitFails(a) \/ Abort(a)
        BY <1>1, <2>1 DEF Commit, ExitOutermost, EndsAs, Ends, IInv, TypeOK
      <3>. QED
        BY <1>1, <3>1 DEF CommitFails, Abort, RollBack, IInv, ThreadInv, MineInv
    <2>. QED
      BY <2>2, <2>3
  <1>2. ASSUME IInv, NEW t \in Thread, Fork(t) PROVE TruthfulEnds
    BY <1>2, Forked DEF Ends, TruthfulEnds
  <1>3. IInv /\ [Next]_vars => [TruthfulEnds]_vars
    BY <1>1, <1>2 DEF Next
  <1>. QED
    BY <1>3, Invariance, PTL DEF Spec, EndsTruthfully

\* A connection is closed only by close() in the process that made it, and no
\* block uses one that another process made.
THEOREM ForkedConnections == Spec => InheritedUntouched
  <1>. DEFINE A ==
         /\ \A c \in open \ open' : \E a \in Actor : pc[a] = "closing" /\ Home(a) = MadeBy(c)
         /\ \A a \in Actor : Len(frame'[a]) > Len(frame[a]) => MadeBy(Last(frame'[a])) = Home(a)
  <1>1. ASSUME IInv, NEW a \in Actor, Step(a) PROVE A
    <2>1. \A c \in open \ open' : pc[a] = "closing" /\ Home(a) = MadeBy(c)
      BY <1>1, OpenMoves DEF CloseAll
    <2>2. ASSUME NEW b \in Actor, Len(frame'[b]) > Len(frame[b])
          PROVE  MadeBy(Last(frame'[b])) = Home(b)
      <3>0. TypeOK /\ TypeOK'
        BY <1>1, TypeMoves DEF IInv
      <3>1. Len(frame[b]) \in Nat /\ Len(frame'[b]) \in Nat
        BY SMTT(30), <3>0 DEF TypeOK
      <3>2. b = a
        BY <1>1, <2>2, <3>1, Others
      <3>3. OwnInv(a)'
        BY <1>1, OwnStep
      <3>4. frame'[a][Len(frame'[a])][1] = a
        BY <2>2, <3>1, <3>2, <3>3 DEF OwnInv
      <3>. QED
        BY <3>2, <3>4 DEF Last, MadeBy
    <2>. QED
      BY <2>1, <2>2
  <1>2. ASSUME IInv, NEW t \in Thread, Fork(t) PROVE A
    <2>1. open' = open /\ frame' = frame
      BY <1>2, Forked
    <2>2. \A a \in Actor : Len(frame[a]) \in Nat
      BY <1>2 DEF IInv, TypeOK
    <2>. QED
      BY <2>1, <2>2
  <1>3. IInv /\ [Next]_vars => [A]_vars
    BY <1>1, <1>2 DEF Next
  <1>. QED
    BY <1>3, Invariance, PTL DEF Spec, InheritedUntouched

-----------------------------------------------------------------------------
LEMMA ClosingMoves ==
    ASSUME IInv, NEW a \in Actor, Step(a)
    PROVE  \/ Close(a) /\ (closed[Parent] \/ closed[Child])' /\ UNCHANGED <<table, txn, work>>
           \/ closed' = closed /\ ~Close(a)
  <1>1. CASE Close(a)
    BY <1>1, HomeFacts DEF Close, Data, IInv, TypeOK, Pid
  <1>2. CASE ~Close(a)
    BY <1>2 DEF Step, Enter, Refused, Leave, CloseAll, Execute, Reuse, Connect, UseConnection,
       Acquire, Begin, BeginFails, BeginInterrupted, LeaveUnstarted, ExitInner, Commit,
       CommitFails, Abort, ExitOutermost, Manager
  <1>. QED
    BY <1>1, <1>2

LEMMA SerialStep ==
    ASSUME IInv, NEW a \in Actor, Step(a)
    PROVE  [Serial!SerialNext]_(Serial!svars)
  <1>. USE DEF Serial!SerialNext, Serial!svars
  <1>1. CASE Close(a)
    BY <1>1, ClosingMoves DEF Serial!StartClosing
  <1>. SUFFICES ASSUME ~Close(a) PROVE [Serial!SerialNext]_(Serial!svars)
    BY <1>1
  <1>2. UNCHANGED (closed[Parent] \/ closed[Child])
    BY ClosingMoves
  <1>3. CASE UNCHANGED <<table, txn, work>>
    BY <1>2, <1>3
  <1>4. ASSUME NEW i \in Item, Execute(a, i) PROVE Serial!Do(i) \/ Serial!Slip(i)
    <2>1. Last(frame[a]) # None /\ txn' = txn
      BY <1>4, TopFrame, HomeFacts DEF Execute
    <2>2. closed[Home(a)] => closed[Parent] \/ closed[Child]
      BY DEF Home
    <2>. QED
      BY <1>2, <1>4, <2>1, <2>2, ExecuteInside DEF Serial!Do, Serial!Slip
  <1>5. ASSUME Begin(a) \/ BeginInterrupted(a) PROVE \E c \in Conn : Serial!Start(c)
    <2>1. Last(frame[a]) \in Conn /\ txn = None /\ txn' = Last(frame[a]) /\ UNCHANGED <<table, work>>
      BY <1>5, TopFrame, TxnMoves DEF Begin, BeginInterrupted, CanBegin, LeaveUnstarted
    <2>. QED
      BY <1>2, <2>1 DEF Serial!Start
  <1>6. CASE Commit(a)
    BY <1>2, <1>6, CommitOwn, TopFrame, HomeFacts DEF Commit, ExitOutermost, Serial!Keep
  <1>7. CASE CommitFails(a) \/ Abort(a)
    <2>1. RollBack(Last(frame[a])) /\ Last(frame[a]) # None
      BY <1>7, TopFrame, HomeFacts DEF CommitFails, Abort, ExitOutermost
    <2>. QED
      BY <1>2, <2>1 DEF RollBack, Serial!Abandon
  <1>8. CASE CloseAll(a)
    <2>1. \A p \in Pid : None \notin Registered(p)
      BY HomeFacts DEF Registered, IInv, TypeOK
    <2>2. UNCHANGED table /\ \/ UNCHANGED <<txn, work>>
                             \/ txn # None /\ txn' = None /\ work' = {}
      BY <1>8, <2>1, HomeFacts DEF CloseAll
    <2>. QED
      BY <1>2, <2>2 DEF Serial!Abandon
  <1>. QED
    BY <1>3, <1>4, <1>5, <1>6, <1>7, <1>8, TxnMoves

\* write() over threads, nesting, failures and forks implements SerialTxn: one
\* transaction at a time, all or nothing, nothing outside one before a close.
THEOREM WriteIsSerial == Spec => RefinesSerial
  <1>1. Init => Serial!SerialInit
    BY HomeFacts DEF Init, Serial!SerialInit, Pid
  <1>2. ASSUME IInv, [Next]_vars PROVE [Serial!SerialNext]_(Serial!svars)
    <2>1. CASE \E a \in Actor : Step(a)
      BY <1>2, <2>1, SerialStep
    <2>2. ASSUME NEW t \in Thread, Fork(t) PROVE [Serial!SerialNext]_(Serial!svars)
      <3>1. closed' = [closed EXCEPT ![Child] = closed[Parent]] /\ ~closed[Child]
        BY <1>2, <2>2, Forked DEF Fork
      <3>2. UNCHANGED (closed[Parent] \/ closed[Child])
        BY <1>2, <3>1, PidAssumption DEF IInv, TypeOK, Pid
      <3>. QED
        BY <1>2, <2>2, <3>2, Forked DEF Serial!svars
    <2>3. CASE UNCHANGED vars
      BY <2>3 DEF vars, Serial!svars
    <2>. QED
      BY <1>2, <2>1, <2>2, <2>3 DEF Next
  <1>. QED
    BY <1>1, <1>2, Invariance, PTL DEF Spec, RefinesSerial, Serial!SerialSpec
=============================================================================
