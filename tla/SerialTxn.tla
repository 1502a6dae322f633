----------------------------- MODULE SerialTxn -----------------------------
(***************************************************************************)
(* What a write() block of ancestree promises, with no threads, locks or   *)
(* nesting: transactions come one at a time, each keeps all of its         *)
(* statements or none, and no statement takes effect outside one. The      *)
(* promise ends where a close() of the manager meets a block in progress:  *)
(* then a statement may slip through on its own. Connection.tla is shown   *)
(* to implement this module.                                               *)
(***************************************************************************)
CONSTANTS Item, Conn, None

VARIABLES
    table,   \* the statements that took effect for good
    txn,     \* the connection that is in a write transaction, or None
    work,    \* what the open transaction has done so far
    closing  \* whether some manager has been told to close

svars == <<table, txn, work, closing>>

SerialInit == table = {} /\ txn = None /\ work = {} /\ closing = FALSE

Start(c) ==
    /\ txn = None /\ txn' = c
    /\ UNCHANGED <<table, work, closing>>

Do(i) ==
    /\ txn # None
    /\ work' = work \union {i}
    /\ UNCHANGED <<table, txn, closing>>

Keep ==
    /\ txn # None
    /\ table' = table \union work
    /\ txn' = None /\ work' = {}
    /\ UNCHANGED closing

\* A transaction may be abandoned by its writer, or by closing its manager.
Abandon ==
    /\ txn # None
    /\ txn' = None /\ work' = {}
    /\ UNCHANGED <<table, closing>>

StartClosing == closing' = TRUE /\ UNCHANGED <<table, txn, work>>

Slip(i) ==
    /\ closing
    /\ table' = table \union {i}
    /\ UNCHANGED <<txn, work, closing>>

SerialNext ==
    \/ \E c \in Conn : Start(c)
    \/ \E i \in Item : Do(i) \/ Slip(i)
    \/ Keep \/ Abandon \/ StartClosing

SerialSpec == SerialInit /\ [][SerialNext]_svars
=============================================================================
