---------------------------- MODULE MCConnection ----------------------------
(***************************************************************************)
(* Two threads and a forked child for TLC. In one instance the thread that *)
(* signals can interrupt makes two calls, which may nest; in the other     *)
(* everybody makes one.                                                    *)
(***************************************************************************)
EXTENDS Connection, TLC

MCCalls == [a \in Actor |-> IF a = Main THEN 2 ELSE 1]
MCOneCall == [a \in Actor |-> 1]
=============================================================================
