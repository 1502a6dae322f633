------------------------------- MODULE MCCdc -------------------------------
(***************************************************************************)
(* Two bytes and 4-bit fingerprints for TLC, with masks of two bits and of *)
(* one.                                                                    *)
(***************************************************************************)
EXTENDS Cdc, TLC

MCGear == 0 :> 13 @@ 1 :> 6
=============================================================================
