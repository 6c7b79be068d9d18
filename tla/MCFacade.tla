------------------------------ MODULE MCFacade ------------------------------
(***************************************************************************)
(* Facade for TLC: two loggers write to one client they were given, a      *)
(* third has a client and a level of its own.                              *)
(***************************************************************************)
EXTENDS Facade, TLC

CONSTANTS i1, i2, i3, w, s

MCLevel == (i1 :> 3) @@ (i2 :> 4) @@ (i3 :> 2)
=============================================================================
