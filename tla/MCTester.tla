------------------------------ MODULE MCTester ------------------------------
(* TLC instances of Tester: the .cfg file gives the constants their values. *)
EXTENDS Tester
=============================================================================
