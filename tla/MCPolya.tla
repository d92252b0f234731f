------------------------------ MODULE MCPolya -------------------------------
(* TLC instances of Polya: the .cfg files give the constants their values.   *)
EXTENDS Polya, Miner

\* The nonces that the second worker tries hold no solution of the second problem.
SecondInVain == {<<2, 1>>}
=============================================================================
