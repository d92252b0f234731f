----------------------------- MODULE MCSequitur -----------------------------
(* TLC instances of Sequitur: the .cfg files give the constants their values. *)
EXTENDS Sequitur
=============================================================================
