--------------------------- MODULE MCTransmission ---------------------------
(* TLC instances of Transmission: the .cfg files give the constants their values. *)
EXTENDS Transmission, Options
=============================================================================
