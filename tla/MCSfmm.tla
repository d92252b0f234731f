------------------------------- MODULE MCSfmm -------------------------------
(* TLC instances of Sfmm: the .cfg files give the constants their values.    *)
EXTENDS Sfmm

\* Where there is a quota, it is for careful clients, and they ask for careful sizes.
ASSUME InstanceAssumption == Quota > 0 => CarefulSizes
=============================================================================
