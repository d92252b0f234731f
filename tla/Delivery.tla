------------------------------ MODULE Delivery ------------------------------
(***************************************************************************)
(* What compress and decompress promise together (src/hw1/src/comdec.c):   *)
(* bytes are sent until the input ends, and then delivered in order, a     *)
(* block at a time: "each compressed block except for the last one         *)
(* represents exactly bsize bytes" (156-157).  The delivery is complete    *)
(* only when all have arrived.                                             *)
(***************************************************************************)
EXTENDS Naturals, Sequences

CONSTANTS Letters, BlockSize
VARIABLES sent, out, status

Init == sent = <<>> /\ out = <<>> /\ status = "open"

Send(b) == status = "open" /\ sent' = Append(sent, b) /\ UNCHANGED <<out, status>>

Close == status = "open" /\ status' = "closed" /\ UNCHANGED <<sent, out>>

Deliver ==
  /\ status = "closed"
  /\ \E n \in Len(out) + 1 .. Len(sent) :
       /\ n = Len(out) + BlockSize \/ (n = Len(sent) /\ n < Len(out) + BlockSize)
       /\ out' = SubSeq(sent, 1, n)
  /\ UNCHANGED <<sent, status>>

Complete == status = "closed" /\ out = sent /\ status' = "complete" /\ UNCHANGED <<sent, out>>

Next == (\E b \in Letters : Send(b)) \/ Close \/ Deliver \/ Complete
Spec == Init /\ [][Next]_<<sent, out, status>>
=============================================================================
