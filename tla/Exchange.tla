------------------------------ MODULE Exchange ------------------------------
(***************************************************************************)
(* What include/pbx.h promises of the telephone exchange of hw5: telephone *)
(* units are plugged in and get an extension, and pickup, hangup and dial  *)
(* move a unit AND the unit it is in a call with in one indivisible step   *)
(* ("simultaneously transitions", pbx.h:134).  There are no threads, locks, *)
(* sockets or slots here; a unit's partner is a unit, never a number.      *)
(***************************************************************************)
EXTENDS Naturals

CONSTANTS Units,      \* telephone units, one per network client
          Ext,        \* extension numbers
          NoExt,      \* "has no extension": not plugged in
          NoUnit      \* "has no partner": not in a call

States == {"ON HOOK", "RINGING", "DIAL TONE", "RING BACK", "BUSY SIGNAL",
           "CONNECTED", "ERROR"}

\* The states in which a unit is one half of a call.
Paired == {"RINGING", "RING BACK", "CONNECTED"}

VARIABLES line,       \* the extension a unit is plugged into
          phone,      \* the unit's state
          partner     \* the other end of its call

xvars == <<line, phone, partner>>

Plugged(u) == line[u] # NoExt

ExchangeTypeOK ==
  /\ line \in [Units -> Ext \cup {NoExt}]
  /\ phone \in [Units -> States]
  /\ partner \in [Units -> Units \cup {NoUnit}]

ExchangeInit ==
  /\ line = [u \in Units |-> NoExt]
  /\ phone = [u \in Units |-> "ON HOOK"]
  /\ partner = [u \in Units |-> NoUnit]

-----------------------------------------------------------------------------
(* A unit u alone, or u together with v, moves to new states; the pair of  *)
(* a call is joined or parted with the same step.                          *)
Alone(u, s) ==
  /\ phone' = [phone EXCEPT ![u] = s]
  /\ UNCHANGED <<line, partner>>

Join(u, v, su, sv) ==
  /\ phone' = [phone EXCEPT ![u] = su, ![v] = sv]
  /\ partner' = [partner EXCEPT ![u] = v, ![v] = u]
  /\ UNCHANGED line

Part(u, v, su, sv) ==
  /\ phone' = [phone EXCEPT ![u] = su, ![v] = sv]
  /\ partner' = [partner EXCEPT ![u] = NoUnit, ![v] = NoUnit]
  /\ UNCHANGED line

Plug(u, e) ==
  /\ ~Plugged(u)
  /\ \A v \in Units : line[v] # e
  /\ line' = [line EXCEPT ![u] = e]
  /\ phone' = [phone EXCEPT ![u] = "ON HOOK"]
  /\ UNCHANGED partner

Unplug(u) ==
  /\ Plugged(u)
  /\ phone[u] \notin Paired
  /\ line' = [line EXCEPT ![u] = NoExt]
  /\ phone' = [phone EXCEPT ![u] = "ON HOOK"]
  /\ UNCHANGED partner

PickUp(u) ==
  /\ Plugged(u)
  /\ \/ phone[u] = "ON HOOK" /\ Alone(u, "DIAL TONE")
     \/ phone[u] = "RINGING" /\ Join(u, partner[u], "CONNECTED", "CONNECTED")

HangUp(u) ==
  /\ Plugged(u)
  /\ \/ phone[u] \notin Paired /\ Alone(u, "ON HOOK")
     \/ phone[u] \in {"CONNECTED", "RINGING"}
        /\ Part(u, partner[u], "ON HOOK", "DIAL TONE")
     \/ phone[u] = "RING BACK" /\ Part(u, partner[u], "ON HOOK", "ON HOOK")

Dial(u, e) ==
  /\ Plugged(u)
  /\ phone[u] = "DIAL TONE"
  /\ \/ (\A v \in Units : line[v] # e) /\ Alone(u, "ERROR")
     \/ \E v \in Units :
          /\ line[v] = e
          /\ \/ phone[v] = "ON HOOK" /\ Join(u, v, "RING BACK", "RINGING")
             \/ phone[v] # "ON HOOK" /\ Alone(u, "BUSY SIGNAL")

ExchangeNext ==
  \E u \in Units : \/ Unplug(u) \/ PickUp(u) \/ HangUp(u)
                   \/ \E e \in Ext : Plug(u, e) \/ Dial(u, e)

ExchangeSpec == ExchangeInit /\ [][ExchangeNext]_xvars
=============================================================================
