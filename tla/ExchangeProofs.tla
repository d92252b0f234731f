--------------------------- MODULE ExchangeProofs ---------------------------
(***************************************************************************)
(* Invariance proofs for Exchange, for any units and any numbers.  They are *)
(* used for the testers, who talk to an exchange, and for PBX, which is one. *)
(***************************************************************************)
EXTENDS Exchange, TLAPS

Opposite(s) ==
  IF s = "RINGING" THEN "RING BACK"
  ELSE IF s = "RING BACK" THEN "RINGING" ELSE "CONNECTED"

\* A call has two ends, which are in opposite states, and no unit is on both; an unplugged
\* unit rests.
CoupledAt(u) ==
  /\ phone[u] \in Paired => /\ partner[u] \in Units \ {u}
                            /\ partner[partner[u]] = u
                            /\ phone[partner[u]] = Opposite(phone[u])
  /\ line[u] = NoExt => phone[u] = "ON HOOK"
Coupled == \A u \in Units : CoupledAt(u)

-----------------------------------------------------------------------------
\* The other end of a call is plugged in, too.
LEMMA OtherEnd ==
  ASSUME ExchangeTypeOK, Coupled, NEW u \in Units, phone[u] \in Paired
  PROVE  /\ partner[u] \in Units \ {u} /\ partner[partner[u]] = u
         /\ phone[partner[u]] = Opposite(phone[u]) /\ phone[partner[u]] \in Paired
         /\ Plugged(u) /\ Plugged(partner[u])
<1>1. /\ partner[u] \in Units \ {u} /\ partner[partner[u]] = u
      /\ phone[partner[u]] = Opposite(phone[u])
  BY DEF Coupled, CoupledAt
<1>2. phone[partner[u]] \in Paired
  BY <1>1 DEF Opposite, Paired
<1> QED
  BY <1>1, <1>2 DEF Coupled, CoupledAt, Plugged, Paired

\* A step that leaves both ends of a call alone leaves the call.
LEMMA CallKept ==
  ASSUME Coupled, NEW w \in Units, phone'[w] = phone[w],
         phone[w] \in Paired => /\ phone'[partner[w]] = phone[partner[w]]
                                /\ partner'[w] = partner[w]
                                /\ partner'[partner[w]] = partner[partner[w]],
         line'[w] = NoExt => line[w] = NoExt \/ phone'[w] = "ON HOOK"
  PROVE  CoupledAt(w)'
<1>1. CoupledAt(w)
  BY DEF Coupled, CoupledAt
<1>2. ASSUME phone'[w] \in Paired
      PROVE  /\ partner'[w] \in Units \ {w} /\ partner'[partner'[w]] = w
             /\ phone'[partner'[w]] = Opposite(phone'[w])
  BY <1>1, <1>2 DEF CoupledAt
<1> QED
  BY <1>1, <1>2 DEF CoupledAt

\* A unit that is in no call moves on its own.
LEMMA AloneKeeps ==
  ASSUME ExchangeTypeOK, Coupled, NEW u \in Units, Plugged(u), phone[u] \notin Paired,
         NEW s \in States \ Paired, Alone(u, s)
  PROVE  ExchangeTypeOK' /\ Coupled'
<1>1. ExchangeTypeOK'
  BY DEF Alone, ExchangeTypeOK
<1>2. ASSUME NEW w \in Units PROVE CoupledAt(w)'
  <2>1. CASE w = u
    BY <2>1 DEF Alone, ExchangeTypeOK, CoupledAt, Plugged
  <2>2. CASE w # u
    <3>1. phone'[w] = phone[w] /\ partner' = partner /\ line' = line
      BY <2>2 DEF Alone, ExchangeTypeOK
    <3>2. phone[w] \in Paired => phone'[partner[w]] = phone[partner[w]]
      BY OtherEnd DEF Alone, ExchangeTypeOK
    <3> QED
      BY <3>1, <3>2, CallKept
  <2> QED
    BY <2>1, <2>2
<1> QED
  BY <1>1, <1>2 DEF Coupled, CoupledAt

\* Two units that are in no call, or in one with each other, become the ends of a call.
LEMMA JoinKeeps ==
  ASSUME ExchangeTypeOK, Coupled, NEW u \in Units, NEW v \in Units, u # v,
         Plugged(u), Plugged(v),
         \/ phone[u] \notin Paired /\ phone[v] \notin Paired
         \/ phone[u] \in Paired /\ partner[u] = v,
         NEW su \in Paired, Join(u, v, su, Opposite(su))
  PROVE  ExchangeTypeOK' /\ Coupled'
<1> DEFINE sv == Opposite(su)
<1>1. sv \in Paired /\ Opposite(sv) = su /\ Paired \subseteq States
  BY DEF Opposite, Paired, States
<1> HIDE DEF sv
<1>2. /\ phone' = [phone EXCEPT ![u] = su, ![v] = sv]
      /\ partner' = [partner EXCEPT ![u] = v, ![v] = u]
      /\ line' = line
  BY DEF Join, sv
<1>3. ExchangeTypeOK'
  BY <1>1, <1>2 DEF ExchangeTypeOK
<1>4. /\ phone'[u] = su /\ phone'[v] = sv /\ partner'[u] = v /\ partner'[v] = u
      /\ \A w \in Units \ {u, v} : phone'[w] = phone[w] /\ partner'[w] = partner[w]
  BY <1>2 DEF ExchangeTypeOK
<1>5. \A w \in Units \ {u, v} : phone[w] \in Paired => partner[w] \notin {u, v}
  BY OtherEnd
<1>6. Coupled'
  <2> SUFFICES ASSUME NEW w \in Units PROVE CoupledAt(w)'
    BY DEF Coupled, CoupledAt
  <2>1. CASE w \in {u, v}
    BY <2>1, <1>1, <1>2, <1>4 DEF Plugged, sv, CoupledAt
  <2>2. CASE w \notin {u, v}
    BY <2>2, <1>2, <1>4, <1>5, OtherEnd, CallKept
  <2> QED
    BY <2>1, <2>2
<1> QED
  BY <1>3, <1>6

\* A call ends at both ends.
LEMMA PartKeeps ==
  ASSUME ExchangeTypeOK, Coupled, NoUnit \notin Units,
         NEW u \in Units, phone[u] \in Paired,
         NEW su \in States \ Paired, NEW sv \in States \ Paired,
         Part(u, partner[u], su, sv)
  PROVE  ExchangeTypeOK' /\ Coupled'
<1> DEFINE v == partner[u]
<1>1. v \in Units /\ u # v /\ partner[v] = u /\ Plugged(u) /\ Plugged(v)
  BY OtherEnd
<1>2. /\ phone' = [phone EXCEPT ![u] = su, ![v] = sv]
      /\ partner' = [partner EXCEPT ![u] = NoUnit, ![v] = NoUnit]
      /\ line' = line
  BY DEF Part
<1>3. \A w \in Units \ {u, v} : phone[w] \in Paired => partner[w] \notin {u, v}
  BY OtherEnd
<1> HIDE DEF v
<1>4. ExchangeTypeOK'
  BY <1>1, <1>2 DEF ExchangeTypeOK
<1>5. /\ phone'[u] = su /\ phone'[v] = sv
      /\ \A w \in Units \ {u, v} : phone'[w] = phone[w] /\ partner'[w] = partner[w]
  BY <1>1, <1>2 DEF ExchangeTypeOK
<1>6. Coupled'
  <2> SUFFICES ASSUME NEW w \in Units PROVE CoupledAt(w)'
    BY DEF Coupled, CoupledAt
  <2>1. CASE w \in {u, v}
    <3>1. phone'[w] \notin Paired /\ line'[w] # NoExt
      BY <1>1, <1>2, <1>5, <2>1 DEF Plugged
    <3> QED
      BY <3>1 DEF CoupledAt
  <2>2. CASE w \notin {u, v}
    BY <2>2, <1>2, <1>3, <1>5, OtherEnd, CallKept
  <2> QED
    BY <2>1, <2>2
<1> QED
  BY <1>4, <1>6

\* Every operation keeps the ends of every call in agreement.
LEMMA CoupledStep ==
  ASSUME ExchangeTypeOK, Coupled, NoExt \notin Ext, NoUnit \notin Units, ExchangeNext
  PROVE  ExchangeTypeOK' /\ Coupled'
<1>1. ASSUME NEW u \in Units, Unplug(u) PROVE ExchangeTypeOK' /\ Coupled'
  <2>1. ExchangeTypeOK'
    BY <1>1 DEF Unplug, ExchangeTypeOK, States
  <2>2. ASSUME NEW w \in Units PROVE CoupledAt(w)'
    <3>1. CASE w = u
      BY <1>1, <3>1 DEF Unplug, ExchangeTypeOK, CoupledAt, Paired
    <3>2. CASE w # u
      <4>1. phone'[w] = phone[w] /\ partner' = partner /\ line'[w] = line[w]
        BY <1>1, <3>2 DEF Unplug, ExchangeTypeOK
      <4>2. phone[w] \in Paired => phone'[partner[w]] = phone[partner[w]]
        BY <1>1, OtherEnd DEF Unplug, ExchangeTypeOK
      <4> QED
        BY <4>1, <4>2, CallKept
    <3> QED
      BY <3>1, <3>2
  <2> QED
    BY <2>1, <2>2 DEF Coupled, CoupledAt
<1>2. ASSUME NEW u \in Units, NEW e \in Ext, Plug(u, e) PROVE ExchangeTypeOK' /\ Coupled'
  <2>1. phone[u] = "ON HOOK"
    BY <1>2 DEF Plug, Plugged, Coupled, CoupledAt
  <2>2. phone' = phone
    BY <1>2, <2>1 DEF Plug, ExchangeTypeOK
  <2>3. line' \in [Units -> Ext \cup {NoExt}] /\ \A w \in Units : line'[w] = NoExt => line[w] = NoExt
    BY <1>2 DEF Plug, ExchangeTypeOK, Plugged
  <2>4. partner' = partner /\ \A w \in Units : phone'[w] = phone[w]
    BY <1>2, <2>2 DEF Plug
  <2>5. ASSUME NEW w \in Units PROVE CoupledAt(w)'
    <3>1. CoupledAt(w)
      BY <1>2 DEF Coupled
    <3>2. phone[w] \in Paired => partner[w] \in Units
      BY <3>1 DEF CoupledAt
    <3> QED
      BY <2>2, <2>3, <2>4, <3>1, <3>2 DEF CoupledAt
  <2> QED
    BY <1>2, <2>2, <2>3, <2>4, <2>5 DEF ExchangeTypeOK, Coupled
<1>3. ASSUME NEW u \in Units, PickUp(u) PROVE ExchangeTypeOK' /\ Coupled'
  <2>1. CASE phone[u] = "ON HOOK" /\ Alone(u, "DIAL TONE")
    BY <1>3, <2>1, AloneKeeps DEF PickUp, States, Paired
  <2>2. CASE phone[u] = "RINGING" /\ Join(u, partner[u], "CONNECTED", "CONNECTED")
    <3>1. "CONNECTED" \in Paired /\ Opposite("CONNECTED") = "CONNECTED" /\ phone[u] \in Paired
      BY <2>2 DEF Paired, Opposite
    <3> QED
      BY <2>2, <3>1, OtherEnd, JoinKeeps
  <2> QED
    BY <1>3, <2>1, <2>2 DEF PickUp
<1>4. ASSUME NEW u \in Units, HangUp(u) PROVE ExchangeTypeOK' /\ Coupled'
  <2>1. {"ON HOOK", "DIAL TONE"} \subseteq States \ Paired
    BY DEF States, Paired
  <2>2. CASE phone[u] \notin Paired /\ Alone(u, "ON HOOK")
    BY <1>4, <2>1, <2>2, AloneKeeps DEF HangUp
  <2>3. CASE phone[u] \in Paired /\ \/ Part(u, partner[u], "ON HOOK", "DIAL TONE")
                                    \/ Part(u, partner[u], "ON HOOK", "ON HOOK")
    BY <2>1, <2>3, PartKeeps
  <2> QED
    BY <1>4, <2>2, <2>3 DEF HangUp, Paired
<1>5. ASSUME NEW u \in Units, NEW e \in Ext, Dial(u, e) PROVE ExchangeTypeOK' /\ Coupled'
  <2>1. Plugged(u) /\ phone[u] = "DIAL TONE" /\ phone[u] \notin Paired
    BY <1>5 DEF Dial, Paired
  <2>2. CASE Alone(u, "ERROR") \/ Alone(u, "BUSY SIGNAL")
    BY <2>1, <2>2, AloneKeeps DEF States, Paired
  <2>3. ASSUME NEW v \in Units, line[v] = e, phone[v] = "ON HOOK",
               Join(u, v, "RING BACK", "RINGING")
        PROVE  ExchangeTypeOK' /\ Coupled'
    <3>1. "RING BACK" \in Paired /\ Opposite("RING BACK") = "RINGING" /\ phone[v] \notin Paired
      BY <2>3 DEF Paired, Opposite
    <3>2. u # v /\ Plugged(v)
      BY <2>1, <2>3 DEF Plugged
    <3> QED
      BY <2>1, <2>3, <3>1, <3>2, JoinKeeps
  <2> QED
    BY <1>5, <2>2, <2>3 DEF Dial
<1> QED
  BY <1>1, <1>2, <1>3, <1>4, <1>5 DEF ExchangeNext

\* The ends of every call agree, whatever the units and the numbers.
THEOREM CallsCoupled ==
  ASSUME NoExt \notin Ext, NoUnit \notin Units
  PROVE  ExchangeSpec => [](ExchangeTypeOK /\ Coupled)
<1>1. ExchangeInit => ExchangeTypeOK /\ Coupled
  BY DEF ExchangeInit, ExchangeTypeOK, Coupled, CoupledAt, Paired, States
<1>2. ExchangeTypeOK /\ Coupled /\ [ExchangeNext]_xvars => (ExchangeTypeOK /\ Coupled)'
  <2>1. CASE ExchangeNext
    BY <2>1, CoupledStep
  <2>2. CASE UNCHANGED xvars
    BY <2>2 DEF xvars, ExchangeTypeOK, Coupled, CoupledAt
  <2> QED
    BY <2>1, <2>2
<1> QED
  BY <1>1, <1>2, PTL DEF ExchangeSpec

=============================================================================
