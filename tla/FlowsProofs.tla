---------------------------- MODULE FlowsProofs -----------------------------
(***************************************************************************)
(* Proofs about Flows for every set of flows, every capacity of the event  *)
(* channel and any number of sessions.                                     *)
(***************************************************************************)
EXTENDS Flows, FiniteSetTheorems, WellFoundedInduction, TLAPS

Places == {"unused", "opening", "connecting", "refusing", "pumping", "closing", "done"}

PlacesOK == pc \in [FlowIds -> Places]

EventSet == {Ev("connected", NoFlow), Ev("disconnected", NoFlow)} \cup
            {Ev("opened", f) : f \in FlowIds} \cup {Ev("closed", f) : f \in FlowIds}

EventsOK == events \in Seq(EventSet)

ClosedWaits(f, i) == \E j \in 1..Len(events) : j > i /\ events[j] = Ev("closed", f)

\* The end of a flow that has ended follows everything the channel or the
\* screen still shows of it.
EndFollows ==
  /\ \A f \in table : pc[f] = "done" => ClosedWaits(f, 0)
  /\ \A i \in 1..Len(events), f \in FlowIds :
       events[i] = Ev("opened", f) /\ pc[f] = "done" => ClosedWaits(f, i)

RInv == PlacesOK /\ EventsOK /\ table \subseteq FlowIds /\ EndFollows

LEMMA EvIs ==
  \A t, u, i, j : /\ Ev(t, i).type = t /\ Ev(t, i).id = i
                  /\ Ev(t, i) = Ev(u, j) => t = u /\ i = j
  BY DEF Ev

\* A flow that is nowhere near its end moves on.
Moves(f) ==
  /\ f \in FlowIds
  /\ \E p \in Places \ {"done"} : pc' = [pc EXCEPT ![f] = p]
  /\ UNCHANGED <<events, table>>

\* Something is said in the channel; a flow is done only with its end, and
\* is not done when it begins.
Says(e) ==
  /\ e \in EventSet
  /\ events' = Append(events, e)
  /\ \/ pc' = pc
     \/ \E f \in FlowIds, p \in Places :
          pc' = [pc EXCEPT ![f] = p] /\ (p = "done" => e = Ev("closed", f))
  /\ \A f \in FlowIds : e = Ev("opened", f) => pc'[f] # "done"
  /\ UNCHANGED table

LEMMA StepCases ==
  ASSUME PlacesOK, [Next]_vars
  PROVE  \/ UNCHANGED <<pc, events, table>>
         \/ \E f \in FlowIds : Moves(f)
         \/ \E e : Says(e)
         \/ Show
<1> USE DEF fvars, Places
<1>0. Tcp \subseteq FlowIds /\ Udp \subseteq FlowIds /\ Dns \subseteq FlowIds
  BY DEF FlowIds
<1>1. ASSUME NEW f \in FlowIds, Ends(f) PROVE Moves(f)
  BY <1>1 DEF Ends, Moves
<1>2. CASE SessionStep
  <2>1. CASE GuestConnected
    <3>1. Says(Ev("connected", NoFlow))
      BY <2>1, EvIs DEF GuestConnected, Emit, Says, EventSet
    <3>. QED
      BY <3>1
  <2>2. CASE SessionEnds
    BY <2>2 DEF SessionEnds
  <2>3. CASE GuestDisconnected
    <3>1. Says(Ev("disconnected", NoFlow))
      BY <2>3, EvIs DEF GuestDisconnected, Emit, Says, EventSet
    <3>. QED
      BY <3>1
  <2>. QED
    BY <1>2, <2>1, <2>2, <2>3 DEF SessionStep
<1>3. CASE Refresh
  BY <1>3 DEF Refresh
<1>4. ASSUME NEW f \in FlowIds, Dispatch(f) PROVE Moves(f)
  BY <1>4 DEF Dispatch, Moves
<1>5. ASSUME NEW f \in FlowIds, Opened(f) PROVE Says(Ev("opened", f))
  <2>1. Ev("opened", f) \in EventSet
    BY DEF EventSet
  <2>2. \E p \in Places : p # "done" /\ pc' = [pc EXCEPT ![f] = p]
    BY <1>5 DEF Opened
  <2>3. pc'[f] # "done" /\ \A g \in FlowIds : Ev("opened", f) = Ev("opened", g) => f = g
    BY <2>2, EvIs DEF PlacesOK
  <2>. QED
    BY <1>5, <2>1, <2>2, <2>3 DEF Opened, Emit, Says
<1>6. ASSUME NEW f \in FlowIds, Closed(f) PROVE Says(Ev("closed", f))
  <2>1. Ev("closed", f) \in EventSet
    BY DEF EventSet
  <2>2. \A g \in FlowIds : Ev("closed", f) # Ev("opened", g)
    BY EvIs
  <2>. QED
    BY <1>6, <2>1, <2>2 DEF Closed, Emit, Says
<1>7. ASSUME NEW f \in FlowIds, Cancel(f) \/ DatagramsEnd(f) PROVE Moves(f)
  BY <1>1, <1>7 DEF Cancel, DatagramsEnd
<1>8. ASSUME NEW f \in Tcp, Connect(f) \/ RefusalAcked(f) PROVE Moves(f)
  <2>1. CASE Connect(f)
    BY <1>0, <2>1 DEF Connect, Moves
  <2>2. CASE RefusalAcked(f)
    BY <1>0, <1>1, <2>2 DEF RefusalAcked
  <2>. QED
    BY <1>8, <2>1, <2>2
<1>9. ASSUME NEW f \in Tcp, NEW d \in Directions, PumpStep(f, d) \/ Produces(f, d) \/ Breaks(f, d)
      PROVE  UNCHANGED <<pc, events, table>> \/ Moves(f)
  <2>1. \A h : SetHalf(f, d, h) => UNCHANGED <<pc, events, table>>
    BY DEF SetHalf
  <2>2. CASE Produces(f, d)
    BY <2>1, <2>2 DEF Produces
  <2>3. CASE Breaks(f, d)
    BY <2>3 DEF Breaks
  <2>4. CASE PumpStep(f, d)
    BY <1>0, <1>1, <2>1, <2>4 DEF PumpStep, ReadChunk, WriteChunk, ReadEnd, HalfFails, Shutdown
  <2>. QED
    BY <1>9, <2>2, <2>3, <2>4
<1>10. ASSUME NEW f \in Dns, Ask(f) \/ NextUpstream(f) \/ QueryEnds(f)
       PROVE  UNCHANGED <<pc, events, table>>
  BY <1>10 DEF Ask, NextUpstream, QueryEnds, SetQuery
<1>11. CASE UNCHANGED vars
  BY <1>11 DEF vars
<1>. QED
  BY <1>0, <1>2, <1>3, <1>4, <1>5, <1>6, <1>7, <1>8, <1>9, <1>10, <1>11 DEF Next, FlowStep

LEMMA MovesKeep == ASSUME RInv, NEW f \in FlowIds, Moves(f) PROVE RInv'
<1>1. PlacesOK' /\ EventsOK' /\ (table \subseteq FlowIds)'
  BY DEF RInv, PlacesOK, EventsOK, Moves
<1>2. \A g \in FlowIds : pc'[g] = "done" => pc[g] = "done"
  BY DEF RInv, PlacesOK, Moves
<1>3. EndFollows'
  BY <1>2 DEF RInv, EndFollows, ClosedWaits, Moves
<1>. QED
  BY <1>1, <1>3 DEF RInv

LEMMA SaysKeep == ASSUME RInv, NEW e, Says(e) PROVE RInv'
<1>1. /\ EventsOK' /\ Len(events) \in Nat /\ Len(events') = Len(events) + 1
      /\ events'[Len(events')] = e
      /\ \A i \in 1..Len(events) : events'[i] = events[i]
  BY DEF RInv, EventsOK, Says
<1>2. PlacesOK' /\ (table \subseteq FlowIds)'
  BY DEF RInv, PlacesOK, Says
<1>3. \A i \in 1..Len(events') : i \in 1..Len(events) \/ i = Len(events')
  BY <1>1
<1>4. \A i \in 1..Len(events) : i \in 1..Len(events') /\ Len(events') > i
  BY <1>1
<1>5. \A f \in FlowIds, i \in Nat : ClosedWaits(f, i) => ClosedWaits(f, i)'
  BY <1>1, <1>4 DEF ClosedWaits
<1>6. \A f \in FlowIds : pc'[f] = "done" => pc[f] = "done" \/ e = Ev("closed", f)
  BY DEF RInv, PlacesOK, Says
<1>7. \A f \in FlowIds : e = Ev("closed", f) => \A i \in 0..Len(events) : ClosedWaits(f, i)'
  BY <1>1 DEF ClosedWaits
<1>8. \A f \in table' : pc'[f] = "done" => ClosedWaits(f, 0)'
  BY <1>1, <1>5, <1>6, <1>7 DEF RInv, EndFollows, Says
<1>9. ASSUME NEW i \in 1..Len(events'), NEW f \in FlowIds,
             events'[i] = Ev("opened", f), pc'[f] = "done"
      PROVE  ClosedWaits(f, i)'
  <2>1. CASE i \in 1..Len(events) /\ pc[f] = "done"
    BY <1>1, <1>5, <1>9, <2>1 DEF RInv, EndFollows
  <2>2. CASE i \in 1..Len(events) /\ e = Ev("closed", f)
    BY <1>7, <2>2
  <2>3. CASE i = Len(events')
    BY <1>1, <1>9, <2>3 DEF Says
  <2>. QED
    BY <1>3, <1>6, <1>9, <2>1, <2>2, <2>3
<1>. QED
  BY <1>1, <1>2, <1>8, <1>9 DEF RInv, EndFollows

LEMMA ShowKeep == ASSUME RInv, Show PROVE RInv'
<1>1. /\ events' = Tail(events) /\ events # << >> /\ Len(events) \in Nat
      /\ Head(events) = events[1] /\ 1 \in 1..Len(events) /\ Len(events') = Len(events) - 1
      /\ \A i \in 1..Len(events') : i + 1 \in 1..Len(events) /\ events'[i] = events[i + 1]
  BY DEF RInv, EventsOK, Show
<1>2. EventsOK' /\ pc' = pc /\ table' = Row(Head(events))
  BY DEF RInv, EventsOK, Show, fvars
<1>3. events[1] \in EventSet
  BY <1>1 DEF RInv, EventsOK
<1>4. ASSUME NEW f \in table'
      PROVE  f \in FlowIds /\ (f \in table \/ events[1] = Ev("opened", f)) /\ events[1] # Ev("closed", f)
  <2>1. ASSUME NEW g \in FlowIds, events[1] = Ev("opened", g)
        PROVE  table' = table \cup {g}
    BY <1>1, <1>2, <2>1, EvIs DEF Row
  <2>2. ASSUME NEW g \in FlowIds, events[1] = Ev("closed", g)
        PROVE  table' = table \ {g}
    BY <1>1, <1>2, <2>2, EvIs DEF Row
  <2>3. events[1] \in {Ev("connected", NoFlow), Ev("disconnected", NoFlow)} => table' = {}
    BY <1>1, <1>2, EvIs DEF Row
  <2>. QED
    BY <1>3, <1>4, <2>1, <2>2, <2>3, EvIs DEF EventSet, RInv
<1>5. ASSUME NEW f \in FlowIds, NEW i \in 0..Len(events'), ClosedWaits(f, i + 1)
      PROVE  ClosedWaits(f, i)'
  <2>1. PICK j \in 1..Len(events) : j > i + 1 /\ events[j] = Ev("closed", f)
    BY <1>5 DEF ClosedWaits
  <2>2. j - 1 \in 1..Len(events') /\ j - 1 > i /\ (j - 1) + 1 = j
    BY <1>1, <2>1
  <2>3. events'[j - 1] = Ev("closed", f)
    BY <1>1, <2>1, <2>2
  <2>. QED
    BY <2>2, <2>3 DEF ClosedWaits
<1>6. ASSUME NEW f \in table', pc'[f] = "done" PROVE ClosedWaits(f, 0)'
  <2>1. ClosedWaits(f, 1)
    <3>1. CASE events[1] = Ev("opened", f)
      BY <1>1, <1>2, <1>4, <1>6, <3>1 DEF RInv, EndFollows
    <3>2. CASE f \in table
      <4>1. PICK j \in 1..Len(events) : j > 0 /\ events[j] = Ev("closed", f)
        BY <1>2, <1>6, <3>2 DEF RInv, EndFollows, ClosedWaits
      <4>2. j # 1
        BY <1>4, <1>6, <4>1
      <4>. QED
        BY <4>1, <4>2 DEF ClosedWaits
    <3>. QED
      BY <1>4, <1>6, <3>1, <3>2
  <2>2. 0 \in 0..Len(events') /\ 0 + 1 = 1
    BY <1>1
  <2>. QED
    BY <1>4, <1>5, <1>6, <2>1, <2>2
<1>7. ASSUME NEW i \in 1..Len(events'), NEW f \in FlowIds,
             events'[i] = Ev("opened", f), pc'[f] = "done"
      PROVE  ClosedWaits(f, i)'
  BY <1>1, <1>2, <1>5, <1>7 DEF RInv, EndFollows
<1>8. PlacesOK' /\ (table \subseteq FlowIds)'
  BY <1>2, <1>4 DEF RInv, PlacesOK
<1>. QED
  BY <1>2, <1>6, <1>7, <1>8 DEF RInv, EndFollows

\* The invariant the next theorem rests on.
THEOREM RInvHolds == Spec => []RInv
<1>1. Init => RInv
  <2> SUFFICES ASSUME Init PROVE RInv
    OBVIOUS
  <2>1. events = << >> /\ Len(events) = 0 /\ table = {} /\ EventsOK /\ PlacesOK
    BY DEF Init, EventsOK, PlacesOK, Places
  <2>. QED
    BY <2>1 DEF RInv, EndFollows
<1>2. RInv /\ UNCHANGED <<pc, events, table>> => RInv'
  BY DEF RInv, PlacesOK, EventsOK, EndFollows, ClosedWaits
<1>3. RInv /\ [Next]_vars => RInv'
  BY <1>2, StepCases, MovesKeep, SaysKeep, ShowKeep DEF RInv
<1>. QED
  BY <1>1, <1>3, PTL DEF Spec

\* No row stays in the table of flows for good: whatever sessions come and go
\* and however full the channel is, a row's flow goes on or its end is on
\* the way.
THEOREM RowsGoAway == Spec => []RowsAreClosed
<1>1. RInv => RowsAreClosed
  <2> SUFFICES ASSUME RInv, NEW f \in table, pc[f] = "done" PROVE Ev("closed", f) \in Range(events)
    BY DEF RowsAreClosed
  <2>1. PICK j \in 1..Len(events) : events[j] = Ev("closed", f)
    BY DEF RInv, EndFollows, ClosedWaits
  <2>2. j \in DOMAIN events
    BY DEF RInv, EventsOK
  <2>. QED
    BY <2>1, <2>2 DEF Range
<1>. QED
  BY RInvHolds, <1>1, PTL

-----------------------------------------------------------------------------
(* The gauge *)

\* The flows that run_flow has counted and not yet uncounted.
Live == {"opening", "connecting", "refusing", "pumping"}
Counted == {f \in FlowIds : pc[f] \in Live}

GaugeIsExact == gauge = Cardinality(Counted)

GInv == PlacesOK /\ GaugeIsExact

\* A flow goes from one place to another, both counted or both not.
Stays(f, p) ==
  /\ f \in FlowIds /\ p \in Places
  /\ pc' = [pc EXCEPT ![f] = p]
  /\ p \in Live <=> pc[f] \in Live
  /\ gauge' = gauge

LEMMA CountedFinite == ASSUME PlacesOK PROVE IsFiniteSet(Counted)
<1>1. Counted \subseteq FlowIds /\ IsFiniteSet(FlowIds)
  BY FlowsAssumption DEF Counted
<1>. QED
  BY <1>1, FS_Subset

LEMMA EndsKeep == ASSUME GInv, NEW f \in FlowIds, pc[f] \in Live, Ends(f) PROVE GInv'
<1>1. PlacesOK'
  BY DEF GInv, PlacesOK, Places, Ends
<1>2. f \in Counted /\ Counted' = Counted \ {f}
  BY DEF GInv, PlacesOK, Ends, Counted, Live
<1>3. Cardinality(Counted') = Cardinality(Counted) - 1
  BY <1>2, CountedFinite, FS_RemoveElement DEF GInv
<1>. QED
  BY <1>1, <1>3 DEF GInv, GaugeIsExact, Ends

LEMMA StaysKeep == ASSUME GInv, NEW f, NEW p, Stays(f, p) PROVE GInv'
<1>1. PlacesOK'
  BY DEF GInv, PlacesOK, Stays
<1>2. Counted' = Counted
  BY DEF GInv, PlacesOK, Stays, Counted
<1>. QED
  BY <1>1, <1>2 DEF GInv, GaugeIsExact, Stays

LEMMA GaugeStep == ASSUME GInv, [Next]_vars PROVE GInv'
<1>0. Tcp \subseteq FlowIds /\ Udp \subseteq FlowIds /\ Dns \subseteq FlowIds
  BY DEF FlowIds
<1>1. ASSUME UNCHANGED <<pc, gauge>> PROVE GInv'
  BY <1>1 DEF GInv, PlacesOK, GaugeIsExact, Counted
<1>2. CASE SessionStep \/ Refresh \/ Show
  BY <1>1, <1>2 DEF SessionStep, GuestConnected, SessionEnds, GuestDisconnected, Refresh, Show, fvars
<1>3. ASSUME NEW f \in FlowIds, Dispatch(f) PROVE GInv'
  <2>1. PlacesOK'
    BY <1>3 DEF GInv, PlacesOK, Places, Dispatch
  <2>2. f \notin Counted /\ Counted' = Counted \cup {f}
    BY <1>3 DEF GInv, PlacesOK, Dispatch, Counted, Live
  <2>3. Cardinality(Counted') = Cardinality(Counted) + 1
    BY <2>2, CountedFinite, FS_AddElement DEF GInv
  <2>. QED
    BY <1>3, <2>1, <2>3 DEF GInv, GaugeIsExact, Dispatch
<1>4. ASSUME NEW f \in FlowIds, Opened(f) PROVE GInv'
  <2>1. \E p \in {"connecting", "pumping"} : Stays(f, p)
    BY <1>4 DEF Opened, Stays, Live, Places, GInv, PlacesOK
  <2>. QED
    BY <2>1, StaysKeep
<1>5. ASSUME NEW f \in FlowIds, Closed(f) PROVE GInv'
  <2>1. Stays(f, "done")
    BY <1>5 DEF Closed, Stays, Live, Places, GInv, PlacesOK
  <2>. QED
    BY <2>1, StaysKeep
<1>6. ASSUME NEW f \in FlowIds, Cancel(f) \/ DatagramsEnd(f) PROVE GInv'
  BY <1>6, EndsKeep DEF Cancel, Listens, DatagramsEnd, Live
<1>7. ASSUME NEW f \in Tcp, Connect(f) PROVE GInv'
  <2>1. \E p \in {"pumping", "refusing"} : Stays(f, p)
    BY <1>0, <1>7 DEF Connect, Stays, Live, Places, GInv, PlacesOK
  <2>. QED
    BY <2>1, StaysKeep
<1>8. ASSUME NEW f \in Tcp, RefusalAcked(f) PROVE GInv'
  BY <1>0, <1>8, EndsKeep DEF RefusalAcked, Live
<1>9. ASSUME NEW f \in Tcp, NEW d \in Directions, PumpStep(f, d) \/ Produces(f, d) \/ Breaks(f, d)
      PROVE  GInv'
  <2>1. \A h : SetHalf(f, d, h) => UNCHANGED <<pc, gauge>>
    BY DEF SetHalf
  <2>2. CASE Produces(f, d)
    BY <1>1, <2>1, <2>2 DEF Produces
  <2>3. CASE Breaks(f, d)
    BY <1>1, <2>3 DEF Breaks
  <2>4. CASE Shutdown(f, d)
    BY <1>0, <1>1, <2>1, <2>4, EndsKeep DEF Shutdown, Pumping, Live
  <2>5. CASE ReadChunk(f, d) \/ WriteChunk(f, d) \/ ReadEnd(f, d) \/ HalfFails(f, d)
    BY <1>1, <2>1, <2>5 DEF ReadChunk, WriteChunk, ReadEnd, HalfFails
  <2>. QED
    BY <1>9, <2>2, <2>3, <2>4, <2>5 DEF PumpStep
<1>10. ASSUME NEW f \in Dns, Ask(f) \/ NextUpstream(f) \/ QueryEnds(f) PROVE GInv'
  BY <1>1, <1>10 DEF Ask, NextUpstream, QueryEnds, SetQuery
<1>11. CASE UNCHANGED vars
  BY <1>1, <1>11 DEF vars, fvars
<1>. QED
  BY <1>2, <1>3, <1>4, <1>5, <1>6, <1>7, <1>8, <1>9, <1>10, <1>11 DEF Next, FlowStep

LEMMA GaugeInit == Init => GInv
<1> SUFFICES ASSUME Init PROVE GInv
  OBVIOUS
<1>1. Counted = {} /\ PlacesOK /\ gauge = 0
  BY DEF Init, Counted, Live, PlacesOK, Places
<1> QED
  BY <1>1, FS_EmptySet DEF GInv, GaugeIsExact

\* The gauge of active flows counts the flows that are being forwarded, no
\* more and no fewer, across cancellations, failures and overlapping
\* sessions; in particular it never falls below zero.
THEOREM GaugeCounts == Spec => []GaugeIsExact
<1>1. GInv => GaugeIsExact
  BY DEF GInv
<1>. QED
  BY <1>1, GaugeInit, GaugeStep, PTL DEF Spec

-----------------------------------------------------------------------------
(* Upstreams *)

LEMMA Least ==
  ASSUME NEW S \in SUBSET Nat, S # {}
  PROVE  \E m \in S : \A n \in S : m <= n
<1>1. PICK m \in S : \A n \in S : <<n, m>> \notin OpToRel(<, Nat)
  BY NatLessThanWellFounded, WFMin
<1>2. \A n \in S : ~(n < m)
  BY <1>1 DEF OpToRel
<1>3. m \in Nat /\ \A n \in S : n \in Nat
  OBVIOUS
<1> QED
  BY <1>2, <1>3

\* A set of positions has a first, a second, ... element.
LEMMA Nth ==
  ASSUME NEW F, NEW top \in Nat, F \subseteq 1..top, NEW n \in 1..Cardinality(F)
  PROVE  \E i \in F : Cardinality({j \in F : j <= i}) = n
<1> DEFINE Upto(k) == {j \in F : j <= k}
           K == {k \in Nat : n <= Cardinality(Upto(k))}
<1>1. IsFiniteSet(F) /\ Cardinality(F) \in Nat /\ n \in Nat \ {0}
  <2>1. IsFiniteSet(1..top)
    BY FS_Interval
  <2>2. IsFiniteSet(F)
    BY <2>1, FS_Subset
  <2> QED
    BY <2>2, FS_CardinalityType
<1>2. \A k \in Nat : IsFiniteSet(Upto(k)) /\ Cardinality(Upto(k)) \in Nat
  <2> SUFFICES ASSUME NEW k \in Nat PROVE IsFiniteSet(Upto(k)) /\ Cardinality(Upto(k)) \in Nat
    OBVIOUS
  <2>1. Upto(k) \subseteq F
    OBVIOUS
  <2> QED
    BY <1>1, <2>1, FS_Subset, FS_CardinalityType
<1>3. PICK k \in K : \A m \in K : k <= m
  <2>0. \A j \in F : j <= top
    OBVIOUS
  <2>1. Upto(top) = F
    BY <2>0
  <2>2. n <= Cardinality(F)
    BY <1>1
  <2>3. top \in K
    BY <2>1, <2>2
  <2>4. K \in SUBSET Nat /\ K # {}
    BY <2>3
  <2> HIDE DEF K
  <2> QED
    BY <2>4, Least
<1>4. k # 0
  <2>0. \A j \in F : ~(j <= 0)
    OBVIOUS
  <2>1. Upto(0) = {}
    BY <2>0
  <2>2. Cardinality(Upto(0)) = 0
    BY <2>1, FS_EmptySet
  <2> QED
    BY <1>1, <2>2
<1>5. k - 1 \in Nat /\ ~(n <= Cardinality(Upto(k - 1)))
  <2>1. k \in Nat /\ k - 1 \in Nat /\ ~(k <= k - 1)
    BY <1>3, <1>4
  <2>2. k - 1 \notin K
    BY <1>3, <2>1
  <2> QED
    BY <2>1, <2>2
<1>6. Upto(k) = IF k \in F THEN Upto(k - 1) \cup {k} ELSE Upto(k - 1)
  <2>1. \A j \in F : j \in Nat /\ (j <= k <=> j <= k - 1 \/ j = k)
    BY <1>5
  <2> QED
    BY <2>1
<1>7. n <= Cardinality(Upto(k)) /\ k \in Nat
  BY <1>3
<1>8. k \in F
  BY <1>5, <1>6, <1>7
<1>9. k \notin Upto(k - 1)
  BY <1>5
<1>10. Cardinality(Upto(k)) = Cardinality(Upto(k - 1)) + 1
  <2> HIDE DEF Upto
  <2> QED
    BY <1>2, <1>5, <1>6, <1>8, <1>9, FS_AddElement
<1>11. Cardinality(Upto(k)) = n
  <2> HIDE DEF Upto, K
  <2> QED
    BY <1>1, <1>2, <1>5, <1>7, <1>10
<1> QED
  BY <1>8, <1>11

\* Whatever the system names, the upstreams are some and none is excluded.
LEMMA UsableIsUsable ==
  ASSUME NEW list \in SystemLists
  PROVE  Usable(list) # <<>> /\ Range(Usable(list)) \cap Excluded = {}
<1> DEFINE firsts == {i \in DOMAIN list :
                        list[i] \notin Excluded /\ \A j \in 1..(i - 1) : list[j] # list[i]}
           nth(n) == CHOOSE i \in firsts : Cardinality({j \in firsts : j <= i}) = n
           size == Cardinality(firsts)
           kept == [n \in 1..size |-> list[nth(n)]]
<1>1. Usable(list) = IF firsts = {} THEN Fallback ELSE kept
  BY DEF Usable
<1>2. CASE firsts = {}
  BY <1>1, <1>2, ListsAssumption
<1>3. CASE firsts # {}
  <2>1. Len(list) \in Nat /\ DOMAIN list = 1..Len(list)
    BY ListsAssumption
  <2>2. firsts \subseteq 1..Len(list)
    BY <2>1
  <2>3. \A i \in firsts : list[i] \notin Excluded
    OBVIOUS
  <2> HIDE DEF firsts
  <2>4. IsFiniteSet(firsts)
    <3>1. IsFiniteSet(1..Len(list))
      BY <2>1, FS_Interval
    <3> QED
      BY <2>2, <3>1, FS_Subset
  <2>5. size \in Nat \ {0}
    BY <1>3, <2>4, FS_CardinalityType, FS_EmptySet
  <2>6. \A n \in 1..size : nth(n) \in firsts
    <3> SUFFICES ASSUME NEW n \in 1..size PROVE nth(n) \in firsts
      OBVIOUS
    <3>1. \E i \in firsts : Cardinality({j \in firsts : j <= i}) = n
      BY <2>1, <2>2, Nth
    <3> QED
      BY <3>1
  <2> HIDE DEF size, nth
  <2>7. DOMAIN kept = 1..size /\ \A n \in 1..size : kept[n] \notin Excluded
    BY <2>3, <2>6
  <2>8. 1 \in DOMAIN kept /\ \A x \in Range(kept) : x \notin Excluded
    BY <2>5, <2>7 DEF Range
  <2>9. DOMAIN <<>> = {}
    OBVIOUS
  <2> HIDE DEF kept
  <2> QED
    BY <1>1, <1>3, <2>8, <2>9
<1> QED
  BY <1>2, <1>3

-----------------------------------------------------------------------------
(* Types *)

\* What a query in flight may still hold: one of the lists, however old.
Lists == SystemUpstreams \cup {<<>>}

LEMMA ListsAreUsable == \A list \in Lists : Range(list) \cap Excluded = {}
<1>1. \A list \in SystemUpstreams : Range(list) \cap Excluded = {}
  BY UsableIsUsable DEF SystemUpstreams
<1>2. Range(<<>>) = {}
  BY DEF Range
<1> QED
  BY <1>1, <1>2 DEF Lists

HalfSet == [data : {"none", "sent", "held", "got"}, fin : BOOLEAN,
            loop : {"read", "write", "shut", "done"}, err : BOOLEAN]
Halves == [Tcp -> [Directions -> HalfSet]]
Ends3 == [Tcp -> [Directions -> {"open", "reset", "silent"}]]
Queries == [list : Lists, at : Nat]

SessionOK ==
  /\ session \in {"none", "up", "ending"} /\ sessions \in 0..MaxSessions
  /\ cancelled \subseteq FlowIds
  /\ upstreams \in SystemUpstreams
  /\ Len(events) <= EventCap
FlowDataOK ==
  /\ half \in Halves /\ end \in Ends3 /\ query \in [Dns -> Queries]

\* What a pump knows of its connection: an error needs a broken end, and a
\* direction that ended without one has passed everything on.
PumpInv ==
  \A f \in Tcp, d \in Directions :
    /\ half[f][d].err => \E e \in Directions : end[f][e] # "open"
    /\ half[f][d].loop \in {"shut", "done"} /\ ~half[f][d].err
         => half[f][d].fin /\ half[f][d].data # "sent"

LEMMA SessionStepTypes == SessionOK /\ RInv /\ [Next]_vars => SessionOK'
<1> SUFFICES ASSUME SessionOK, RInv, [Next]_vars PROVE SessionOK'
  OBVIOUS
<1> USE DEF SessionOK
<1>1. \A e \in EventSet : Emit(e) => Len(events') <= EventCap
  BY BoundsAssumption DEF Emit, Room, RInv, EventsOK
<1>2. CASE SessionStep
  <2>1. Ev("connected", NoFlow) \in EventSet /\ Ev("disconnected", NoFlow) \in EventSet
    BY DEF EventSet
  <2>2. CASE GuestConnected
    BY <1>1, <2>1, <2>2, BoundsAssumption DEF GuestConnected, fvars
  <2>3. CASE SessionEnds
    BY <2>3 DEF SessionEnds
  <2>4. CASE GuestDisconnected
    BY <1>1, <2>1, <2>4 DEF GuestDisconnected, fvars
  <2> QED
    BY <1>2, <2>2, <2>3, <2>4 DEF SessionStep
<1>3. CASE Refresh
  BY <1>3 DEF Refresh, fvars
<1>4. CASE Show
  <2>1. Len(events') <= EventCap
    BY <1>4, BoundsAssumption DEF Show, RInv, EventsOK
  <2> QED
    BY <1>4, <2>1 DEF Show, fvars
<1>5. ASSUME NEW f \in FlowIds, Opened(f) \/ Closed(f) PROVE SessionOK'
  <2>1. Ev("opened", f) \in EventSet /\ Ev("closed", f) \in EventSet
    BY DEF EventSet
  <2> QED
    BY <1>1, <1>5, <2>1 DEF Opened, Closed
<1>6. CASE UNCHANGED <<session, sessions, cancelled, upstreams, events>>
  BY <1>6
<1>7. ASSUME NEW f, Ends(f) PROVE UNCHANGED <<session, sessions, cancelled, upstreams, events>>
  BY <1>7 DEF Ends
<1>8. ASSUME NEW f \in FlowIds, Dispatch(f) \/ Cancel(f) \/ DatagramsEnd(f)
      PROVE  UNCHANGED <<session, sessions, cancelled, upstreams, events>>
  BY <1>7, <1>8 DEF Dispatch, Cancel, DatagramsEnd
<1>9. ASSUME NEW f \in Tcp, Connect(f) \/ RefusalAcked(f)
      PROVE  UNCHANGED <<session, sessions, cancelled, upstreams, events>>
  BY <1>7, <1>9 DEF Connect, RefusalAcked
<1>10. ASSUME NEW f \in Tcp, NEW d \in Directions, PumpStep(f, d) \/ Produces(f, d) \/ Breaks(f, d)
       PROVE  UNCHANGED <<session, sessions, cancelled, upstreams, events>>
  <2>1. \A h : SetHalf(f, d, h) => UNCHANGED <<session, sessions, cancelled, upstreams, events>>
    BY DEF SetHalf
  <2>2. CASE Produces(f, d)
    BY <2>1, <2>2 DEF Produces
  <2>3. CASE Breaks(f, d)
    BY <2>3 DEF Breaks
  <2>4. CASE PumpStep(f, d)
    BY <1>7, <2>1, <2>4 DEF PumpStep, ReadChunk, WriteChunk, ReadEnd, HalfFails, Shutdown
  <2> QED
    BY <1>10, <2>2, <2>3, <2>4
<1>11. ASSUME NEW f \in Dns, Ask(f) \/ NextUpstream(f) \/ QueryEnds(f)
       PROVE  UNCHANGED <<session, sessions, cancelled, upstreams, events>>
  BY <1>11 DEF Ask, NextUpstream, QueryEnds, SetQuery
<1>12. CASE UNCHANGED vars
  BY <1>12 DEF vars, fvars
<1> QED
  BY <1>2, <1>3, <1>4, <1>5, <1>6, <1>8, <1>9, <1>10, <1>11, <1>12 DEF Next, FlowStep

\* A direction is set to what it may be set to.
LEMMA SetHalfKeeps ==
  ASSUME FlowDataOK, PumpInv, NEW f \in Tcp, NEW d \in Directions, NEW h \in HalfSet,
         SetHalf(f, d, h),
         h.err => \E e \in Directions : end[f][e] # "open",
         h.loop \in {"shut", "done"} /\ ~h.err => h.fin /\ h.data # "sent"
  PROVE  FlowDataOK' /\ PumpInv'
<1>1. FlowDataOK'
  BY DEF FlowDataOK, SetHalf, Halves
<1>2. \A g \in Tcp, e \in Directions : half'[g][e] = IF g = f /\ e = d THEN h ELSE half[g][e]
  BY DEF FlowDataOK, SetHalf, Halves
<1>3. end' = end
  BY DEF SetHalf
<1> QED
  BY <1>1, <1>2, <1>3 DEF PumpInv

LEMMA EndsKeeps ==
  ASSUME FlowDataOK, PumpInv, NEW f, Ends(f)
  PROVE  FlowDataOK' /\ PumpInv'
<1>1. FreshHalves \in [Directions -> HalfSet] /\ OpenEnds \in [Directions -> {"open", "reset", "silent"}]
  BY DEF FreshHalves, FreshHalf, OpenEnds, HalfSet
<1>2. NoQuery \in Queries
  BY DEF NoQuery, Queries, Lists
<1>3. half' \in Halves
  BY <1>1 DEF FlowDataOK, Ends, Halves
<1>4. end' \in Ends3
  BY <1>1 DEF FlowDataOK, Ends, Ends3
<1>5. query' \in [Dns -> Queries]
  BY <1>2 DEF FlowDataOK, Ends
<1>6. \A g \in Tcp : half'[g] = (IF g = f THEN FreshHalves ELSE half[g])
                  /\ end'[g] = (IF g = f THEN OpenEnds ELSE end[g])
  BY DEF Ends
<1>7. \A d \in Directions : ~FreshHalves[d].err /\ FreshHalves[d].loop = "read"
  BY DEF FreshHalves, FreshHalf
<1>8. PumpInv'
  BY <1>6, <1>7 DEF PumpInv
<1> QED
  BY <1>3, <1>4, <1>5, <1>8 DEF FlowDataOK

LEMMA SetQueryKeeps ==
  ASSUME FlowDataOK, PumpInv, NEW f \in Dns, NEW q \in Queries, SetQuery(f, q)
  PROVE  FlowDataOK' /\ PumpInv'
BY DEF FlowDataOK, PumpInv, SetQuery

LEMMA FlowStepTypes ==
  SessionOK /\ FlowDataOK /\ PumpInv /\ [Next]_vars => FlowDataOK' /\ PumpInv'
<1> SUFFICES ASSUME SessionOK, FlowDataOK, PumpInv, [Next]_vars PROVE FlowDataOK' /\ PumpInv'
  OBVIOUS
<1>1. CASE UNCHANGED <<half, end, query>>
  BY <1>1 DEF FlowDataOK, PumpInv
<1>2. CASE SessionStep \/ Refresh \/ Show
  BY <1>1, <1>2 DEF SessionStep, GuestConnected, SessionEnds, GuestDisconnected, Refresh, Show, fvars
<1>3. ASSUME NEW f \in FlowIds, Dispatch(f) \/ FlowStep(f) \/ DatagramsEnd(f)
      PROVE  FlowDataOK' /\ PumpInv'
  BY <1>1, <1>3, EndsKeeps DEF Dispatch, FlowStep, Opened, Closed, Cancel, DatagramsEnd
<1>4. ASSUME NEW f \in Tcp, Connect(f) \/ RefusalAcked(f) PROVE FlowDataOK' /\ PumpInv'
  BY <1>1, <1>4, EndsKeeps DEF Connect, RefusalAcked
<1>5. ASSUME NEW f \in Tcp, NEW d \in Directions, PumpStep(f, d) \/ Produces(f, d)
      PROVE  FlowDataOK' /\ PumpInv'
  <2> DEFINE h == half[f][d]
  <2>1. /\ h \in HalfSet
        /\ h.err => \E e \in Directions : end[f][e] # "open"
        /\ h.loop \in {"shut", "done"} /\ ~h.err => h.fin /\ h.data # "sent"
    BY DEF FlowDataOK, Halves, PumpInv
  <2> HIDE DEF h
  <2>2. CASE ReadChunk(f, d)
    <3> DEFINE new == [h EXCEPT !.data = "held", !.loop = "write"]
    <3>1. SetHalf(f, d, new)
      BY <2>2 DEF ReadChunk, h
    <3>2. new \in HalfSet /\ new.err = h.err /\ new.loop = "write"
      BY <2>1 DEF HalfSet
    <3> HIDE DEF new
    <3> QED
      BY <2>1, <3>1, <3>2, SetHalfKeeps
  <2>3. CASE WriteChunk(f, d)
    <3> DEFINE new == [h EXCEPT !.data = "got", !.loop = "read"]
    <3>1. SetHalf(f, d, new)
      BY <2>3 DEF WriteChunk, h
    <3>2. new \in HalfSet /\ new.err = h.err /\ new.loop = "read"
      BY <2>1 DEF HalfSet
    <3> HIDE DEF new
    <3> QED
      BY <2>1, <3>1, <3>2, SetHalfKeeps
  <2>4. CASE ReadEnd(f, d)
    <3> DEFINE new == [h EXCEPT !.loop = "shut"]
    <3>1. SetHalf(f, d, new) /\ h.data # "sent" /\ h.fin
      BY <2>4 DEF ReadEnd, h
    <3>2. new \in HalfSet /\ new.err = h.err /\ new.data = h.data /\ new.fin = h.fin
      BY <2>1 DEF HalfSet
    <3> HIDE DEF new
    <3> QED
      BY <2>1, <3>1, <3>2, SetHalfKeeps
  <2>5. CASE HalfFails(f, d)
    <3> DEFINE new == [h EXCEPT !.loop = "shut", !.err = TRUE]
    <3>1. SetHalf(f, d, new) /\ Fails(f, d)
      BY <2>5 DEF HalfFails, h
    <3>2. new \in HalfSet /\ new.err
      BY <2>1 DEF HalfSet
    <3>3. \E e \in Directions : end[f][e] # "open"
      BY <3>1 DEF Fails, Sink, Directions
    <3> HIDE DEF new
    <3> QED
      BY <3>1, <3>2, <3>3, SetHalfKeeps
  <2>6. CASE Shutdown(f, d)
    <3>1. CASE Over(f, d)
      BY <2>6, <3>1, EndsKeeps DEF Shutdown
    <3>2. CASE ~Over(f, d)
      <4> DEFINE new == [h EXCEPT !.loop = "done"]
      <4>1. SetHalf(f, d, new) /\ h.loop = "shut" /\ ~h.err
        BY <2>6, <3>2 DEF Shutdown, Pumping, Over, h
      <4>2. new \in HalfSet /\ new.err = h.err /\ new.data = h.data /\ new.fin = h.fin
        BY <2>1 DEF HalfSet
      <4> HIDE DEF new
      <4> QED
        BY <2>1, <4>1, <4>2, SetHalfKeeps
    <3> QED
      BY <3>1, <3>2
  <2>7. CASE Produces(f, d)
    <3>1. ~h.fin /\ \/ SetHalf(f, d, [h EXCEPT !.data = "sent"])
                    \/ SetHalf(f, d, [h EXCEPT !.fin = TRUE])
      BY <2>7 DEF Produces, h
    <3>2. \A new \in {[h EXCEPT !.data = "sent"], [h EXCEPT !.fin = TRUE]} :
            new \in HalfSet /\ new.err = h.err /\ new.loop = h.loop
      BY <2>1 DEF HalfSet
    <3>3. ASSUME NEW new \in {[h EXCEPT !.data = "sent"], [h EXCEPT !.fin = TRUE]},
                 SetHalf(f, d, new)
          PROVE  FlowDataOK' /\ PumpInv'
      <4>1. ~(new.loop \in {"shut", "done"} /\ ~new.err)
        BY <2>1, <3>1, <3>2
      <4> QED
        BY <2>1, <3>2, <3>3, <4>1, SetHalfKeeps
    <3> QED
      BY <3>1, <3>3
  <2> QED
    BY <1>5, <2>2, <2>3, <2>4, <2>5, <2>6, <2>7 DEF PumpStep
<1>6. ASSUME NEW f \in Tcp, NEW d \in Directions, Breaks(f, d) PROVE FlowDataOK' /\ PumpInv'
  <2>1. PICK how \in {"reset", "silent"} : end' = [end EXCEPT ![f][d] = how]
    BY <1>6 DEF Breaks
  <2>2. end' \in Ends3 /\ UNCHANGED <<half, query>>
    BY <1>6, <2>1 DEF Breaks, FlowDataOK, Ends3
  <2>3. \A g \in Tcp, e \in Directions : end'[g][e] = IF g = f /\ e = d THEN how ELSE end[g][e]
    BY <2>1 DEF FlowDataOK, Ends3
  <2>4. \A g \in Tcp, e \in Directions : end[g][e] # "open" => end'[g][e] # "open"
    BY <2>3
  <2> QED
    BY <2>2, <2>4 DEF FlowDataOK, PumpInv
<1>7. ASSUME NEW f \in Dns, Ask(f) \/ NextUpstream(f) \/ QueryEnds(f)
      PROVE  FlowDataOK' /\ PumpInv'
  <2>1. query[f] \in Queries
    BY DEF FlowDataOK
  <2>2. CASE Ask(f)
    <3>1. [list |-> upstreams, at |-> 1] \in Queries
      BY DEF SessionOK, Queries, Lists
    <3> QED
      BY <2>2, <3>1, SetQueryKeeps DEF Ask
  <2>3. CASE NextUpstream(f)
    <3>1. [query[f] EXCEPT !.at = @ + 1] \in Queries
      BY <2>1 DEF Queries
    <3> QED
      BY <2>3, <3>1, SetQueryKeeps DEF NextUpstream
  <2>4. CASE QueryEnds(f)
    <3>1. NoQuery \in Queries
      BY DEF NoQuery, Queries, Lists
    <3> QED
      BY <2>4, <3>1, SetQueryKeeps DEF QueryEnds
  <2> QED
    BY <1>7, <2>2, <2>3, <2>4
<1>8. CASE UNCHANGED vars
  BY <1>1, <1>8 DEF vars, fvars
<1> QED
  BY <1>2, <1>3, <1>4, <1>5, <1>6, <1>7, <1>8 DEF Next

LEMMA FlowsAlways == Spec => [](SessionOK /\ FlowDataOK /\ PumpInv)
<1>1. Init => SessionOK /\ FlowDataOK /\ PumpInv
  <2> SUFFICES ASSUME Init PROVE SessionOK /\ FlowDataOK /\ PumpInv
    OBVIOUS
  <2>1. FreshHalves \in [Directions -> HalfSet] /\ OpenEnds \in [Directions -> {"open", "reset", "silent"}]
    BY DEF FreshHalves, FreshHalf, OpenEnds, HalfSet
  <2>2. NoQuery \in Queries
    BY DEF NoQuery, Queries, Lists
  <2>3. SessionOK
    BY BoundsAssumption DEF Init, SessionOK
  <2>4. FlowDataOK
    BY <2>1, <2>2 DEF Init, FlowDataOK, Halves, Ends3
  <2>5. \A d \in Directions : ~FreshHalves[d].err /\ FreshHalves[d].loop = "read"
    BY DEF FreshHalves, FreshHalf
  <2>6. PumpInv
    BY <2>5 DEF Init, PumpInv
  <2> QED
    BY <2>3, <2>4, <2>6
<1>2. QED
  BY <1>1, SessionStepTypes, FlowStepTypes, RInvHolds, PTL DEF Spec

\* Every variable keeps its type; no query is ever sent to the forwarder
\* itself, whatever lists of resolvers came and went since it was asked.
THEOREM TypeCorrect == Spec => []TypeOK
<1>1. SessionOK /\ FlowDataOK /\ RInv /\ GInv => TypeOK
  <2> SUFFICES ASSUME SessionOK, FlowDataOK, RInv, GInv PROVE TypeOK
    OBVIOUS
  <2>1. gauge \in 0..Cardinality(FlowIds)
    <3>1. Counted \subseteq FlowIds /\ IsFiniteSet(FlowIds)
      BY FlowsAssumption DEF Counted
    <3>2. Cardinality(Counted) <= Cardinality(FlowIds)
      BY <3>1, FS_Subset
    <3>3. Cardinality(Counted) \in Nat /\ Cardinality(FlowIds) \in Nat
      BY <3>1, FS_Subset, FS_CardinalityType
    <3> QED
      BY <3>2, <3>3 DEF GInv, GaugeIsExact
  <2>2. upstreams # <<>> /\ Range(upstreams) \cap Excluded = {}
    BY UsableIsUsable DEF SessionOK, SystemUpstreams
  <2>3. \A f \in Dns : Range(query[f].list) \cap Excluded = {}
    BY ListsAreUsable DEF FlowDataOK, Queries
  <2>4. pc \in [FlowIds -> {"unused", "opening", "connecting", "refusing",
                            "pumping", "closing", "done"}]
    BY DEF RInv, PlacesOK, Places
  <2>5. /\ session \in {"none", "up", "ending"} /\ sessions \in 0..MaxSessions
        /\ cancelled \subseteq FlowIds /\ Len(events) <= EventCap /\ table \subseteq FlowIds
    BY DEF SessionOK, RInv
  <2>6. /\ half \in [Tcp -> [Directions -> HalfSet]]
        /\ end \in [Tcp -> [Directions -> {"open", "reset", "silent"}]]
    BY DEF FlowDataOK, Halves, Ends3
  <2> QED
    BY <2>1, <2>2, <2>3, <2>4, <2>5, <2>6 DEF TypeOK, HalfSet
<1>2. QED
  BY <1>1, GaugeInit, GaugeStep, FlowsAlways, RInvHolds, PTL DEF Spec

\* The flow of a connection that lives does not end before both directions
\* have passed everything on: a half-close cuts nothing off.
THEOREM NothingIsCutOff == Spec => NeverCutOff
<1> DEFINE Cut(f, d) == pc[f] = "pumping" /\ pc'[f] = "closing" /\ Owes(f, d)
           Fair(f, d) == half[f][d].loop = "shut" /\ half[f][d].data # "sent"
<1>1. ASSUME PlacesOK, PumpInv, [Next]_vars, NEW f \in Tcp, NEW d \in Directions, Cut(f, d)
      PROVE  Fair(f, d)
  <2>1. Tcp \subseteq FlowIds /\ f \notin Udp \cup Dns
    BY FlowsAssumption DEF FlowIds
  <2>2. \A g \in FlowIds : \A p : pc' = [pc EXCEPT ![g] = p] /\ p # "closing" => pc'[f] # "closing"
    BY <1>1, <2>1 DEF PlacesOK
  <2>3. \A g \in FlowIds : Ends(g) => g = f
    BY <1>1, <2>1 DEF PlacesOK, Ends
  <2>4. pc' # pc
    BY <1>1
  <2>5. ASSUME NEW g \in Tcp, NEW e \in Directions, \/ PumpStep(g, e) \/ Produces(g, e) \/ Breaks(g, e)
        PROVE  g = f /\ Shutdown(f, e) /\ Over(f, e)
    <3>1. \A h : ~SetHalf(g, e, h)
      BY <2>4 DEF SetHalf
    <3>2. ~Breaks(g, e) /\ ~Produces(g, e)
      BY <2>4, <3>1 DEF Breaks, Produces
    <3>3. Shutdown(g, e) /\ Over(g, e) /\ Ends(g)
      BY <2>5, <3>1, <3>2 DEF PumpStep, ReadChunk, WriteChunk, ReadEnd, HalfFails, Shutdown
    <3> QED
      BY <2>1, <2>3, <3>3
  <2>6. \E e \in Directions : Shutdown(f, e) /\ Over(f, e)
    <3>1. ~(SessionStep \/ Refresh \/ Show)
      BY <2>4 DEF SessionStep, GuestConnected, SessionEnds, GuestDisconnected, Refresh, Show, fvars
    <3>2. \A g \in FlowIds : ~Dispatch(g) /\ ~Opened(g) /\ ~Closed(g)
      BY <1>1, <2>1 DEF PlacesOK, Dispatch, Opened, Closed
    <3>3. \A g \in FlowIds : ~Cancel(g) /\ ~DatagramsEnd(g)
      BY <1>1, <2>1, <2>3 DEF Cancel, DatagramsEnd, Owes
    <3>4. \A g \in Tcp : ~Connect(g) /\ ~RefusalAcked(g)
      BY <1>1, <2>1, <2>2, <2>3 DEF Connect, RefusalAcked
    <3>5. \A g \in Dns : ~Ask(g) /\ ~NextUpstream(g) /\ ~QueryEnds(g)
      BY <2>4 DEF Ask, NextUpstream, QueryEnds, SetQuery
    <3>6. ~UNCHANGED vars
      BY <2>4 DEF vars, fvars
    <3>7. \E g \in Tcp, e \in Directions : PumpStep(g, e) \/ Produces(g, e) \/ Breaks(g, e)
      BY <1>1, <3>1, <3>2, <3>3, <3>4, <3>5, <3>6 DEF Next, FlowStep
    <3> QED
      BY <2>5, <3>7
  <2>7. PICK e \in Directions : Shutdown(f, e) /\ Over(f, e)
    BY <2>6
  <2>8. half[f][e].loop = "shut" /\ ~half[f][e].err /\ half[f][Sink(e)].loop = "done"
    BY <1>1, <2>7 DEF Shutdown, Pumping, Over, PumpInv, Owes
  <2>9. d = e \/ d = Sink(e)
    BY DEF Sink, Directions
  <2>10. d = e
    BY <1>1, <2>8, <2>9 DEF Owes
  <2> QED
    BY <1>1, <2>8, <2>10 DEF PumpInv
<1>2. ASSUME PlacesOK, PumpInv, [Next]_vars
      PROVE  [\A f \in Tcp, d \in Directions : Cut(f, d) => Fair(f, d)]_vars
  BY <1>1, <1>2
<1>3. RInv => PlacesOK
  BY DEF RInv
<1>4. QED
  BY <1>2, <1>3, FlowsAlways, RInvHolds, PTL DEF Spec, NeverCutOff
=============================================================================
