-------------------------- MODULE PlatformsProofs --------------------------
(***************************************************************************)
(* Proofs about Platforms for both systems, every set of prefixes and      *)
(* every route plan, with commands failing, route.exe lying, the task      *)
(* aborted and the process killed anywhere.                                *)
(***************************************************************************)
EXTENDS Platforms, SequenceTheorems, TLAPS

IsRoute(i) == undo[i] \in {RouteUndo(c) : c \in Cidrs}

\* The undo list is routes, then at most the resolver, which is set last.
UndoShape ==
  /\ pc \in {"idle", "dead", "down"} => undo = << >>
  /\ pc \notin {"applied", "reverting"} => \A i \in 1..Len(undo) : IsRoute(i)
  /\ \A i \in 1..Len(undo) : i # Len(undo) => IsRoute(i)

Adding == {"begin", "addr", "routes", "replace", "again", "dns"}

\* A requested route is in, or still ahead of apply.
Ahead(c) == \E j \in 1..Len(todo) : todo[j] = c

RoutesAhead ==
  /\ pc \in {"dns", "applied"} => todo = << >>
  /\ pc \in {"replace", "again"} => todo # << >>
  /\ pc \in Adding /\ clean /\ dev =>
       \A i \in 1..Len(plan.routes) : route[plan.routes[i]] = "tun" \/ Ahead(plan.routes[i])

\* Before apply has done anything, only scutil's keys may be left.
NothingBefore ==
  pc \in {"idle", "dead", "begin"} =>
    /\ \A c \in Cidrs : route[c] # "tun"
    /\ resolver => os = "macos"

PInv == TypeOK /\ UndoShape /\ RoutesAhead /\ NothingBefore /\ UndoCovers /\ DnsNeedsRoutes

-----------------------------------------------------------------------------
(* What a push and a pop do to the undo list. *)

LEMMA UndosDiffer ==
  /\ \A c \in Cidrs : RouteUndo(c) # DnsUndo
  /\ \A c, d \in Cidrs : RouteUndo(c) = RouteUndo(d) => c = d
<1>1. DnsUndo.kind = "dns" /\ \A c \in Cidrs : RouteUndo(c).kind = "route" /\ RouteUndo(c).cidr = c
  BY DEF DnsUndo, RouteUndo
<1>2. "dns" # "route"
  OBVIOUS
<1>. QED
  BY <1>1, <1>2

LEMMA Pushed ==
  ASSUME NEW u \in Undos, undo \in Seq(Undos), undo' = Append(undo, u)
  PROVE  /\ undo' \in Seq(Undos)
         /\ \A i \in 1..Len(undo') : i # Len(undo') => i \in 1..Len(undo) /\ undo'[i] = undo[i]
         /\ undo'[Len(undo')] = u
         /\ Registered(u)'
         /\ \A v : Registered(v) => Registered(v)'
         /\ \A v : Registered(v)' => Registered(v) \/ v = u
<1>1. undo' \in Seq(Undos) /\ Len(undo') = Len(undo) + 1 /\ undo'[Len(undo) + 1] = u /\ Len(undo) \in Nat
  OBVIOUS
<1>2. \A i \in 1..Len(undo) : i \in 1..Len(undo') /\ undo'[i] = undo[i]
  BY <1>1
<1>3. Len(undo') \in 1..Len(undo') /\ \A i \in 1..Len(undo') : i \in 1..Len(undo) \/ i = Len(undo')
  BY <1>1
<1>. QED
  BY <1>1, <1>2, <1>3 DEF Registered

LEMMA PoppedOff ==
  ASSUME undo \in Seq(Undos), undo # << >>, undo' = SubSeq(undo, 1, Len(undo) - 1)
  PROVE  /\ undo' \in Seq(Undos)
         /\ \A i \in 1..Len(undo') : i \in 1..Len(undo) /\ i # Len(undo) /\ undo'[i] = undo[i]
         /\ Popped \in Undos
         /\ \A v : Registered(v) => Registered(v)' \/ v = Popped
         /\ \A v : Registered(v)' => Registered(v)
<1>1. PICK n \in Nat : Len(undo) = n + 1
  <2>1. Len(undo) \in Nat /\ Len(undo) # 0
    OBVIOUS
  <2>2. Len(undo) - 1 \in Nat /\ Len(undo) = (Len(undo) - 1) + 1
    BY <2>1
  <2>. QED
    BY <2>2
<1>2. \A i \in 1..n : undo[i] \in Undos
  BY <1>1
<1>3. undo' \in Seq(Undos) /\ Len(undo') = n /\ \A i \in 1..n : undo'[i] = undo[i]
  <2>1. 1 \in Int /\ n \in Int /\ Len(undo) - 1 = n
    BY <1>1
  <2>. QED
    BY <1>2, <2>1, SubSeqProperties
<1>4. \A i \in 1..Len(undo) : i = Len(undo) \/ i \in 1..n
  BY <1>1
<1>5. \A i \in 1..n : i \in 1..Len(undo) /\ i # Len(undo)
  BY <1>1
<1>6. Len(undo) \in 1..Len(undo) /\ Popped \in Undos
  BY <1>1 DEF Popped
<1>. QED
  BY <1>3, <1>4, <1>5, <1>6 DEF Registered, Popped

LEMMA PoppedKind ==
  ASSUME Popped \in Undos
  PROVE  /\ Popped.kind = "route" => Popped.cidr \in Cidrs /\ Popped = RouteUndo(Popped.cidr)
         /\ Popped.kind = "dns" => Popped = DnsUndo
  BY DEF Undos, RouteUndo, DnsUndo

LEMMA OnlyRoutes ==
  ASSUME \A i \in 1..Len(undo) : IsRoute(i)
  PROVE  ~Registered(DnsUndo)
  BY UndosDiffer DEF IsRoute, Registered

\* The tail of todo and its head are all that was ahead.
LEMMA HeadTaken ==
  ASSUME todo \in Seq(Cidrs), todo # << >>, todo' = Tail(todo)
  PROVE  /\ Head(todo) \in Cidrs /\ todo' \in Seq(Cidrs)
         /\ \A c : Ahead(c) => c = Head(todo) \/ Ahead(c)'
<1>1. /\ Head(todo) \in Cidrs /\ Tail(todo) \in Seq(Cidrs)
      /\ Len(Tail(todo)) = Len(todo) - 1 /\ Len(todo) \in Nat
      /\ \A j \in 1..Len(Tail(todo)) : Tail(todo)[j] = todo[j + 1]
      /\ Head(todo) = todo[1]
  OBVIOUS
<1>2. \A j \in 1..Len(todo) : j = 1 \/ (j - 1 \in 1..Len(todo') /\ todo'[j - 1] = todo[j])
  BY <1>1
<1>. QED
  BY <1>1, <1>2 DEF Ahead

-----------------------------------------------------------------------------
(* Steps that several actions share.  Each lemma proves the whole          *)
(* invariant for one kind of step.                                         *)

\* Nothing but pc (and, for a failed or half done command, clean and the
\* resolver) changes while apply goes on.
LEMMA GoOn ==
  ASSUME PInv, NEW next, Goto(next), UNCHANGED <<machine, clean>>,
         next \in {"addr", "routes", "replace", "dns", "failed", "applied", "down"},
         next \in {"addr", "routes"} => pc \in Adding,
         next = "replace" => pc \in Adding /\ todo # << >>,
         next \in {"dns", "applied"} => pc \in Adding /\ todo = << >>,
         next = "failed" => pc \in Adding,
         next = "down" => undo = << >>,
         pc = "begin" => ~resolver,
         pc \notin {"idle", "dead"}
  PROVE  PInv'
<1> USE DEF PInv, TypeOK, Goto, machine, Adding
<1>1. TypeOK'
  OBVIOUS
<1>2. UndoShape'
  BY DEF UndoShape, IsRoute
<1>3. RoutesAhead'
  BY DEF RoutesAhead, Ahead
<1>4. NothingBefore'
  BY DEF NothingBefore
<1>5. UndoCovers'
  BY DEF UndoCovers, NothingBefore, Registered
<1>6. DnsNeedsRoutes'
  BY DEF DnsNeedsRoutes, Registered
<1>. QED
  BY <1>1, <1>2, <1>3, <1>4, <1>5, <1>6

\* apply registers a route, which is in or else spoils the history.
LEMMA RouteAdded ==
  ASSUME PInv, pc \in {"routes", "again"}, todo # << >>, Added, Works \/ Silent
  PROVE  PInv'
<1> USE DEF PInv
<1>0. PICK c \in Cidrs : c = Head(todo)
  BY HeadTaken DEF TypeOK, Added
<1>1. todo' \in Seq(Cidrs) /\ \A d : Ahead(d) => d = c \/ Ahead(d)'
  BY <1>0, HeadTaken DEF TypeOK, Added
<1>2. RouteUndo(c) \in Undos /\ undo' = Append(undo, RouteUndo(c))
  BY <1>0 DEF Undos, Added
<1>3. /\ undo' \in Seq(Undos)
      /\ \A i \in 1..Len(undo') : i # Len(undo') => i \in 1..Len(undo) /\ undo'[i] = undo[i]
      /\ undo'[Len(undo')] = RouteUndo(c)
      /\ Registered(RouteUndo(c))'
      /\ \A v : Registered(v) => Registered(v)'
  BY <1>2, Pushed DEF TypeOK, Added
<1>4. /\ pc' = "routes" /\ plan' = plan /\ os' = os /\ dev' = dev /\ resolver' = resolver
      /\ reverted' = reverted
  BY DEF Added
<1>5. /\ route' \in [Cidrs -> Owners] /\ clean' \in BOOLEAN /\ (clean' => clean)
      /\ clean' => route'[c] = "tun"
      /\ \A d \in Cidrs : d # c => route'[d] = route[d]
  <2>1. CASE Works
    BY <1>0, <2>1 DEF Works, TypeOK, Owners
  <2>2. CASE Silent
    BY <1>0, <2>2 DEF Silent, TypeOK, Owners
  <2>. QED
    BY <2>1, <2>2
<1>6. TypeOK'
  BY <1>1, <1>3, <1>4, <1>5 DEF TypeOK
<1>7. \A i \in 1..Len(undo') : IsRoute(i)'
  <2>1. \A i \in 1..Len(undo) : IsRoute(i)
    BY DEF UndoShape
  <2>2. undo'[Len(undo')] \in {RouteUndo(d) : d \in Cidrs}
    BY <1>1, <1>3
  <2>. QED
    BY <1>3, <2>1, <2>2 DEF IsRoute
<1>8. UndoShape'
  BY <1>4, <1>7 DEF UndoShape
<1>9. RoutesAhead'
  <2>1. ASSUME clean', dev', NEW i \in 1..Len(plan.routes)
        PROVE  route'[plan.routes[i]] = "tun" \/ Ahead(plan.routes[i])'
    <3>1. route[plan.routes[i]] = "tun" \/ Ahead(plan.routes[i])
      BY <1>4, <1>5, <2>1 DEF RoutesAhead, Adding
    <3>2. plan.routes[i] \in Cidrs
      BY PlansAssumption DEF TypeOK
    <3>. QED
      BY <1>1, <1>4, <1>5, <2>1, <3>1, <3>2
  <2>. QED
    BY <1>4, <2>1 DEF RoutesAhead
<1>10. NothingBefore'
  BY <1>4 DEF NothingBefore
<1>11. UndoCovers'
  BY <1>1, <1>3, <1>4, <1>5 DEF UndoCovers
<1>12. DnsNeedsRoutes'
  <2>1. ~Registered(DnsUndo)'
    BY <1>7, UndosDiffer DEF IsRoute, Registered
  <2>. QED
    BY <2>1 DEF DnsNeedsRoutes
<1>. QED
  BY <1>6, <1>8, <1>9, <1>10, <1>11, <1>12

\* The resolver is set and registered, after all the routes.
LEMMA ResolverSet ==
  ASSUME PInv, pc = "dns", DnsSet, UNCHANGED <<dev, route>>
  PROVE  PInv'
<1> USE DEF PInv
<1>1. DnsUndo \in Undos
  BY DEF Undos
<1>2. /\ undo' \in Seq(Undos)
      /\ \A i \in 1..Len(undo') : i # Len(undo') => i \in 1..Len(undo) /\ undo'[i] = undo[i]
      /\ Registered(DnsUndo)'
      /\ \A v : Registered(v) => Registered(v)'
  BY <1>1, Pushed DEF TypeOK, DnsSet
<1>3. TypeOK'
  BY <1>2 DEF TypeOK, DnsSet
<1>4. UndoShape'
  BY <1>2 DEF UndoShape, DnsSet, IsRoute
<1>5. RoutesAhead' /\ NothingBefore'
  BY DEF RoutesAhead, NothingBefore, DnsSet, Adding
<1>6. UndoCovers'
  BY <1>2 DEF UndoCovers, DnsSet
<1>7. DnsNeedsRoutes'
  BY DEF DnsNeedsRoutes, RoutesAhead, Ahead, Adding, DnsSet, TypeOK
<1>. QED
  BY <1>3, <1>4, <1>5, <1>6, <1>7

\* revert takes a route back, or leaves it for good.
LEMMA RouteUndone ==
  ASSUME PInv, Pop("route"), RouteTakenBack
  PROVE  PInv'
<1> USE DEF PInv
<1>1. /\ undo' \in Seq(Undos) /\ Popped \in Undos
      /\ \A i \in 1..Len(undo') : i \in 1..Len(undo) /\ i # Len(undo) /\ undo'[i] = undo[i]
      /\ \A v : Registered(v) => Registered(v)' \/ v = Popped
      /\ \A v : Registered(v)' => Registered(v)
  BY PoppedOff DEF TypeOK, Pop
<1>2. Popped.cidr \in Cidrs /\ Popped = RouteUndo(Popped.cidr)
  BY <1>1, PoppedKind DEF Pop, Popped
<1>3. /\ pc' = "reverting" /\ pc = "reverting" /\ os' = os /\ plan' = plan /\ todo' = todo
      /\ reverted' = reverted /\ dev' = dev /\ resolver' = resolver
  BY DEF Pop, RouteTakenBack
<1>4. TypeOK'
  BY <1>1, <1>2, <1>3 DEF TypeOK, RouteTakenBack, Owners
<1>5. \A i \in 1..Len(undo') : IsRoute(i)'
  BY <1>1 DEF UndoShape, IsRoute
<1>6. UndoShape' /\ RoutesAhead' /\ NothingBefore'
  BY <1>3, <1>5 DEF UndoShape, RoutesAhead, NothingBefore, Adding
<1>7. UndoCovers'
  <2>1. \A d \in Cidrs : d # Popped.cidr => route'[d] = route[d] /\ RouteUndo(d) # Popped
    BY <1>2, UndosDiffer DEF RouteTakenBack, TypeOK
  <2>2. clean' \in BOOLEAN /\ (clean' => clean) /\ (clean' => route'[Popped.cidr] # "tun")
    <3>1. clean \in BOOLEAN /\ route[Popped.cidr] \in Owners
      BY <1>2 DEF TypeOK
    <3>2. CASE route' = [route EXCEPT ![Popped.cidr] = IF @ = "tun" THEN "none" ELSE @] /\ clean' = clean
      BY <1>2, <3>1, <3>2 DEF TypeOK, Owners
    <3>3. CASE clean' = (clean /\ route[Popped.cidr] # "tun") /\ route' = route
      BY <3>1, <3>3, Zenon
    <3>. QED
      BY <3>2, <3>3 DEF RouteTakenBack
  <2>3. DnsUndo # Popped
    BY <1>2, UndosDiffer
  <2>. QED
    BY <1>1, <1>3, <2>1, <2>2, <2>3 DEF UndoCovers
<1>8. DnsNeedsRoutes'
  <2>1. ~Registered(DnsUndo)'
    BY <1>5, UndosDiffer DEF IsRoute, Registered
  <2>. QED
    BY <2>1 DEF DnsNeedsRoutes
<1>. QED
  BY <1>4, <1>6, <1>7, <1>8

\* revert takes the resolver back, or leaves it for good.
LEMMA ResolverUndone ==
  ASSUME PInv, Pop("dns"), DnsTakenBack
  PROVE  PInv'
<1> USE DEF PInv
<1>1. /\ undo' \in Seq(Undos) /\ Popped \in Undos
      /\ \A i \in 1..Len(undo') : i \in 1..Len(undo) /\ i # Len(undo) /\ undo'[i] = undo[i]
      /\ \A v : Registered(v) => Registered(v)' \/ v = Popped
  BY PoppedOff DEF TypeOK, Pop
<1>2. Popped = DnsUndo
  BY <1>1, PoppedKind DEF Pop, Popped
<1>3. /\ pc' = "reverting" /\ pc = "reverting" /\ os' = os /\ plan' = plan /\ todo' = todo
      /\ reverted' = reverted /\ dev' = dev /\ route' = route
  BY DEF Pop, DnsTakenBack
<1>4. TypeOK'
  BY <1>1, <1>3 DEF TypeOK, DnsTakenBack
<1>5. \A i \in 1..Len(undo') : IsRoute(i)'
  BY <1>1 DEF UndoShape, IsRoute
<1>6. UndoShape' /\ RoutesAhead' /\ NothingBefore'
  BY <1>3, <1>5 DEF UndoShape, RoutesAhead, NothingBefore, Adding
<1>7. UndoCovers'
  BY <1>1, <1>2, <1>3, UndosDiffer DEF UndoCovers, DnsTakenBack, TypeOK
<1>8. DnsNeedsRoutes'
  <2>1. ~Registered(DnsUndo)'
    BY <1>5, UndosDiffer DEF IsRoute, Registered
  <2>. QED
    BY <2>1 DEF DnsNeedsRoutes
<1>. QED
  BY <1>4, <1>6, <1>7, <1>8

-----------------------------------------------------------------------------
LEMMA InitPInv == Init => PInv
<1> SUFFICES ASSUME Init PROVE PInv
  OBVIOUS
<1>1. undo = << >> /\ todo = << >> /\ Len(undo) = 0 /\ undo \in Seq(Undos) /\ todo \in Seq(Cidrs)
  BY DEF Init
<1>2. TypeOK
  BY <1>1 DEF Init, TypeOK, Owners
<1>. QED
  BY <1>1, <1>2 DEF Init, PInv, UndoShape, RoutesAhead, NothingBefore, UndoCovers, DnsNeedsRoutes,
     Adding, Registered

LEMMA StepPInv == PInv /\ [Next]_vars => PInv'
<1> SUFFICES ASSUME PInv, [Next]_vars PROVE PInv'
  OBVIOUS
<1> USE DEF PInv
<1>1. ASSUME NEW p \in Plans, Apply(p) PROVE PInv'
  <2>1. /\ p.routes \in Seq(Cidrs) /\ undo' = << >> /\ Len(undo') = 0 /\ undo' \in Seq(Undos)
        /\ plan' = p /\ todo' = p.routes /\ pc' = "begin" /\ os' = os
        /\ route' = route /\ resolver' = resolver
    BY <1>1, PlansAssumption DEF Apply
  <2>2. TypeOK'
    BY <1>1, <2>1 DEF Apply, TypeOK
  <2>3. \A v : ~Registered(v)'
    BY <2>1 DEF Registered
  <2>4. RoutesAhead'
    BY <2>1 DEF RoutesAhead, Ahead
  <2>5. UndoShape' /\ NothingBefore' /\ UndoCovers' /\ DnsNeedsRoutes'
    BY <1>1, <2>1, <2>3 DEF Apply, UndoShape, NothingBefore, UndoCovers, DnsNeedsRoutes
  <2>. QED
    BY <2>2, <2>4, <2>5
<1>2. ASSUME RemoveStale PROVE PInv'
  <2>1. TypeOK'
    BY <1>2 DEF RemoveStale, Goto, TypeOK
  <2>2. UndoShape' /\ NothingBefore'
    BY <1>2 DEF RemoveStale, Goto, UndoShape, IsRoute, NothingBefore
  <2>3. clean' \in BOOLEAN /\ (clean' => clean) /\ (clean' => ~resolver')
    <3>1. clean \in BOOLEAN /\ resolver \in BOOLEAN
      BY DEF TypeOK
    <3>2. CASE resolver' = FALSE /\ clean' = clean
      BY <3>1, <3>2
    <3>3. CASE clean' = (clean /\ ~resolver) /\ resolver' = resolver
      BY <3>1, <3>3, Zenon
    <3>. QED
      BY <1>2, <3>2, <3>3 DEF RemoveStale
  <2>4. RoutesAhead'
    BY <1>2, <2>3 DEF RemoveStale, Goto, RoutesAhead, Ahead, Adding
  <2>5. UndoCovers'
    BY <1>2, <2>3 DEF RemoveStale, UndoCovers, NothingBefore
  <2>6. DnsNeedsRoutes'
    BY <1>2, <2>3 DEF RemoveStale, Goto, DnsNeedsRoutes, Registered
  <2>. QED
    BY <2>1, <2>2, <2>4, <2>5, <2>6
<1>3. ASSUME InterfaceIndex PROVE PInv'
  BY <1>3, GoOn DEF InterfaceIndex, Fail, Adding, NothingBefore
<1>4. ASSUME MacAddress \/ WinAddress PROVE PInv'
  BY <1>4, GoOn DEF MacAddress, WinAddress, Fail, Adding
<1>5. ASSUME MacAddRoute \/ WinAddRoute PROVE PInv'
  <2>1. CASE Added /\ (Works \/ Silent)
    BY <1>5, <2>1, RouteAdded DEF MacAddRoute, WinAddRoute
  <2>2. CASE Fail /\ UNCHANGED <<machine, clean>>
    BY <1>5, <2>2, GoOn DEF MacAddRoute, WinAddRoute, Fail, Adding
  <2>3. CASE Exists /\ UNCHANGED <<machine, clean>>
    BY <1>5, <2>3, GoOn DEF MacAddRoute, WinAddRoute, Exists, Adding
  <2>. QED
    BY <1>5, <2>1, <2>2, <2>3 DEF MacAddRoute, WinAddRoute
<1>6. ASSUME MacDelete \/ WinDelete PROVE PInv'
  <2>1. /\ pc = "replace" /\ Goto("again") /\ UNCHANGED <<dev, resolver, clean>> /\ todo # << >>
        /\ route' \in {route, [route EXCEPT ![Head(todo)] = "none"]}
    BY <1>6 DEF MacDelete, WinDelete, Deleted, RoutesAhead
  <2>2. Head(todo) \in Cidrs /\ Ahead(Head(todo)) /\ Head(todo) = todo[1] /\ 1 \in 1..Len(todo)
    BY <2>1 DEF TypeOK, Ahead
  <2>3. TypeOK'
    BY <2>1, <2>2 DEF Goto, TypeOK, Owners
  <2>4. RoutesAhead'
    <3>1. \A d : Ahead(d)' <=> Ahead(d)
      BY <2>1 DEF Goto, Ahead
    <3>2. \A i \in 1..Len(plan.routes) : plan.routes[i] \in Cidrs
      BY PlansAssumption DEF TypeOK
    <3>. QED
      BY <2>1, <2>2, <3>1, <3>2 DEF Goto, RoutesAhead, Adding, TypeOK
  <2>5. UndoShape' /\ NothingBefore'
    BY <2>1 DEF Goto, UndoShape, IsRoute, NothingBefore
  <2>6. UndoCovers'
    BY <2>1, <2>2 DEF Goto, UndoCovers, Registered, TypeOK
  <2>7. DnsNeedsRoutes'
    <3>1. ~Registered(DnsUndo)
      BY <2>1, OnlyRoutes DEF UndoShape
    <3>. QED
      BY <2>1, <3>1 DEF Goto, DnsNeedsRoutes, Registered
  <2>. QED
    BY <2>3, <2>4, <2>5, <2>6, <2>7
<1>7. ASSUME MacAddAgain \/ WinAddAgain PROVE PInv'
  <2>1. CASE Added /\ (Works \/ Silent)
    BY <1>7, <2>1, RouteAdded DEF MacAddAgain, WinAddAgain, RoutesAhead
  <2>2. CASE Fail /\ UNCHANGED <<machine, clean>>
    BY <1>7, <2>2, GoOn DEF MacAddAgain, WinAddAgain, Fail, Adding
  <2>. QED
    BY <1>7, <2>1, <2>2 DEF MacAddAgain, WinAddAgain
<1>8. ASSUME RoutesDone PROVE PInv'
  BY <1>8, GoOn DEF RoutesDone, Adding
<1>9. ASSUME MacDns \/ WinDns PROVE PInv'
  <2>1. CASE DnsSet
    BY <1>9, <2>1, ResolverSet DEF MacDns, WinDns
  <2>2. CASE Fail /\ UNCHANGED <<resolver, clean>>
    BY <1>9, <2>2, GoOn DEF MacDns, WinDns, Fail, Adding, machine
  <2>3. CASE Fail /\ resolver' = TRUE /\ clean' = FALSE
    <3>1. TypeOK'
      BY <1>9, <2>3 DEF MacDns, WinDns, Fail, Goto, TypeOK
    <3>2. UndoShape' /\ RoutesAhead' /\ NothingBefore' /\ UndoCovers' /\ DnsNeedsRoutes'
      BY <1>9, <2>3 DEF MacDns, WinDns, Fail, Goto, UndoShape, IsRoute, RoutesAhead, Adding,
         NothingBefore, UndoCovers, DnsNeedsRoutes
    <3>. QED
      BY <3>1, <3>2
  <2>. QED
    BY <1>9, <2>1, <2>2, <2>3 DEF MacDns, WinDns
<1>10. ASSUME Revert PROVE PInv'
  <2>1. TypeOK'
    BY <1>10 DEF Revert, machine, TypeOK
  <2>2. UndoShape' /\ RoutesAhead' /\ NothingBefore'
    BY <1>10 DEF Revert, machine, UndoShape, IsRoute, RoutesAhead, Adding, NothingBefore
  <2>3. UndoCovers' /\ DnsNeedsRoutes'
    BY <1>10 DEF Revert, machine, UndoCovers, DnsNeedsRoutes, Registered
  <2>. QED
    BY <2>1, <2>2, <2>3
<1>11. ASSUME MacUndoRoute \/ WinUndoRoute PROVE PInv'
  BY <1>11, RouteUndone DEF MacUndoRoute, WinUndoRoute
<1>12. ASSUME MacUndoDns \/ WinUndoDns PROVE PInv'
  BY <1>12, ResolverUndone DEF MacUndoDns, WinUndoDns
<1>13. ASSUME FinishRevert PROVE PInv'
  BY <1>13, GoOn DEF FinishRevert
<1>14. ASSUME DropTun PROVE PInv'
  <2>1. TypeOK'
    BY <1>14 DEF DropTun, DeviceGone, Goto, TypeOK, Owners
  <2>2. UndoShape' /\ RoutesAhead'
    BY <1>14 DEF DropTun, DeviceGone, Goto, UndoShape, IsRoute, RoutesAhead, Adding
  <2>3. NothingBefore' /\ UndoCovers' /\ DnsNeedsRoutes'
    BY <1>14 DEF DropTun, DeviceGone, Goto, NothingBefore, UndoCovers, DnsNeedsRoutes, TypeOK
  <2>. QED
    BY <2>1, <2>2, <2>3
<1>15. ASSUME Abort PROVE PInv'
  <2>1. TypeOK'
    BY <1>15 DEF Abort, DeviceGone, proc, TypeOK, Owners
  <2>2. UndoShape' /\ RoutesAhead'
    BY <1>15 DEF Abort, DeviceGone, proc, UndoShape, IsRoute, RoutesAhead, Adding
  <2>3. NothingBefore' /\ UndoCovers' /\ DnsNeedsRoutes'
    BY <1>15 DEF Abort, DeviceGone, proc, NothingBefore, UndoCovers, DnsNeedsRoutes, Registered,
       TypeOK
  <2>. QED
    BY <2>1, <2>2, <2>3
<1>16. ASSUME Crash PROVE PInv'
  <2>0. undo' = << >> /\ Len(undo') = 0 /\ undo' \in Seq(Undos) /\ todo' \in Seq(Cidrs)
    BY <1>16 DEF Crash
  <2>1. TypeOK'
    BY <1>16, <2>0 DEF Crash, DeviceGone, TypeOK, Owners
  <2>2. UndoShape' /\ RoutesAhead'
    BY <1>16, <2>0 DEF Crash, UndoShape, RoutesAhead, Adding
  <2>3. NothingBefore' /\ UndoCovers' /\ DnsNeedsRoutes'
    BY <1>16 DEF Crash, DeviceGone, NothingBefore, UndoCovers, DnsNeedsRoutes, TypeOK
  <2>. QED
    BY <2>1, <2>2, <2>3
<1>17. ASSUME Restart PROVE PInv'
  <2>1. TypeOK'
    BY <1>17 DEF Restart, Goto, machine, TypeOK
  <2>2. UndoShape' /\ RoutesAhead' /\ NothingBefore' /\ UndoCovers'
    BY <1>17 DEF Restart, Goto, machine, UndoShape, RoutesAhead, Adding, NothingBefore, UndoCovers
  <2>3. DnsNeedsRoutes'
    BY <1>17 DEF Restart, Goto, machine, DnsNeedsRoutes, Registered
  <2>. QED
    BY <2>1, <2>2, <2>3
<1>18. CASE UNCHANGED vars
  BY <1>18 DEF vars, proc, machine, TypeOK, UndoShape, IsRoute, RoutesAhead, Ahead, Adding,
     NothingBefore, UndoCovers, DnsNeedsRoutes, Registered
<1>. QED
  BY <1>1, <1>2, <1>3, <1>4, <1>5, <1>6, <1>7, <1>8, <1>9, <1>10, <1>11, <1>12, <1>13, <1>14,
     <1>15, <1>16, <1>17, <1>18 DEF Next

\* The invariant the theorems below rest on.
THEOREM PInvHolds == Spec => []PInv
  BY InitPInv, StepPInv, PTL DEF Spec

\* On macOS and Windows, whatever of the tunnel is on the machine once apply
\* is past the keys of earlier runs is registered for undo, wherever apply
\* stops, and hence gone after a revert whose commands worked.
THEOREM PlatformUndoIsComplete == Spec => []UndoCovers
<1>1. PInv => UndoCovers
  BY DEF PInv
<1>. QED
  BY PInvHolds, <1>1, PTL

\* The tunnel's resolver is set last and taken back first, also when routes
\* are replaced, requested twice or already there.
THEOREM PlatformDnsNeedsRoutes == Spec => []DnsNeedsRoutes
<1>1. PInv => DnsNeedsRoutes
  BY DEF PInv
<1>. QED
  BY PInvHolds, <1>1, PTL
=============================================================================
