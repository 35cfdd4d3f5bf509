---------------------- MODULE LinuxConfiguratorProofs ----------------------
(***************************************************************************)
(* Proofs about LinuxConfigurator for every set of prefixes and every      *)
(* route plan, with commands failing half way, the machine rewriting       *)
(* /etc/resolv.conf and the process dying anywhere.                        *)
(***************************************************************************)
EXTENDS LinuxConfigurator, SequenceTheorems, TLAPS

IsRoute(i) == undo[i] \in {RouteUndo(c) : c \in Cidrs}

\* The undo list is routes, then at most one DNS entry.
UndoShape ==
  /\ pc \in {"addr", "routes", "dns", "backup", "removing"} => \A i \in 1..Len(undo) : IsRoute(i)
  /\ pc \in {"idle", "dead", "down"} => undo = << >>
  /\ \A i \in 1..Len(undo) : i # Len(undo) => IsRoute(i)
  /\ pc = "tee" => Registered(ResolvConfUndo)

\* A backup exists whenever resolv.conf is about to be restored and whenever
\* netm's hand is in it, and is never netm's own file.
BackupSound ==
  /\ Registered(ResolvConfUndo) => backup # "none"
  /\ backup \notin OfNetm
  /\ resolv \in OfNetm => backup # "none"
  /\ pc = "removing" => resolv \notin OfNetm

\* A backup that is not spoilt is the machine's own file, and nobody but netm
\* has put anything else in its place.
BackupCurrent == ~spoilt => backup \in {own, "none"} /\ resolv \in {own} \cup OfNetm

\* The device's routes and resolver settings are gone with the device.
NothingWithoutDevice ==
  pc \in {"idle", "dead"} => ~link /\ \A c \in Cidrs : route[c] # "tun"

\* UndoCovers, and the same for the backup this session has made.
Covered ==
  InSession /\ undoOk =>
    /\ \A c \in Cidrs : route[c] = "tun" => Registered(RouteUndo(c))
    /\ link => Registered(ResolvectlUndo)
    /\ Overwritten => Registered(ResolvConfUndo)
    /\ backup \notin {"none", "torn", before.backup} =>
         Registered(ResolvConfUndo) \/ pc = "removing"

LInv == TypeOK /\ UndoShape /\ BackupSound /\ BackupCurrent /\ NothingWithoutDevice /\ Covered

-----------------------------------------------------------------------------
(* What a push and a pop do to the undo list. *)

LEMMA UndosDiffer ==
  /\ ResolvectlUndo # ResolvConfUndo
  /\ \A c \in Cidrs : RouteUndo(c) # ResolvectlUndo /\ RouteUndo(c) # ResolvConfUndo
  /\ \A c, d \in Cidrs : RouteUndo(c) = RouteUndo(d) => c = d
<1>1. /\ ResolvectlUndo.kind = "resolvectl" /\ ResolvConfUndo.kind = "resolvconf"
      /\ \A c \in Cidrs : RouteUndo(c).kind = "route" /\ RouteUndo(c).cidr = c
  BY DEF ResolvectlUndo, ResolvConfUndo, RouteUndo
<1>2. "resolvectl" # "resolvconf" /\ "route" # "resolvectl" /\ "route" # "resolvconf"
  OBVIOUS
<1>. QED
  BY <1>1, <1>2

LEMMA Front ==
  ASSUME NEW S, NEW s \in Seq(S), NEW n \in Nat, n = Len(s) - 1
  PROVE  /\ SubSeq(s, 1, n) \in Seq(S)
         /\ Len(SubSeq(s, 1, n)) = n
         /\ \A i \in 1..n : SubSeq(s, 1, n)[i] = s[i]
<1>1. 1 \in Int /\ n \in Int
  OBVIOUS
<1>2. \A i \in 1..n : s[i] \in S
  BY <1>1, ElementOfSeq
<1>3. SubSeq(s, 1, n) \in Seq(S)
  BY <1>1, <1>2, SubSeqProperties
<1>4. Len(SubSeq(s, 1, n)) = n
  BY <1>1, <1>2, SubSeqProperties
<1>5. \A i \in 1..n : SubSeq(s, 1, n)[i] = s[i]
  BY <1>1, <1>2, SubSeqProperties
<1>. QED
  BY <1>3, <1>4, <1>5

LEMMA Pushed ==
  ASSUME NEW u \in Undos, undo \in Seq(Undos), undo' = Append(undo, u)
  PROVE  /\ undo' \in Seq(Undos)
         /\ Len(undo') = Len(undo) + 1
         /\ undo'[Len(undo')] = u
         /\ \A i \in 1..Len(undo) : undo'[i] = undo[i]
         /\ Registered(u)'
         /\ \A v : Registered(v) => Registered(v)'
         /\ \A v : Registered(v)' => Registered(v) \/ v = u
<1>1. undo' \in Seq(Undos) /\ Len(undo') = Len(undo) + 1 /\ undo'[Len(undo) + 1] = u /\ Len(undo) \in Nat
  OBVIOUS
<1>2. \A i \in 1..Len(undo) : undo'[i] = undo[i]
  OBVIOUS
<1>3. Len(undo') \in 1..Len(undo') /\ \A i \in 1..Len(undo') : i \in 1..Len(undo) \/ i = Len(undo')
  BY <1>1
<1>4. \A i \in 1..Len(undo) : i \in 1..Len(undo')
  BY <1>1
<1>. QED
  BY <1>1, <1>2, <1>3, <1>4 DEF Registered

LEMMA PoppedOff ==
  ASSUME undo \in Seq(Undos), undo # << >>, undo' = SubSeq(undo, 1, Len(undo) - 1)
  PROVE  /\ undo' \in Seq(Undos)
         /\ Len(undo') = Len(undo) - 1
         /\ \A i \in 1..Len(undo') : i \in 1..Len(undo) /\ i # Len(undo) /\ undo'[i] = undo[i]
         /\ Popped \in Undos /\ Registered(Popped)
         /\ \A v : Registered(v) => Registered(v)' \/ v = Popped
         /\ \A v : Registered(v)' => Registered(v)
<1>1. Len(undo) \in Nat /\ Len(undo) > 0
  OBVIOUS
<1>2. undo' \in Seq(Undos) /\ Len(undo') = Len(undo) - 1 /\ \A i \in 1..Len(undo) - 1 : undo'[i] = undo[i]
  <2>1. Len(undo) - 1 \in Nat
    BY <1>1
  <2>. QED
    BY <2>1, Front
<1>3. \A i \in 1..Len(undo') : i \in 1..Len(undo) /\ i # Len(undo) /\ undo'[i] = undo[i]
  BY <1>1, <1>2
<1>4. \A i \in 1..Len(undo) : i = Len(undo) \/ i \in 1..Len(undo')
  BY <1>1, <1>2
<1>5. Popped \in Undos /\ Registered(Popped)
  BY <1>1 DEF Popped, Registered
<1>. QED
  BY <1>2, <1>3, <1>4, <1>5 DEF Registered, Popped

LEMMA PoppedKind ==
  ASSUME Popped \in Undos
  PROVE  /\ Popped.kind = "route" => Popped.cidr \in Cidrs /\ Popped = RouteUndo(Popped.cidr)
         /\ Popped.kind = "resolvectl" => Popped = ResolvectlUndo
         /\ Popped.kind = "resolvconf" => Popped = ResolvConfUndo
  BY DEF Undos, RouteUndo, ResolvectlUndo, ResolvConfUndo

LEMMA EmptyUndo == undo = << >> => \A v : ~Registered(v)
  BY DEF Registered

-----------------------------------------------------------------------------
(* One lemma per conjunct of the invariant, one step per action. *)

LEMMA TypeStep ==
  ASSUME LInv, [Next]_vars
  PROVE  TypeOK'
<1> USE DEF LInv, TypeOK, BackupSound, Contents, Originals, OfNetm, Routes
<1>1. ASSUME NEW p \in Plans, Apply(p) PROVE TypeOK'
  <2>1. p.routes \in Seq(Cidrs)
    BY <1>1, PlansAssumption
  <2>2. undo' \in Seq(Undos)
    BY <1>1 DEF Apply
  <2>3. before' \in Snapshots
    BY <1>1 DEF Apply, Snapshots
  <2>. QED
    BY <1>1, <2>1, <2>2, <2>3 DEF Apply, machine
<1>2. ASSUME EnsureAddress PROVE TypeOK'
  BY <1>2 DEF EnsureAddress, Goto, Fail, machine, history
<1>3. ASSUME AddRoute PROVE TypeOK'
  <2>1. CASE Fail /\ UNCHANGED route
    BY <1>3, <2>1 DEF AddRoute, Fail, history
  <2>2. CASE undo' = Append(undo, RouteUndo(Head(todo)))
    <3>1. Head(todo) \in Cidrs /\ Tail(todo) \in Seq(Cidrs)
      BY <1>3 DEF AddRoute
    <3>2. RouteUndo(Head(todo)) \in Undos
      BY <3>1 DEF Undos
    <3>3. undo' \in Seq(Undos)
      BY <2>2, <3>2, Pushed
    <3>. QED
      BY <1>3, <3>1, <3>3 DEF AddRoute, Fail, history
  <2>. QED
    BY <1>3, <2>1, <2>2 DEF AddRoute
<1>4. ASSUME ChooseDns PROVE TypeOK'
  BY <1>4 DEF ChooseDns, Goto, machine, history
<1>5. ASSUME ResolvectlDns PROVE TypeOK'
  <2>1. CASE Fail
    BY <1>5, <2>1 DEF ResolvectlDns, Fail, history, Registered
  <2>2. CASE undo' = Append(undo, ResolvectlUndo)
    <3>1. ResolvectlUndo \in Undos
      BY DEF Undos
    <3>2. undo' \in Seq(Undos)
      BY <2>2, <3>1, Pushed
    <3>. QED
      BY <1>5, <3>2 DEF ResolvectlDns, Fail, history
  <2>. QED
    BY <1>5, <2>1, <2>2 DEF ResolvectlDns
<1>6. ASSUME ResolvectlDomain PROVE TypeOK'
  BY <1>6 DEF ResolvectlDomain, Goto, Fail, machine, history
<1>7. ASSUME BackupResolv PROVE TypeOK'
  <2>1. CASE Fail
    BY <1>7, <2>1 DEF BackupResolv, Fail, history, Registered
  <2>2. CASE undo' = Append(undo, ResolvConfUndo)
    <3>1. ResolvConfUndo \in Undos
      BY DEF Undos
    <3>2. undo' \in Seq(Undos)
      BY <2>2, <3>1, Pushed
    <3>. QED
      BY <1>7, <3>2 DEF BackupResolv, Fail, history
  <2>. QED
    BY <1>7, <2>1, <2>2 DEF BackupResolv
<1>8. ASSUME WriteResolv PROVE TypeOK'
  BY <1>8 DEF WriteResolv, Goto, Fail, history
<1>9. ASSUME Revert PROVE TypeOK'
  BY <1>9 DEF Revert, machine, history
<1>10. ASSUME UndoRoute PROVE TypeOK'
  <2>1. undo' \in Seq(Undos) /\ Popped \in Undos
    BY <1>10, PoppedOff DEF UndoRoute, Pop
  <2>2. Popped.cidr \in Cidrs
    BY <1>10, <2>1, PoppedKind DEF UndoRoute, Pop, Popped
  <2>3. route' \in [Cidrs -> {"none", "other", "tun"}]
    BY <1>10, <2>2 DEF UndoRoute
  <2>. QED
    BY <1>10, <2>1, <2>3 DEF UndoRoute, Pop
<1>11. ASSUME UndoResolvectl PROVE TypeOK'
  <2>1. undo' \in Seq(Undos) /\ Popped \in Undos
    BY <1>11, PoppedOff DEF UndoResolvectl, Pop
  <2>. QED
    BY <1>11, <2>1 DEF UndoResolvectl, Pop
<1>12. ASSUME RestoreResolv PROVE TypeOK'
  <2>1. undo' \in Seq(Undos) /\ Popped \in Undos /\ Registered(Popped)
    BY <1>12, PoppedOff DEF RestoreResolv, Pop
  <2>2. Popped = ResolvConfUndo
    BY <1>12, <2>1, PoppedKind DEF RestoreResolv, Pop, Popped
  <2>3. backup # "none"
    BY <2>1, <2>2
  <2>. QED
    BY <1>12, <2>1, <2>3 DEF RestoreResolv, Pop
<1>13. ASSUME RemoveBackup PROVE TypeOK'
  BY <1>13 DEF RemoveBackup, Goto
<1>14. ASSUME FinishRevert PROVE TypeOK'
  BY <1>14 DEF FinishRevert, Goto, machine, history
<1>15. ASSUME DropTun PROVE TypeOK'
  BY <1>15 DEF DropTun, Goto, DeviceGone, history
<1>16. ASSUME Crash PROVE TypeOK'
  <2>1. undo' \in Seq(Undos) /\ todo' \in Seq(Cidrs)
    BY <1>16 DEF Crash
  <2>. QED
    BY <1>16, <2>1 DEF Crash, DeviceGone, history
<1>17. ASSUME Restart PROVE TypeOK'
  BY <1>17 DEF Restart, Goto, machine, history
<1>18. ASSUME NEW new \in Originals, HostRewrite(new) PROVE TypeOK'
  BY <1>18 DEF HostRewrite, proc
<1>19. CASE UNCHANGED vars
  BY <1>19 DEF vars, proc, machine, history, Registered
<1>. QED
  BY <1>1, <1>2, <1>3, <1>4, <1>5, <1>6, <1>7, <1>8, <1>9, <1>10, <1>11, <1>12, <1>13, <1>14,
     <1>15, <1>16, <1>17, <1>18, <1>19 DEF Next

LEMMA ShapeStep ==
  ASSUME LInv, [Next]_vars
  PROVE  UndoShape'
<1> USE DEF LInv, TypeOK, UndoShape, IsRoute, Registered
<1>1. ASSUME NEW p \in Plans, Apply(p) PROVE UndoShape'
  BY <1>1 DEF Apply, machine
<1>2. ASSUME EnsureAddress PROVE UndoShape'
  BY <1>2 DEF EnsureAddress, Goto, Fail, machine, history
<1>3. ASSUME AddRoute PROVE UndoShape'
  <2>1. CASE Fail
    BY <1>3, <2>1 DEF AddRoute, Fail, history, Registered
  <2>2. CASE undo' = Append(undo, RouteUndo(Head(todo)))
    <3>0. PICK c \in Cidrs : c = Head(todo)
      BY <1>3 DEF AddRoute
    <3>1. RouteUndo(c) \in Undos
      BY DEF Undos
    <3>2. /\ Len(undo') = Len(undo) + 1 /\ undo'[Len(undo')] = RouteUndo(c) /\ Len(undo) \in Nat
          /\ \A i \in 1..Len(undo) : undo'[i] = undo[i]
          /\ Registered(RouteUndo(c))'
          /\ \A v : Registered(v) => Registered(v)'
          /\ \A v : Registered(v)' => Registered(v) \/ v = RouteUndo(c)
      BY <2>2, <3>0, <3>1, Pushed
    <3>3. \A i \in 1..Len(undo') : IsRoute(i)'
      <4>1. \A i \in 1..Len(undo') : i \in 1..Len(undo) \/ i = Len(undo')
        BY <3>2
      <4>. QED
        BY <1>3, <3>2, <4>1 DEF AddRoute
    <3>. QED
      BY <1>3, <3>3, <2>2 DEF AddRoute, Fail
  <2>. QED
    BY <1>3, <2>1, <2>2 DEF AddRoute
<1>4. ASSUME ChooseDns PROVE UndoShape'
  BY <1>4 DEF ChooseDns, Goto, machine, history
<1>5. ASSUME ResolvectlDns PROVE UndoShape'
  <2>1. CASE Fail
    BY <1>5, <2>1 DEF ResolvectlDns, Fail, history, Registered
  <2>2. CASE undo' = Append(undo, ResolvectlUndo)
    <3>1. ResolvectlUndo \in Undos
      BY DEF Undos
    <3>2. /\ Len(undo') = Len(undo) + 1 /\ undo'[Len(undo')] = ResolvectlUndo /\ Len(undo) \in Nat
          /\ \A i \in 1..Len(undo) : undo'[i] = undo[i]
          /\ Registered(ResolvectlUndo)'
          /\ \A v : Registered(v) => Registered(v)'
          /\ \A v : Registered(v)' => Registered(v) \/ v = ResolvectlUndo
      BY <2>2, <3>1, Pushed
    <3>3. \A i \in 1..Len(undo') : i \in 1..Len(undo) \/ i = Len(undo')
      BY <3>2
    <3>4. \A i \in 1..Len(undo') : i # Len(undo') => IsRoute(i)'
      BY <1>5, <3>2, <3>3 DEF ResolvectlDns
    <3>5. pc' \in {"domain", "tee", "failed"}
      BY <1>5 DEF ResolvectlDns, Fail
    <3>6. pc' = "tee" => Registered(ResolvConfUndo)'
      BY <1>5, <3>2 DEF ResolvectlDns, Fail
    <3>. QED
      BY <3>4, <3>5, <3>6
  <2>. QED
    BY <1>5, <2>1, <2>2 DEF ResolvectlDns
<1>6. ASSUME ResolvectlDomain PROVE UndoShape'
  BY <1>6 DEF ResolvectlDomain, Goto, Fail, machine, history
<1>7. ASSUME BackupResolv PROVE UndoShape'
  <2>1. CASE Fail
    BY <1>7, <2>1 DEF BackupResolv, Fail, history, Registered
  <2>2. CASE undo' = Append(undo, ResolvConfUndo)
    <3>1. ResolvConfUndo \in Undos
      BY DEF Undos
    <3>2. /\ Len(undo') = Len(undo) + 1 /\ undo'[Len(undo')] = ResolvConfUndo /\ Len(undo) \in Nat
          /\ \A i \in 1..Len(undo) : undo'[i] = undo[i]
          /\ Registered(ResolvConfUndo)'
          /\ \A v : Registered(v) => Registered(v)'
          /\ \A v : Registered(v)' => Registered(v) \/ v = ResolvConfUndo
      BY <2>2, <3>1, Pushed
    <3>3. \A i \in 1..Len(undo') : i \in 1..Len(undo) \/ i = Len(undo')
      BY <3>2
    <3>4. \A i \in 1..Len(undo') : i # Len(undo') => IsRoute(i)'
      BY <1>7, <3>2, <3>3 DEF BackupResolv
    <3>5. pc' \in {"domain", "tee", "failed"}
      BY <1>7 DEF BackupResolv, Fail
    <3>6. pc' = "tee" => Registered(ResolvConfUndo)'
      BY <1>7, <3>2 DEF BackupResolv, Fail
    <3>. QED
      BY <3>4, <3>5, <3>6
  <2>. QED
    BY <1>7, <2>1, <2>2 DEF BackupResolv
<1>8. ASSUME WriteResolv PROVE UndoShape'
  BY <1>8 DEF WriteResolv, Goto, Fail, history
<1>9. ASSUME Revert PROVE UndoShape'
  BY <1>9 DEF Revert, machine, history
<1>10. ASSUME UndoRoute PROVE UndoShape'
  <2>1. \A i \in 1..Len(undo') : i \in 1..Len(undo) /\ i # Len(undo) /\ undo'[i] = undo[i]
    BY <1>10, PoppedOff DEF UndoRoute, Pop
  <2>2. \A i \in 1..Len(undo') : IsRoute(i)'
    BY <2>1
  <2>3. pc' \in {"reverting", "removing"}
    BY <1>10 DEF UndoRoute, Pop
  <2>. QED
    BY <2>2, <2>3
<1>11. ASSUME UndoResolvectl PROVE UndoShape'
  <2>1. \A i \in 1..Len(undo') : i \in 1..Len(undo) /\ i # Len(undo) /\ undo'[i] = undo[i]
    BY <1>11, PoppedOff DEF UndoResolvectl, Pop
  <2>2. \A i \in 1..Len(undo') : IsRoute(i)'
    BY <2>1
  <2>3. pc' \in {"reverting", "removing"}
    BY <1>11 DEF UndoResolvectl, Pop
  <2>. QED
    BY <2>2, <2>3
<1>12. ASSUME RestoreResolv PROVE UndoShape'
  <2>1. \A i \in 1..Len(undo') : i \in 1..Len(undo) /\ i # Len(undo) /\ undo'[i] = undo[i]
    BY <1>12, PoppedOff DEF RestoreResolv, Pop
  <2>2. \A i \in 1..Len(undo') : IsRoute(i)'
    BY <2>1
  <2>3. pc' \in {"reverting", "removing"}
    BY <1>12 DEF RestoreResolv, Pop
  <2>. QED
    BY <2>2, <2>3
<1>13. ASSUME RemoveBackup PROVE UndoShape'
  BY <1>13 DEF RemoveBackup, Goto
<1>14. ASSUME FinishRevert PROVE UndoShape'
  BY <1>14 DEF FinishRevert, Goto, machine, history
<1>15. ASSUME DropTun PROVE UndoShape'
  BY <1>15 DEF DropTun, Goto, DeviceGone, history
<1>16. ASSUME Crash PROVE UndoShape'
  BY <1>16 DEF Crash, DeviceGone, history
<1>17. ASSUME Restart PROVE UndoShape'
  BY <1>17 DEF Restart, Goto, machine, history
<1>18. ASSUME NEW new \in Originals, HostRewrite(new) PROVE UndoShape'
  BY <1>18 DEF HostRewrite, proc
<1>19. CASE UNCHANGED vars
  BY <1>19 DEF vars, proc, machine, history, Registered
<1>. QED
  BY <1>1, <1>2, <1>3, <1>4, <1>5, <1>6, <1>7, <1>8, <1>9, <1>10, <1>11, <1>12, <1>13, <1>14,
     <1>15, <1>16, <1>17, <1>18, <1>19 DEF Next

LEMMA BackupStep ==
  ASSUME LInv, [Next]_vars
  PROVE  BackupSound'
<1> USE DEF LInv, TypeOK, BackupSound, Contents, Originals, OfNetm, Routes
<1>1. ASSUME NEW p \in Plans, Apply(p) PROVE BackupSound'
  <2>1. ~Registered(ResolvConfUndo)'
    BY <1>1 DEF Apply, Registered
  <2>. QED
    BY <1>1, <2>1 DEF Apply, machine
<1>2. ASSUME EnsureAddress PROVE BackupSound'
  BY <1>2 DEF EnsureAddress, Goto, Fail, machine, history, Registered
<1>3. ASSUME AddRoute PROVE BackupSound'
  <2>1. CASE Fail
    BY <1>3, <2>1 DEF AddRoute, Fail, history, Registered
  <2>2. CASE undo' = Append(undo, RouteUndo(Head(todo)))
    <3>0. PICK c \in Cidrs : c = Head(todo)
      BY <1>3 DEF AddRoute
    <3>1. RouteUndo(c) \in Undos
      BY DEF Undos
    <3>2. /\ Len(undo') = Len(undo) + 1 /\ undo'[Len(undo')] = RouteUndo(c) /\ Len(undo) \in Nat
          /\ \A i \in 1..Len(undo) : undo'[i] = undo[i]
          /\ Registered(RouteUndo(c))'
          /\ \A v : Registered(v) => Registered(v)'
          /\ \A v : Registered(v)' => Registered(v) \/ v = RouteUndo(c)
      BY <2>2, <3>0, <3>1, Pushed
    <3>3. Registered(ResolvConfUndo)' => Registered(ResolvConfUndo)
      BY <1>3, <3>2, UndosDiffer DEF AddRoute
    <3>. QED
      BY <1>3, <2>2, <3>0, <3>3 DEF BackupSound, AddRoute, Fail
  <2>. QED
    BY <1>3, <2>1, <2>2 DEF AddRoute
<1>4. ASSUME ChooseDns PROVE BackupSound'
  BY <1>4 DEF ChooseDns, Goto, machine, history, Registered
<1>5. ASSUME ResolvectlDns PROVE BackupSound'
  <2>1. CASE Fail
    BY <1>5, <2>1 DEF ResolvectlDns, Fail, history, Registered
  <2>2. CASE undo' = Append(undo, ResolvectlUndo)
    <3>1. ResolvectlUndo \in Undos
      BY DEF Undos
    <3>2. /\ Len(undo') = Len(undo) + 1 /\ undo'[Len(undo')] = ResolvectlUndo /\ Len(undo) \in Nat
          /\ \A i \in 1..Len(undo) : undo'[i] = undo[i]
          /\ Registered(ResolvectlUndo)'
          /\ \A v : Registered(v) => Registered(v)'
          /\ \A v : Registered(v)' => Registered(v) \/ v = ResolvectlUndo
      BY <2>2, <3>1, Pushed
    <3>3. Registered(ResolvConfUndo)' => Registered(ResolvConfUndo)
      BY <1>5, <3>2, UndosDiffer DEF ResolvectlDns
    <3>. QED
      BY <1>5, <2>2, <3>3 DEF BackupSound, ResolvectlDns, Fail
  <2>. QED
    BY <1>5, <2>1, <2>2 DEF ResolvectlDns
<1>6. ASSUME ResolvectlDomain PROVE BackupSound'
  BY <1>6 DEF ResolvectlDomain, Goto, Fail, machine, history, Registered
<1>7. ASSUME BackupResolv PROVE BackupSound'
  <2>1. CASE Fail
    BY <1>7, <2>1 DEF BackupResolv, Fail, history, Registered
  <2>2. CASE undo' = Append(undo, ResolvConfUndo)
    <3>1. ResolvConfUndo \in Undos
      BY DEF Undos
    <3>2. /\ Len(undo') = Len(undo) + 1 /\ undo'[Len(undo')] = ResolvConfUndo /\ Len(undo) \in Nat
          /\ \A i \in 1..Len(undo) : undo'[i] = undo[i]
          /\ Registered(ResolvConfUndo)'
          /\ \A v : Registered(v) => Registered(v)'
          /\ \A v : Registered(v)' => Registered(v) \/ v = ResolvConfUndo
      BY <2>2, <3>1, Pushed
    <3>3. resolv' = resolv /\ backup' = (IF backup = "none" THEN resolv ELSE backup) /\ pc' = "tee"
      BY <1>7, <2>2, <3>2 DEF BackupResolv, Fail
    <3>. QED
      BY <1>7, <2>2, <3>3 DEF BackupSound, BackupResolv
  <2>. QED
    BY <1>7, <2>1, <2>2 DEF BackupResolv
<1>8. ASSUME WriteResolv PROVE BackupSound'
  BY <1>8 DEF WriteResolv, Goto, Fail, history, Registered, UndoShape
<1>9. ASSUME Revert PROVE BackupSound'
  BY <1>9 DEF Revert, machine, history, Registered
<1>10. ASSUME UndoRoute PROVE BackupSound'
  <2>1. Registered(ResolvConfUndo)' => Registered(ResolvConfUndo)
    BY <1>10, PoppedOff DEF UndoRoute, Pop
  <2>. QED
    BY <1>10, <2>1 DEF UndoRoute, Pop
<1>11. ASSUME UndoResolvectl PROVE BackupSound'
  <2>1. Registered(ResolvConfUndo)' => Registered(ResolvConfUndo)
    BY <1>11, PoppedOff DEF UndoResolvectl, Pop
  <2>. QED
    BY <1>11, <2>1 DEF UndoResolvectl, Pop
<1>12. ASSUME RestoreResolv PROVE BackupSound'
  <2>1. Registered(ResolvConfUndo)' => Registered(ResolvConfUndo)
    BY <1>12, PoppedOff DEF RestoreResolv, Pop
  <2>2. Popped \in Undos /\ Registered(Popped)
    BY <1>12, PoppedOff DEF RestoreResolv, Pop
  <2>3. Popped = ResolvConfUndo
    BY <1>12, <2>2, PoppedKind DEF RestoreResolv, Pop, Popped
  <2>. QED
    BY <1>12, <2>1, <2>2, <2>3 DEF RestoreResolv, Pop
<1>13. ASSUME RemoveBackup PROVE BackupSound'
  <2>1. ~Registered(ResolvConfUndo)
    BY <1>13, UndosDiffer DEF RemoveBackup, UndoShape, IsRoute, Registered
  <2>. QED
    BY <1>13, <2>1 DEF RemoveBackup, Goto, Registered
<1>14. ASSUME FinishRevert PROVE BackupSound'
  BY <1>14 DEF FinishRevert, Goto, machine, history, Registered
<1>15. ASSUME DropTun PROVE BackupSound'
  BY <1>15 DEF DropTun, Goto, DeviceGone, history, Registered
<1>16. ASSUME Crash PROVE BackupSound'
  <2>1. ~Registered(ResolvConfUndo)'
    BY <1>16 DEF Crash, Registered
  <2>. QED
    BY <1>16, <2>1 DEF Crash, DeviceGone, history
<1>17. ASSUME Restart PROVE BackupSound'
  BY <1>17 DEF Restart, Goto, machine, history, Registered
<1>18. ASSUME NEW new \in Originals, HostRewrite(new) PROVE BackupSound'
  BY <1>18 DEF HostRewrite, proc, Registered
<1>19. CASE UNCHANGED vars
  BY <1>19 DEF vars, proc, machine, history, Registered
<1>. QED
  BY <1>1, <1>2, <1>3, <1>4, <1>5, <1>6, <1>7, <1>8, <1>9, <1>10, <1>11, <1>12, <1>13, <1>14,
     <1>15, <1>16, <1>17, <1>18, <1>19 DEF Next

LEMMA OriginalStep ==
  ASSUME LInv, [Next]_vars
  PROVE  (BackupCurrent /\ NothingWithoutDevice)'
<1> USE DEF LInv, TypeOK, BackupSound, BackupCurrent, NothingWithoutDevice, Contents, Originals, OfNetm, Routes
<1>1. ASSUME NEW p \in Plans, Apply(p) PROVE (BackupCurrent /\ NothingWithoutDevice)'
  BY <1>1 DEF Apply, machine
<1>2. ASSUME EnsureAddress PROVE (BackupCurrent /\ NothingWithoutDevice)'
  BY <1>2 DEF EnsureAddress, Goto, Fail, machine, history
<1>3. ASSUME AddRoute PROVE (BackupCurrent /\ NothingWithoutDevice)'
  BY <1>3 DEF AddRoute, Fail, history
<1>4. ASSUME ChooseDns PROVE (BackupCurrent /\ NothingWithoutDevice)'
  BY <1>4 DEF ChooseDns, Goto, machine, history
<1>5. ASSUME ResolvectlDns PROVE (BackupCurrent /\ NothingWithoutDevice)'
  BY <1>5 DEF ResolvectlDns, Fail, history
<1>6. ASSUME ResolvectlDomain PROVE (BackupCurrent /\ NothingWithoutDevice)'
  BY <1>6 DEF ResolvectlDomain, Goto, Fail, machine, history
<1>7. ASSUME BackupResolv PROVE (BackupCurrent /\ NothingWithoutDevice)'
  BY <1>7 DEF BackupResolv, Fail, history
<1>8. ASSUME WriteResolv PROVE (BackupCurrent /\ NothingWithoutDevice)'
  BY <1>8 DEF WriteResolv, Goto, Fail, history
<1>9. ASSUME Revert PROVE (BackupCurrent /\ NothingWithoutDevice)'
  BY <1>9 DEF Revert, machine, history
<1>10. ASSUME UndoRoute PROVE (BackupCurrent /\ NothingWithoutDevice)'
  BY <1>10 DEF UndoRoute, Pop, Popped
<1>11. ASSUME UndoResolvectl PROVE (BackupCurrent /\ NothingWithoutDevice)'
  BY <1>11 DEF UndoResolvectl, Pop
<1>12. ASSUME RestoreResolv PROVE (BackupCurrent /\ NothingWithoutDevice)'
  <2>1. undo' \in Seq(Undos) /\ Popped \in Undos /\ Registered(Popped)
    BY <1>12, PoppedOff DEF RestoreResolv, Pop
  <2>2. Popped = ResolvConfUndo
    BY <1>12, <2>1, PoppedKind DEF RestoreResolv, Pop, Popped
  <2>3. backup # "none"
    BY <2>1, <2>2
  <2>. QED
    BY <1>12, <2>1, <2>3 DEF RestoreResolv, Pop
<1>13. ASSUME RemoveBackup PROVE (BackupCurrent /\ NothingWithoutDevice)'
  BY <1>13 DEF RemoveBackup, Goto
<1>14. ASSUME FinishRevert PROVE (BackupCurrent /\ NothingWithoutDevice)'
  BY <1>14 DEF FinishRevert, Goto, machine, history
<1>15. ASSUME DropTun PROVE (BackupCurrent /\ NothingWithoutDevice)'
  BY <1>15 DEF DropTun, Goto, DeviceGone, history
<1>16. ASSUME Crash PROVE (BackupCurrent /\ NothingWithoutDevice)'
  BY <1>16 DEF Crash, DeviceGone, history
<1>17. ASSUME Restart PROVE (BackupCurrent /\ NothingWithoutDevice)'
  BY <1>17 DEF Restart, Goto, machine, history
<1>18. ASSUME NEW new \in Originals, HostRewrite(new) PROVE (BackupCurrent /\ NothingWithoutDevice)'
  BY <1>18 DEF HostRewrite, proc
<1>19. CASE UNCHANGED vars
  BY <1>19 DEF vars, proc, machine, history, Registered
<1>. QED
  BY <1>1, <1>2, <1>3, <1>4, <1>5, <1>6, <1>7, <1>8, <1>9, <1>10, <1>11, <1>12, <1>13, <1>14,
     <1>15, <1>16, <1>17, <1>18, <1>19 DEF Next

LEMMA CoverStep ==
  ASSUME LInv, [Next]_vars
  PROVE  Covered'
<1> USE DEF LInv, TypeOK, Covered, UndoShape, BackupSound, NothingWithoutDevice, InSession,
      Overwritten, Contents, Originals, OfNetm, Routes
<1>1. ASSUME NEW p \in Plans, Apply(p) PROVE Covered'
  BY <1>1 DEF Apply, machine
<1>2. ASSUME EnsureAddress PROVE Covered'
  BY <1>2 DEF EnsureAddress, Goto, Fail, machine, history, Registered
<1>3. ASSUME AddRoute PROVE Covered'
  <2>1. CASE Fail
    BY <1>3, <2>1 DEF AddRoute, Fail, history, Registered
  <2>2. CASE undo' = Append(undo, RouteUndo(Head(todo)))
    <3>0. PICK c \in Cidrs : c = Head(todo)
      BY <1>3 DEF AddRoute
    <3>1. RouteUndo(c) \in Undos
      BY DEF Undos
    <3>2. /\ Len(undo') = Len(undo) + 1 /\ undo'[Len(undo')] = RouteUndo(c) /\ Len(undo) \in Nat
          /\ \A i \in 1..Len(undo) : undo'[i] = undo[i]
          /\ Registered(RouteUndo(c))'
          /\ \A v : Registered(v) => Registered(v)'
          /\ \A v : Registered(v)' => Registered(v) \/ v = RouteUndo(c)
      BY <2>2, <3>0, <3>1, Pushed
    <3>3. \A d \in Cidrs : route'[d] = "tun" /\ undoOk => Registered(RouteUndo(d))'
      BY <1>3, <2>2, <3>0, <3>2 DEF AddRoute, Fail
    <3>. QED
      BY <1>3, <2>2, <3>0, <3>2, <3>3 DEF AddRoute, Fail, history
  <2>. QED
    BY <1>3, <2>1, <2>2 DEF AddRoute
<1>4. ASSUME ChooseDns PROVE Covered'
  BY <1>4 DEF ChooseDns, Goto, machine, history, Registered
<1>5. ASSUME ResolvectlDns PROVE Covered'
  <2>1. CASE Fail
    BY <1>5, <2>1 DEF ResolvectlDns, Fail, history, Registered
  <2>2. CASE undo' = Append(undo, ResolvectlUndo)
    <3>1. ResolvectlUndo \in Undos
      BY DEF Undos
    <3>2. /\ Len(undo') = Len(undo) + 1 /\ undo'[Len(undo')] = ResolvectlUndo /\ Len(undo) \in Nat
          /\ \A i \in 1..Len(undo) : undo'[i] = undo[i]
          /\ Registered(ResolvectlUndo)'
          /\ \A v : Registered(v) => Registered(v)'
          /\ \A v : Registered(v)' => Registered(v) \/ v = ResolvectlUndo
      BY <2>2, <3>1, Pushed
    <3>. QED
      BY <1>5, <2>2, <3>2 DEF ResolvectlDns, Fail, history
  <2>. QED
    BY <1>5, <2>1, <2>2 DEF ResolvectlDns
<1>6. ASSUME ResolvectlDomain PROVE Covered'
  BY <1>6 DEF ResolvectlDomain, Goto, Fail, machine, history, Registered
<1>7. ASSUME BackupResolv PROVE Covered'
  <2>1. CASE Fail
    BY <1>7, <2>1 DEF BackupResolv, Fail, history, Registered
  <2>2. CASE undo' = Append(undo, ResolvConfUndo)
    <3>1. ResolvConfUndo \in Undos
      BY DEF Undos
    <3>2. /\ Len(undo') = Len(undo) + 1 /\ undo'[Len(undo')] = ResolvConfUndo /\ Len(undo) \in Nat
          /\ \A i \in 1..Len(undo) : undo'[i] = undo[i]
          /\ Registered(ResolvConfUndo)'
          /\ \A v : Registered(v) => Registered(v)'
          /\ \A v : Registered(v)' => Registered(v) \/ v = ResolvConfUndo
      BY <2>2, <3>1, Pushed
    <3>. QED
      BY <1>7, <2>2, <3>2 DEF BackupResolv, Fail, history
  <2>. QED
    BY <1>7, <2>1, <2>2 DEF BackupResolv
<1>8. ASSUME WriteResolv PROVE Covered'
  BY <1>8 DEF WriteResolv, Goto, Fail, history, Registered
<1>9. ASSUME Revert PROVE Covered'
  BY <1>9 DEF Revert, machine, history, Registered
<1>10. ASSUME UndoRoute PROVE Covered'
  <2>1. /\ Popped \in Undos /\ Registered(Popped)
        /\ \A v : Registered(v) => Registered(v)' \/ v = Popped
    BY <1>10, PoppedOff DEF UndoRoute, Pop
  <2>2. Popped = RouteUndo(Popped.cidr) /\ Popped.cidr \in Cidrs
    BY <1>10, <2>1, PoppedKind DEF UndoRoute, Pop, Popped
  <2>. QED
    BY <1>10, <2>1, <2>2, UndosDiffer DEF UndoRoute, Pop
<1>11. ASSUME UndoResolvectl PROVE Covered'
  <2>1. /\ Popped \in Undos /\ Registered(Popped)
        /\ \A v : Registered(v) => Registered(v)' \/ v = Popped
    BY <1>11, PoppedOff DEF UndoResolvectl, Pop
  <2>2. Popped = ResolvectlUndo
    BY <1>11, <2>1, PoppedKind DEF UndoResolvectl, Pop, Popped
  <2>. QED
    BY <1>11, <2>1, <2>2, UndosDiffer DEF UndoResolvectl, Pop
<1>12. ASSUME RestoreResolv PROVE Covered'
  <2>1. /\ Popped \in Undos /\ Registered(Popped)
        /\ \A v : Registered(v) => Registered(v)' \/ v = Popped
    BY <1>12, PoppedOff DEF RestoreResolv, Pop
  <2>2. Popped = ResolvConfUndo
    BY <1>12, <2>1, PoppedKind DEF RestoreResolv, Pop, Popped
  <2>. QED
    BY <1>12, <2>1, <2>2, UndosDiffer DEF RestoreResolv, Pop
<1>13. ASSUME RemoveBackup PROVE Covered'
  BY <1>13 DEF RemoveBackup, Goto, Registered
<1>14. ASSUME FinishRevert PROVE Covered'
  BY <1>14 DEF FinishRevert, Goto, machine, history, Registered
<1>15. ASSUME DropTun PROVE Covered'
  BY <1>15 DEF DropTun, Goto, DeviceGone, history, Registered
<1>16. ASSUME Crash PROVE Covered'
  BY <1>16 DEF Crash, DeviceGone, history
<1>17. ASSUME Restart PROVE Covered'
  BY <1>17 DEF Restart, Goto, machine, history, Registered
<1>18. ASSUME NEW new \in Originals, HostRewrite(new) PROVE Covered'
  BY <1>18 DEF HostRewrite, proc, Registered
<1>19. CASE UNCHANGED vars
  BY <1>19 DEF vars, proc, machine, history, Registered
<1>. QED
  BY <1>1, <1>2, <1>3, <1>4, <1>5, <1>6, <1>7, <1>8, <1>9, <1>10, <1>11, <1>12, <1>13, <1>14,
     <1>15, <1>16, <1>17, <1>18, <1>19 DEF Next

-----------------------------------------------------------------------------
LEMMA InitLInv == Init => LInv
<1> SUFFICES ASSUME Init PROVE LInv
  OBVIOUS
<1>1. before \in Snapshots /\ route \in Routes
  BY DEF Init, Snapshots, Routes, Contents, Originals, OfNetm
<1>2. undo \in Seq(Undos) /\ todo \in Seq(Cidrs) /\ undo = << >> /\ Len(undo) = 0
  BY DEF Init
<1>3. \A v : ~Registered(v)
  BY <1>2, EmptyUndo
<1>4. TypeOK
  BY <1>1, <1>2 DEF Init, TypeOK, Contents, Originals, OfNetm
<1>5. UndoShape
  BY <1>2 DEF Init, UndoShape
<1>6. BackupSound /\ BackupCurrent /\ NothingWithoutDevice /\ Covered
  BY <1>3 DEF Init, BackupSound, BackupCurrent, NothingWithoutDevice, Covered, InSession,
     Contents, Originals, OfNetm
<1>. QED
  BY <1>4, <1>5, <1>6 DEF LInv

\* The invariant all theorems below rest on.
THEOREM LInvHolds == Spec => []LInv
<1>1. LInv /\ [Next]_vars => LInv'
  BY TypeStep, ShapeStep, BackupStep, OriginalStep, CoverStep DEF LInv
<1>. QED
  BY InitLInv, <1>1, PTL DEF Spec

\* apply registers each change it makes before or together with the change:
\* wherever it stops, revert has an entry for every tunnel route, resolver
\* setting and overwritten resolv.conf it left.
THEOREM UndoIsComplete == Spec => []UndoCovers
<1>1. LInv => UndoCovers
  BY DEF LInv, Covered, UndoCovers
<1>. QED
  BY LInvHolds, <1>1, PTL

\* The machine's own resolv.conf is lost only after a backup was cut short or
\* overtaken by a rewrite: no kill, no failed command and no number of further
\* sessions loses it otherwise.
THEOREM NoOtherLoss == Spec => []LossHasCause
<1>1. LInv => LossHasCause
  BY DEF LInv, BackupCurrent, BackupSound, LossHasCause, Originals, OfNetm, TypeOK
<1>. QED
  BY LInvHolds, <1>1, PTL

\* A revert without a failed command leaves no tunnel route, no resolver
\* setting, no file of netm's in place of resolv.conf that it had not found
\* there, and no whole backup of its own.
THEOREM RevertIsComplete == Spec => []RevertLeavesNothing
<1>1. LInv /\ [Next]_vars /\ RevertLeavesNothing => RevertLeavesNothing'
  <2> SUFFICES ASSUME LInv, [Next]_vars, RevertLeavesNothing PROVE RevertLeavesNothing'
    OBVIOUS
  <2>1. CASE FinishRevert
    <3>1. \A v : ~Registered(v)
      BY <2>1, EmptyUndo DEF FinishRevert
    <3>2. undoOk => /\ \A c \in Cidrs : route[c] # "tun"
                    /\ ~link /\ ~Overwritten
                    /\ backup \in {"none", "torn", before.backup}
      BY <2>1, <3>1 DEF FinishRevert, LInv, Covered, InSession
    <3>3. ~Overwritten => resolv \in {own, before.resolv} \/ spoilt
      BY DEF LInv, Overwritten, BackupCurrent, TypeOK
    <3>. QED
      BY <2>1, <3>2, <3>3 DEF FinishRevert, Goto, RevertLeavesNothing, Overwritten, machine, history
  <2>2. CASE UNCHANGED vars
    BY <2>2 DEF vars, proc, machine, history, RevertLeavesNothing, Overwritten
  <2>3. ASSUME NEW new \in Originals, HostRewrite(new) PROVE RevertLeavesNothing'
    BY <2>3 DEF HostRewrite, proc, RevertLeavesNothing, Overwritten, Originals, OfNetm
  <2>4. CASE Next /\ ~FinishRevert /\ ~(\E new \in Originals : HostRewrite(new))
    <3>1. pc' # "down"
      BY <2>4 DEF Next, Apply, EnsureAddress, AddRoute, ChooseDns, ResolvectlDns, ResolvectlDomain,
           BackupResolv, WriteResolv, Revert, UndoRoute, UndoResolvectl, RestoreResolv, RemoveBackup,
           DropTun, Crash, Restart, Goto, Fail, Pop
    <3>. QED
      BY <3>1 DEF RevertLeavesNothing
  <2>. QED
    BY <2>1, <2>2, <2>3, <2>4
<1>2. Init => RevertLeavesNothing
  BY DEF Init, RevertLeavesNothing
<1>. QED
  BY LInvHolds, <1>1, <1>2, PTL DEF Spec

\* Every variable keeps its type; in particular no restore copies a backup
\* that is not there.
THEOREM LinuxTypes == Spec => []TypeOK
<1>1. LInv => TypeOK
  BY DEF LInv
<1>. QED
  BY LInvHolds, <1>1, PTL

-----------------------------------------------------------------------------
(* DNS only together with the routes. *)

Adding == {"addr", "routes", "dns", "backup"}

\* A requested route is in, or still ahead of apply; before the resolver is
\* touched none is ahead.
RoutesAhead ==
  /\ pc \in {"dns", "domain", "backup", "tee"} => todo = << >>
  /\ pc \in Adding /\ undoOk =>
       \A i \in 1..Len(plan.routes) :
         route[plan.routes[i]] = "tun" \/ \E j \in 1..Len(todo) : todo[j] = plan.routes[i]

DInv == RoutesAhead /\ DnsNeedsRoutes

LEMMA OnlyRoutes ==
  ASSUME \A i \in 1..Len(undo) : IsRoute(i)
  PROVE  ~Registered(ResolvectlUndo) /\ ~Registered(ResolvConfUndo)
  BY UndosDiffer DEF IsRoute, Registered

LEMMA DnsStep ==
  ASSUME LInv, LInv', DInv, [Next]_vars
  PROVE  DInv'
<1> USE DEF LInv, DInv, Adding
<1>1. ASSUME NEW p \in Plans, Apply(p) PROVE DInv'
  <2>1. plan' = p /\ todo' = p.routes /\ pc' = "addr" /\ undo' = << >>
    BY <1>1 DEF Apply
  <2>2. \A v : ~Registered(v)'
    BY <2>1 DEF Registered
  <2>. QED
    BY <2>1, <2>2 DEF RoutesAhead, DnsNeedsRoutes
<1>2. ASSUME EnsureAddress PROVE DInv'
  BY <1>2 DEF EnsureAddress, Goto, Fail, machine, history, RoutesAhead, DnsNeedsRoutes, Registered
<1>3. ASSUME AddRoute PROVE DInv'
  <2>1. CASE Fail /\ UNCHANGED route
    BY <1>3, <2>1 DEF AddRoute, Fail, history, RoutesAhead, DnsNeedsRoutes, Registered
  <2>2. CASE ~(Fail /\ UNCHANGED route)
    <3>1. /\ Head(todo) \in Cidrs /\ Tail(todo) \in Seq(Cidrs) /\ Head(todo) = todo[1]
          /\ Len(Tail(todo)) = Len(todo) - 1 /\ Len(todo) \in Nat
          /\ \A j \in 1..Len(Tail(todo)) : Tail(todo)[j] = todo[j + 1]
      BY <1>3 DEF AddRoute, TypeOK
    <3>2. PICK c \in Cidrs : c = Head(todo)
      BY <3>1
    <3>3. /\ todo' = Tail(todo) /\ undo' = Append(undo, RouteUndo(c)) /\ pc = "routes"
          /\ pc' = pc /\ plan' = plan /\ undoOk' = undoOk
          /\ route' = [route EXCEPT ![c] = "tun"]
      BY <1>3, <2>2, <3>2 DEF AddRoute, history
    <3>4. \A j \in 1..Len(todo) : j = 1 \/ (j - 1 \in 1..Len(todo') /\ todo'[j - 1] = todo[j])
      BY <3>1, <3>3
    <3>5. route'[c] = "tun" /\ \A d \in Cidrs : route[d] = "tun" => route'[d] = "tun"
      BY <3>3 DEF TypeOK, Routes
    <3>6. \A i \in 1..Len(plan.routes) : plan.routes[i] \in Cidrs
      BY PlansAssumption DEF TypeOK
    <3>7. RoutesAhead'
      <4>1. ASSUME undoOk, NEW i \in 1..Len(plan.routes)
            PROVE  \/ route'[plan.routes[i]] = "tun"
                   \/ \E j \in 1..Len(todo') : todo'[j] = plan.routes[i]
        <5>1. CASE route[plan.routes[i]] = "tun"
          BY <3>5, <3>6, <5>1
        <5>2. CASE route[plan.routes[i]] # "tun"
          <6>1. PICK j \in 1..Len(todo) : todo[j] = plan.routes[i]
            BY <3>3, <4>1, <5>2 DEF RoutesAhead
          <6>2. CASE j = 1
            BY <3>1, <3>2, <3>5, <6>1, <6>2
          <6>3. CASE j # 1
            BY <3>4, <6>1, <6>3
          <6>. QED
            BY <6>2, <6>3
        <5>. QED
          BY <5>1, <5>2
      <4>. QED
        BY <3>3, <4>1 DEF RoutesAhead
    <3>8. ~Registered(ResolvectlUndo)' /\ ~Registered(ResolvConfUndo)'
      <4>1. RouteUndo(c) \in Undos
        BY DEF Undos
      <4>2. \A v : Registered(v)' => Registered(v) \/ v = RouteUndo(c)
        BY <3>3, <4>1, Pushed DEF TypeOK
      <4>3. ~Registered(ResolvectlUndo) /\ ~Registered(ResolvConfUndo)
        BY <3>3, OnlyRoutes DEF UndoShape
      <4>. QED
        BY <4>2, <4>3, UndosDiffer
    <3>. QED
      BY <3>7, <3>8 DEF DnsNeedsRoutes
  <2>. QED
    BY <2>1, <2>2
<1>4. ASSUME ChooseDns PROVE DInv'
  BY <1>4 DEF ChooseDns, Goto, machine, history, RoutesAhead, DnsNeedsRoutes, Registered
<1>5. ASSUME ResolvectlDns \/ BackupResolv PROVE DInv'
  <2>1. pc \in {"dns", "backup"} /\ todo = << >> /\ Len(todo) = 0
    BY <1>5 DEF ResolvectlDns, BackupResolv, RoutesAhead
  <2>2. /\ pc' \in {"domain", "tee", "failed"} /\ todo' = todo /\ plan' = plan
        /\ route' = route /\ undoOk' = undoOk
    BY <1>5 DEF ResolvectlDns, BackupResolv, Fail, history
  <2>3. undoOk => \A i \in 1..Len(plan.routes) : route[plan.routes[i]] = "tun"
    BY <2>1 DEF RoutesAhead
  <2>. QED
    BY <2>1, <2>2, <2>3 DEF RoutesAhead, DnsNeedsRoutes
<1>6. ASSUME ResolvectlDomain PROVE DInv'
  BY <1>6 DEF ResolvectlDomain, Goto, Fail, machine, history, RoutesAhead, DnsNeedsRoutes, Registered
<1>7. ASSUME WriteResolv PROVE DInv'
  BY <1>7 DEF WriteResolv, Goto, Fail, history, RoutesAhead, DnsNeedsRoutes, Registered
<1>8. ASSUME Revert PROVE DInv'
  BY <1>8 DEF Revert, machine, history, RoutesAhead, DnsNeedsRoutes, Registered
<1>9. ASSUME UndoRoute PROVE DInv'
  <2>1. /\ Popped \in Undos
        /\ \A i \in 1..Len(undo') : i \in 1..Len(undo) /\ i # Len(undo) /\ undo'[i] = undo[i]
    BY <1>9, PoppedOff DEF UndoRoute, Pop, TypeOK
  <2>2. \A i \in 1..Len(undo') : IsRoute(i)'
    BY <2>1 DEF UndoShape, IsRoute
  <2>3. ~Registered(ResolvectlUndo)' /\ ~Registered(ResolvConfUndo)'
    BY <2>2, UndosDiffer DEF IsRoute, Registered
  <2>. QED
    BY <1>9, <2>3 DEF UndoRoute, Pop, RoutesAhead, DnsNeedsRoutes
<1>10. ASSUME UndoResolvectl \/ RestoreResolv PROVE DInv'
  <2>1. \A v : Registered(v)' => Registered(v)
    BY <1>10, PoppedOff DEF UndoResolvectl, RestoreResolv, Pop, TypeOK
  <2>2. /\ pc' \in {"reverting", "removing"} /\ plan' = plan /\ route' = route
        /\ (undoOk' => undoOk)
    BY <1>10 DEF UndoResolvectl, RestoreResolv, Pop
  <2>. QED
    BY <2>1, <2>2 DEF RoutesAhead, DnsNeedsRoutes
<1>11. ASSUME RemoveBackup PROVE DInv'
  <2>1. /\ pc' = "reverting" /\ plan' = plan /\ route' = route /\ undo' = undo
        /\ (undoOk' => undoOk)
    BY <1>11 DEF RemoveBackup, Goto
  <2>. QED
    BY <2>1 DEF RoutesAhead, DnsNeedsRoutes, Registered
<1>12. ASSUME FinishRevert PROVE DInv'
  BY <1>12 DEF FinishRevert, Goto, machine, history, RoutesAhead, DnsNeedsRoutes, Registered
<1>13. ASSUME DropTun \/ Crash \/ Restart PROVE DInv'
  <2>1. pc' \in {"idle", "dead"}
    BY <1>13 DEF DropTun, Crash, Restart, Goto
  <2>2. \A v : ~Registered(v)'
    BY <2>1 DEF UndoShape, Registered
  <2>. QED
    BY <2>1, <2>2 DEF RoutesAhead, DnsNeedsRoutes
<1>14. ASSUME NEW new \in Originals, HostRewrite(new) PROVE DInv'
  BY <1>14 DEF HostRewrite, proc, RoutesAhead, DnsNeedsRoutes, Registered
<1>15. CASE UNCHANGED vars
  BY <1>15 DEF vars, proc, machine, history, RoutesAhead, DnsNeedsRoutes, Registered
<1>. QED
  BY <1>1, <1>2, <1>3, <1>4, <1>5, <1>6, <1>7, <1>8, <1>9, <1>10, <1>11, <1>12, <1>13, <1>14,
     <1>15 DEF Next

\* The tunnel's resolver is registered only while all requested routes lead
\* into the tunnel: set last, and taken back first.
THEOREM DnsOnlyWithRoutes == Spec => []DnsNeedsRoutes
<1>1. Init => DInv
  BY DEF Init, DInv, RoutesAhead, DnsNeedsRoutes, Registered, Adding
<1>2. LInv /\ LInv' /\ DInv /\ [Next]_vars => DInv'
  BY DnsStep
<1>3. DInv => DnsNeedsRoutes
  BY DEF DInv
<1>. QED
  BY LInvHolds, <1>1, <1>2, <1>3, PTL DEF Spec
=============================================================================
