------------------------- MODULE LinuxConfigurator -------------------------
(***************************************************************************)
(* What the guest does to a Linux machine's routes and DNS, and how it     *)
(* takes it back (crates/netm-guest/src/platform/linux.rs), together with  *)
(* the part of the machine it touches: the routes of the tunnel's CIDRs,   *)
(* systemd-resolved's setting for the tunnel link, /etc/resolv.conf and    *)
(* the backup of it.                                                       *)
(*                                                                         *)
(* Every external command is a step of its own that may fail, and the      *)
(* process may be killed between any two of them.  A failing cp or tee may *)
(* leave half a file, and the machine itself (a DHCP client, the           *)
(* administrator) may write resolv.conf at any time.  The guest calls      *)
(* apply, then revert once (whether or not apply succeeded), then drops    *)
(* the TUN device, with which the kernel removes the device's routes.      *)
(***************************************************************************)
EXTENDS Integers, Sequences

CONSTANTS
  Cidrs,       \* the prefixes a route mode may name
  Plans        \* requests: [routes |-> <<cidr, ...>>, dns |-> BOOLEAN]

ASSUME PlansAssumption == Plans \subseteq [routes : Seq(Cidrs), dns : BOOLEAN]

VARIABLES
  pc,        \* where the process is
  plan,      \* the request being applied
  todo,      \* routes still to be added
  undo,      \* LinuxConfigurator.undo, last entry undone first
  reverted,  \* LinuxConfigurator.reverted
  route,     \* who owns each CIDR's route: "none", "other" or "tun"
  link,      \* resolvectl has settings for the tunnel link
  resolv,    \* contents of /etc/resolv.conf
  backup,    \* contents of the backup file, or "none"
  \* History, for the properties only:
  own,       \* what the machine itself last wrote to resolv.conf
  spoilt,    \* since then a backup was cut short, or it already held another version
  before,    \* the routes, resolv.conf and the backup when apply began
  undoOk     \* no revert command has failed since apply began

proc    == <<pc, plan, todo, undo, reverted>>
machine == <<route, link, resolv, backup>>
history == <<own, spoilt, before, undoOk>>
vars    == <<proc, machine, history>>

\* "netm" is what netm writes; "cut" is a resolv.conf cut short by a failing
\* tee or restore, "torn" a backup cut short by a failing cp (and what a
\* restore makes of it).
Originals == {"orig", "orig2"}
OfNetm    == {"netm", "cut"}
Contents  == Originals \cup OfNetm \cup {"torn"}

Routes    == [Cidrs -> {"none", "other", "tun"}]
Snapshots == [route : Routes, resolv : Contents, backup : Contents \cup {"none"}]

RouteUndo(c)   == [kind |-> "route", cidr |-> c]
ResolvectlUndo == [kind |-> "resolvectl"]
ResolvConfUndo == [kind |-> "resolvconf"]
Undos == {RouteUndo(c) : c \in Cidrs} \cup {ResolvectlUndo, ResolvConfUndo}

TypeOK ==
  /\ pc \in {"idle", "addr", "routes", "dns", "domain", "backup", "tee", "applied", "failed",
             "reverting", "removing", "down", "dead"}
  /\ plan \in Plans
  /\ todo \in Seq(Cidrs)
  /\ undo \in Seq(Undos)
  /\ reverted \in BOOLEAN
  /\ route \in Routes
  /\ link \in BOOLEAN
  /\ resolv \in Contents
  /\ backup \in Contents \cup {"none"}
  /\ own \in Originals
  /\ spoilt \in BOOLEAN
  /\ before \in Snapshots
  /\ undoOk \in BOOLEAN

Init ==
  /\ pc = "idle"
  /\ plan \in Plans
  /\ todo = << >> /\ undo = << >>
  /\ reverted = TRUE
  /\ route \in [Cidrs -> {"none", "other"}]
  /\ link = FALSE
  /\ resolv = "orig" /\ backup = "none" /\ own = "orig" /\ spoilt = FALSE
  /\ before = [route |-> route, resolv |-> resolv, backup |-> backup]
  /\ undoOk = TRUE

-----------------------------------------------------------------------------
(* apply *)

\* apply starts from a configurator that has nothing to revert: the guest
\* never calls it twice without a revert in between.
Apply(p) ==
  /\ pc = "idle" /\ reverted
  /\ pc' = "addr"
  /\ plan' = p /\ todo' = p.routes
  /\ undo' = << >> /\ reverted' = FALSE
  /\ before' = [route |-> route, resolv |-> resolv, backup |-> backup] /\ undoOk' = TRUE
  /\ UNCHANGED <<machine, own, spoilt>>

Fail == pc' = "failed" /\ UNCHANGED <<plan, todo, undo, reverted>>

Goto(next) == pc' = next /\ UNCHANGED <<plan, todo, undo, reverted>>

\* ip addr show / ip addr add / ip link set: they only touch the device.
EnsureAddress ==
  /\ pc = "addr"
  /\ Goto("routes") \/ Fail
  /\ UNCHANGED <<machine, history>>

\* Mutant: only a route that was really added is registered for undo.
AddRouteUnregistered ==
  /\ pc = "routes" /\ todo # << >>
  /\ \/ /\ route' = [route EXCEPT ![Head(todo)] = "tun"]
        /\ todo' = Tail(todo)
        /\ undo' = IF route[Head(todo)] = "none" THEN Append(undo, RouteUndo(Head(todo))) ELSE undo
        /\ UNCHANGED <<pc, plan, reverted>>
     \/ Fail /\ UNCHANGED route
  /\ UNCHANGED <<link, resolv, backup, history>>

\* ip route add, and ip route replace if the prefix already has a route,
\* whoever owns it.  The undo entry is the same in both cases.
AddRoute ==
  /\ pc = "routes" /\ todo # << >>
  /\ \/ /\ route' = [route EXCEPT ![Head(todo)] = "tun"]
        /\ todo' = Tail(todo)
        /\ undo' = Append(undo, RouteUndo(Head(todo)))
        /\ UNCHANGED <<pc, plan, reverted>>
     \/ Fail /\ UNCHANGED route
  /\ UNCHANGED <<link, resolv, backup, history>>

\* The routes are in.  `resolvectl status` tells at each session whether
\* systemd-resolved runs; otherwise resolv.conf is rewritten.
ChooseDns ==
  /\ pc = "routes" /\ todo = << >>
  /\ \E next \in (IF plan.dns THEN {"dns", "backup"} ELSE {"applied"}) : Goto(next)
  /\ UNCHANGED <<machine, history>>

ResolvectlDns ==
  /\ pc = "dns"
  /\ \/ /\ link' = TRUE
        /\ pc' = "domain"
        /\ undo' = Append(undo, ResolvectlUndo)
        /\ UNCHANGED <<plan, todo, reverted>>
     \/ Fail /\ UNCHANGED link
  /\ UNCHANGED <<route, resolv, backup, history>>

\* resolvectl domain and default-route.
ResolvectlDomain ==
  /\ pc = "domain"
  /\ Goto("applied") \/ Fail
  /\ UNCHANGED <<machine, history>>

\* Mutant: the backup is taken anew although one exists.
BackupResolvAlways ==
  /\ pc = "backup"
  /\ pc' = "tee"
  /\ undo' = Append(undo, ResolvConfUndo)
  /\ backup' = resolv
  /\ UNCHANGED <<plan, todo, reverted, route, link, resolv, history>>

\* Mutant: the restore is registered nowhere before the write.
BackupResolvUnregistered ==
  /\ pc = "backup"
  /\ pc' = "tee"
  /\ backup' = IF backup = "none" THEN resolv ELSE backup
  /\ UNCHANGED <<plan, todo, undo, reverted, route, link, resolv, history>>

\* Mutant: the restore is registered at the wrong end of the undo list.
BackupResolvAtFront ==
  /\ pc = "backup"
  /\ pc' = "tee"
  /\ undo' = <<ResolvConfUndo>> \o undo
  /\ backup' = IF backup = "none" THEN resolv ELSE backup
  /\ UNCHANGED <<plan, todo, reverted, route, link, resolv, history>>

\* Mutant: the outcome of cp is not looked at.
BackupResolvUnchecked ==
  /\ pc = "backup"
  /\ pc' = "tee"
  /\ undo' = Append(undo, ResolvConfUndo)
  /\ backup' \in IF backup = "none" THEN {resolv, "none"} ELSE {backup}
  /\ UNCHANGED <<plan, todo, reverted, route, link, resolv, history>>

\* test -e backup || cp resolv.conf backup; then the restore is registered,
\* before anything is written.  A cp that fails may leave half a copy, which
\* nothing removes.
BackupResolv ==
  /\ pc = "backup"
  /\ \/ /\ pc' = "tee"
        /\ undo' = Append(undo, ResolvConfUndo)
        /\ backup' = IF backup = "none" THEN resolv ELSE backup
        /\ UNCHANGED <<plan, todo, reverted, spoilt>>
     \/ /\ backup = "none"
        /\ Fail
        /\ backup' \in {"none", "torn"}
        /\ spoilt' = (spoilt \/ backup' = "torn")
  /\ UNCHANGED <<route, link, resolv, own, before, undoOk>>

\* tee truncates the file before it writes.
WriteResolv ==
  /\ pc = "tee"
  /\ \/ Goto("applied") /\ resolv' = "netm"
     \/ Fail /\ resolv' \in {resolv, "cut"}
  /\ UNCHANGED <<route, link, backup, history>>

-----------------------------------------------------------------------------
(* revert *)

\* The session is over, or apply failed: the guest calls revert once.  The
\* flag is set first, so what fails below is never tried again.
Revert ==
  /\ pc \in {"applied", "failed"} /\ ~reverted
  /\ pc' = "reverting" /\ reverted' = TRUE
  /\ UNCHANGED <<plan, todo, undo, machine, history>>

\* undo.pop()
Pop(kind) ==
  /\ pc = "reverting" /\ undo # << >>
  /\ undo[Len(undo)].kind = kind
  /\ undo' = SubSeq(undo, 1, Len(undo) - 1)

\* The entry that Pop takes.
Popped == undo[Len(undo)]

\* ip route del <cidr> dev tun; for a CIDR given twice the second one fails
\* and changes nothing.
UndoRoute ==
  /\ Pop("route")
  /\ \/ /\ route' = [route EXCEPT ![Popped.cidr] = IF @ = "tun" THEN "none" ELSE @]
        /\ UNCHANGED undoOk
     \/ undoOk' = FALSE /\ UNCHANGED route
  /\ UNCHANGED <<pc, plan, todo, reverted, link, resolv, backup, own, spoilt, before>>

UndoResolvectl ==
  /\ Pop("resolvectl")
  /\ \/ link' = FALSE /\ UNCHANGED undoOk
     \/ undoOk' = FALSE /\ UNCHANGED link
  /\ UNCHANGED <<pc, plan, todo, reverted, route, resolv, backup, own, spoilt, before>>

\* cp -f backup resolv.conf; only if it succeeds is the backup removed.  There
\* is a backup whenever the entry is on the list (else TypeOK would break here).
RestoreResolv ==
  /\ Pop("resolvconf")
  /\ \/ pc' = "removing" /\ resolv' = backup /\ UNCHANGED undoOk
     \/ pc' = "reverting" /\ resolv' \in {resolv, "cut"} /\ undoOk' = FALSE
  /\ UNCHANGED <<plan, todo, reverted, route, link, backup, own, spoilt, before>>

\* rm -f backup
RemoveBackup ==
  /\ pc = "removing"
  /\ Goto("reverting")
  /\ \/ backup' = "none" /\ UNCHANGED undoOk
     \/ undoOk' = FALSE /\ UNCHANGED backup
  /\ UNCHANGED <<route, link, resolv, own, spoilt, before>>

FinishRevert ==
  /\ pc = "reverting" /\ undo = << >>
  /\ Goto("down")
  /\ UNCHANGED <<machine, history>>

\* The kernel drops what belongs to a TUN device that is closed.
DeviceGone ==
  /\ route' = [c \in Cidrs |-> IF route[c] = "tun" THEN "none" ELSE route[c]]
  /\ link' = FALSE
  /\ UNCHANGED <<resolv, backup>>

\* The guest drops the device after revert.
DropTun ==
  /\ pc = "down"
  /\ Goto("idle")
  /\ DeviceGone
  /\ UNCHANGED history

-----------------------------------------------------------------------------
(* The rest of the machine *)

\* The process is killed (or the machine loses power) anywhere.
Crash ==
  /\ pc # "dead"
  /\ pc' = "dead" /\ undo' = << >> /\ todo' = << >> /\ reverted' = TRUE
  /\ DeviceGone
  /\ UNCHANGED <<plan, history>>

\* netm is started again with a new configurator.
Restart ==
  /\ pc = "dead"
  /\ Goto("idle")
  /\ UNCHANGED <<machine, history>>

\* A DHCP client or the administrator writes resolv.conf, also while a tunnel
\* is up.  A backup that is there already holds another version, or the same.
HostRewrite(new) ==
  /\ own' = new /\ resolv' = new
  /\ spoilt' = (backup \notin {"none", new})
  /\ UNCHANGED <<proc, route, link, backup, before, undoOk>>

Next ==
  \/ \E p \in Plans : Apply(p)
  \/ EnsureAddress \/ AddRoute \/ ChooseDns
  \/ ResolvectlDns \/ ResolvectlDomain \/ BackupResolv \/ WriteResolv
  \/ Revert \/ UndoRoute \/ UndoResolvectl \/ RestoreResolv \/ RemoveBackup
  \/ FinishRevert \/ DropTun
  \/ Crash \/ Restart
  \/ \E new \in Originals : HostRewrite(new)

Spec == Init /\ [][Next]_vars

-----------------------------------------------------------------------------
(* Properties *)

Registered(u) == \E i \in 1..Len(undo) : undo[i] = u

\* Between the start of apply and the end of revert.
InSession == pc \notin {"idle", "dead", "down"}

\* What this session made of resolv.conf is not what it found there.
Overwritten == resolv \in OfNetm /\ resolv # before.resolv

\* Whatever the session has changed is registered for undo, at every point
\* where apply can stop with an error and until the revert gives up on a step:
\* each tunnel route, the resolvectl setting, the overwritten resolv.conf.
UndoCovers ==
  InSession /\ undoOk =>
    /\ \A c \in Cidrs : route[c] = "tun" => Registered(RouteUndo(c))
    /\ link => Registered(ResolvectlUndo)
    /\ Overwritten => Registered(ResolvConfUndo)

\* A revert none of whose commands fails leaves nothing behind, no matter how
\* far apply came: no tunnel route, no resolver setting, no resolv.conf of
\* netm's that was not there before (and the machine's own unless the backup
\* was spoilt), and no backup the next session would take for the original,
\* other than one it found or half of one that cp left.
RevertLeavesNothing ==
  pc = "down" /\ undoOk =>
    /\ \A c \in Cidrs : route[c] # "tun"
    /\ ~link
    /\ ~Overwritten
    /\ resolv \in {own, before.resolv} \/ spoilt
    /\ backup \in {"none", "torn", before.backup}

\* There are two ways to lose the machine's own resolv.conf and no third: a
\* backup that cp cut short is kept as the original, or the machine writes the
\* file while a backup of an earlier version lies there, which a later tee or
\* restore overwrites.  Short of these, a kill between any two commands, a
\* failed tee, restore or rm, and further sessions leave it in place or in the
\* backup.
LossHasCause == own \in {resolv, backup} \/ spoilt

\* The tunnel's resolver is set only while all requested routes lead into
\* the tunnel: routes come first, and revert takes DNS back before them.
DnsNeedsRoutes ==
  undoOk /\ (Registered(ResolvectlUndo) \/ Registered(ResolvConfUndo)) =>
    \A i \in 1..Len(plan.routes) : route[plan.routes[i]] = "tun"

\* "A backup already exists, in which case that older copy is the real
\* original": what set_dns keeps, when it finds one, is what the machine itself
\* last wrote.
OlderCopyIsOriginal == pc = "tee" /\ before.backup # "none" => backup = own

\* "Undo everything `apply` did": after a revert without a failed command the
\* routes are those from before apply.
RoutesAreRestored == pc = "down" /\ undoOk => route = before.route
=============================================================================
