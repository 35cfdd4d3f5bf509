------------------------------ MODULE Platforms ------------------------------
(***************************************************************************)
(* The configurators of macOS and Windows (crates/netm-guest/src/platform/ *)
(* macos.rs and windows.rs) and the part of the machine they touch: the    *)
(* routes of the tunnel's CIDRs and the resolver setting.  They share the  *)
(* shape of apply and revert; where they differ, the step says so.  Linux  *)
(* is in LinuxConfigurator.                                                *)
(*                                                                         *)
(* Three things the Linux tools do not do: scutil's keys outlive a killed  *)
(* process, route.exe reports success for a route it did not add, and the  *)
(* replacement of an existing route takes two commands.  Every command is  *)
(* a step that may fail, the process may be killed between any two, and    *)
(* the guest's task may be aborted, which closes the device while the      *)
(* configurator's blocking thread carries on.                              *)
(***************************************************************************)
EXTENDS Integers, Sequences

CONSTANTS
  Cidrs,   \* the prefixes a route mode may name
  Plans    \* requests: [routes |-> <<cidr, ...>>, dns |-> BOOLEAN]

ASSUME PlansAssumption == Plans \subseteq [routes : Seq(Cidrs), dns : BOOLEAN]

VARIABLES
  os,        \* the machine: "macos" or "windows"
  pc,        \* where the configurator is
  plan,      \* the request being applied
  todo,      \* routes still to be added
  undo,      \* undo, last entry undone first
  reverted,  \* reverted
  dev,       \* the TUN device is open
  route,     \* who owns each CIDR's route: "none", "other" or "tun"
  resolver,  \* the machine's resolver setting names the tunnel's server
  clean      \* history: since apply began no command has left its effect open

proc    == <<os, pc, plan, todo, undo, reverted>>
machine == <<dev, route, resolver>>
vars    == <<proc, machine, clean>>

Owners       == {"none", "other", "tun"}
RouteUndo(c) == [kind |-> "route", cidr |-> c]
DnsUndo      == [kind |-> "dns"]
Undos        == {RouteUndo(c) : c \in Cidrs} \cup {DnsUndo}

TypeOK ==
  /\ os \in {"macos", "windows"}
  /\ pc \in {"idle", "begin", "addr", "routes", "replace", "again", "dns", "applied", "failed",
             "reverting", "down", "dead"}
  /\ plan \in Plans
  /\ todo \in Seq(Cidrs)
  /\ undo \in Seq(Undos)
  /\ reverted \in BOOLEAN
  /\ dev \in BOOLEAN
  /\ route \in [Cidrs -> Owners]
  /\ resolver \in BOOLEAN
  /\ clean \in BOOLEAN

Init ==
  /\ os \in {"macos", "windows"}
  /\ pc = "idle"
  /\ plan \in Plans
  /\ todo = << >> /\ undo = << >>
  /\ reverted = TRUE
  /\ dev = FALSE
  /\ route \in [Cidrs -> {"none", "other"}]
  /\ resolver = FALSE
  /\ clean = TRUE

Goto(next) == pc' = next /\ UNCHANGED <<os, plan, todo, undo, reverted>>
Fail       == Goto("failed")

-----------------------------------------------------------------------------
(* apply *)

\* Each session opens a device and makes a new configurator for it.
Apply(p) ==
  /\ pc = "idle" /\ reverted
  /\ pc' = "begin"
  /\ plan' = p /\ todo' = p.routes
  /\ undo' = << >> /\ reverted' = FALSE
  /\ dev' = TRUE /\ clean' = TRUE
  /\ UNCHANGED <<os, route, resolver>>

\* Mutant: the keys of an earlier run are only removed if DNS is to be set.
RemoveStaleForDns ==
  /\ pc = "begin" /\ os = "macos"
  /\ Goto("addr")
  /\ resolver' = (resolver /\ ~plan.dns)
  /\ UNCHANGED <<dev, route, clean>>

\* macOS: the keys an earlier, killed run left are removed, whatever this
\* session will do; a failure is ignored.
RemoveStale ==
  /\ pc = "begin" /\ os = "macos"
  /\ Goto("addr")
  /\ \/ resolver' = FALSE /\ UNCHANGED clean
     \/ clean' = (clean /\ ~resolver) /\ UNCHANGED resolver
  /\ UNCHANGED <<dev, route>>

\* Windows: the adapter's interface index is looked up.
InterfaceIndex ==
  /\ pc = "begin" /\ os = "windows"
  /\ Goto("addr") \/ Fail
  /\ UNCHANGED <<machine, clean>>

\* ensure_address only touches the device: ifconfig, if the address is not
\* there yet; or netsh's set address, subinterface and interface in turn.
MacAddress ==
  /\ pc = "addr" /\ os = "macos"
  /\ Goto("routes") \/ Fail
  /\ UNCHANGED <<machine, clean>>

WinAddress ==
  /\ pc = "addr" /\ os = "windows"
  /\ Goto("routes") \/ Fail
  /\ UNCHANGED <<machine, clean>>

\* apply takes the head of todo for added and registers it.
Added ==
  /\ pc' = "routes"
  /\ todo' = Tail(todo)
  /\ undo' = Append(undo, RouteUndo(Head(todo)))
  /\ UNCHANGED <<os, plan, reverted, dev, resolver>>

\* The command adds the route.
Works ==
  /\ dev /\ route[Head(todo)] = "none"
  /\ route' = [route EXCEPT ![Head(todo)] = "tun"]
  /\ UNCHANGED clean

\* route.exe prints an error add_route does not know and exits with 0.
Silent == clean' = FALSE /\ UNCHANGED route

\* That the prefix has a route already is the one error add_route recognises.
Exists == route[Head(todo)] # "none" /\ Goto("replace")

\* The first attempt to add a route.
MacAddRoute ==
  /\ pc = "routes" /\ todo # << >> /\ os = "macos"
  /\ \/ Added /\ Works
     \/ (Fail \/ Exists) /\ UNCHANGED <<machine, clean>>

WinAddRoute ==
  /\ pc = "routes" /\ todo # << >> /\ os = "windows"
  /\ \/ Added /\ (Works \/ Silent)
     \/ (Fail \/ Exists) /\ UNCHANGED <<machine, clean>>

\* The route in the way is deleted, whatever comes of the command.
Deleted ==
  /\ Goto("again")
  /\ route' \in {route, [route EXCEPT ![Head(todo)] = "none"]}
  /\ UNCHANGED <<dev, resolver, clean>>

\* The command names the tunnel; what the kernel does with somebody else's
\* route then is left open.
MacDelete == pc = "replace" /\ os = "macos" /\ Deleted

\* Windows names only the prefix: the route goes, whoever owns it.
WinDelete == pc = "replace" /\ os = "windows" /\ Deleted

\* Mutant: the outcome of the second attempt is not looked at.
MacAddAgainUnchecked ==
  /\ pc = "again" /\ os = "macos"
  /\ Added
  /\ Works \/ UNCHANGED <<route, clean>>

\* The second attempt is the last.
MacAddAgain ==
  /\ pc = "again" /\ os = "macos"
  /\ \/ Added /\ Works
     \/ Fail /\ UNCHANGED <<machine, clean>>

WinAddAgain ==
  /\ pc = "again" /\ os = "windows"
  /\ \/ Added /\ (Works \/ Silent)
     \/ Fail /\ UNCHANGED <<machine, clean>>

RoutesDone ==
  /\ pc = "routes" /\ todo = << >>
  /\ Goto(IF plan.dns THEN "dns" ELSE "applied")
  /\ UNCHANGED <<machine, clean>>

\* Only a success is registered.
DnsSet ==
  /\ resolver' = TRUE
  /\ pc' = "applied"
  /\ undo' = Append(undo, DnsUndo)
  /\ UNCHANGED <<os, plan, todo, reverted, clean>>

\* scutil's script names the device, which need not be there.  scutil may have
\* run a part of a script whose write failed.
MacDns ==
  /\ pc = "dns" /\ os = "macos"
  /\ \/ DnsSet
     \/ /\ Fail
        /\ UNCHANGED <<resolver, clean>> \/ (resolver' = TRUE /\ clean' = FALSE)
  /\ UNCHANGED <<dev, route>>

\* netsh sets the DNS servers of the adapter; the cache is flushed at best.
WinDns ==
  /\ pc = "dns" /\ os = "windows"
  /\ \/ dev /\ DnsSet
     \/ Fail /\ UNCHANGED <<resolver, clean>>
  /\ UNCHANGED <<dev, route>>

-----------------------------------------------------------------------------
(* revert *)

\* The session is over, apply failed, or the configurator of an aborted guest
\* is dropped.  The flag is set first: what fails below is never tried again.
Revert ==
  /\ pc \in {"applied", "failed"} /\ ~reverted
  /\ pc' = "reverting" /\ reverted' = TRUE
  /\ UNCHANGED <<os, plan, todo, undo, machine, clean>>

\* undo.pop()
Pop(kind) ==
  /\ pc = "reverting" /\ undo # << >>
  /\ undo[Len(undo)].kind = kind
  /\ undo' = SubSeq(undo, 1, Len(undo) - 1)
  /\ UNCHANGED <<os, pc, plan, todo, reverted>>

Popped == undo[Len(undo)]

\* The route of the tunnel is deleted, or its deletion fails and is never
\* tried again.
RouteTakenBack ==
  /\ \/ /\ route' = [route EXCEPT ![Popped.cidr] = IF @ = "tun" THEN "none" ELSE @]
        /\ UNCHANGED clean
     \/ clean' = (clean /\ route[Popped.cidr] # "tun") /\ UNCHANGED route
  /\ UNCHANGED <<dev, resolver>>

\* The resolver setting likewise.
DnsTakenBack ==
  /\ \/ resolver' = FALSE /\ UNCHANGED clean
     \/ clean' = (clean /\ ~resolver) /\ UNCHANGED resolver
  /\ UNCHANGED <<dev, route>>

\* route -n delete with the tunnel's interface; scutil's remove script.
MacUndoRoute == os = "macos" /\ Pop("route") /\ RouteTakenBack
MacUndoDns   == os = "macos" /\ Pop("dns") /\ DnsTakenBack

\* route delete with the adapter's index; netsh's delete dnsservers, and the
\* cache is flushed at best.
WinUndoRoute == os = "windows" /\ Pop("route") /\ RouteTakenBack
WinUndoDns   == os = "windows" /\ Pop("dns") /\ DnsTakenBack

FinishRevert ==
  /\ pc = "reverting" /\ undo = << >>
  /\ Goto("down")
  /\ UNCHANGED <<machine, clean>>

\* With the device go its routes; the DNS servers of a Wintun adapter go with
\* it, scutil's keys do not.
DeviceGone ==
  /\ dev' = FALSE
  /\ route' = [c \in Cidrs |-> IF route[c] = "tun" THEN "none" ELSE route[c]]
  /\ resolver' = (resolver /\ os = "macos")

\* The guest drops the device after revert.
DropTun ==
  /\ pc = "down"
  /\ Goto("idle")
  /\ DeviceGone
  /\ UNCHANGED clean

-----------------------------------------------------------------------------
(* The rest of the machine *)

\* The guest's task is aborted while the blocking thread runs apply or revert:
\* the device is closed under the commands.  The thread finishes and drops the
\* configurator, whose Drop reverts if that is still to be done.
Abort ==
  /\ pc \notin {"idle", "applied", "down", "dead"} /\ dev
  /\ DeviceGone
  /\ UNCHANGED <<proc, clean>>

\* The process is killed anywhere.
Crash ==
  /\ pc # "dead"
  /\ pc' = "dead" /\ undo' = << >> /\ todo' = << >> /\ reverted' = TRUE
  /\ DeviceGone
  /\ UNCHANGED <<os, plan, clean>>

Restart ==
  /\ pc = "dead"
  /\ Goto("idle")
  /\ UNCHANGED <<machine, clean>>

Next ==
  \/ \E p \in Plans : Apply(p)
  \/ RemoveStale \/ InterfaceIndex \/ MacAddress \/ WinAddress
  \/ MacAddRoute \/ MacDelete \/ MacAddAgain
  \/ WinAddRoute \/ WinDelete \/ WinAddAgain
  \/ RoutesDone \/ MacDns \/ WinDns
  \/ Revert \/ MacUndoRoute \/ MacUndoDns \/ WinUndoRoute \/ WinUndoDns
  \/ FinishRevert \/ DropTun
  \/ Abort \/ Crash \/ Restart

Spec == Init /\ [][Next]_vars

-----------------------------------------------------------------------------
(* Properties *)

Registered(u) == \E i \in 1..Len(undo) : undo[i] = u

\* Once the keys of earlier runs are gone, whatever of the tunnel is on the
\* machine is registered for undo: at every point where apply can stop, while
\* revert works the list off, and hence nothing at all when it is through,
\* also after a run that was killed with the resolver set.  A command that
\* half succeeded, or failed to undo, is the only excuse.
UndoCovers ==
  pc \notin {"idle", "dead", "begin"} /\ clean =>
    /\ \A c \in Cidrs : route[c] = "tun" => Registered(RouteUndo(c))
    /\ resolver => Registered(DnsUndo)

\* As long as the device is there, the tunnel's resolver is registered only
\* while every requested route leads into the tunnel: routes come before it,
\* and revert takes it back first.
DnsNeedsRoutes ==
  clean /\ dev /\ Registered(DnsUndo) =>
    \A i \in 1..Len(plan.routes) : route[plan.routes[i]] = "tun"
=============================================================================
