----------------------------- MODULE Discovery ------------------------------
(***************************************************************************)
(* How a guest finds its host: the interfaces of both machines, the host's *)
(* discovery responder with its ff02::1 memberships and its two refresh    *)
(* timers, the guest's rounds of probes, and its way out to a neighbour    *)
(* (crates/netm-proto/src/{discovery,link}.rs, discovery_task in           *)
(* crates/netm-host/src/lib.rs, find_target in crates/netm-guest).         *)
(*                                                                         *)
(* A link is an interface of the guest.  The other end of a cable is an    *)
(* interface of the host; other links lead to machines without NetM.       *)
(* Datagrams are lost and delayed at will; one is in flight once or not at *)
(* all, since a second copy changes nothing.  A probe's random nonce is    *)
(* equal to no earlier one, so an offer answers the probe under way        *)
(* ("mine") or an older one.  A probe request that outlives its probe is   *)
(* dropped: its answer would only be one more old offer.                   *)
(***************************************************************************)
EXTENDS Integers, Sequences, FiniteSets

CONSTANTS
  Links,          \* the guest's interfaces, numbered in the order of names
  Port,           \* what hardware each of them is
  Cables,         \* those whose other end is an interface of the host
  Multicast,      \* those that carry ff02::1 (USB Ethernet often does not)
  HostCandidates, \* those whose host end list_candidate_interfaces lists
  Indices,        \* interface indices of the host
  DataPorts,      \* TCP ports a host may listen on
  MaxFaults       \* bound: failing system calls, pulled cables, host exits

Hardware == {"thunderbolt bridge", "thunderbolt", "usb", "ethernet", "wi-fi"}
DATA_PORT == "27778"
NoPort == "none"
Absent == 0   \* no such interface; an index of 0 is skipped throughout
NoLink == 0

ASSUME LinksAssumption ==
  /\ Links \subseteq Nat \ {NoLink} /\ IsFiniteSet(Links)
  /\ Port \in [Links -> Hardware]
  /\ Cables \subseteq Links /\ Multicast \subseteq Links
  /\ HostCandidates \subseteq Cables
  /\ Indices \subseteq Nat \ {Absent}
  /\ NoPort \notin DataPorts
  /\ MaxFaults \in Nat

VARIABLES
  index,     \* the host's index of a cable's interface, or Absent
  ready,     \* the guest's links with a carrier and a link-local address
  neigh,     \* the best family a link's neighbours have an address of
  data_port, \* where the host listens; NoPort: no host runs
  bound,     \* discovery_task's `joined`: the indices it last bound for
  responder, \* is run() going on, Memberships.joined, the kernel's list
  blinked,   \* history: indices lost by the kernel since it was last asked
  gpc,       \* where the guest is
  todo,      \* ready interfaces find_target has not come to
  cur,       \* the interface find_target is at
  target,    \* what the guest dials
  casts,     \* the targets of the probe under way: multicast, unicast
  net,       \* datagrams in flight
  heard,     \* history: the host's ports since the probe under way began
  faults     \* faults left

hvars == <<data_port, bound, responder>>
gvars == <<gpc, todo, cur, target, casts>>
vars == <<index, ready, neigh, hvars, blinked, gvars, net, heard, faults>>

NoTarget == [by |-> "nobody", port |-> NoPort]
Idle == [running |-> FALSE, joined |-> {}, member |-> {}]
Present == {index[l] : l \in Cables} \ {Absent}

Datagram == [type : {"probe"}, link : Cables, cast : {"multi", "uni"}] \cup
            [type : {"offer"}, link : Cables, port : DataPorts, mine : BOOLEAN]
Offers == {d \in net : d.type = "offer"}

Init ==
  /\ index = [l \in Cables |-> Absent]
  /\ ready = Links \ Cables
  /\ neigh = [l \in Links |-> "none"]
  /\ data_port = NoPort /\ bound = {} /\ responder = Idle /\ blinked = {}
  /\ gpc = "idle" /\ todo = <<>> /\ cur = NoLink /\ target = NoTarget
  /\ casts = {} /\ net = {} /\ heard = {}
  /\ faults = MaxFaults

Fault(happens) ==
  /\ happens => faults > 0
  /\ faults' = IF happens THEN faults - 1 ELSE faults

(***************************************************************************)
(* link.rs                                                                 *)
(***************************************************************************)
LinkKind == [ThunderboltBridge |-> 1, Thunderbolt |-> 2, UsbEthernet |-> 3,
             Other |-> 4]

\* macos_kind::classify.  When networksetup has nothing to say (`listed`
\* FALSE) an enN of whatever hardware counts as USB Ethernet.
Candidate(l, listed) == ~listed \/ Port[l] # "wi-fi"
Classify(l, listed) ==
  CASE Port[l] = "thunderbolt bridge"      -> LinkKind.ThunderboltBridge
    [] ~listed \/ Port[l] = "usb"          -> LinkKind.UsbEthernet
    [] listed /\ Port[l] = "thunderbolt"   -> LinkKind.Thunderbolt
    [] OTHER                               -> LinkKind.Other

\* The order of list_candidate_interfaces: by kind, then by name.
Before(k, l, listed) ==
  \/ Classify(k, listed) < Classify(l, listed)
  \/ Classify(k, listed) = Classify(l, listed) /\ k < l

\* The lists of the ready candidates in that order: one, since no two names
\* are equal.
ReadyCandidates(listed) ==
  LET candidates == {l \in ready : Candidate(l, listed)}
      places == 1 .. Cardinality(candidates)
  IN {s \in [places -> candidates] :
        \A i, j \in places : i < j => Before(s[i], s[j], listed)}

\* neighbor_data_addr: the first neighbour, by IPv6 if it has an address of
\* that family, at the default port.
NeighbourTarget == [by |-> "neighbour", port |-> DATA_PORT]

\* What ndp, ip neigh or arp say of the link: an address, of which family.
HasNeighbour(l) == neigh[l] # "none"
HasNeighbourV6(l) == neigh[l] = "v6"

(***************************************************************************)
(* The host: discovery_task and the Responder                              *)
(***************************************************************************)
\* Responder::join on each of `news`, where `failing` fail.
Join(r, news, failing) ==
  [r EXCEPT !.joined = @ \cup (news \ failing),
            !.member = @ \cup ((news \ r.joined) \ failing)]

\* A tick of discovery_task.  A list that cannot be had ends the tick.
Poll ==
  /\ data_port # NoPort
  /\ LET want == {index[l] : l \in HostCandidates} \ {Absent} IN
     /\ ~(responder.running /\ want = bound)
     /\ \/ \E failing \in SUBSET want :
             /\ Fault(failing # {})
             /\ bound' = want
             /\ responder' = Join([Idle EXCEPT !.running = TRUE], want, failing)
             /\ blinked' = {}
        \/ /\ Fault(TRUE)   \* bind fails; the old one is aborted already
           /\ responder' = Idle
           /\ UNCHANGED <<bound, blinked>>
  /\ UNCHANGED <<index, ready, neigh, data_port, gvars, net, heard>>

\* refresh_memberships, every JOIN_REFRESH_INTERVAL: forget what is gone,
\* join what is new.  What seems to be joined already is not joined again.
\* Mutants: everything is forgotten and joined again; nothing is forgotten.
KeptNothing == {}
KeptAll == responder.joined
Kept == responder.joined \cap Present
Refresh ==
  /\ responder.running
  /\ \E failing \in SUBSET (Present \ Kept) :
       /\ Fault(failing # {})
       /\ responder' = Join([responder EXCEPT !.joined = Kept], Present, failing)
  /\ blinked' = blinked \cap Present
  /\ UNCHANGED <<index, ready, neigh, data_port, bound, gvars, net, heard>>

\* recv_from failed with something else than ConnectionReset.
ResponderStops ==
  /\ responder.running
  /\ Fault(TRUE)
  /\ responder' = Idle
  /\ UNCHANGED <<index, ready, neigh, data_port, bound, blinked, gvars, net, heard>>

\* run answers a valid probe to its sender.
Hears(d) ==
  /\ responder.running
  /\ d.cast = "uni" \/ index[d.link] \in responder.member

Answer(d) ==
  /\ d.type = "probe" /\ Hears(d)
  /\ net' = (net \ {d}) \cup
            {[type |-> "offer", link |-> d.link, port |-> data_port, mine |-> TRUE]}
  /\ UNCHANGED <<index, ready, neigh, hvars, blinked, gvars, heard, faults>>

HostStarts ==
  /\ data_port = NoPort
  /\ data_port' \in DataPorts
  /\ heard' = IF gpc = "probing" THEN heard \cup {data_port'} ELSE {}
  /\ UNCHANGED <<index, ready, neigh, bound, responder, blinked, gvars, net, faults>>

\* The host is cancelled, or its process ends.
HostStops ==
  /\ data_port # NoPort
  /\ Fault(TRUE)
  /\ data_port' = NoPort /\ bound' = {} /\ responder' = Idle /\ blinked' = {}
  /\ UNCHANGED <<index, ready, neigh, gvars, net, heard>>

(***************************************************************************)
(* The links                                                               *)
(***************************************************************************)
\* The system gives an index that is free, which may be the one of before.
Plug(l) ==
  /\ index[l] = Absent
  /\ \E i \in Indices \ Present : index' = [index EXCEPT ![l] = i]
  /\ UNCHANGED <<ready, neigh, hvars, blinked, gvars, net, heard, faults>>

\* The guest's end has a carrier and a link-local address.
ComesUp(l) ==
  /\ index[l] # Absent /\ l \notin ready
  /\ ready' = ready \cup {l}
  /\ UNCHANGED <<index, neigh, hvars, blinked, gvars, net, heard, faults>>

Unplug(l) ==
  /\ index[l] # Absent
  /\ Fault(TRUE)
  /\ index' = [index EXCEPT ![l] = Absent]
  /\ ready' = ready \ {l}
  /\ neigh' = [neigh EXCEPT ![l] = "none"]
  /\ responder' = [responder EXCEPT !.member = @ \ {index[l]}]
  /\ blinked' = blinked \cup ({index[l]} \cap responder.member)
  /\ net' = {d \in net : d.link # l}
  /\ UNCHANGED <<data_port, bound, gvars, heard>>

\* The guest's kernel learns an address of the machine at the other end.
Learn(l) ==
  /\ l \in ready
  /\ neigh[l] # "v6"
  /\ \E family \in {"v4", "v6"} : neigh' = [neigh EXCEPT ![l] = family]
  /\ UNCHANGED <<index, ready, hvars, blinked, gvars, net, heard, faults>>

Lose ==
  /\ \E d \in net : net' = net \ {d}
  /\ UNCHANGED <<index, ready, neigh, hvars, blinked, gvars, heard, faults>>

(***************************************************************************)
(* The guest: find_target with HostTarget::Auto, and probe                 *)
(***************************************************************************)
\* Without a ready interface the round ends at once (WaitingForLink).
StartRound ==
  /\ gpc = "idle"
  /\ \E listed \in BOOLEAN :
       /\ Fault(~listed)
       /\ todo' \in ReadyCandidates(listed)
  /\ todo' # <<>>
  /\ gpc' = "choose"
  /\ UNCHANGED <<index, ready, neigh, hvars, blinked, cur, target, casts, net, heard>>

EndRound ==
  /\ gpc = "choose" /\ todo = <<>>
  /\ gpc' = "idle" /\ cur' = NoLink
  /\ UNCHANGED <<index, ready, neigh, hvars, blinked, todo, target, casts, net,
                 heard, faults>>

\* The datagrams of one sending to every target.
Sent(l, cs) ==
  IF l \in Cables /\ l \in ready
  THEN {[type |-> "probe", link |-> l, cast |-> c] :
          c \in {c \in cs : c = "multi" => l \in Multicast}}
  ELSE {}

\* probe: a fresh socket and nonce; the targets are ff02::1 and the
\* link-local neighbours.  A socket failure ends this interface's turn.
StartProbe ==
  /\ gpc = "choose" /\ todo # <<>>
  /\ cur' = Head(todo) /\ todo' = Tail(todo)
  /\ \/ /\ Fault(Head(todo) \in ready)
        /\ UNCHANGED <<gpc, casts, net, heard>>
     \/ /\ gpc' = "probing"
        /\ casts' = {"multi"} \cup (IF HasNeighbourV6(cur') THEN {"uni"} ELSE {})
        /\ net' = net \cup Sent(cur', casts')
        /\ heard' = {data_port} \ {NoPort}
        /\ UNCHANGED faults
  /\ UNCHANGED <<index, ready, neigh, hvars, blinked, target>>

\* Every PROBE_RESEND_INTERVAL; a send that fails is only logged.
Resend ==
  /\ gpc = "probing"
  /\ net' = net \cup Sent(cur, casts)
  /\ UNCHANGED <<index, ready, neigh, hvars, blinked, gvars, heard, faults>>

\* The probe returns and drops its socket; the next one's port may be the
\* same, so what is still on its way may reach it.
Close(d) ==
  /\ net' = {[e EXCEPT !.mine = FALSE] : e \in Offers \ d}
  /\ casts' = {} /\ heard' = {}

\* Mutant: the nonce is not compared.
MatchesAny(d) == d \in net

\* An offer is for this probe when it echoes its nonce; others are ignored.
Matches(d) == d.mine

Accept(d) ==
  /\ gpc = "probing"
  /\ d.type = "offer" /\ Matches(d)
  /\ gpc' = "dialing"
  /\ target' = [by |-> "offer", port |-> d.port]
  /\ Close({d})
  /\ UNCHANGED <<index, ready, neigh, hvars, blinked, todo, cur, faults>>

\* No offer before the deadline: dial a neighbour if the link has one,
\* otherwise go on to the next interface.
Unanswered ==
  /\ gpc = "probing"
  /\ IF HasNeighbour(cur)
     THEN gpc' = "dialing" /\ target' = NeighbourTarget
     ELSE gpc' = "choose" /\ UNCHANGED target
  /\ Close({})
  /\ UNCHANGED <<index, ready, neigh, hvars, blinked, todo, cur, faults>>

\* recv_from fails: the next interface, without a look at the neighbours.
ProbeBreaks ==
  /\ gpc = "probing"
  /\ Fault(TRUE)
  /\ gpc' = "choose"
  /\ Close({})
  /\ UNCHANGED <<index, ready, neigh, hvars, blinked, todo, cur, target>>

\* serve, seen from here: it needs a host that listens where it dials.
Serves == cur \in Cables \cap ready /\ data_port = target.port

Dial ==
  /\ gpc = "dialing"
  /\ gpc' = IF Serves THEN "tunnel" ELSE "idle"
  /\ cur' = IF Serves THEN cur ELSE NoLink
  /\ target' = IF Serves THEN target ELSE NoTarget
  /\ todo' = <<>>
  /\ UNCHANGED <<index, ready, neigh, hvars, blinked, casts, net, heard, faults>>

TunnelLost ==
  /\ gpc = "tunnel" /\ ~Serves
  /\ gpc' = "idle" /\ cur' = NoLink /\ target' = NoTarget
  /\ UNCHANGED <<index, ready, neigh, hvars, blinked, todo, casts, net, heard, faults>>

(***************************************************************************)
(* Specification                                                           *)
(***************************************************************************)
HostStep == Poll \/ Refresh \/ ResponderStops \/ HostStarts \/ HostStops
LinkStep == Lose \/ \E l \in Cables : Plug(l) \/ ComesUp(l) \/ Unplug(l)
GuestStep == StartRound \/ EndRound \/ StartProbe \/ Resend \/ Unanswered
             \/ ProbeBreaks \/ Dial \/ TunnelLost
Next ==
  \/ HostStep \/ LinkStep \/ GuestStep
  \/ \E l \in Links : Learn(l)
  \/ \E d \in net : Answer(d) \/ Accept(d)

Spec == Init /\ [][Next]_vars

\* Timers fire and calls return.  Of what a guest and a host keep sending
\* each other in time, not everything is lost or late.
Fairness ==
  /\ WF_vars(Poll) /\ WF_vars(Refresh)
  /\ WF_vars(StartRound) /\ WF_vars(EndRound) /\ WF_vars(StartProbe)
  /\ WF_vars(Unanswered) /\ WF_vars(Dial) /\ WF_vars(TunnelLost)
  /\ SF_vars(gpc = "probing" /\ \E d \in net : Answer(d))
  /\ SF_vars(\E d \in net : Accept(d))

FairSpec == Spec /\ Fairness

(***************************************************************************)
(* Properties                                                              *)
(***************************************************************************)
\* Type invariant.  The code knows of every membership it holds: joining
\* again what is joined fails (discovery.rs, join and refresh_memberships).
TypeOK ==
  /\ index \in [Cables -> Indices \cup {Absent}]
  /\ ready \subseteq Links
  /\ neigh \in [Links -> {"none", "v4", "v6"}]
  /\ data_port \in DataPorts \cup {NoPort}
  /\ bound \subseteq Indices /\ blinked \subseteq Indices
  /\ responder \in [running : BOOLEAN, joined : SUBSET Indices, member : SUBSET Indices]
  /\ responder.member \subseteq responder.joined
  /\ gpc \in {"idle", "choose", "probing", "dialing", "tunnel"}
  /\ todo \in Seq(Links) /\ cur \in Links \cup {NoLink}
  /\ target \in [by : {"nobody", "offer", "neighbour"},
                 port : DataPorts \cup {NoPort, DATA_PORT}]
  /\ casts \subseteq {"multi", "uni"}
  /\ net \subseteq Datagram /\ heard \subseteq DataPorts
  /\ faults \in 0..MaxFaults

\* An offer the guest dials on was true in the time of its probe: a late
\* answer to an earlier probe never sends it to a port the host has left
\* (discovery.rs, the nonce of probe_targets).
FreshOffer ==
  [][gpc = "probing" /\ target'.by = "offer" => target'.port \in heard]_vars

\* Probes over cable l reach the responder and come first: no interface
\* before it has a neighbour to dial, and the interface has not come back
\* under its old index before a refresh could see it gone.
Reachable(l) ==
  /\ l \in ready /\ Candidate(l, TRUE) /\ data_port # NoPort
  /\ \A k \in ready : Candidate(k, TRUE) /\ Before(k, l, TRUE) => neigh[k] = "none"
  /\ \/ l \in Multicast /\ index[l] \notin blinked
     \/ neigh[l] = "v6"

\* Whatever was pulled, plugged, restarted or failed before, in whatever
\* order: a host that can be reached is found, over multicast or by unicast
\* to a neighbour (the "self-healing" of discovery.rs, Responder and
\* discovery_task, with find_target's rounds).
FoundInTheEnd ==
  \A l \in Cables : <>[]Reachable(l) => []<>(gpc = "tunnel")

\* "Discovery probes every ready candidate anyway, so a wrong kind only
\* affects ordering in the UI" (link.rs, on the kinds of interfaces).
EveryReadyProbed ==
  \A l \in Links :
    <>[](l \in ready /\ Candidate(l, TRUE)) => []<>(cur = l \/ gpc = "tunnel")
=============================================================================
