------------------------------- MODULE Flows --------------------------------
(***************************************************************************)
(* The flows of the host's guest sessions: their dispatch, the two halves  *)
(* of a forwarded TCP connection, UDP and DNS flows, the events and the    *)
(* gauge that show them, and the DNS upstreams                             *)
(* (crates/netm-host/src/{flow,dns,session}.rs, FlowTable in               *)
(* crates/netm-cli/src/tui/model.rs).                                      *)
(*                                                                         *)
(* Flows run in tasks of their own: a session cancels them when it ends    *)
(* but does not wait for them, so they overlap with the next session.      *)
(* Each direction of a connection carries at most one chunk and the end.   *)
(***************************************************************************)
EXTENDS Integers, Sequences, FiniteSets, SequencesExt

CONSTANTS
  Tcp, Udp, Dns,   \* the flows a guest may open, by what forwards them
  SystemLists,     \* what system_resolvers may return
  Excluded,        \* the tunnel's own DNS and gateway addresses
  Fallback,        \* FALLBACK_UPSTREAMS
  IsFixed,         \* upstreams were configured: they are never refreshed
  EventCap,        \* capacity of the host's event channel
  MaxActive,       \* bound: flows in the gauge when another is opened
  MaxSessions      \* bound: sessions of a behaviour

FlowIds == Tcp \cup Udp \cup Dns

ASSUME FlowsAssumption ==
  /\ IsFiniteSet(FlowIds)
  /\ Tcp \cap Udp = {} /\ Tcp \cap Dns = {} /\ Udp \cap Dns = {}
ASSUME ListsAssumption ==
  /\ \A list \in SystemLists : list \in Seq(Range(list))
  /\ Fallback # <<>> /\ Range(Fallback) \cap Excluded = {}
  /\ IsFixed \in BOOLEAN
ASSUME BoundsAssumption == EventCap \in Nat \ {0} /\ {MaxActive, MaxSessions} \subseteq Nat

VARIABLES
  session,   \* the guest session: none, announced, pumping, ending
  sessions,  \* sessions left
  pc,        \* where a flow's task is
  cancelled, \* flows whose session has ended (their child_token)
  half,      \* the two directions of a TCP flow
  end,       \* the ends of a TCP flow: the guest and the server
  query,     \* the DNS query of a DNS flow that is on its way
  gauge,     \* Shared.active_flows
  upstreams, \* Upstreams.inner
  events,    \* the host's event channel
  table      \* the rows of the TUI's FlowTable

fvars == <<pc, cancelled, half, end, query, gauge>>
vars == <<session, sessions, fvars, upstreams, events, table>>

Directions == {"up", "down"}       \* guest to server, server to guest
NoQuery == [list |-> <<>>, at |-> 0]
FreshHalf ==
  [data |-> "none", fin |-> FALSE, loop |-> "read", err |-> FALSE]

FreshHalves == [d \in Directions |-> FreshHalf]
OpenEnds == [d \in Directions |-> "open"]

Ev(type, id) == [type |-> type, id |-> id]
NoFlow == 0
Room == Len(events) < EventCap

(***************************************************************************)
(* dns.rs: Upstreams                                                       *)
(***************************************************************************)
\* Mutant: nothing is excluded.
UsableUnfiltered(list) == IF list = <<>> THEN Fallback ELSE list

\* Upstreams::set: without the excluded and repeated ones, never empty.
Usable(list) ==
  LET firsts == {i \in DOMAIN list :
                   list[i] \notin Excluded /\ \A j \in 1..(i - 1) : list[j] # list[i]}
      nth(n) == CHOOSE i \in firsts : Cardinality({j \in firsts : j <= i}) = n
  IN IF firsts = {} THEN Fallback ELSE [n \in 1..Cardinality(firsts) |-> list[nth(n)]]

\* What a reading of the system's resolvers can make of the upstreams.
SystemUpstreams == {Usable(list) : list \in SystemLists}

Init ==
  /\ session = "none" /\ sessions = MaxSessions
  /\ pc = [f \in FlowIds |-> "unused"] /\ cancelled = {}
  /\ half = [f \in Tcp |-> FreshHalves]
  /\ end = [f \in Tcp |-> OpenEnds]
  /\ query = [f \in Dns |-> NoQuery]
  /\ gauge = 0
  /\ upstreams \in SystemUpstreams
  /\ events = <<>> /\ table = {}

\* dns_refresh_task, every REFRESH_INTERVAL.
Refresh ==
  /\ ~IsFixed
  /\ upstreams' \in SystemUpstreams
  /\ UNCHANGED <<session, sessions, fvars, events, table>>

(***************************************************************************)
(* session.rs: the session around its flows                                *)
(***************************************************************************)
Emit(e) == Room /\ events' = Append(events, e)

GuestConnected ==
  /\ session = "none" /\ sessions > 0
  /\ sessions' = sessions - 1
  /\ session' = "up"
  /\ Emit(Ev("connected", NoFlow))
  /\ UNCHANGED <<fvars, upstreams, table>>

\* Whatever ends `pump`: flows_cancel.cancel(), then the stack is dropped.
SessionEnds ==
  /\ session = "up"
  /\ session' = "ending"
  /\ cancelled' = {f \in FlowIds : pc[f] # "unused"}
  /\ UNCHANGED <<sessions, pc, half, end, query, gauge, upstreams, events, table>>

GuestDisconnected ==
  /\ session = "ending"
  /\ session' = "none"
  /\ Emit(Ev("disconnected", NoFlow))
  /\ UNCHANGED <<sessions, fvars, upstreams, table>>

\* dispatch of an allowed destination; run_flow counts the flow at once.
Dispatch(f) ==
  /\ session = "up" /\ pc[f] = "unused" /\ gauge <= MaxActive
  /\ pc' = [pc EXCEPT ![f] = "opening"]
  /\ gauge' = gauge + 1
  /\ UNCHANGED <<session, sessions, cancelled, half, end, query, upstreams, events, table>>

(***************************************************************************)
(* flow.rs: run_flow and what it runs                                      *)
(***************************************************************************)
Opened(f) ==
  /\ pc[f] = "opening"
  /\ Emit(Ev("opened", f))
  /\ pc' = [pc EXCEPT ![f] = IF f \in Tcp THEN "connecting" ELSE "pumping"]
  /\ UNCHANGED <<session, sessions, cancelled, half, end, query, gauge, upstreams, table>>

\* The future run_flow was given has returned: its streams are dropped, a
\* query on its way is aborted, and the flow leaves the gauge.
Ends(f) ==
  /\ pc' = [pc EXCEPT ![f] = "closing"]
  /\ gauge' = gauge - 1
  /\ half' = [g \in Tcp |-> IF g = f THEN FreshHalves ELSE half[g]]
  /\ end' = [g \in Tcp |-> IF g = f THEN OpenEnds ELSE end[g]]
  /\ query' = [g \in Dns |-> IF g = f THEN NoQuery ELSE query[g]]
  /\ UNCHANGED <<session, sessions, cancelled, upstreams, events, table>>

\* Mutant: FlowClosed is dropped when the channel is full.
ClosedIfRoom(f) ==
  /\ pc[f] = "closing"
  /\ events' = IF Room THEN Append(events, Ev("closed", f)) ELSE events
  /\ pc' = [pc EXCEPT ![f] = "done"]
  /\ UNCHANGED <<session, sessions, cancelled, half, end, query, gauge, upstreams, table>>

Closed(f) ==
  /\ pc[f] = "closing"
  /\ Emit(Ev("closed", f))
  /\ pc' = [pc EXCEPT ![f] = "done"]
  /\ UNCHANGED <<session, sessions, cancelled, half, end, query, gauge, upstreams, table>>

\* tcp_flow: connected, or refused or timed out, in which case the stack's
\* stream is closed first, for as long as the guest takes to acknowledge.
Connect(f) ==
  /\ pc[f] = "connecting"
  /\ \E where \in {"pumping", "refusing"} : pc' = [pc EXCEPT ![f] = where]
  /\ UNCHANGED <<session, sessions, cancelled, half, end, query, gauge, upstreams, events, table>>

RefusalAcked(f) ==
  /\ pc[f] = "refusing"
  /\ Ends(f)

\* Mutant: the pumps do not look at the token.
ListensConnecting(f) == pc[f] = "connecting"

Listens(f) == pc[f] \in {"connecting", "pumping"}

Cancel(f) ==
  /\ f \in cancelled /\ Listens(f)
  /\ Ends(f)

(***************************************************************************)
(* pump_tcp                                                                *)
(***************************************************************************)
\* A direction is named after its source: "up" comes from the guest.
Sink(d) == IF d = "up" THEN "down" ELSE "up"

\* Set direction d of f, and nothing else of a flow.
SetHalf(f, d, h) ==
  /\ half' = [half EXCEPT ![f][d] = h]
  /\ UNCHANGED <<session, sessions, pc, cancelled, end, query, gauge, upstreams, events, table>>

Pumping(f, d, loop) == pc[f] = "pumping" /\ half[f][d].loop = loop

ReadChunk(f, d) ==
  /\ Pumping(f, d, "read") /\ half[f][d].data = "sent"
  /\ SetHalf(f, d, [half[f][d] EXCEPT !.data = "held", !.loop = "write"])

WriteChunk(f, d) ==
  /\ Pumping(f, d, "write") /\ end[f][Sink(d)] = "open"
  /\ SetHalf(f, d, [half[f][d] EXCEPT !.data = "got", !.loop = "read"])

\* Mutant: the stack's reader is not polled again.
WakesIfServer(f, d) == d = "down"

\* What lets a pending read see the end: a socket wakes its reader, the
\* stack does not, but its read is polled again every STACK_READ_NUDGE.
Wakes(f, d) == d \in Directions

ReadEnd(f, d) ==
  /\ Pumping(f, d, "read") /\ half[f][d].data # "sent" /\ half[f][d].fin
  /\ Wakes(f, d)
  /\ SetHalf(f, d, [half[f][d] EXCEPT !.loop = "shut"])

\* A reset fails reads and writes.  An end that fell silent fails a write,
\* and the stack times a silent guest out; a silent server's read waits on.
Fails(f, d) ==
  \/ half[f][d].loop = "read" /\ end[f][d] = "reset"
  \/ half[f][d].loop = "read" /\ end[f][d] = "silent" /\ d = "up"
  \/ half[f][d].loop = "write" /\ end[f][Sink(d)] # "open"

HalfFails(f, d) ==
  /\ pc[f] = "pumping" /\ Fails(f, d)
  /\ SetHalf(f, d, [half[f][d] EXCEPT !.loop = "shut", !.err = TRUE])

\* Mutant: the flow is over when one direction is.
OverAtOnce(f, d) == d \in Directions

\* After direction d: an error ends the flow, otherwise both must be done.
Over(f, d) == half[f][d].err \/ half[f][Sink(d)].loop = "done"

\* The shutdown of the other side's writer, with or without success.
Shutdown(f, d) ==
  /\ Pumping(f, d, "shut")
  /\ IF Over(f, d)
     THEN Ends(f)
     ELSE SetHalf(f, d, [half[f][d] EXCEPT !.loop = "done"])

\* What the two ends of the connection do; what the guest sends before the
\* pump begins might as well come then.  At most one end breaks.  To the pump
\* a flow the stack gives up for inactivity (TCP_SESSION_TIMEOUT) is one whose
\* guest fell silent, also when that guest is alive and merely idle.
Produces(f, d) ==
  /\ pc[f] = "pumping" /\ end[f][d] = "open"
  /\ ~half[f][d].fin
  /\ \/ half[f][d].data = "none" /\ SetHalf(f, d, [half[f][d] EXCEPT !.data = "sent"])
     \/ SetHalf(f, d, [half[f][d] EXCEPT !.fin = TRUE])

Breaks(f, d) ==
  /\ pc[f] = "pumping" /\ end[f] = OpenEnds
  /\ \E how \in {"reset", "silent"} : end' = [end EXCEPT ![f][d] = how]
  /\ UNCHANGED <<session, sessions, pc, cancelled, half, query, gauge, upstreams, events, table>>

(***************************************************************************)
(* udp_flow and dns_udp_flow                                               *)
(***************************************************************************)
\* Idle for too long, or the stack's stream failed or ended.  A query that
\* is on its way is aborted.
DatagramsEnd(f) ==
  /\ f \in Udp \cup Dns /\ pc[f] = "pumping"
  /\ Ends(f)

SetQuery(f, q) ==
  /\ query' = [query EXCEPT ![f] = q]
  /\ UNCHANGED <<session, sessions, pc, cancelled, half, end, gauge, upstreams, events, table>>

\* A query is relayed with the list of that moment.
Ask(f) ==
  /\ pc[f] = "pumping" /\ query[f] = NoQuery
  /\ SetQuery(f, [list |-> upstreams, at |-> 1])

\* query_udp: UDP_QUERY_TIMEOUT for each upstream, in order.
NextUpstream(f) ==
  /\ query[f] # NoQuery /\ query[f].at < Len(query[f].list)
  /\ SetQuery(f, [query[f] EXCEPT !.at = @ + 1])

\* Answered, or the last one failed too.
QueryEnds(f) == query[f] # NoQuery /\ SetQuery(f, NoQuery)

(***************************************************************************)
(* model.rs: HostModel.apply on what concerns flows                        *)
(***************************************************************************)
\* FlowTable.open, close and, when a guest comes or goes, clear_active.
Row(e) ==
  CASE e.type = "opened" -> table \cup {e.id}
    [] e.type = "closed" -> table \ {e.id}
    [] OTHER -> {}

Show ==
  /\ events # <<>>
  /\ events' = Tail(events)
  /\ table' = Row(Head(events))
  /\ UNCHANGED <<session, sessions, fvars, upstreams>>

(***************************************************************************)
(* Specification                                                           *)
(***************************************************************************)
SessionStep == GuestConnected \/ SessionEnds \/ GuestDisconnected
FlowStep(f) == Opened(f) \/ Closed(f) \/ Cancel(f)
PumpStep(f, d) ==
  ReadChunk(f, d) \/ WriteChunk(f, d) \/ ReadEnd(f, d) \/ HalfFails(f, d) \/ Shutdown(f, d)

Next ==
  \/ SessionStep \/ Refresh \/ Show
  \/ \E f \in FlowIds : Dispatch(f) \/ FlowStep(f) \/ DatagramsEnd(f)
  \/ \E f \in Tcp : Connect(f) \/ RefusalAcked(f)
  \/ \E f \in Tcp, d \in Directions :
       PumpStep(f, d) \/ Produces(f, d) \/ Breaks(f, d)
  \/ \E f \in Dns : Ask(f) \/ NextUpstream(f) \/ QueryEnds(f)

Spec == Init /\ [][Next]_vars

\* Tasks are scheduled, the user interface drains its channel, and an end
\* that is neither reset nor silent reads what it is sent.  Nothing is
\* assumed of what guest and server send, nor of an acknowledgement.
Fairness ==
  /\ WF_vars(Show) /\ WF_vars(GuestDisconnected)
  /\ \A f \in FlowIds : WF_vars(Opened(f)) /\ WF_vars(Closed(f)) /\ WF_vars(Cancel(f))
  /\ \A f \in Tcp : WF_vars(Connect(f))
  /\ \A f \in Tcp, d \in Directions : WF_vars(PumpStep(f, d))

FairSpec == Spec /\ Fairness

(***************************************************************************)
(* Properties                                                              *)
(***************************************************************************)
\* Type invariant.  A query never goes to the forwarder itself, also not
\* with a list that has been replaced since (dns.rs, Upstreams.excluded).
TypeOK ==
  /\ session \in {"none", "up", "ending"} /\ sessions \in 0..MaxSessions
  /\ pc \in [FlowIds -> {"unused", "opening", "connecting", "refusing",
                         "pumping", "closing", "done"}]
  /\ cancelled \subseteq FlowIds
  /\ half \in [Tcp -> [Directions ->
                [data : {"none", "sent", "held", "got"}, fin : BOOLEAN,
                 loop : {"read", "write", "shut", "done"},
                 err : BOOLEAN]]]
  /\ end \in [Tcp -> [Directions -> {"open", "reset", "silent"}]]
  /\ gauge \in 0..Cardinality(FlowIds)
  /\ upstreams # <<>> /\ Range(upstreams) \cap Excluded = {}
  /\ \A f \in Dns : Range(query[f].list) \cap Excluded = {}
  /\ Len(events) <= EventCap /\ table \subseteq FlowIds

\* A row of the flow table goes away: the flow goes on, or its end is on its
\* way to the screen, although flows outlive the session that opened them
\* and their events cross the next session's (model.rs, FlowTable).
RowsAreClosed ==
  \A f \in table : pc[f] # "done" \/ Ev("closed", f) \in Range(events)

\* Direction d of f owes the other side a chunk or the end.
Owes(f, d) ==
  /\ pc[f] = "pumping" /\ f \notin cancelled
  /\ \A e \in Directions : end[f][e] = "open"
  /\ half[f][d].data = "sent" \/ half[f][d].fin
  /\ half[f][d].loop # "done"

NothingIsOwed == []<>(\A f \in Tcp, d \in Directions : ~Owes(f, d))
NeverCutOff ==
  [][\A f \in Tcp, d \in Directions :
       pc[f] = "pumping" /\ pc'[f] = "closing" /\ Owes(f, d)
         => half[f][d].loop = "shut" /\ half[f][d].data # "sent"]_vars

\* A half-close is half: while the session and both ends live, what either
\* of them sends and its end arrive at the other, also after the other
\* direction has ended, and only then is the flow over (flow.rs, pump_tcp).
\* A flow that was given up for its inactivity has no such claim.
HalfCloseIsHalf == NeverCutOff /\ NothingIsOwed

\* The flows of a session end with it and leave the gauge, whatever their
\* peers do.  The exception is a flow that could not connect: nothing bounds
\* its closing of the stack's stream (flow.rs, tcp_flow).
FlowsEndWithSession ==
  []<>(\A f \in cancelled : pc[f] \in {"done", "refusing"})
=============================================================================
