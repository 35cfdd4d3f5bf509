---------------------------- MODULE HostSession ----------------------------
(***************************************************************************)
(* The host side of NetM: the TCP accept loop, the serial loop, the single *)
(* guest slot they compete for, the life of one guest session, the event   *)
(* channel to the user interface, and the shutdown of all of it            *)
(* (crates/netm-host/src/{lib,session}.rs).                                *)
(*                                                                         *)
(* What a guest sends is the environment: every outcome its frames, its    *)
(* silence or the loss of its link can produce is one disjunct.  Frame     *)
(* contents, names and reasons are left out.  Log lines, statistics and    *)
(* link-speed results travel through the same channel as the events        *)
(* modelled here.  They take no place in the modelled queue, but a task    *)
(* that awaits such a send waits for Room, in a phase of its own.          *)
(***************************************************************************)
EXTENDS Integers, Sequences

CONSTANTS
  Conns,     \* remote TCP endpoints (ip:port) a guest may connect from
  Ports,     \* the serial port that may be configured: {} or a singleton
  EventCap,  \* capacity of the event channel (EVENT_CAPACITY in the CLI)
  None       \* "no peer"

Peers == Conns \cup Ports

ASSUME PortsAssumption == Conns \cap Ports = {} /\ \A p, q \in Ports : p = q
ASSUME NoneAssumption  == None \notin Peers
ASSUME CapAssumption   == EventCap \in Nat \ {0}

VARIABLES
  main,     \* where `run` is: "accepting", "refusing", "stopping" or "returned"
  joining,  \* session tasks the teardown still has to wait for, in order
  current,  \* the peer of the last TCP session task (`current` in `run`)
  slot,     \* Shared.active_guest
  phase,    \* phase[p]: what is happening to peer p
  doomed,   \* peers whose session task was aborted by the teardown
  events,   \* guest events in the channel, oldest first
  ui        \* HostModel.guest of the consumer

vars == <<main, joining, current, slot, phase, doomed, events, ui>>

(***************************************************************************)
(* Phases.  "queued" is a TCP connection in the listener's backlog,        *)
(* "refused" one whose refusal the accept loop is logging, "rejecting" one *)
(* handed to reject_busy.  LoopPhases belong to the serial loop: the port  *)
(* is absent, the first failure to open it is logged, it has been opened   *)
(* or its end is reported (SerialState and a log line).  "closed" is a     *)
(* serial loop that has exited or was never started (HostConfig.serial is  *)
(* None).  All others are places where a session task waits; in            *)
(* "declining" it is the log line about a refused handshake.               *)
(***************************************************************************)
HoldingPhases == {"announce", "speed", "pump", "closing"}
TaskPhases    == HoldingPhases \cup {"hello", "declining", "greeted", "losing", "ending"}
LoopPhases    == {"absent", "unavailable", "opening", "reporting"}
ConnPhases    == TaskPhases \cup {"off", "queued", "refused", "rejecting"}
PortPhases    == TaskPhases \cup LoopPhases \cup {"closed"}

Event(kind, p) == [kind |-> kind, peer |-> p]
Events == [kind : {"connected", "disconnected"}, peer : Peers]

TypeOK ==
  /\ main \in {"accepting", "refusing", "stopping", "returned"}
  /\ joining \in Seq(Peers)
  /\ current \in Conns \cup {None}
  /\ slot \in Peers \cup {None}
  /\ phase \in [Peers -> ConnPhases \cup PortPhases]
  /\ \A p \in Conns : phase[p] \in ConnPhases
  /\ \A p \in Ports : phase[p] \in PortPhases
  /\ doomed \in SUBSET Peers
  /\ events \in Seq(Events)
  /\ ui \in Peers \cup {None}

Init ==
  /\ main = "accepting"
  /\ joining = << >>
  /\ current = None
  /\ slot = None
  /\ phase \in [Peers -> {"off", "absent", "closed"}]
  /\ \A p \in Peers : phase[p] = "off" <=> p \in Conns
  /\ doomed = {}
  /\ events = << >>
  /\ ui = None

-----------------------------------------------------------------------------
(* Helpers *)

\* Emitter.send awaits until the bounded channel has a free place.
Room == Len(events) < EventCap

\* root_cancel has been cancelled: every session's token is its child.
Cancelled == main \notin {"accepting", "refusing"}

\* p's task goes from one phase to another.
Move(p, from, to) == phase[p] = from /\ phase' = [phase EXCEPT ![p] = to]

\* After a session a TCP task ends; the serial loop reports the end.
After(p) == IF p \in Conns THEN "off" ELSE "reporting"

\* Mutant: busy only while the last TCP session holds the slot.
TcpBusyBySlot == current # None /\ phase[current] \in HoldingPhases

\* tcp_busy: the last TCP session task is still alive.
TcpBusy == current # None /\ phase[current] \in TaskPhases

\* What the accept loop tests: a live TCP session or a taken slot.
Busy == TcpBusy \/ slot # None

-----------------------------------------------------------------------------
(* The accept loop *)

\* A guest connects; the kernel completes the connection.
Connect(p) ==
  /\ p \in Conns
  /\ main # "returned"
  /\ Move(p, "off", "queued")
  /\ UNCHANGED <<main, joining, current, slot, doomed, events, ui>>

\* listener.accept() yields a connection and the host is free.
Admit(p) ==
  /\ main = "accepting"
  /\ ~Busy
  /\ Move(p, "queued", "hello")
  /\ current' = p
  /\ UNCHANGED <<main, joining, slot, doomed, events, ui>>

\* Mutant: refuses only because of another TCP session.
RejectTcpBusy(p) ==
  /\ main = "accepting"
  /\ TcpBusy
  /\ Move(p, "queued", "refused")
  /\ main' = "refusing"
  /\ UNCHANGED <<joining, current, slot, doomed, events, ui>>

\* listener.accept() yields a connection and the host is busy: the accept
\* loop awaits the log line about the refusal and looks at nothing else.
RejectBusy(p) ==
  /\ main = "accepting"
  /\ Busy
  /\ Move(p, "queued", "refused")
  /\ main' = "refusing"
  /\ UNCHANGED <<joining, current, slot, doomed, events, ui>>

\* The line is in the channel; reject_busy runs in a task of its own.
SpawnReject(p) ==
  /\ main = "refusing"
  /\ Room
  /\ Move(p, "refused", "rejecting")
  /\ main' = "accepting"
  /\ UNCHANGED <<joining, current, slot, doomed, events, ui>>

\* reject_busy: read at most one frame, send Bye, drop the connection.
FinishReject(p) ==
  /\ Move(p, "rejecting", "off")
  /\ UNCHANGED <<main, joining, current, slot, doomed, events, ui>>

-----------------------------------------------------------------------------
(* The serial loop outside a session.  Only its two timed waits, "absent"   *)
(* and the wait for a Hello, look at the cancellation.                      *)

\* The port could not be opened and the error is a new one, which is logged.
OpenFails(p) ==
  /\ p \in Ports
  /\ ~Cancelled
  /\ Move(p, "absent", "unavailable")
  /\ UNCHANGED <<main, joining, current, slot, doomed, events, ui>>

LogUnavailable(p) ==
  /\ Room
  /\ Move(p, "unavailable", "absent")
  /\ UNCHANGED <<main, joining, current, slot, doomed, events, ui>>

\* The port could be opened: a log line and SerialState{open: true}.
OpenPort(p) ==
  /\ p \in Ports
  /\ ~Cancelled
  /\ Move(p, "absent", "opening")
  /\ UNCHANGED <<main, joining, current, slot, doomed, events, ui>>

\* They are in the channel and the loop waits for a Hello, without a limit.
AwaitHello(p) ==
  /\ Room
  /\ Move(p, "opening", "hello")
  /\ UNCHANGED <<main, joining, current, slot, doomed, events, ui>>

\* wait_for_hello notices the cancellation.
StopWaiting(p) ==
  /\ p \in Ports
  /\ Cancelled
  /\ Move(p, "hello", "reporting")
  /\ UNCHANGED <<main, joining, current, slot, doomed, events, ui>>

\* SerialState{open: false} and a log line are in the channel: the loop
\* settles and reopens the port or, once cancelled, returns.
ReportClosed(p) ==
  /\ Room
  /\ Move(p, "reporting", IF Cancelled THEN "closed" ELSE "absent")
  /\ UNCHANGED <<main, joining, current, slot, doomed, events, ui>>

\* The serial loop notices the cancellation while it has no port.
ClosePort(p) ==
  /\ Cancelled
  /\ Move(p, "absent", "closed")
  /\ UNCHANGED <<main, joining, current, slot, doomed, events, ui>>

-----------------------------------------------------------------------------
(* One session *)

\* A valid Hello was read and Hello + Config were written.
HelloAccepted(p) ==
  /\ Move(p, "hello", "greeted")
  /\ UNCHANGED <<main, joining, current, slot, doomed, events, ui>>

\* TCP: the first frame is not a valid Hello, none came in
\* HANDSHAKE_TIMEOUT, or the reply could not be written.
HelloRefused(p) ==
  /\ p \in Conns
  /\ Move(p, "hello", "declining")
  /\ UNCHANGED <<main, joining, current, slot, doomed, events, ui>>

\* Serial: a Hello of a foreign version; any other frame is ignored.  The
\* read is in a biased select, which a cancellation wins.
ForeignHello(p) ==
  /\ p \in Ports
  /\ ~Cancelled
  /\ Move(p, "hello", "declining")
  /\ UNCHANGED <<main, joining, current, slot, doomed, events, ui>>

\* The refusal is logged: a TCP task ends, the serial loop answers with Bye
\* and goes on waiting.
Decline(p) ==
  /\ Room
  /\ Move(p, "declining", IF p \in Conns THEN "off" ELSE "hello")
  /\ UNCHANGED <<main, joining, current, slot, doomed, events, ui>>

\* Serial: the link breaks while the handshake reads or writes.
HelloLinkError(p) ==
  /\ p \in Ports
  /\ Move(p, "hello", "reporting")
  /\ UNCHANGED <<main, joining, current, slot, doomed, events, ui>>

\* serve_connected: claim_guest takes the slot or finds it taken.
ClaimSlot(p) ==
  /\ slot = None
  /\ Move(p, "greeted", "announce")
  /\ slot' = p
  /\ UNCHANGED <<main, joining, current, doomed, events, ui>>

LoseSlot(p) ==
  /\ slot # None
  /\ Move(p, "greeted", "losing")
  /\ UNCHANGED <<main, joining, current, slot, doomed, events, ui>>

\* Mutant: the refused session frees the slot on its way out.
TellLoserReleasing(p) ==
  /\ Room
  /\ Move(p, "losing", After(p))
  /\ slot' = None
  /\ UNCHANGED <<main, joining, current, doomed, events, ui>>

\* The session that lost the race for the slot logs it, says Bye and ends.
TellLoser(p) ==
  /\ Room
  /\ Move(p, "losing", After(p))
  /\ UNCHANGED <<main, joining, current, slot, doomed, events, ui>>

Announce(p) ==
  /\ Room
  /\ Move(p, "announce", "speed")
  /\ events' = Append(events, Event("connected", p))
  /\ UNCHANGED <<main, joining, current, slot, doomed, ui>>

\* run_as_responder returned Measured or Skipped; it never looks at the
\* cancellation token.  A pending Bye or Hello ends the pump at once.  A
\* result waiting for its place in the channel is one more way in which this
\* phase can last.
SpeedDone(p) ==
  /\ \E to \in {"pump", "closing"} : Move(p, "speed", to)
  /\ UNCHANGED <<main, joining, current, slot, doomed, events, ui>>

\* release_guest clears the slot only if p holds it.
Release(p) == slot' = IF slot = p THEN None ELSE slot

\* Mutant: an error returns before release_guest.
SpeedFailedKeepingSlot(p) ==
  /\ Move(p, "speed", "ending")
  /\ UNCHANGED <<main, joining, current, slot, doomed, events, ui>>

\* run_as_responder failed: no pump, hence no Bye; the slot is freed.
SpeedFailed(p) ==
  /\ Move(p, "speed", "ending")
  /\ Release(p)
  /\ UNCHANGED <<main, joining, current, doomed, events, ui>>

\* The pump leaves its loop: cancellation, Bye, a new Hello, a read or write
\* error, end of stream, unanswered pings, or the IP stack stopping.
LeavePump(p) ==
  /\ Move(p, "pump", "closing")
  /\ UNCHANGED <<main, joining, current, slot, doomed, events, ui>>

\* The pump's teardown queues Bye and gives the writer a second; the slot is
\* freed as soon as the pump has returned.
Teardown(p) ==
  /\ Move(p, "closing", "ending")
  /\ Release(p)
  /\ UNCHANGED <<main, joining, current, doomed, events, ui>>

\* Only then is the end announced.
AnnounceEnd(p) ==
  /\ Room
  /\ Move(p, "ending", After(p))
  /\ events' = Append(events, Event("disconnected", p))
  /\ UNCHANGED <<main, joining, current, slot, doomed, ui>>

-----------------------------------------------------------------------------
(* Shutdown and the consumer of the events *)

\* Mutant: the handle is taken although there never was a TCP session.
TasksUnchecked == <<current>>

\* The tasks `run` joins: the last TCP session, then the serial loop.
Tasks == (IF current = None THEN << >> ELSE <<current>>)
         \o (IF Ports = {} THEN << >> ELSE <<CHOOSE p \in Ports : TRUE>>)

\* HostCommand::Shutdown (or its sender is gone): log, cancel everything.
Shutdown ==
  /\ main = "accepting"
  /\ Room
  /\ main' = "stopping"
  /\ joining' = Tasks
  /\ UNCHANGED <<current, slot, phase, doomed, events, ui>>

\* p has no session task, or the serial loop has returned.
Finished(p) == phase[p] \notin TaskPhases \cup LoopPhases

\* timeout(3s, handle) found the task finished.
Join ==
  /\ main = "stopping" /\ joining # << >>
  /\ Finished(Head(joining))
  /\ joining' = Tail(joining)
  /\ UNCHANGED <<main, current, slot, phase, doomed, events, ui>>

\* Mutant: the teardown awaits a task without a time limit.
AbortNever == FALSE

\* timeout(3s, handle) elapsed: the task is aborted, not awaited.
Abort ==
  /\ main = "stopping" /\ joining # << >>
  /\ ~Finished(Head(joining))
  /\ doomed' = doomed \cup {Head(joining)}
  /\ joining' = Tail(joining)
  /\ UNCHANGED <<main, current, slot, phase, events, ui>>

\* The aborted task is dropped at its next await: nothing it had left to do
\* happens, and the slot keeps its value.
Vanish(p) ==
  /\ p \in doomed
  /\ doomed' = doomed \ {p}
  /\ phase' = [phase EXCEPT ![p] = IF ~Finished(p) THEN IF p \in Ports THEN "closed" ELSE "off"
                                   ELSE @]
  /\ UNCHANGED <<main, joining, current, slot, events, ui>>

\* Every session was joined or aborted; the listener is dropped.
Return ==
  /\ main = "stopping" /\ joining = << >>
  /\ main' = "returned"
  /\ phase' = [p \in Peers |-> IF phase[p] = "queued" THEN "off" ELSE phase[p]]
  /\ UNCHANGED <<joining, current, slot, doomed, events, ui>>

\* HostModel.apply: Connected shows the guest, Disconnected clears it,
\* whichever guest it names.
Consume ==
  /\ events # << >>
  /\ ui' = IF Head(events).kind = "connected" THEN Head(events).peer ELSE None
  /\ events' = Tail(events)
  /\ UNCHANGED <<main, joining, current, slot, phase, doomed>>

-----------------------------------------------------------------------------
\* Steps of p's own tasks that need nobody else.
SessionStep(p) ==
  \/ FinishReject(p) \/ HelloRefused(p) \/ Decline(p)
  \/ ClaimSlot(p) \/ LoseSlot(p) \/ TellLoser(p) \/ Announce(p)
  \/ Teardown(p) \/ AnnounceEnd(p)
  \/ LogUnavailable(p) \/ AwaitHello(p) \/ StopWaiting(p) \/ ReportClosed(p)
  \/ ClosePort(p) \/ Vanish(p)

\* Steps of the accept loop for a queued connection.
AcceptStep(p) == Admit(p) \/ RejectBusy(p) \/ SpawnReject(p)

\* Steps that need a guest or a device to do something.  The speed test is
\* one: its writes have no time limit.
OuterStep(p) ==
  \/ Connect(p) \/ OpenFails(p) \/ OpenPort(p) \/ HelloAccepted(p) \/ ForeignHello(p)
  \/ HelloLinkError(p) \/ SpeedDone(p) \/ SpeedFailed(p) \/ LeavePump(p)

MainStep == Join \/ Abort \/ Return

Next ==
  \/ \E p \in Peers : SessionStep(p) \/ AcceptStep(p) \/ OuterStep(p)
  \/ MainStep
  \/ Shutdown
  \/ Consume

Spec == Init /\ [][Next]_vars

\* Only these waits can outlast the three seconds of the teardown: the
\* handshake and its reply, the speed test, and a full event channel.
Slow(p) ==
  \/ phase[p] \in {"hello", "speed"}
  \/ /\ phase[p] \in {"declining", "losing", "announce", "ending"}
                     \cup {"unavailable", "opening", "reporting"}
     /\ ~Room

(***************************************************************************)
(* The runtime polls every ready task, a bounded wait ends (the handshake, *)
(* a refusal and the pump's teardown all have timeouts), and a cancelled   *)
(* pump leaves its loop.  The consumer drains the channel while the host   *)
(* serves; nothing is assumed of it after a shutdown.                      *)
(* A place in the channel is handed to the waiting senders in FIFO order,  *)
(* hence the strong fairness of the steps that need one.  Nothing makes a  *)
(* guest connect, speak or leave.  An abort is only relied on where the    *)
(* wait it ends has no end of its own.                                     *)
(***************************************************************************)
Fairness ==
  /\ \A p \in Peers : /\ SF_vars(SessionStep(p))
                      /\ SF_vars(AcceptStep(p))
                      /\ WF_vars(Cancelled /\ LeavePump(p))
  /\ WF_vars(Join)
  /\ WF_vars(joining # << >> /\ Slow(Head(joining)) /\ Abort)
  /\ WF_vars(Return)
  /\ WF_vars(~Cancelled /\ Consume)

FairSpec == Spec /\ Fairness

-----------------------------------------------------------------------------
(* Properties *)

\* Only one guest is served at a time: whoever is between claim_guest and
\* release_guest is the peer in the slot, although the accept loop's check
\* and the claim are separate steps of different tasks.
SlotExclusive == \A p \in Peers : phase[p] \in HoldingPhases => slot = p

\* The slot is not leaked: while the host accepts guests, a taken slot
\* belongs to a peer that is being served.
SlotNotLeaked == ~Cancelled => \A p \in Peers : slot = p => phase[p] \in HoldingPhases

\* The teardown of `run` knows every session and the serial loop: when it
\* returns, one that has not ended is one it has aborted (run keeps a single
\* handle for all TCP sessions, so no second one may ever be alive).
NoneLeftBehind == main = "returned" => \A p \in Peers : Finished(p) \/ p \in doomed

\* No serial loop runs, and none has run.
TcpOnly == ~Cancelled /\ \A p \in Ports : phase[p] = "closed"

\* The guest on the screen once the first i queued events are consumed.
ShownAfter(i) == IF i = 0 THEN ui
                 ELSE IF events[i].kind = "connected" THEN events[i].peer ELSE None

\* Without a serial port the consumer sees a guest come only when none is
\* shown and go only when that guest is shown, across the sessions of
\* different peers, although the slot is free before the end is announced.
StreamAlternates ==
  TcpOnly => \A i \in 1..Len(events) :
               ShownAfter(i - 1) = IF events[i].kind = "connected" THEN None ELSE events[i].peer

\* A shutdown ends, whatever the guests do and whatever fills the channel,
\* although a session or the serial loop may be waiting for a place in it.
ShutdownReturns == main = "stopping" ~> main = "returned"

\* No connection waits for the present session to end: one in the backlog is
\* admitted or handed to reject_busy (or the listener is dropped).
QueuedIsAnswered ==
  \A p \in Conns : phase[p] = "queued" ~> phase[p] \notin {"queued", "refused"}
=============================================================================
