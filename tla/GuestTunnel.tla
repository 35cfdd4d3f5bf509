----------------------------- MODULE GuestTunnel -----------------------------
(***************************************************************************)
(* The guest core (crates/netm-guest/src/guest.rs): find a host, connect,  *)
(* handshake, probe the link, open the TUN device, configure the machine,  *)
(* pump packets, take everything down again, wait, retry.  Every step may  *)
(* fail or meet a shutdown; the blocking threads that open the device and  *)
(* run the platform configurator go on when nobody waits for them.         *)
(*                                                                         *)
(* The environment is what the calls of GuestEnv return and what the host  *)
(* does.  Log lines, statistics, names and addresses are left out.  The    *)
(* awaited event sends take no steps of their own: Session.next and        *)
(* Session.shutdown (netm-cli) drain the channel as long as the core runs. *)
(***************************************************************************)
EXTENDS Integers

CONSTANTS
  MaxBackoff,  \* max_retry_backoff, in units of retry_backoff
  MaxReady,    \* interfaces that may be ready at the same time
  KeepAlive,   \* ping intervals in keepalive_timeout
  SendBuffer,  \* batches the TCP send buffer takes when the host is silent
  CountCap     \* where the history counters stop

\* The powers of two, as a function: proofs know nothing of 2^n.
Power2[n \in Nat] == IF n = 0 THEN 1 ELSE 2 * Power2[n - 1]

\* The history counters stop where the delays have long stopped growing.
ASSUME BoundsAssumption ==
  /\ MaxBackoff \in Nat \ {0}
  /\ MaxReady \in Nat \ {0}
  /\ KeepAlive \in Nat
  /\ SendBuffer \in Nat
  /\ CountCap \in Nat \ {0}
  /\ MaxBackoff <= Power2[CountCap - 1]

VARIABLES
  target,             \* cfg.host: "auto", "linklocal", "fixed" or "serial"
  reconnect,          \* cfg.reconnect
  ctrl,               \* the command in the watch channel
  pc,                 \* the await the guest stands at
  state,              \* GuestState, without its data
  todo,               \* ready interfaces find_target has not finished with
  watch,              \* link_iface is known, its carrier is polled
  end,                \* how the pump ended: "none", "shutdown" or "lost"
  failure_backoff, discovery_backoff, delay,
  device,             \* the TUN device exists
  conf,               \* the machine: "clean", "changed" or "residue"
  configurator,       \* "none", "real" or "noop" (the real one is lost)
  worker,             \* the blocking thread: "idle", "tun", "apply", "revert"
  host,               \* the host of this session is "there" or "silent"
  quiet,              \* ping ticks since the last frame (last_rx)
  busy,               \* packets wait in the TUN device
  unsent,             \* batches buffered towards a silent host
  turn,               \* flips with every batch sent: a pump that goes on
                      \* sending differs from one that stands still
  fails, misses       \* history: failures since the tunnel was last up,
                      \* unanswered rounds since a link or host was found

config  == <<target, reconnect>>
finding == <<todo, watch>>
retry   == <<failure_backoff, discovery_backoff, delay, fails, misses>>
machine == <<device, conf, configurator, worker>>
pump    == <<host, quiet, busy, unsent, turn>>
vars == <<config, ctrl, pc, state, finding, end, retry, machine, pump>>

Targets == {"auto", "linklocal", "fixed", "serial"}
States  == {"Disconnected", "WaitingForLink", "Discovering", "Connecting", "Connected"}
Ended   == {"stopped", "aborted"}
PcValues == {"top", "probing", "asking", "connecting", "handshake", "speed", "opening",
             "applying", "undoing", "undone", "up", "closing", "closed", "sleeping"} \cup Ended

ControlOK ==
  /\ target \in Targets
  /\ reconnect \in BOOLEAN
  /\ ctrl \in {"run", "shutdown"}
  /\ pc \in PcValues
  /\ state \in States
  /\ watch \in BOOLEAN
  /\ end \in {"none", "shutdown", "lost"}

CountersOK ==
  /\ todo \in 0..MaxReady
  /\ failure_backoff \in 1..MaxBackoff
  /\ discovery_backoff \in 1..MaxBackoff
  /\ delay \in 1..MaxBackoff
  /\ fails \in 0..CountCap
  /\ misses \in 0..CountCap
  /\ quiet \in 0..KeepAlive
  /\ unsent \in 0..SendBuffer

MachineOK ==
  /\ device \in BOOLEAN
  /\ conf \in {"clean", "changed", "residue"}
  /\ configurator \in {"none", "real", "noop"}
  /\ worker \in {"idle", "tun", "apply", "revert"}

PumpOK ==
  /\ host \in {"there", "silent"}
  /\ busy \in BOOLEAN
  /\ turn \in BOOLEAN

TypeOK == ControlOK /\ CountersOK /\ MachineOK /\ PumpOK

Init ==
  /\ target \in Targets
  /\ reconnect \in BOOLEAN
  /\ ctrl = "run"
  /\ pc = "top"
  /\ state = "Disconnected"
  /\ todo = 0 /\ watch = FALSE
  /\ end = "none"
  /\ failure_backoff = 1 /\ discovery_backoff = 1 /\ delay = 1
  /\ device = FALSE /\ conf = "clean" /\ configurator = "none" /\ worker = "idle"
  /\ host = "there" /\ quiet = 0 /\ busy = FALSE /\ unsent = 0 /\ turn = FALSE
  /\ fails = 0 /\ misses = 0

-----------------------------------------------------------------------------
(* Helpers *)

AtMost(n, cap) == IF n <= cap THEN n ELSE cap

\* Mutant: the delay is not capped.
NextBackoffUncapped(d) == 2 * d

next_retry_backoff(d) == AtMost(2 * d, MaxBackoff)

\* The command is looked at before anything else (`biased`).
Asked == ctrl = "shutdown"

\* self.sleep(d), counted as the wait after the given history.
Sleep(d) == pc' = "sleeping" /\ delay' = d

\* find_target returned Ok(None) with `state` Discovering: nobody answered.
NoAnswer ==
  /\ Sleep(discovery_backoff)
  /\ discovery_backoff' = next_retry_backoff(discovery_backoff)
  /\ misses' = AtMost(misses + 1, CountCap)
  /\ UNCHANGED <<failure_backoff, fails>>

\* find_target returned Ok(None) with `state` WaitingForLink.
NoLink ==
  /\ Sleep(1)
  /\ state' = "WaitingForLink"
  /\ discovery_backoff' = 1
  /\ misses' = 0
  /\ UNCHANGED <<failure_backoff, fails>>

\* find_target returned a target: serve starts connecting.
Dial(watched) ==
  /\ pc' = "connecting"
  /\ state' = "Connecting"
  /\ watch' = watched
  /\ todo' = 0
  /\ discovery_backoff' = 1
  /\ misses' = 0
  /\ UNCHANGED <<failure_backoff, delay, fails>>

\* Outcome::Failed: report, then retry later or return the error.
Failed ==
  /\ state' = "Disconnected"
  /\ fails' = AtMost(fails + 1, CountCap)
  /\ IF reconnect
     THEN /\ Sleep(failure_backoff)
          /\ failure_backoff' = next_retry_backoff(failure_backoff)
     ELSE pc' = "stopped" /\ UNCHANGED <<failure_backoff, delay>>
  /\ UNCHANGED <<discovery_backoff, misses>>

\* Mutant: nobody is told that the tunnel is gone.
LostUnseen ==
  /\ IF reconnect
     THEN Sleep(1) /\ failure_backoff' = 1
     ELSE pc' = "stopped" /\ UNCHANGED <<failure_backoff, delay>>
  /\ UNCHANGED <<state, discovery_backoff, fails, misses>>

\* Mutant: a session does not reset the delay of failures.
LostKeepingBackoff ==
  /\ state' = "Disconnected"
  /\ IF reconnect THEN Sleep(1) ELSE pc' = "stopped" /\ UNCHANGED delay
  /\ UNCHANGED <<failure_backoff, discovery_backoff, fails, misses>>

\* Outcome::Lost: the session was up; retry soon or return.
Lost ==
  /\ state' = "Disconnected"
  /\ IF reconnect
     THEN Sleep(1) /\ failure_backoff' = 1
     ELSE pc' = "stopped" /\ UNCHANGED <<failure_backoff, delay>>
  /\ UNCHANGED <<discovery_backoff, fails, misses>>

\* The pump's variables mean nothing outside the pump.
Silenced == host' = "there" /\ quiet' = 0 /\ busy' = FALSE /\ unsent' = 0 /\ turn' = FALSE

\* run returns: the command was seen at an await that listens to it.
Stop == pc' = "stopped" /\ UNCHANGED <<state, end, finding, retry, machine, pump>>

-----------------------------------------------------------------------------
(* Finding a host *)

\* The head of run's loop and of find_target, up to its first long await.
FindTarget ==
  /\ pc = "top" /\ ~Asked
  /\ \/ target = "serial" /\ Dial(FALSE)
     \* Manual target: dialled unless its interface is known to be down.
     \/ target = "fixed" /\ Dial(FALSE)
     \/ target = "linklocal" /\ \E listed \in BOOLEAN : Dial(listed)
     \/ target \in {"linklocal", "auto"} /\ NoLink /\ UNCHANGED finding
     \* Auto: probe the ready interfaces one by one.
     \/ /\ target = "auto"
        /\ pc' = "probing"
        /\ state' = "Discovering"
        /\ todo' \in 1..MaxReady
        /\ UNCHANGED <<watch, retry>>
  /\ UNCHANGED <<config, ctrl, end, machine, pump>>

\* The next ready interface is probed, or the round is over.
NextInterface ==
  /\ todo' = todo - 1
  /\ IF todo > 1 THEN pc' = "probing" /\ UNCHANGED retry ELSE NoAnswer
  /\ UNCHANGED <<state, watch>>

\* The multicast probe ends: an offer, silence or an error.
Probe ==
  /\ pc = "probing" /\ ~Asked
  /\ \/ Dial(TRUE)
     \/ pc' = "asking" /\ UNCHANGED <<state, finding, retry>>
     \/ NextInterface
  /\ UNCHANGED <<config, ctrl, end, machine, pump>>

\* neighbor_target: a blocking look-up that does not listen to the command.
AskNeighbour ==
  /\ pc = "asking"
  /\ Dial(TRUE) \/ NextInterface
  /\ UNCHANGED <<config, ctrl, end, machine, pump>>

-----------------------------------------------------------------------------
(* Bringing the tunnel up *)

\* connect or open_serial returns.
Connect ==
  /\ pc = "connecting" /\ ~Asked
  /\ \/ pc' = "handshake" /\ UNCHANGED <<state, retry>>
     \/ Failed
  /\ UNCHANGED <<config, ctrl, finding, end, machine, pump>>

\* Hello and Config came, or something else, nothing, or the end.
Handshake ==
  /\ pc = "handshake" /\ ~Asked
  /\ \/ pc' = "speed" /\ UNCHANGED <<state, retry>>
     \/ Failed
  /\ UNCHANGED <<config, ctrl, finding, end, machine, pump>>

\* run_as_initiator returns: measured or skipped, or the link is broken.
Speed ==
  /\ pc = "speed" /\ ~Asked
  /\ \/ pc' = "opening" /\ worker' = "tun" /\ UNCHANGED <<state, retry>>
     \/ Failed /\ UNCHANGED worker
  /\ UNCHANGED <<config, ctrl, finding, end, device, conf, configurator, pump>>

\* The blocking thread has created the device: hand it to a fresh
\* configurator on another blocking thread.
OpenTun ==
  /\ pc = "opening" /\ ~Asked
  /\ pc' = "applying"
  /\ device' = TRUE /\ conf' = "changed" /\ configurator' = "real" /\ worker' = "apply"
  /\ UNCHANGED <<config, ctrl, state, finding, end, retry, pump>>

\* The device cannot be created.
OpenFails ==
  /\ pc = "opening" /\ ~Asked
  /\ worker' = "idle"
  /\ Failed
  /\ UNCHANGED <<config, ctrl, finding, end, device, conf, configurator, pump>>

\* apply returned Ok; nobody listened to the command meanwhile.
ApplyDone ==
  /\ pc = "applying"
  /\ pc' = "up"
  /\ state' = "Connected"
  /\ worker' = "idle"
  /\ fails' = 0
  /\ host' \in {"there", "silent"}
  /\ busy' \in BOOLEAN
  /\ quiet' = 0 /\ unsent' = 0 /\ turn' = FALSE
  /\ UNCHANGED <<config, ctrl, finding, end, failure_backoff, discovery_backoff, delay, misses>>
  /\ UNCHANGED <<device, conf, configurator>>

\* Mutant: a failed apply returns without undoing what it did.
ApplyFailsAtOnce ==
  /\ pc = "applying"
  /\ device' = FALSE /\ configurator' = "none" /\ worker' = "idle"
  /\ Failed
  /\ UNCHANGED <<config, ctrl, finding, end, conf, pump>>

\* apply failed half way: what it did is undone.
ApplyFails ==
  /\ pc = "applying"
  /\ pc' = "undoing"
  /\ worker' = "revert"
  /\ UNCHANGED <<config, ctrl, state, finding, end, retry, device, conf, configurator, pump>>

\* What a revert leaves: everything undone, or what failed commands left.
Reverts == conf' \in IF configurator = "real" THEN {"clean", "residue"} ELSE {conf}

\* apply panicked: the configurator's Drop has reverted, a no-op takes its
\* place.
ApplyPanics ==
  /\ pc = "applying"
  /\ pc' = "undoing"
  /\ configurator' = "noop"
  /\ Reverts
  /\ worker' = "revert"
  /\ UNCHANGED <<config, ctrl, state, finding, end, retry, device, pump>>

\* revert after a failed apply has returned.
Undo ==
  /\ pc = "undoing"
  /\ pc' = "undone"
  /\ Reverts
  /\ worker' = "idle"
  /\ UNCHANGED <<config, ctrl, state, finding, end, retry, device, configurator, pump>>

\* Bye, then the device is dropped.
GiveUp ==
  /\ pc = "undone"
  /\ device' = FALSE /\ configurator' = "none"
  /\ Failed
  /\ UNCHANGED <<config, ctrl, finding, end, conf, worker, pump>>

-----------------------------------------------------------------------------
(* The packet pump.  select is biased: command, frames, packets, timers. *)

\* Mutant: the device is dropped before the routes into it are undone.
EndPumpDroppingDevice(how) ==
  /\ pc = "up"
  /\ pc' = "closing"
  /\ end' = how
  /\ worker' = "revert"
  /\ device' = FALSE
  /\ Silenced
  /\ UNCHANGED <<config, ctrl, state, finding, retry, conf, configurator>>

EndPump(how) ==
  /\ pc = "up"
  /\ pc' = "closing"
  /\ end' = how
  /\ worker' = "revert"
  /\ Silenced
  /\ UNCHANGED <<config, ctrl, state, finding, retry, device, conf, configurator>>

PumpShutdown == Asked /\ EndPump("shutdown")

\* A frame, Bye, a decoding error or the end of the stream.
PumpFrame ==
  /\ pc = "up" /\ ~Asked
  /\ \/ /\ host = "there"
        /\ quiet' = 0
        /\ UNCHANGED <<config, ctrl, pc, state, finding, end, retry, machine>>
        /\ UNCHANGED <<host, busy, unsent, turn>>
     \/ EndPump("lost")

\* Packets from the device: sent, buffered, or the write fails (it times out
\* when the buffer is full).  A serial line without flow control carries the
\* bytes away whoever listens.
PumpPackets ==
  /\ pc = "up" /\ ~Asked /\ busy
  /\ \/ /\ unsent' = IF host = "there" \/ target = "serial" THEN 0 ELSE unsent + 1
        /\ unsent' <= SendBuffer
        /\ turn' = ~turn
        /\ UNCHANGED <<config, ctrl, pc, state, finding, end, retry, machine>>
        /\ UNCHANGED <<host, quiet, busy>>
     \/ EndPump("lost")

\* Mutant: the age of the last frame is never looked at.
PumpPingOnly ==
  /\ pc = "up" /\ ~Asked /\ ~busy
  /\ quiet' = AtMost(quiet + 1, KeepAlive)
  /\ UNCHANGED <<config, ctrl, pc, state, finding, end, retry, machine>>
  /\ UNCHANGED <<host, busy, unsent, turn>>

\* The ping timer: a dead host is noticed here, or one more Ping is sent.
PumpPing ==
  /\ pc = "up" /\ ~Asked /\ ~busy
  /\ \/ /\ quiet < KeepAlive
        /\ quiet' = quiet + 1
        /\ UNCHANGED <<config, ctrl, pc, state, finding, end, retry, machine>>
        /\ UNCHANGED <<host, busy, unsent, turn>>
     \/ EndPump("lost")

\* link_active: a host behind a pulled cable is silent; a silent host may
\* still give a carrier, and then nothing follows.
CarrierGone == watch /\ host = "silent"

\* The carrier poll finds the cable pulled.
PumpLink ==
  /\ ~Asked /\ ~busy /\ CarrierGone
  /\ EndPump("lost")

\* revert has returned (a failure is only reported).
Revert ==
  /\ pc = "closing"
  /\ pc' = "closed"
  /\ Reverts
  /\ worker' = "idle"
  /\ UNCHANGED <<config, ctrl, state, finding, end, retry, device, configurator, pump>>

\* The device is dropped; run goes on with the outcome.
Teardown ==
  /\ pc = "closed"
  /\ device' = FALSE /\ configurator' = "none"
  /\ end' = "none"
  /\ \/ end = "shutdown" /\ pc' = "stopped" /\ UNCHANGED <<state, retry>>
     \/ end = "lost" /\ Lost
  /\ UNCHANGED <<config, ctrl, finding, conf, worker, pump>>

\* The wait between two rounds is over.
WakeUp ==
  /\ pc = "sleeping" /\ ~Asked
  /\ pc' = "top"
  /\ UNCHANGED <<config, ctrl, state, finding, end, retry, machine, pump>>

-----------------------------------------------------------------------------
(* Shutdown *)

\* GuestCommand::Shutdown, or its sender is gone.
Ask ==
  /\ ~Asked
  /\ pc \notin Ended
  /\ ctrl' = "shutdown"
  /\ UNCHANGED <<config, pc, state, finding, end, retry, machine, pump>>

\* Mutant: the speed test does not listen.
ListeningButSpeed == {"top", "probing", "connecting", "handshake", "opening", "sleeping"}

\* The awaits that listen to the command, and the head of the loop.  From
\* the handshake on the host is told Bye.
Listening == {"top", "probing", "connecting", "handshake", "speed", "opening", "sleeping"}

SeeShutdown ==
  /\ Asked
  /\ pc \in Listening
  /\ Stop
  /\ UNCHANGED <<config, ctrl>>

\* Session.shutdown has waited long enough and aborts the guest's task: its
\* future is dropped where it stands, blocking threads go on.
Abort ==
  /\ Asked
  /\ pc \notin Ended
  /\ pc' = "aborted"
  /\ worker' = IF pc = "up" THEN "revert" ELSE worker
  /\ device' = (device /\ pc \notin {"applying", "undoing", "closing"})
  /\ Silenced
  /\ UNCHANGED <<config, ctrl, state, finding, end, retry, conf, configurator>>

\* A device nobody waits for any more: created and dropped at once.
StrayTun ==
  /\ pc \in Ended /\ worker = "tun"
  /\ worker' = "idle"
  /\ device' \in BOOLEAN
  /\ UNCHANGED <<config, ctrl, pc, state, finding, end, retry, conf, configurator, pump>>

\* Mutant: a configurator that is dropped does not revert.
StrayApplyForgotten ==
  /\ pc = "aborted" /\ worker = "apply"
  /\ worker' = "idle"
  /\ UNCHANGED <<config, ctrl, pc, state, finding, end, retry, device, conf, configurator, pump>>

\* apply returns to nobody: the configurator is dropped, its Drop reverts.
StrayApply ==
  /\ pc = "aborted" /\ worker = "apply"
  /\ worker' = "revert"
  /\ UNCHANGED <<config, ctrl, pc, state, finding, end, retry, device, conf, configurator, pump>>

StrayRevert ==
  /\ pc = "aborted" /\ worker = "revert"
  /\ worker' = "idle"
  /\ Reverts
  /\ UNCHANGED <<config, ctrl, pc, state, finding, end, retry, device, configurator, pump>>

DropDevice ==
  /\ pc \in Ended /\ worker = "idle"
  /\ device /\ device' = FALSE
  /\ UNCHANGED <<config, ctrl, pc, state, finding, end, retry, conf, configurator, worker, pump>>

-----------------------------------------------------------------------------
(* The environment of a running tunnel *)

HostChanges ==
  /\ pc = "up"
  /\ host' \in {"there", "silent"} \ {host}
  /\ unsent' = 0
  /\ UNCHANGED <<config, ctrl, pc, state, finding, end, retry, machine, quiet, busy, turn>>

Traffic ==
  /\ pc = "up"
  /\ busy' = ~busy
  /\ UNCHANGED <<config, ctrl, pc, state, finding, end, retry, machine>>
  /\ UNCHANGED <<host, quiet, unsent, turn>>

-----------------------------------------------------------------------------
\* Steps with a time limit of their own, or bounded work of a thread.
GuestStep ==
  \/ FindTarget \/ Probe \/ AskNeighbour \/ Connect \/ Handshake
  \/ OpenTun \/ OpenFails \/ ApplyDone \/ ApplyFails \/ ApplyPanics
  \/ Undo \/ GiveUp \/ Revert \/ Teardown \/ WakeUp
  \/ SeeShutdown \/ PumpShutdown

StrayStep == StrayTun \/ StrayApply \/ StrayRevert \/ DropDevice

\* What the pump does without the host.
PumpStep == PumpPackets \/ PumpPing \/ PumpLink

Outside == Ask \/ Abort \/ Speed \/ PumpFrame \/ HostChanges \/ Traffic

Next == GuestStep \/ StrayStep \/ PumpStep \/ Outside

Spec == Init /\ [][Next]_vars

(***************************************************************************)
(* The runtime polls the guest; connecting, handshake and probes have      *)
(* timeouts, the sleeps end, the external commands and system calls of the *)
(* blocking threads return, and a due timer is polled when no packet       *)
(* waits.  Nothing is assumed of the host, of the speed test (its writes   *)
(* have no timeout), of the traffic, or of the command.                    *)
(***************************************************************************)
Fairness == WF_vars(GuestStep) /\ WF_vars(StrayStep) /\ WF_vars(PumpStep)

FairSpec == Spec /\ Fairness

-----------------------------------------------------------------------------
(* Properties *)

\* Outside a session nothing of the tunnel is left on the machine, whichever
\* step of bringing it up failed (apart from what failed commands of a
\* revert left): the guest waits, searches, connects and returns without a
\* device and without routes into one.
BetweenSessions == {"top", "probing", "asking", "connecting", "handshake", "speed", "sleeping"}

CleanBetweenSessions ==
  /\ pc \in BetweenSessions => ~device /\ configurator = "none" /\ worker = "idle"
  /\ pc \in BetweenSessions \cup {"opening", "stopped"} => conf # "changed"

\* What the user is shown is so: Connected only while the configured tunnel
\* stands or is being taken down (or the guest has ended), and never another
\* state while packets are pumped.
ShownIsTrue ==
  /\ state = "Connected" => pc \in {"up", "closing", "closed"} \cup Ended
  /\ pc = "up" => state = "Connected" /\ device /\ conf = "changed"

\* "The delay doubles up to this value and resets after a real session":
\* each wait is the one its history asks for, where failures to connect and
\* unanswered searches alternate and keep two delays of their own.  A serial
\* target waits so too (guest.rs:415-434, 448-453), where lib.rs:75-79 tells
\* of an absent port retried every 2 s and of a Hello sent again at every
\* handshake timeout: this property follows the code.
Doubled(n) == AtMost(Power2[n], MaxBackoff)

WaitsFollowHistory ==
  pc = "sleeping" =>
    delay = CASE state = "Disconnected" /\ fails > 0 -> Doubled(fails - 1)
              [] state = "Disconnected" /\ fails = 0 -> 1
              [] state = "WaitingForLink"            -> 1
              [] state = "Discovering"               -> Doubled(misses - 1)

\* The guest keeps what TunnelLifecycle promises the machine, in every
\* interleaving of failures, shutdown, an abort and its blocking threads.
Lifecycle == INSTANCE TunnelLifecycle WITH
  routed <- conf = "changed",
  life   <- CASE pc = "stopped" -> "returned" [] pc = "aborted" -> "killed" [] OTHER -> "running"

KeepsLifecycle == Lifecycle!Spec

\* Nothing of the tunnel stays behind a guest that returned or was aborted.
GoneInTheEnd == Lifecycle!GoneInTheEnd

\* A shutdown ends from every state, also from those that do not listen.
ShutdownStops == Asked ~> pc \in Ended

\* A host that fell silent is noticed over a network link, however the
\* machine's own packets keep the pump from its timers.
DeadHostIsNoticed ==
  pc = "up" /\ host = "silent" /\ target # "serial" ~> pc # "up" \/ host = "there"
=============================================================================
