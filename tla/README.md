# NetM in TLA+

NetM shares one computer's Internet connection (the *host*) with another (the *guest*) over a
cable: Thunderbolt, Ethernet or a USB serial line. The guest opens a TUN device, routes its
traffic into it and sends the packets as frames; the host runs a user-space IP stack and forwards
the flows. This directory holds the TLA+ models of the parts where order, failure and concurrency
decide whether the program is right, the TLC runs that check them and the TLAPS proofs about them.

## The system

| part | code (`src/crates/`) | state | operations | hard because |
|---|---|---|---|---|
| Host core | `netm-host/src/lib.rs`, `session.rs` | accept loop, `current` task, `Shared.active_guest`, event channel, cancellation token | accept, refuse, handshake, claim and release the slot, speed test, pump, serial loop, shutdown | an accept loop, a serial loop and session tasks share one slot and one channel; shutdown aborts tasks |
| Host flows | `netm-host/src/flow.rs`, `device.rs` | gauge of flows, two copy directions per TCP flow | open, connect, copy, half-close, close, cancel | two directions, three ways to end; flows outlive their session |
| Host DNS | `netm-host/src/dns.rs` | upstream list | refresh, query with fallback | the tunnel's own resolver must never be an upstream |
| Guest core | `netm-guest/src/guest.rs` | `GuestState`, backoffs, control channel | find a target, connect, handshake, probe, open TUN, apply, pump, tear down, retry | every step may fail or meet a shutdown |
| Platform configurators | `netm-guest/src/platform/` | undo list, `reverted`, the machine's routes and DNS | `apply`, `revert`, `Drop` | external commands fail one by one; the process may be killed between two |
| Link | `netm-proto/src/frame.rs`, `speed.rs`, both pumps | phase of each side, frames under way, keep-alive counters | handshake, burst and result, ping, Bye | two sides with independent timeouts; serial links lose bytes and outlive sessions |
| Discovery | `netm-proto/src/discovery.rs`, `link.rs` | joined multicast groups, probe nonces | join, refresh, probe, fall back to a neighbour | interfaces come and go between two refreshes |
| CLI and TUI | `netm-cli/src/` | `Session`, `Pending`, watchdog, screen models | start, stop, switch mode, reduce events, re-execute under sudo | shutdown races the core's end; `exec` runs no destructor |

The host core and the guest core talk over one ordered link (TCP, or a serial line that outlives
sessions). Each core reports to its user interface through a bounded event channel and takes
commands through a watch channel. The guest core drives a platform configurator on a blocking
thread. Discovery runs beside the host's accept loop and inside the guest's search for a target.

### What makes each part correct

* **Host core**: one guest is served at a time; the slot is always given back, and only by its
  owner; a refused guest is told; the event stream pairs every `GuestConnected` with one
  `GuestDisconnected`; a shutdown ends and forgets no session.
* **Configurators**: whatever `apply` changed is on the undo list wherever it stopped; a revert
  without a failed command leaves nothing; the machine's own `resolv.conf` is lost in two ways
  only, both known (finding 4); DNS points into the tunnel only while the routes do.
* **Guest core**: outside a session there is no TUN device and no changed route; a shutdown ends;
  delays grow with failures and reset after a session; the host is told when the guest leaves.
* **Link**: whatever was lost, torn or late, guest and host meet again; a keep-alive ends no
  session both sides serve and does end one whose guest is gone; a measured speed belongs to the
  attempt that reports it.
* **Flows and DNS**: the end of one direction does not cut off the other; flows end with their
  session; every row shown is closed; no query goes to the tunnel's own resolver.
* **Discovery**: a host that can be reached is found whatever happened before; a late answer never
  sends the guest to a port the host has left.
* **CLI**: the screen is that of the running core; a quit ends; `exec` never replaces a process
  that holds a guest's routes, and the process it starts asks for the same guest.

The hazards behind these, each at its line, are the list `hazards` in `PROJECT.json`.

## Modules

| module | models | main source |
|---|---|---|
| `HostSession` | host accept loop, serial loop, sessions, slot, events, shutdown, and the host screen's guest | `netm-host/src/lib.rs`, `session.rs`, `netm-cli/src/tui/model.rs` |
| `GuestTunnel` | the guest core, its blocking threads, shutdown and abort | `netm-guest/src/guest.rs`, `env.rs`, `netm-cli/src/session.rs` |
| `TunnelLifecycle` | what a guest promises its machine: an abstract specification `GuestTunnel` implements | |
| `TunnelLink` | one guest and one host at the two ends of a TCP or serial link | `guest.rs`, `session.rs`, `speed.rs`, `frame.rs` |
| `Flows` | flows of the host's sessions, DNS upstreams, the gauge and the rows on the screen | `flow.rs`, `dns.rs`, `session.rs`, `tui/model.rs` |
| `Discovery` | interfaces, responder and memberships of the host, probes of the guest | `discovery.rs`, `link.rs`, `lib.rs`, `guest.rs` |
| `CliSession` | the `netm` process: launch, screens, cores, shutdown, headless mode, sudo | `netm-cli/src/` |
| `LinuxConfigurator` | apply and revert on Linux with the machine they change | `platform/linux.rs` |
| `Platforms` | apply and revert on macOS and Windows | `platform/macos.rs`, `windows.rs` |
| `MC...` | instances for TLC | |
| `...Proofs` | theorems about the module of that name | |

The exact lines of every definition are in `map` of `PROJECT.json`. `GuestTunnel` instantiates
`TunnelLifecycle` (`Lifecycle`) with a refinement mapping. The modules meet at their edges: what
`LinuxConfigurator` and `Platforms` do in detail is the pair `conf`, `configurator` in
`GuestTunnel`; a core of `CliSession` is `GuestTunnel` or `HostSession` reduced to what it brings
up and reports; `TunnelLink` composes the two ends that are each other's environment in
`GuestTunnel` and `HostSession`, and opens up what is there one step each (handshake, speed test,
pump); `Discovery` opens up `FindTarget` and `Probe` of `GuestTunnel`.

### HostSession

A peer is a remote TCP endpoint or the serial port. `phase[p]` says at which `await` the task for
`p` stands; every await is a point where other tasks run, so each stretch between two awaits that
touch shared state is one action. The serial port has, besides the phases of a session, those of
the serial loop: `absent`, `unavailable` (the failure to open it is being logged), `opening` (open,
and being reported), `reporting` (its end is being reported), `closed` (the loop has returned).

| code | model |
|---|---|
| `Shared.active_guest` | `slot` |
| `current` in `run` | `current`; `TcpBusy` is `!handle.is_finished()` |
| `claim_guest`, `release_guest` | `ClaimSlot`/`LoseSlot`, `Release` |
| events `GuestConnected`, `GuestDisconnected` | `events`, at most `EventCap` long |
| the other awaited sends (log, `SerialState`) | a phase of its own, left with the guard `Room`: `main` = `refusing`, `declining`, `losing`, `unavailable`, `opening`, `reporting` |
| `HostModel.guest` | `ui` |
| `root_cancel` | `Cancelled` (the whole teardown follows it) |
| `timeout(3 s, handle)`, `abort()` | `Join`, `Abort`, `Vanish` |

`SpeedDone`, `SpeedFailed` and `LeavePump` stand for the whole speed test and the whole pump with
each of their outcomes; a wait with the measured speed (`LinkSpeed`) at a full channel is one more
way in which the phase `speed` can last. Sends that follow each other without anything between
them (a log line and a `SerialState`) wait for `Room` once. Time is not counted: `Abort` may end
any task the teardown waits for, and is relied on (`Fairness`) only where the wait can outlast
three seconds (`Slow`: the handshake, the speed test, and every wait for a place in the channel,
the serial loop's included). An aborted task stops at its next await, at any later moment
(`Vanish`). After a TCP guest leaves, the same endpoint may connect again.
Not in the model: `accept` errors (they change nothing), statistics events (they are dropped when
the channel is full), a panic inside a session.

### GuestTunnel

`pc` is the `await` at which the guest's only task stands.

| code | model |
|---|---|
| `ctrl`, a watch channel | `ctrl`; the awaits wrapped in `ctrl_aware` are `Listening` |
| `self.state` | `state`, without its data |
| `failure_backoff`, `discovery_backoff`, the argument of `sleep` | the same names, `delay`; in units of `retry_backoff` |
| the loop over ready interfaces | `todo`, how many are left |
| `link_iface.is_some()` | `watch` |
| `spawn_blocking` of `open_tun`, `apply`, `revert` | `worker` |
| the `Box<dyn PlatformConfigurator>` | `configurator`; `"noop"` after a panic on the blocking thread |
| what the configurator has done to the machine | `conf`; `"residue"` is what failed commands of a revert leave |
| `tun` | `device` |
| `last_rx`, counted in ping intervals | `quiet` |
| the peer, the TUN queue, the socket buffer | `host`, `busy`, `unsent` |

Actions follow the code from await to await: `FindTarget`, `Probe`, `AskNeighbour`, `Connect`,
`Handshake`, `Speed`, `OpenTun`, `ApplyDone` or `ApplyFails`/`ApplyPanics` with `Undo` and
`GiveUp`, then one action per branch of the pump's select, `Revert`, `Teardown` and `WakeUp`. The
select is biased, so a branch has the negation of the branches above it in its guard where that
matters: nothing runs when a shutdown is waiting, and no timer is polled while a packet waits.
`SeeShutdown` is `Err(Shutdown)` of every `ctrl_aware`. `Abort` is the end of `Session::shutdown`
after its deadline: the future is dropped where it stands, the configurator's `Drop` reverts (on
the thread that holds it), and the `Stray...` actions are the blocking threads nobody waits for.

`turn`, `fails` and `misses` are for the properties: `turn` makes a pump that goes on sending
differ from one that stands still; `fails` and `misses` count what the delays should follow.

Left out: interface names and addresses, the log and statistics events, the contents of frames.
Event sends take no step of their own: `Session::next` and `Session::shutdown` drain the channel
while the core runs (`CliSession` checks that). A frame may come at any time while the host is
there, and the stream may end at any time; `HostChanges` makes the host fall silent or come back.

### TunnelLink

Both ends over one link. `kind` is `"tcp"` (a connection of its own per attempt, which reports
its end), `"serial"` (a UART: what comes for a closed port is lost) or `"sticky"` (a
pseudo-terminal or CDC-ACM port, which keeps bytes nobody reads). `up` and `down` are the frames
under way, `hbuf` and `gbuf` how many of them the reader has already read into its buffer and will
lose when it closes.

| code | model |
|---|---|
| `serve`, `handshake`, `run_as_initiator`, `pump` of the guest | phases of `guest`; `GuestRead` takes the next frame, one operator per phase |
| `wait_for_hello`, `handshake`, `run_as_responder`, `pump`, `serial_loop` | phases of `host`; `HostRead` likewise |
| `send_burst`, `recv_burst` | `GuestChunk`/`GuestDone`, `HostBurst`, `HostChunk`/`HostDone`; chunks are counted, not their bytes |
| `ctrl_tx`, `writer_loop` | `ctrl`, `HostWrite`; a full queue drops (`Queue`) |
| `missed_pings`, `last_rx` | `missed`, `silent` in ticks |
| `SyncFrameCodec::decode` | `Taken`: a torn frame waits for, and swallows, the frames its length claims; then the decoder finds the next magic |
| timeouts and ticks | `GuestTimeout`, `GuestTick`, `HostTimeout`, `HostTick`, `GuestConnect` |

A timer fires when neither side has anything else to do; fired earlier, it is a fault (`Fires`).
Faults (early timers, crashes with a restart, torn frames, a failing set-up) are finitely many.
`pushed` and `measured` are history. Over TCP every end of a guest reaches the host as Bye or as the end of the stream; a pulled
cable, which delivers neither, is not modelled, so what ends a silent guest's session there is the
keep-alive only over a serial line (`HostNotices`). Left out: names and versions in Hello and
Config, the payload of packets, serial frames damaged inside without a change of length (there is no checksum;
such a frame is delivered as it is).

### Flows

`pc[f]` is the place of a flow's task in `run_flow`; `half[f][d]` one direction of `pump_tcp`
(`loop` is where its future stands, `data` and `fin` the chunk and the end on their way), `end` the
two peers. `gauge` is `Shared.active_flows`, `table` the rows of the screen's `FlowTable`, `events`
the channel between them. `Over` is the select that waits for both directions and drops the other
when one fails. A session cancels its flows and does not wait for them, so they overlap with the
next session. `Usable` is `Upstreams::set` (filter, repeated addresses, fallback list); `query`
holds the list a DNS query took when it began, which a refresh may have replaced since. The
inactivity timeout of the stack (ten minutes, `session.rs:37`, `355`) is an end that has fallen
silent; that it may also end a live flow that is merely idle is not modelled, and `HalfCloseIsHalf`
says nothing of it. A UDP flow is one step from its opening to its end; the ring buffers of
`device.rs` and the IP stack's own TCP are the environment; what the parsers of `scutil`,
`ipconfig` and `resolv.conf` return is any list of `SystemLists`.

### Discovery

A link is an interface of the guest; a cable's other end is an interface of the host with a kernel
`index`, or `Absent`. `responder` is `Responder::run` with `Memberships.joined` and the kernel's
own list; `bound` is `joined` of `discovery_task`. `Poll` is its timer (rebinding when the set of
interfaces has changed), `Refresh` the responder's own. `StartRound`, `StartProbe`, `Resend`,
`Accept`, `Unanswered`, `ProbeBreaks` (a failing socket call, which skips the neighbour as well)
and `Dial` are `find_target` and `probe`; a nonce is `mine` or an older one. Datagrams may be lost,
late and out of order. `Classify` is the macOS classification with its fall-back when
`networksetup` fails. A failing `list_candidate_interfaces` is a stutter.

### CliSession

`cli`, `env` and `root` are the present process; `proc` is where `main` is. A core is abstract: it
brings something up or down (`up`), waits in the send that reports it (`owed`), and ends after a
shutdown once all is down; it may fail or hang.

| code | model |
|---|---|
| `real_main` | `LaunchTui`, `LaunchHeadless`, `LaunchRefused`, `LaunchReexec`, `Exit`, `Reexec` |
| `App::start_mode`, `on_finished`, `stop_session`, `on_tick` | `StartMode`, `Finish`, `StopSession`, `Watchdog` |
| `on_key` | `RequestQuit`, `LeaveOnboarding`, `Select`, `Choose`, `RequestSwitch`, `Overlay` |
| `event_loop`, `Session::next` | `OnEvent`, `OnFinished`, `LeaveLoop`, `Panic` |
| `Session::shutdown` | `DrainEvent`, `DrainFinished`, `DrainDeadline` |
| `headless::run` | `HeadlessEvent`, `HeadlessFinished`, `HeadlessSignal` |
| `resolve_config_path`, `build_guest_config`, `reexec_guest_args`, `sudo_command` | `ConfigPath`, `GuestConfig`, `ReexecArgs`, `ReexecEnv` |
| `exec` | `Exec`: a new process state, no destructor; `NoSudo` when it fails |

Dropping a session (`Dropped`) closes its channels, which a core takes for a shutdown; it does not
stop the task. Cores of one process are numbered, and an old one may still run beside the next.
`Exit` ends them all at once; in the code, dropping the runtime waits for a blocking thread that
still runs an external command (`main.rs:22`), so the process may outlive the screen by that long.

### LinuxConfigurator and Platforms

The variables are the configurator's own (`undo`, `reverted`) and the machine's: who owns the
route of each prefix, the resolver setting, on Linux `/etc/resolv.conf` and its backup. Each
command that can fail on its own is an action with a success and a failure. On Linux a file is one
of the machine's own versions (`orig`, `orig2`), netm's (`netm`) or `torn`; `resolvectl domain` and
`default-route` change nothing the properties see and share one action. `Crash` may strike between
any two commands; the kernel then closes the TUN device and drops its routes. `before`, `own`,
`undoOk` and `clean` are history.

A failing `tee` or restore may leave the file `cut`, a failing `cp` the backup `torn`, and nothing
removes either. `HostRewrite` lets the machine (a DHCP client, the administrator) write
`resolv.conf` at any time: before, between and after sessions, beside the backup of a killed run,
and while a tunnel is up, when the revert overwrites it. `spoilt` says that one of the two things
has happened that make a backup the wrong one since the machine last wrote the file: it was torn,
or it already held another version. What remains true is `LossHasCause` and `RevertLeavesNothing`;
what the code's comment says of the backup is `OlderCopyIsOriginal`, which is violated.

`Platforms` has macOS and Windows in one module, because `apply` and `revert` have the same shape;
`os` chooses the commands. It adds what Linux does not have: `scutil` keys outlive a killed process
(`RemoveStale`), replacing a route takes a delete and an add, and `route.exe` reports success for
a route it did not add (`Silent`). An aborted guest closes the device while the blocking thread
goes on (`Abort`).

The guest calls `apply`, then `revert` exactly once, then drops the configurator and the device
(`guest.rs:640-706`), so the `revert` at the head of `apply` is never needed, and `Drop` does what
`Revert` does, after a panic in `apply`.

## Runs

| run | instance | checks |
|---|---|---|
| `host` | two TCP endpoints, serial port, channel of 2 | `TypeOK`, `SlotExclusive`, `SlotNotLeaked`, `NoneLeftBehind`, `StreamAlternates`; `ShutdownReturns`, `QueuedIsAnswered` under `Fairness` |
| `guest` | every kind of target, `reconnect` on and off, two interfaces, delays up to 5 | `TypeOK`, `CleanBetweenSessions`, `ShownIsTrue`, `WaitsFollowHistory`, `KeepsLifecycle`; `GoneInTheEnd`, `ShutdownStops`, `DeadHostIsNoticed` under `Fairness` |
| `link` | TCP, UART, port that keeps bytes; two faults | `TypeOK`, `SpeedIsOfThisAttempt`, `NoFalseAlarm`; `MeetAgain`, `HostNotices` under `Fairness` |
| `flows` | one TCP flow and one DNS flow, two sessions | `TypeOK`, `RowsAreClosed`, `HalfCloseIsHalf`; `FlowsEndWithSession` under `Fairness` |
| `discovery` | an Ethernet port and a USB cable to the host, two kernel indices, three faults | `TypeOK`, `FreshOffer`; `FoundInTheEnd` under `Fairness` |
| `cli` | eight launches, three cores, channel of 1 | `TypeOK`, `ScreenIsOfSession`, `ExecKillsNoGuest`, `SameAfterExec`; `QuitEnds`, `BlockedCoreResumes` under `Fairness` |
| `linux` | two prefixes; plans with 0, 1, 2 routes and one with a repeated prefix; with and without DNS | `TypeOK`, `UndoCovers`, `RevertLeavesNothing`, `LossHasCause`, `DnsNeedsRoutes` |
| `platforms` | macOS and Windows, the same plans | `UndoCovers`, `DnsNeedsRoutes` |
| `linux_routes` | as `linux` | finds `RoutesAreRestored` violated |
| `linux_original` | as `linux` | finds `OlderCopyIsOriginal` violated |
| `link_restart` | port that keeps bytes | finds `RestartIsAnswered` violated |
| `discovery_neighbour` | two USB adapters, the host at the second | finds `EveryReadyProbed` violated |

**Bounds.** Sessions repeat for ever in `host`, `guest`, `link`, `discovery`, `linux` and
`platforms`.

* `host`: two TCP endpoints and the serial port are three parties for one slot: a holder, a refused
  one and one that arrives while the slot changes hands. A channel of two lets one event wait
  behind another and still fills up.
* `guest`: a delay doubles 1, 2, 4 and then meets a cap of 5 that is no power of two, so an
  uncapped, a capped and a reset delay all differ; two interfaces give a first, a last and an only
  one; two ping intervals (`KeepAlive`) and two buffered batches (`SendBuffer`) let either limit be
  reached first. `fails` and `misses` stop at `CountCap` = 4, past which the doubled delay is at the
  cap anyway.
* `link`: three frames in flight (`Cap`) hold what a whole earlier attempt can leave; a control
  queue of two (`CtrlCap`) fills up; counts up to `MaxBytes` = 2 tell a measured value from an older
  one; two pings may be missed; a fault that meets the consequences of another needs `MaxFaults`
  = 2. `link_restart` needs only counts of one.
* `flows`: one flow of each kind, since flows share only the gauge, the channel and the upstream
  list; two sessions, so that a flow outlives its own; a channel of one fills up at once. A flow
  opens only while at most `MaxActive` = 0 others are in the gauge: it overlaps with one that waits
  to report its end, which is the overlap the events can be out of order in. The lists contain the excluded resolver,
  a repeated address, and one that is empty after the filter.
* `discovery`: two links give a wrong one and a right one, two indices a cable that comes back as
  another interface, two ports a host that restarts elsewhere; three faults (failing calls,
  pulled cables, host exits) are a pulled cable, a failure while the host deals with it, and one
  more.
* `cli`: three cores (`MaxCores`) are one running beside an abandoned one, and one more; the
  launches cover both modes, headless and not, root and not, with and without `--config` and
  `NETM_CONFIG`.
* `linux`, `platforms`: two prefixes tell "this route" from "another route", and two versions of
  the machine's own file are the least that can be confused.

`CHECK_DEADLOCK FALSE` is set for the `host`, `guest`, `cli`, `link`, `link_restart` and `flows`
runs: the program ends after a shutdown, a guest stops coming, faults run out.

**Fairness** of `HostSession`. Tokio polls every ready task; the handshake, a refusal and the
pump's teardown have time limits; the pump selects on the cancellation first; the consumer drains
the channel while the host serves. Steps that need a place in the channel get strong fairness,
because Tokio's bounded channel hands places to waiting senders in order. The teardown's abort is
fair where it ends a wait without a limit of its own. Nothing is assumed of the
speed test, whose writes have no time limit (`speed.rs:166-194`), of the consumer after a shutdown,
or of a guest.

**Fairness** of `GuestTunnel`. Weak fairness of the guest's own steps (probes, connecting and the
handshake have timeouts, sleeps end, the external commands of a configurator return), of the
blocking threads, and of the pump's packet and timer branches taken together: the select goes on,
but which branch it takes is the biased order's choice. Nothing is assumed of the host, the speed
test, the machine's traffic or the user.

**Fairness** of `TunnelLink`. Weak fairness of each side's steps, of its timers and of the guest's
next attempt (`guest.rs` sleeps and retries for ever). Nothing is assumed of packets, faults or
stops, so `MeetAgain` holds because faults are finite, as its statement says.

**Fairness** of `Flows`. Tasks are scheduled, the interface drains the channel, a live end is read
from. Nothing is assumed of what a peer sends, of its acknowledgements, or of upstreams.

**Fairness** of `Discovery`. Timers fire and calls return (weak fairness). Strong fairness of
answering and of accepting an offer: a probe is repeated in every round, and not every datagram is
lost or late.

**Fairness** of `CliSession`. Selects are unbiased and the 100 ms tick fires; of a core only its
event sends go on once there is room. Nothing is assumed of a core's end, nor of the user: that is
why `Session::shutdown` has a deadline and the screen a watchdog.

## Proofs

`tlapm` proves the following for every value of the constants (within their `ASSUME`s). With them
every invariant of a passing run has its theorem. Where a proof needs an induction it is by minimal
counterexample (`Least`, from the well-founded order of the naturals).

* **HostSession**, for any endpoints, with or without a serial port, any channel capacity:
  `TypeCorrect`, `OneGuestAtATime` (`SlotExclusive`), `SlotIsFreed` (`SlotNotLeaked`),
  `ShutdownCoversAll` (`NoneLeftBehind`), `EventsAlternateOverTcp` (`StreamAlternates`).
  The inductive invariant is `IInv`. `SlotExclusive` is not inductive by itself: that `Teardown`
  and `SpeedFailed` free only their own slot needs the slot to be theirs, and that at most one TCP
  session is alive needs `current` to be the only live TCP peer. `NoneLeftBehind` needs the join
  list to cover every live session from the moment the teardown begins. `StreamAlternates` adds
  what the queue will have shown once consumed: the guest whose session stands between its two
  announcements.
* **GuestTunnel**, for every value of the bounds: `TypeCorrect`, `NothingBetweenSessions`
  (`CleanBetweenSessions`), `RoutesNeedDevice`, `ShownAlways` (`ShownIsTrue`), `LifecycleKept`
  (`KeepsLifecycle`, the refinement of `TunnelLifecycle`). Types need `TodoInv`: an interface is
  left whenever one is being probed. The others rest on `MachineInv`, which says for each `await`
  what stands on the machine and which thread runs: that a revert never starts without the device,
  that whoever waits for `apply` has the thread running it, and that after an abort a changed
  machine has a real configurator on its way to a revert. `CleanBetweenSessions` says nothing of
  the states inside a session from which the guest comes back, so alone it is not inductive.
  `WaitsAlways` (`WaitsFollowHistory`) rests on `WaitsInv`: while the guest sleeps nothing says
  where its next delay comes from, so the invariant follows both delays through the whole loop
  (each is the first one doubled once per failure of its kind, except from the moment a tunnel is
  up to the reset in its teardown), with a lemma about the function `Power2`: doubling under the
  cap is the capped power.
* **LinuxConfigurator**, for any prefixes and plans, with torn files, kills and rewrites at any
  time: `LinuxTypes`, `UndoIsComplete` (`UndoCovers`), `NoOtherLoss` (`LossHasCause`),
  `RevertIsComplete` (`RevertLeavesNothing`), `DnsOnlyWithRoutes` (`DnsNeedsRoutes`). `LInv` adds
  the shape of the undo list (routes, then at most one DNS entry), that a backup exists whenever
  its restore is registered or netm's hand is in `resolv.conf`, that it is never netm's own file
  and, unless spoilt, is the machine's (`BackupCurrent`), and that nothing of the device outlives
  it; `DInv` adds that each requested route stands or is still to be added, as long as nothing has
  failed.
* **Platforms**: `PlatformUndoIsComplete`, `PlatformDnsNeedsRoutes`, from `PInv`: the
  shape of the undo list, that each requested route stands or is still ahead, and that before the
  first command nothing but the keys of an earlier run is on the machine.
* **Flows**, for any flows and bounds: `RowsGoAway` (`RowsAreClosed`), `GaugeCounts` (the gauge is
  the number of flows between their opening and their end). `RInv` adds that the
  opening of an ended flow that still waits in the channel has the end behind it: without it, a row
  could appear after its flow is closed. `GInv` needs the places of the tasks only. `TypeCorrect`
  (`TypeOK`) takes these two, `FlowDataOK` and `SessionOK` together. `NothingIsCutOff` is the safety
  half of `HalfCloseIsHalf`, `NeverCutOff`, from `PumpInv`: a direction that ended without an error
  has passed everything on, and an error needs an end that is broken.
* **Discovery**: `OffersAreFresh` (`FreshOffer`), from `ProbeInv`: a nonce that matches belongs to
  the probe that waits, so its answer was sent since. `MembershipsAreKnown`, from `MemberInv`: the
  code knows every membership the kernel holds, and each is of an interface that is there.
  `TypeCorrect` (`TypeOK`) joins both with the types of links, books and rounds (`TInv`).
  `RoundsListEveryCandidate`: a round starts with each ready candidate on its list exactly once
  (a list as long as the set, without repetition: the pigeonhole principle).
* **CliSession**: `CliTypes`, `ScreenFollows` (`ScreenIsOfSession`), `NoGuestIsKilled`
  (`ExecKillsNoGuest`), `ConfigurationSurvivesSudo` (`SameAfterExec`). `CInv` relates the session
  to the place of `main` (before the loop nothing has started, in headless mode a mode is given)
  and says that a guest core runs only as root, which is why a process that needs sudo has none.
  `ScreenInv` follows the events of each core through the channel.
* **TunnelLink**, for every kind of link and all bounds: `TypeCorrect` (`TypeOK`) and `SpeedIsOwn`
  (`SpeedIsOfThisAttempt`). `TInv` adds to the types what
  the bounds rest on: a reader has at most what is under way in its buffer, and nothing once it is
  closed; over TCP a writer that has not closed leaves room for the end of its stream; the control
  queue holds nothing but Bye, Ping and Pong. Over TCP, `SInv` says that the
  frames of the connection carry numbers of this attempt only. A UART carries all attempts, and
  `LineOK` says why the numbers of an earlier one do not get through: behind a Hello the host has
  yet to read there is no burst, a greeted guest's host waits for the end of this burst only, and
  behind the host's Hello there is no result of an earlier attempt. Both rest on lemmas about
  what taking, tearing and writing frames do to a channel (`Thinned`: frames are missing, their
  order is the old one).

Only model-checked:

* every liveness property, and with them the liveness half of `HalfCloseIsHalf`: out of this
  prover's reach;
* `NoFalseAlarm`: when a timer may fire is stated with `ENABLED` (`Fires` in `TunnelLink`), about
  which this prover has no rules.

## Findings

1. `linux_routes`: a route that existed before `apply` is replaced, and a revert without a failed
   command does not bring it back (`linux.rs:163-167`).
2. `link_restart`: the Hello of a restarted serial guest ends the old session and is dropped with
   it; the teardown's Bye then fails the new handshake (`session.rs:334-341`, `444-448`). On a port
   that keeps bytes guest and host can repeat this for ever. `MeetAgain` holds elsewhere.
3. `discovery_neighbour`: an interface that leads to a neighbour which is no host keeps the guest
   from ever probing the next one (`guest.rs:500-513`).
4. `linux_original`: the backup `set_dns` finds and keeps is not always the machine's original
   (`linux.rs:193-196`, against the comment at `22-24`): it may be half a copy that a failing `cp`
   left, or older than the file the machine has written since a killed run. It is restored as the
   original.

## Observations

Read in the code while modelling it; no run stands for them.

* `session.rs:291`: the slot is free before the end of the session is announced. With a TCP and a
  serial guest the announcements cross and the screen shows nobody while a guest is served. With
  TCP alone this cannot happen (`EventsAlternateOverTcp`): the accept loop also waits for the old
  task.
* `lib.rs:456-462`: a shutdown during the speed test ends without Bye.
* `linux.rs:249-252`: a `resolv.conf` that a DHCP client writes while the tunnel is up is
  overwritten by the revert with the older backup (`LossHasCause` and `RevertLeavesNothing` count
  it as `spoilt`).
* `windows.rs:133-136`, `274-283`: `route.exe` reports success for every failure, and only the text
  "already exists" is looked for. With any other text `apply` succeeds and sets DNS although the
  route is missing (`DnsNeedsRoutes` of `Platforms` leaves such a session out).
* `guest.rs:415-434`, `448-453`: an absent serial port, or a serial host that does not answer, is a
  failed attempt like any other: the delay doubles up to 30 s. `netm-guest/src/lib.rs:75-79` says
  that the port is retried every 2 s and `Hello` is sent again at every handshake timeout.
  `WaitsFollowHistory` states what the code does.
* `guest.rs:627-631`: a shutdown while the TUN device is being created returns before the device
  appears. It is dropped at once (`GoneInTheEnd` holds).
* `guest.rs:737-844`: packets that keep waiting in the TUN device keep the biased select from the
  keep-alive and the carrier timer. Over TCP the full send buffer ends the session instead
  (`DeadHostIsNoticed`); over a serial line without flow control nothing does.
* `app.rs:238`: the watchdog drops a session without aborting its core; the next one may start
  beside it. An aborted macOS guest that reverts late may remove the keys of the next session.
* `speed.rs`: every Ping starts the wait of `recv_burst` again; `send_burst` has no time limit; the
  host's side does not listen to a cancellation and ends a failed probe without Bye; the guest does
  not compare the number of bytes the host echoes with what it sent; `Error::Idle`, which the
  comment at line 36 names, does not exist.
* `flow.rs:185`: the shutdown of a refused flow has no time limit, so the flow may stay in the
  gauge (`FlowsEndWithSession` leaves it out); a half-closed flow with a silent server has no timer.
* `flow.rs`: with a prefix of 31 or 32 bits `destination_allowed` refuses the gateway.
* `discovery.rs:257`: an interface that goes and comes back between two refreshes is not joined
  again, although lines 20-22 and 246 speak of re-joining (`FoundInTheEnd` leaves it out).
* `link.rs`: the machine's own and multicast entries of `arp -an` count as neighbours; where `arp`
  is missing on Linux, listing neighbours fails as a whole.
* `macos.rs`: a `scutil` script that fails half way leaves keys that are not on the undo list;
  keys of a killed run stay until the next `apply`. `windows.rs`: deleting a route by network and
  mask deletes anybody's.
* `config.rs`: the configuration is saved in place, so a crash can leave half of it.

## Plan

What is left, in this order.

1. `TunnelLink` with two guests, so that the refusal of `HostSession` meets real handshakes.
2. A UDP flow in detail (idle timer, association table) in `Flows`.
3. `find_magic` byte by byte against a reference parse.
4. The Linux and Windows classification of interfaces beside macOS's.

## Not modelled

* The rate meter: an average over the wall clock that no other part decides anything by.
* TUN devices and transports (`tun.rs`, `transport.rs`), system-call wrappers (`privilege.rs`):
  they appear as the outcomes of the calls.
* The text parsers of `link.rs`, `dns.rs` and the configurators, the Linux and Windows
  classification of interfaces: any result they can return is allowed.
* Layout of the screens, logging, the TOML format, the wording of messages.
* The third-party IP stack, tests and examples.
* In `Discovery`: the record of failed joins kept for the log, the `Interfaces` event, probes of a
  foreign protocol version, and a responder that survives its abort.
