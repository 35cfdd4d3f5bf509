----------------------------- MODULE CliSession -----------------------------
(***************************************************************************)
(* The `netm` process: where it starts, the terminal application with its  *)
(* screens and keys, the core (netm_host::run or netm_guest::run) it runs, *)
(* the shutdown of the core with its watchdog, the headless mode, and the  *)
(* re-execution under sudo (crates/netm-cli/src/{main,headless,session}.rs *)
(* and tui/{mod,app,model}.rs, config.rs, cli.rs).                         *)
(*                                                                         *)
(* A core is abstract: it brings something up (a tunnel, a guest) and down *)
(* again, reports each change through its bounded channel, and returns     *)
(* after a shutdown once all is down.  It may fail, panic, or hang: only   *)
(* its sends are fair.  Log lines, drawing and statistics are left out.    *)
(***************************************************************************)
EXTENDS Naturals, Sequences

CONSTANTS
  MaxCores,  \* cores started in one process, after which `m` is not pressed
  EventCap,  \* EVENT_CAPACITY
  Launches,  \* how the process is started: see LaunchType
  None       \* an absent value

ASSUME CoresAssumption == MaxCores \in Nat \ {0}
ASSUME CapAssumption   == EventCap \in Nat \ {0}
ASSUME NoneAssumption ==
  None \notin {"host", "guest", "setup", "env", "given", "home", "fallback"}

Modes == {"host", "guest"}
Cores == 1..MaxCores
NoSession == 0

(***************************************************************************)
(* The command line: the subcommand, --headless, --config, and the guest's *)
(* --route, --host, --serial and --no-dns.  `env` is EnvInfo; `known` says *)
(* that the account database can tell SUDO_USER's home.                    *)
(***************************************************************************)
ArgsType == [routes : {"given", None}, target : {"addr", "serial", None},
             noDns : BOOLEAN]
CliType  == [command : Modes \cup {"setup", None}, headless : BOOLEAN,
             explicit : BOOLEAN, guest : ArgsType]
EnvType  == [netm : {"env", "given", "home", "fallback", None},
             sudo : BOOLEAN, known : BOOLEAN]

\* The guest section of config.toml.
SavedType  == [routes : {"saved", "invalid", None}, dns : BOOLEAN \cup {None},
               serial : BOOLEAN]
LaunchType == [cli : CliType, env : EnvType, root : BOOLEAN,
               mode : Modes \cup {None}, saved : SavedType]

ASSUME LaunchesAssumption ==
  /\ Launches \subseteq LaunchType
  /\ \A l \in Launches :
       /\ l.cli.command = None \/ l.cli.command = "setup" => ~l.cli.headless
       /\ l.cli.command # "guest" =>
            l.cli.guest = [routes |-> None, target |-> None, noDns |-> FALSE]

VARIABLES
  cli, env, root,   \* of the present process
  disk,             \* default_mode in config.toml
  saved,            \* its guest section
  proc,             \* "starting", "tui", "headless", "draining" (inside
                    \* Session::shutdown), "leaving" or "gone"
  screen, selected, \* what the terminal shows; the onboarding choice
  overlay,          \* "help" and "log" while show_help and log_focus are set
  pending,          \* what follows the end of the session
  outcome,          \* why the event loop ends
  watch,            \* shutdown_started is set
  session,          \* the core of App.session
  shown,            \* the screen's model shows something up
  core,             \* the core tasks of this process
  quitAsked         \* history: the user, a signal or a lost terminal asked

launch == <<cli, env, root, disk, saved>>
view   == <<screen, selected, overlay, shown>>
stops  == <<pending, watch>>
vars   == <<launch, view, stops, proc, outcome, session, core, quitAsked>>

NoCore == [mode |-> None, st |-> "none", up |-> FALSE, owed |-> FALSE,
           queue |-> << >>, asked |-> FALSE]

\* st: "run", the result waiting in the JoinHandle ("ok", "err"), or "gone".
\* owed: the core waits in the send that reports its last change.
CoreType == [mode : Modes \cup {None}, st : {"none", "run", "ok", "err", "gone"},
             up : BOOLEAN, owed : BOOLEAN, queue : Seq(BOOLEAN), asked : BOOLEAN]

TypeOK ==
  /\ cli \in CliType
  /\ env \in EnvType
  /\ root \in BOOLEAN
  /\ disk \in Modes \cup {None}
  /\ saved \in SavedType
  /\ proc \in {"starting", "tui", "headless", "draining", "leaving", "gone"}
  /\ screen \in Modes \cup {"onboarding"}
  /\ selected \in Modes
  /\ overlay \in SUBSET {"help", "log"}
  /\ pending \in Modes \cup {"none", "quit"}
  /\ outcome \in {"none", "quit", "reexec"}
  /\ watch \in BOOLEAN
  /\ session \in Cores \cup {NoSession}
  /\ shown \in BOOLEAN
  /\ core \in [Cores -> CoreType]
  /\ \A c \in Cores : Len(core[c].queue) <= EventCap
  /\ quitAsked \in BOOLEAN

Init ==
  /\ \E l \in Launches :
       /\ cli = l.cli /\ env = l.env /\ root = l.root
       /\ disk = l.mode /\ saved = l.saved
  /\ proc = "starting"
  /\ screen = "onboarding" /\ selected = "host"
  /\ overlay = {}
  /\ pending = "none" /\ outcome = "none"
  /\ watch = FALSE
  /\ session = NoSession
  /\ shown = FALSE
  /\ core = [c \in Cores |-> NoCore]
  /\ quitAsked = FALSE

-----------------------------------------------------------------------------
(* Configuration: pure functions of the command line and the environment *)

\* resolve_config_path, config_dir_for: which file is read.
ConfigPath(c, e) ==
  CASE c.explicit -> "given"
    [] ~c.explicit /\ e.netm # None -> e.netm
    [] ~c.explicit /\ e.netm = None ->
         IF e.sudo /\ ~e.known THEN "fallback" ELSE "home"

\* route_mode, set_dns and the target of build_guest_config.
GuestRoutes(c, s) == IF c.guest.routes # None THEN "given"
                     ELSE IF s.routes # None THEN s.routes ELSE "full"
GuestConfig(c, s) ==
  [routes |-> GuestRoutes(c, s),
   dns    |-> IF c.guest.noDns THEN FALSE
              ELSE IF s.dns # None THEN s.dns ELSE GuestRoutes(c, s) = "full",
   target |-> IF c.guest.target # None THEN c.guest.target
              ELSE IF s.serial THEN "saved" ELSE "auto"]

\* A route of config.toml that does not parse makes build_guest_config fail.
BadConfig == GuestRoutes(cli, saved) = "invalid"

\* Mutant: the re-executed guest takes over the DNS whatever was asked.
ReexecArgsForgettingDns ==
  [cli EXCEPT !.command = "guest", !.headless = FALSE, !.guest.noDns = FALSE]

\* reexec_guest_args: the guest subcommand with the same options.  A command
\* line that was not `guest` has none, and is not headless.
ReexecArgs ==
  [cli EXCEPT !.command = "guest",
              !.headless = cli.command = "guest" /\ cli.headless]

\* sudo_command: the resolved path travels in NETM_CONFIG.
ReexecEnv == [env EXCEPT !.netm = ConfigPath(cli, env), !.sudo = TRUE]

NeedsElevation == ~root

-----------------------------------------------------------------------------
(* Cores *)

Live(c) == core[c].st = "run"

\* The receiver is dropped with the session: a send then fails at once.
Heard(c) == session = c

\* Session::start_host, start_guest.
Spawned(m) == [NoCore EXCEPT !.mode = m, !.st = "run"]
Unused == {c \in Cores : core[c].st = "none"}
NextCore(c) == c \in Unused /\ \A d \in Unused : c <= d

\* Dropping a session drops the receiver and the watch sender, which the
\* core takes for a shutdown; it does not abort the task.
Dropped(c) ==
  IF c = NoSession THEN core
  ELSE [core EXCEPT ![c] = [@ EXCEPT !.st = IF Live(c) THEN "run" ELSE "gone",
                                     !.queue = << >>, !.asked = TRUE]]

\* The core brings something up or takes it down, and has to say so.
CoreChange(c) ==
  /\ Live(c) /\ ~core[c].owed
  /\ core[c].asked => core[c].up
  /\ core' = [core EXCEPT ![c].up = ~@, ![c].owed = TRUE]
  /\ UNCHANGED <<launch, view, stops, proc, outcome, session, quitAsked>>

\* Mutant: the send does not wait for a place.
CoreTellUnbounded(c) ==
  /\ Live(c) /\ core[c].owed
  /\ core' = [core EXCEPT ![c].owed = FALSE,
                          ![c].queue = IF Heard(c) THEN Append(@, core[c].up) ELSE @]
  /\ UNCHANGED <<launch, view, stops, proc, outcome, session, quitAsked>>

\* The awaited send gets a place, or fails because nobody listens.
CoreTell(c) ==
  /\ Live(c) /\ core[c].owed
  /\ Heard(c) => Len(core[c].queue) < EventCap
  /\ core' = [core EXCEPT ![c].owed = FALSE,
                          ![c].queue = IF Heard(c) THEN Append(@, core[c].up) ELSE @]
  /\ UNCHANGED <<launch, view, stops, proc, outcome, session, quitAsked>>

\* The core obeys: everything is down and reported.
CoreReturn(c) ==
  /\ Live(c) /\ core[c].asked /\ ~core[c].up /\ ~core[c].owed
  /\ core' = [core EXCEPT ![c].st = IF Heard(c) THEN "ok" ELSE "gone"]
  /\ UNCHANGED <<launch, view, stops, proc, outcome, session, quitAsked>>

\* The core fails at its start (the port is taken) or panics; what it held
\* is dropped.
CoreFail(c) ==
  /\ Live(c)
  /\ core' = [core EXCEPT ![c] = [@ EXCEPT !.st = IF Heard(c) THEN "err" ELSE "gone",
                                           !.up = FALSE, !.owed = FALSE]]
  /\ UNCHANGED <<launch, view, stops, proc, outcome, session, quitAsked>>

-----------------------------------------------------------------------------
(* What the handlers are made of.  `cs` is the core function after what    *)
(* the handler did before.                                                 *)

\* Mutant: the guest screen of the next session starts with the old model.
StartCoreKeepingModel(m, cs) ==
  \E c \in Cores :
    /\ NextCore(c)
    /\ core' = [cs EXCEPT ![c] = Spawned(m)]
    /\ session' = c
    /\ screen' = m
    /\ shown' = shown
    /\ UNCHANGED outcome

\* start_mode, when the core can be started: a fresh model and screen.
StartCore(m, cs) ==
  \E c \in Cores :
    /\ NextCore(c)
    /\ core' = [cs EXCEPT ![c] = Spawned(m)]
    /\ session' = c
    /\ screen' = m
    /\ shown' = FALSE
    /\ UNCHANGED outcome

\* start_mode, for a guest without root: the screen stays, the loop ends.
LeaveForSudo(cs) ==
  /\ outcome' = "reexec"
  /\ core' = cs
  /\ session' = NoSession
  /\ UNCHANGED <<screen, shown>>

\* start_mode, for a guest whose saved routes do not parse.
ShowBadConfig(cs) ==
  /\ screen' = "guest" /\ shown' = FALSE
  /\ core' = cs
  /\ session' = NoSession
  /\ UNCHANGED outcome

\* Mutant: the first start trusts main to have asked for root.
StartModeTrusting(m, cs) ==
  LET refused == NeedsElevation /\ screen # "onboarding"
  IN \/ m = "guest" /\ refused /\ LeaveForSudo(cs)
     \/ m = "guest" /\ ~refused /\ BadConfig /\ ShowBadConfig(cs)
     \/ (m = "guest" => ~refused /\ ~BadConfig) /\ StartCore(m, cs)

\* App::start_mode.
StartMode(m, cs) ==
  \/ m = "guest" /\ NeedsElevation /\ LeaveForSudo(cs)
  \/ m = "guest" /\ ~NeedsElevation /\ BadConfig /\ ShowBadConfig(cs)
  \/ (m = "guest" => ~NeedsElevation /\ ~BadConfig) /\ StartCore(m, cs)

\* App::on_finished, given what was pending.
Finish(next, cs) ==
  /\ watch' = FALSE
  /\ pending' = "none"
  /\ \/ /\ next = "quit"
        /\ outcome' = "quit"
        /\ core' = cs /\ session' = NoSession
        /\ UNCHANGED <<screen, shown>>
     \/ /\ next = "none"
        /\ core' = cs /\ session' = NoSession
        /\ UNCHANGED <<screen, shown, outcome>>
     \/ next \in Modes /\ StartMode(next, cs)

\* Mutant: the watchdog is not armed.
StopSessionUnwatched(next) ==
  \/ /\ session # NoSession
     /\ pending' = next
     /\ core' = [core EXCEPT ![session].asked = TRUE]
     /\ UNCHANGED <<watch, session, screen, shown, outcome>>
  \/ session = NoSession /\ Finish(next, core)

\* App::stop_session: ask the core once and arm the watchdog; without a
\* session what is pending happens at once.
StopSession(next) ==
  \/ /\ session # NoSession
     /\ pending' = next
     /\ watch' = (watch \/ ~core[session].asked)
     /\ core' = [core EXCEPT ![session].asked = TRUE]
     /\ UNCHANGED <<session, screen, shown, outcome>>
  \/ session = NoSession /\ Finish(next, core)

-----------------------------------------------------------------------------
(* The event loop of the terminal application *)

InLoop == proc = "tui" /\ outcome = "none"

\* Ctrl-C anywhere, `q` on a mode screen or an overlay, the first signal,
\* the end of the terminal's input: App::request_quit.
RequestQuit ==
  /\ InLoop
  /\ quitAsked' = TRUE
  /\ IF pending = "quit"
     THEN UNCHANGED <<stops, core, session, screen, shown, outcome>>
     ELSE StopSession("quit")
  /\ UNCHANGED <<launch, selected, overlay, proc>>

\* `q` or Esc on the onboarding screen.
LeaveOnboarding ==
  /\ InLoop /\ screen = "onboarding" /\ overlay = {}
  /\ outcome' = "quit"
  /\ quitAsked' = TRUE
  /\ UNCHANGED <<launch, view, stops, proc, session, core>>

\* The arrow keys of the onboarding screen.
Select(m) ==
  /\ InLoop /\ screen = "onboarding" /\ overlay = {}
  /\ selected' = m
  /\ UNCHANGED <<launch, screen, overlay, shown, stops, proc, outcome, session,
                 core, quitAsked>>

\* save_default: the new default is written, or the file cannot be.
SaveDefault(m) == disk' \in {m, disk}

\* Enter on the onboarding screen.
Choose ==
  /\ InLoop /\ screen = "onboarding" /\ overlay = {}
  /\ SaveDefault(selected)
  /\ StartMode(selected, core)
  /\ UNCHANGED <<cli, env, root, saved, selected, overlay, stops, proc, quitAsked>>

Other(m) == CHOOSE o \in Modes : o # m

\* `m` on a mode screen: App::request_switch.
RequestSwitch ==
  /\ InLoop /\ screen \in Modes /\ overlay = {}
  /\ pending = "none"
  /\ Unused # {}
  /\ SaveDefault(Other(screen))
  /\ StopSession(Other(screen))
  /\ UNCHANGED <<cli, env, root, saved, selected, overlay, proc, quitAsked>>

\* `?`, `l` and the keys that leave an overlay.
Overlay ==
  /\ InLoop
  /\ \/ "help" \in overlay /\ overlay' = overlay \ {"help"}
     \/ "help" \notin overlay /\ overlay' = overlay \cup {"help"}
     \/ overlay = {"log"} /\ overlay' = {}
     \/ overlay = {} /\ screen \in Modes /\ overlay' = {"log"}
  /\ UNCHANGED <<launch, screen, selected, shown, stops, proc, outcome, session,
                 core, quitAsked>>

\* Mutant: events wait while an overlay hides the screen.
OnEventUnhidden ==
  /\ InLoop /\ session # NoSession /\ overlay = {}
  /\ core[session].queue # << >>
  /\ shown' = core[session].queue[Len(core[session].queue)]
  /\ core' = [core EXCEPT ![session].queue = << >>]
  /\ UNCHANGED <<launch, screen, selected, overlay, stops, proc, outcome, session,
                 quitAsked>>

\* Session::next yields an event; what else waits is taken with it, and the
\* model ends up with the last.  (At most 257 at a time.)
OnEvent ==
  /\ InLoop /\ session # NoSession
  /\ core[session].queue # << >>
  /\ shown' = core[session].queue[Len(core[session].queue)]
  /\ core' = [core EXCEPT ![session].queue = << >>]
  /\ UNCHANGED <<launch, screen, selected, overlay, stops, proc, outcome, session,
                 quitAsked>>

\* Session::next yields the end of the core.  The select does not prefer
\* the events: some may still wait in the channel, and are lost.
OnFinished ==
  /\ InLoop /\ session # NoSession
  /\ core[session].st \in {"ok", "err"}
  /\ Finish(pending, Dropped(session))
  /\ UNCHANGED <<launch, selected, overlay, proc, quitAsked>>

\* App::on_tick, eleven seconds after the core was asked.
Watchdog ==
  /\ InLoop /\ watch
  /\ Finish(pending, Dropped(session))
  /\ UNCHANGED <<launch, selected, overlay, proc, quitAsked>>

\* The loop returns the outcome.  tui::run stops a session that is left.
LeaveLoop ==
  /\ proc = "tui" /\ outcome # "none"
  /\ proc' = "leaving"
  /\ session = NoSession
  /\ UNCHANGED <<launch, view, stops, outcome, session, core, quitAsked>>

\* The loop panics: the session, if any, is shut down all the same.
Panic ==
  /\ InLoop
  /\ outcome' = "quit"
  /\ quitAsked' = TRUE
  /\ \/ /\ session = NoSession
        /\ proc' = "leaving" /\ UNCHANGED core
     \/ /\ session # NoSession
        /\ proc' = "draining" /\ core' = [core EXCEPT ![session].asked = TRUE]
  /\ UNCHANGED <<launch, view, stops, session>>

-----------------------------------------------------------------------------
(* Headless mode, Session::shutdown, and the ends of the process *)

HeadlessEvent ==
  /\ proc = "headless"
  /\ core[session].queue # << >>
  /\ core' = [core EXCEPT ![session].queue = Tail(@)]
  /\ UNCHANGED <<launch, view, stops, proc, outcome, session, quitAsked>>

HeadlessFinished ==
  /\ proc = "headless"
  /\ core[session].st \in {"ok", "err"}
  /\ core' = Dropped(session)
  /\ session' = NoSession
  /\ proc' = "leaving"
  /\ outcome' = "quit"
  /\ UNCHANGED <<launch, view, stops, quitAsked>>

HeadlessSignal ==
  /\ proc = "headless"
  /\ proc' = "draining"
  /\ outcome' = "quit"
  /\ quitAsked' = TRUE
  /\ core' = [core EXCEPT ![session].asked = TRUE]
  /\ UNCHANGED <<launch, view, stops, session>>

\* Session::shutdown hands each event to its caller...
DrainEvent ==
  /\ proc = "draining"
  /\ core[session].queue # << >>
  /\ core' = [core EXCEPT ![session].queue = Tail(@)]
  /\ UNCHANGED <<launch, view, stops, proc, outcome, session, quitAsked>>

\* ... until the core has returned ...
DrainFinished ==
  /\ proc = "draining"
  /\ core[session].st \in {"ok", "err"}
  /\ core' = Dropped(session)
  /\ session' = NoSession
  /\ proc' = "leaving"
  /\ UNCHANGED <<launch, view, stops, outcome, quitAsked>>

\* ... or ten seconds have passed: the task is aborted.
DrainDeadline ==
  /\ proc = "draining"
  /\ core' = [core EXCEPT ![session] =
                [@ EXCEPT !.st = "gone", !.up = FALSE, !.owed = FALSE, !.queue = << >>,
                          !.asked = TRUE]]
  /\ session' = NoSession
  /\ proc' = "leaving"
  /\ UNCHANGED <<launch, view, stops, outcome, quitAsked>>

\* The runtime drops every task that is left.
Killed == [c \in Cores |-> IF core[c].st = "none" THEN NoCore
                           ELSE [core[c] EXCEPT !.st = "gone", !.up = FALSE, !.owed = FALSE,
                                                !.queue = << >>]]

\* main returns.  The runtime waits for threads in spawn_blocking; what they
\* still do is no step of a core.
Exit ==
  /\ proc = "leaving" /\ outcome = "quit"
  /\ proc' = "gone"
  /\ core' = Killed
  /\ UNCHANGED <<launch, view, stops, outcome, session, quitAsked>>

\* exec replaces the process: whatever runs in it stops without a word.
Exec ==
  /\ cli' = ReexecArgs /\ env' = ReexecEnv /\ root' = TRUE
  /\ proc' = "starting"
  /\ screen' = "onboarding" /\ selected' = "host" /\ overlay' = {} /\ shown' = FALSE
  /\ pending' = "none" /\ outcome' = "none" /\ watch' = FALSE
  /\ session' = NoSession
  /\ core' = [c \in Cores |-> NoCore]
  /\ UNCHANGED <<disk, saved, quitAsked>>

\* sudo is missing: the process says so and exits.
NoSudo ==
  /\ proc' = "gone"
  /\ core' = Killed
  /\ UNCHANGED <<launch, view, stops, outcome, session, quitAsked>>

\* reexec_guest, after the event loop.
Reexec ==
  /\ proc = "leaving" /\ outcome = "reexec"
  /\ Exec \/ NoSudo

(***************************************************************************)
(* real_main: where to start.  A config.toml that cannot be read counts as *)
(* the default one.                                                        *)
(***************************************************************************)
Start == CASE cli.command = "setup" -> "onboarding"
           [] cli.command \in Modes -> cli.command
           [] cli.command = None -> IF disk = None THEN "onboarding" ELSE disk

LaunchTui ==
  /\ proc = "starting"
  /\ ~cli.headless
  /\ Start = "guest" => ~NeedsElevation
  /\ proc' = "tui"
  /\ \/ /\ Start = "onboarding"
        /\ selected' = IF disk = "guest" THEN "guest" ELSE "host"
        /\ UNCHANGED <<screen, shown, session, core, outcome>>
     \/ /\ Start \in Modes
        /\ StartMode(Start, core)
        /\ UNCHANGED selected
  /\ UNCHANGED <<launch, overlay, stops, quitAsked>>

LaunchHeadless ==
  /\ proc = "starting"
  /\ cli.headless
  /\ Start = "guest" => ~NeedsElevation /\ ~BadConfig
  /\ proc' = "headless"
  /\ \E c \in Cores :
       /\ NextCore(c)
       /\ core' = [core EXCEPT ![c] = Spawned(Start)]
       /\ session' = c
  /\ UNCHANGED <<launch, view, stops, outcome, quitAsked>>

\* Headless without root, or with routes that do not parse.
LaunchRefused ==
  /\ proc = "starting"
  /\ cli.headless /\ Start = "guest"
  /\ NeedsElevation \/ BadConfig
  /\ proc' = "gone"
  /\ UNCHANGED <<launch, view, stops, outcome, session, core, quitAsked>>

\* A guest on a terminal goes through sudo before anything is started.
LaunchReexec ==
  /\ proc = "starting"
  /\ ~cli.headless /\ Start = "guest" /\ NeedsElevation
  /\ Exec \/ NoSudo

-----------------------------------------------------------------------------
CoreStep == \E c \in Cores : CoreChange(c) \/ CoreTell(c) \/ CoreReturn(c) \/ CoreFail(c)
User == RequestQuit \/ LeaveOnboarding \/ Choose \/ RequestSwitch \/ Overlay
        \/ \E m \in Modes : Select(m)
Loop == OnEvent \/ OnFinished \/ Watchdog \/ LeaveLoop
Draining == DrainEvent \/ DrainFinished \/ DrainDeadline
Headless == HeadlessEvent \/ HeadlessFinished
Leaving == Exit \/ Reexec
Launching == LaunchTui \/ LaunchHeadless \/ LaunchRefused \/ LaunchReexec

Next == CoreStep \/ User \/ Loop \/ Panic \/ Draining \/ Headless \/ HeadlessSignal
        \/ Leaving \/ Launching

Spec == Init /\ [][Next]_vars

(***************************************************************************)
(* The selects of the event loop, of headless::run and of Session::shutdown*)
(* are unbiased, and the 100 ms tick never stops: whatever stays ready is  *)
(* taken.  Of a core only its sends are fair: it may hang anywhere else.   *)
(***************************************************************************)
FairSpec ==
  /\ Spec
  /\ WF_vars(OnEvent) /\ WF_vars(OnFinished) /\ WF_vars(Watchdog) /\ WF_vars(LeaveLoop)
  /\ WF_vars(DrainEvent) /\ WF_vars(DrainFinished) /\ WF_vars(DrainDeadline)
  /\ WF_vars(HeadlessEvent) /\ WF_vars(HeadlessFinished)
  /\ WF_vars(Leaving) /\ WF_vars(Launching)
  /\ \A c \in Cores : WF_vars(CoreTell(c))

-----------------------------------------------------------------------------
(* Properties *)

\* The screen is that of the running core: its mode, and once the channel is
\* empty and the core has nothing left to report, what the core has up,
\* whatever an earlier core had up when it was switched away from.
ScreenIsOfSession ==
  proc = "tui" /\ session # NoSession =>
    /\ screen = core[session].mode
    /\ core[session].st = "run" /\ ~core[session].owed /\ core[session].queue = << >>
         => shown = core[session].up

\* exec runs no destructor.  It must never replace a process that has a
\* guest core, which would leave its routes and DNS settings behind; not
\* even when the watchdog has given a core up.
ExecKillsNoGuest ==
  [][Exec => \A c \in Cores : Live(c) => core[c].mode # "guest"]_vars

\* The guest that sudo starts reads the same configuration file and comes to
\* the same configuration as this process would have.
SameAfterExec ==
  [][Exec => /\ ConfigPath(cli', env') = ConfigPath(cli, env)
             /\ GuestConfig(cli', saved') = GuestConfig(cli, saved)]_vars

\* Whoever asks for the end gets it: during a switch, with a core that
\* hangs, after a panic of the screen (app.rs:238, mod.rs:47, session.rs:164).
QuitEnds == quitAsked ~> proc = "gone"

\* A core that waits in a send to a full channel goes on (session.rs:151:
\* "draining events meanwhile so the core never blocks on a full channel").
BlockedCoreResumes == \A c \in Cores : core[c].owed ~> ~core[c].owed
=============================================================================
