-------------------------- MODULE CliSessionProofs --------------------------
(***************************************************************************)
(* Proofs about CliSession for every set of launches, any number of cores  *)
(* and any channel capacity.                                               *)
(***************************************************************************)
EXTENDS CliSession, TLAPS

\* A mode that owns its terminal or its signals has a session to drain.
SessionHeld == proc \in {"headless", "draining"} => session # NoSession

\* A process that has just started has no core.
NothingStarted == proc = "starting" => session = NoSession /\ \A c \in Cores : ~Live(c)

\* A guest core needs root, and nobody leaves for sudo who has it.
GuestsAreRoot ==
  /\ \A c \in Cores : Live(c) /\ core[c].mode = "guest" => root
  /\ outcome = "reexec" => ~root

\* --headless belongs to the subcommands that start a mode.
HeadlessHasMode == cli.headless => cli.command \in Modes

CInv == TypeOK /\ SessionHeld /\ NothingStarted /\ GuestsAreRoot /\ HeadlessHasMode

\* The cores and the screen as a handler leaves them.
CoresOK(cs) ==
  /\ cs \in [Cores -> CoreType]
  /\ \A c \in Cores : Len(cs[c].queue) <= EventCap
  /\ \A c \in Cores : cs[c].st = "run" /\ cs[c].mode = "guest" => root

OutcomeOK(o) == o \in {"none", "quit", "reexec"} /\ (o = "reexec" => ~root)

Handled ==
  /\ CoresOK(core')
  /\ session' \in Cores \cup {NoSession}
  /\ screen' \in Modes \cup {"onboarding"}
  /\ shown' \in BOOLEAN
  /\ OutcomeOK(outcome')

Constant == UNCHANGED <<cli, env, root, saved>>

-----------------------------------------------------------------------------
(* What the handlers are made of. *)

LEMMA OfCores ==
  ASSUME CInv
  PROVE  CoresOK(core) /\ OutcomeOK(outcome)
BY DEF CInv, TypeOK, GuestsAreRoot, Live, CoresOK, OutcomeOK

LEMMA NewCore ==
  ASSUME NEW m \in Modes
  PROVE  /\ Spawned(m) \in CoreType
         /\ Spawned(m).mode = m /\ Spawned(m).st = "run" /\ Spawned(m).queue = << >>
<1>1. << >> \in Seq(BOOLEAN)
  OBVIOUS
<1>2. NoCore \in CoreType
  BY <1>1 DEF NoCore, CoreType
<1>. QED
  BY <1>1, <1>2 DEF Spawned, NoCore, CoreType

\* Dropping the session keeps the cores in order: none is started by it.
LEMMA DroppedOK ==
  ASSUME CInv
  PROVE  /\ CoresOK(Dropped(session))
         /\ \A c \in Cores : Dropped(session)[c].st = "run" => Live(c)
<1>1. CoresOK(core)
  BY OfCores
<1>2. CASE session = NoSession
  BY <1>1, <1>2 DEF Dropped, Live
<1>3. CASE session # NoSession
  <2>1. session \in Cores
    BY <1>3 DEF CInv, TypeOK
  <2> DEFINE d == [core[session] EXCEPT !.st = IF Live(session) THEN "run" ELSE "gone",
                                        !.queue = << >>, !.asked = TRUE]
  <2>2. d \in CoreType /\ d.mode = core[session].mode /\ d.queue = << >>
        /\ (d.st = "run" => core[session].st = "run")
    <3>1. core[session] \in CoreType /\ << >> \in Seq(BOOLEAN)
      BY <2>1, <1>1 DEF CoresOK
    <3>. QED
      BY <3>1 DEF CoreType, Live
  <2>3. Dropped(session) = [core EXCEPT ![session] = d]
    BY <1>3, Zenon DEF Dropped
  <2>4. Len(<< >>) = 0 /\ EventCap \in Nat
    BY CapAssumption
  <2>. HIDE DEF d
  <2>. QED
    BY <1>1, <2>1, <2>2, <2>3, <2>4 DEF CoresOK, Live
<1>. QED
  BY <1>2, <1>3

LEMMA ModeStarted ==
  ASSUME CInv, NEW m \in Modes, NEW cs, CoresOK(cs), StartMode(m, cs)
  PROVE  Handled
<1>1. OutcomeOK(outcome) /\ TypeOK
  BY OfCores DEF CInv
<1>2. CASE LeaveForSudo(cs) /\ NeedsElevation
  BY <1>1, <1>2 DEF LeaveForSudo, NeedsElevation, Handled, OutcomeOK, TypeOK
<1>3. CASE ShowBadConfig(cs)
  BY <1>1, <1>3 DEF ShowBadConfig, Handled, TypeOK, Modes
<1>4. CASE (m = "guest" => ~NeedsElevation) /\ StartCore(m, cs)
  <2>1. PICK c \in Cores : core' = [cs EXCEPT ![c] = Spawned(m)] /\ session' = c
    BY <1>4 DEF StartCore
  <2>2. Len(<< >>) = 0 /\ EventCap \in Nat
    BY CapAssumption
  <2>3. CoresOK(core')
    BY <1>4, <2>1, <2>2, NewCore DEF CoresOK, NeedsElevation
  <2>. QED
    BY <1>1, <1>4, <2>1, <2>3 DEF StartCore, Handled
<1>. QED
  BY <1>2, <1>3, <1>4 DEF StartMode

LEMMA Finished ==
  ASSUME CInv, NEW next \in Modes \cup {"none", "quit"}, NEW cs, CoresOK(cs), Finish(next, cs)
  PROVE  Handled /\ watch' \in BOOLEAN /\ pending' \in Modes \cup {"none", "quit"}
<1>1. OutcomeOK(outcome) /\ TypeOK
  BY OfCores DEF CInv
<1>2. CASE next \in Modes /\ StartMode(next, cs)
  BY <1>2, ModeStarted DEF Finish
<1>3. CASE next \notin Modes
  BY <1>1, <1>3 DEF Finish, Handled, OutcomeOK, TypeOK
<1>. QED
  BY <1>2, <1>3 DEF Finish, Modes

LEMMA Stopped ==
  ASSUME CInv, NEW next \in Modes \cup {"none", "quit"}, StopSession(next)
  PROVE  Handled /\ watch' \in BOOLEAN /\ pending' \in Modes \cup {"none", "quit"}
<1>1. CoresOK(core) /\ OutcomeOK(outcome) /\ TypeOK
  BY OfCores DEF CInv
<1>2. CASE session = NoSession
  BY <1>1, <1>2, Finished DEF StopSession
<1>3. CASE session # NoSession
  <2>1. session \in Cores /\ core' = [core EXCEPT ![session].asked = TRUE]
    BY <1>1, <1>3 DEF StopSession, TypeOK
  <2>2. CoresOK(core')
    BY <1>1, <2>1 DEF CoresOK, CoreType
  <2>. QED
    BY <1>1, <1>3, <2>2 DEF StopSession, Handled, TypeOK
<1>. QED
  BY <1>2, <1>3

-----------------------------------------------------------------------------
(* The steps. *)

Ends == {"none", "quit"}
Procs == {"starting", "tui", "headless", "draining", "leaving", "gone"}

\* The invariant, from its parts, for a step inside one process.
LEMMA Assembled ==
  ASSUME CInv, Handled, Constant,
         disk' \in Modes \cup {None}, selected' \in Modes, overlay' \in SUBSET {"help", "log"},
         pending' \in Modes \cup Ends, watch' \in BOOLEAN, quitAsked' \in BOOLEAN,
         proc' \in Procs, proc' # "starting",
         proc' \in {"headless", "draining"} => session' # NoSession
  PROVE  CInv'
<1>1. TypeOK'
  BY DEF CInv, TypeOK, Handled, Constant, CoresOK, OutcomeOK, Ends, Procs
<1>2. GuestsAreRoot'
  BY DEF Handled, Constant, CoresOK, OutcomeOK, GuestsAreRoot, Live
<1>3. SessionHeld' /\ NothingStarted' /\ HeadlessHasMode'
  BY DEF SessionHeld, NothingStarted, HeadlessHasMode, CInv, Constant
<1>. QED
  BY <1>1, <1>2, <1>3 DEF CInv

\* The same, when nothing but the cores has changed.
LEMMA CoresStep ==
  ASSUME CInv, CoresOK(core'), proc # "starting",
         UNCHANGED <<launch, view, stops, proc, outcome, session, quitAsked>>
  PROVE  CInv'
<1>1. Handled /\ Constant
  BY OfCores DEF CInv, TypeOK, Handled, Constant, launch, view, OutcomeOK
<1>. QED
  BY <1>1, Assembled
     DEF CInv, TypeOK, launch, view, stops, SessionHeld, Ends, Procs

LEMMA Queues ==
  ASSUME NEW S, NEW s \in Seq(S), NEW e \in S
  PROVE  /\ Append(s, e) \in Seq(S) /\ Len(Append(s, e)) = Len(s) + 1 /\ Len(s) \in Nat
         /\ s # << >> => /\ s[Len(s)] \in S
                         /\ Tail(s) \in Seq(S) /\ Len(Tail(s)) = Len(s) - 1
OBVIOUS

\* One core gets another queue.
LEMMA Requeued ==
  ASSUME CInv, NEW c \in Cores, NEW q \in Seq(BOOLEAN), Len(q) <= EventCap
  PROVE  CoresOK([core EXCEPT ![c].queue = q])
<1>1. CoresOK(core) /\ core[c] \in CoreType
  BY OfCores DEF CoresOK
<1> DEFINE d == [core[c] EXCEPT !.queue = q]
<1>2. d \in CoreType /\ d.queue = q /\ d.st = core[c].st /\ d.mode = core[c].mode
  BY <1>1 DEF CoreType
<1>3. [core EXCEPT ![c].queue = q] = [core EXCEPT ![c] = d]
  OBVIOUS
<1>. HIDE DEF d
<1>. QED
  BY <1>1, <1>2, <1>3 DEF CoresOK

LEMMA ACoreSteps ==
  ASSUME CInv, CoreStep
  PROVE  CInv'
<1>1. PICK c \in Cores : CoreChange(c) \/ CoreTell(c) \/ CoreReturn(c) \/ CoreFail(c)
  BY DEF CoreStep
<1>2. Live(c) /\ proc # "starting"
  BY <1>1 DEF CoreChange, CoreTell, CoreReturn, CoreFail, CInv, NothingStarted
<1>3. CoresOK(core) /\ core[c] \in CoreType
  BY OfCores DEF CoresOK
<1>4. UNCHANGED <<launch, view, stops, proc, outcome, session, quitAsked>>
  BY <1>1 DEF CoreChange, CoreTell, CoreReturn, CoreFail
<1>5. CASE CoreChange(c)
  <2>1. CoresOK(core')
    BY <1>3, <1>5 DEF CoreChange, CoresOK, CoreType
  <2>. QED
    BY <1>2, <1>4, <2>1, CoresStep
<1>6. CASE CoreTell(c)
  <2> DEFINE q == IF Heard(c) THEN Append(core[c].queue, core[c].up) ELSE core[c].queue
  <2>1. q \in Seq(BOOLEAN) /\ Len(q) <= EventCap
    <3>1. core[c].queue \in Seq(BOOLEAN) /\ core[c].up \in BOOLEAN
      BY <1>3 DEF CoreType
    <3>2. Append(core[c].queue, core[c].up) \in Seq(BOOLEAN)
          /\ Len(Append(core[c].queue, core[c].up)) = Len(core[c].queue) + 1
          /\ Len(core[c].queue) \in Nat
      BY <3>1, Queues
    <3>3. CASE Heard(c)
      <4>1. Len(core[c].queue) < EventCap
        BY <1>6, <3>3 DEF CoreTell
      <4>2. Len(core[c].queue) + 1 <= EventCap
        BY <3>2, <4>1, CapAssumption
      <4>3. q = Append(core[c].queue, core[c].up)
        BY <3>3
      <4>. QED
        BY <3>2, <4>2, <4>3
    <3>4. CASE ~Heard(c)
      <4>1. q = core[c].queue
        BY <3>4
      <4>. QED
        BY <3>1, <4>1, <1>3 DEF CoresOK
    <3>. QED
      BY <3>3, <3>4
  <2>2. core' = [core EXCEPT ![c].owed = FALSE, ![c].queue = q]
    BY <1>6 DEF CoreTell
  <2>. HIDE DEF q
  <2>3. CoresOK(core')
    BY <1>3, <2>1, <2>2 DEF CoresOK, CoreType
  <2>. QED
    BY <1>2, <1>4, <2>3, CoresStep
<1>7. CASE CoreReturn(c)
  <2>1. CoresOK(core')
    BY <1>3, <1>7 DEF CoreReturn, CoresOK, CoreType
  <2>. QED
    BY <1>2, <1>4, <2>1, CoresStep
<1>8. CASE CoreFail(c)
  <2>1. CoresOK(core')
    BY <1>3, <1>8 DEF CoreFail, CoresOK, CoreType
  <2>. QED
    BY <1>2, <1>4, <2>1, CoresStep
<1>. QED
  BY <1>1, <1>5, <1>6, <1>7, <1>8

LEMMA AUserActs ==
  ASSUME CInv, User
  PROVE  CInv'
<1>1. TypeOK /\ CoresOK(core) /\ OutcomeOK(outcome) /\ SessionHeld
  BY OfCores DEF CInv
<1>2. CASE RequestQuit
  <2>1. CASE pending = "quit"
    BY <1>1, <1>2, <2>1, Assembled
       DEF RequestQuit, InLoop, stops, launch, Handled, Constant, TypeOK, SessionHeld, Ends, Procs
  <2>2. CASE pending # "quit"
    <3>1. StopSession("quit")
      BY <1>2, <2>2 DEF RequestQuit
    <3>2. Handled /\ watch' \in BOOLEAN /\ pending' \in Modes \cup {"none", "quit"}
      BY <3>1, Stopped
    <3>. QED
      BY <1>1, <1>2, <3>2, Assembled
         DEF RequestQuit, InLoop, launch, Constant, TypeOK, Ends, Procs
  <2>. QED
    BY <2>1, <2>2
<1>3. CASE LeaveOnboarding
  BY <1>1, <1>3, Assembled
     DEF LeaveOnboarding, InLoop, stops, launch, view, Handled, OutcomeOK, Constant, TypeOK,
         SessionHeld, Ends, Procs
<1>4. CASE Choose
  <2>1. Handled
    BY <1>1, <1>4, ModeStarted DEF Choose, TypeOK
  <2>2. disk' \in Modes \cup {None}
    BY <1>1, <1>4 DEF Choose, SaveDefault, TypeOK
  <2>. QED
    BY <1>1, <1>4, <2>1, <2>2, Assembled
       DEF Choose, InLoop, stops, Constant, TypeOK, Ends, Procs
<1>5. CASE RequestSwitch
  <2>1. Other(screen) \in Modes
    BY <1>5 DEF RequestSwitch, Other, Modes
  <2>2. Handled /\ watch' \in BOOLEAN /\ pending' \in Modes \cup {"none", "quit"}
    BY <1>5, <2>1, Stopped DEF RequestSwitch
  <2>3. disk' \in Modes \cup {None}
    BY <1>1, <1>5, <2>1 DEF RequestSwitch, SaveDefault, TypeOK
  <2>. QED
    BY <1>1, <1>5, <2>2, <2>3, Assembled
       DEF RequestSwitch, InLoop, Constant, TypeOK, Ends, Procs
<1>6. CASE Overlay
  <2>1. overlay' \in SUBSET {"help", "log"}
    BY <1>1, <1>6 DEF Overlay, TypeOK
  <2>. QED
    BY <1>1, <1>6, <2>1, Assembled
       DEF Overlay, InLoop, stops, launch, Handled, Constant, TypeOK, Ends, Procs
<1>7. ASSUME NEW m \in Modes, Select(m)
      PROVE  CInv'
  BY <1>1, <1>7, Assembled
     DEF Select, InLoop, stops, launch, Handled, Constant, TypeOK, Ends, Procs
<1>. QED
  BY <1>2, <1>3, <1>4, <1>5, <1>6, <1>7 DEF User

LEMMA TheLoopTurns ==
  ASSUME CInv, Loop \/ Panic
  PROVE  CInv'
<1>1. TypeOK /\ CoresOK(core) /\ OutcomeOK(outcome) /\ SessionHeld
  BY OfCores DEF CInv
<1>2. CASE OnEvent
  <2>1. session \in Cores /\ core[session] \in CoreType /\ << >> \in Seq(BOOLEAN)
    BY <1>1, <1>2 DEF OnEvent, TypeOK, CoresOK
  <2>2. shown' \in BOOLEAN
    <3>1. core[session].queue \in Seq(BOOLEAN) /\ core[session].queue # << >>
      BY <1>2, <2>1 DEF OnEvent, CoreType
    <3>2. core[session].queue[Len(core[session].queue)] \in BOOLEAN
      BY <3>1, Queues
    <3>. QED
      BY <1>2, <3>2 DEF OnEvent
  <2>3. CoresOK(core')
    <3>1. core' = [core EXCEPT ![session].queue = << >>]
      BY <1>2 DEF OnEvent
    <3>2. Len(<< >>) <= EventCap
      BY CapAssumption
    <3>3. CoresOK([core EXCEPT ![session].queue = << >>])
      BY <2>1, <3>2, Requeued
    <3>. QED
      BY <3>1, <3>3
  <2>. QED
    BY <1>1, <1>2, <2>2, <2>3, Assembled
       DEF OnEvent, InLoop, stops, launch, Handled, Constant, TypeOK, Ends, Procs
<1>3. CASE OnFinished \/ Watchdog
  <2>1. Finish(pending, Dropped(session)) /\ CoresOK(Dropped(session))
    BY <1>3, DroppedOK DEF OnFinished, Watchdog
  <2>2. Handled /\ watch' \in BOOLEAN /\ pending' \in Modes \cup {"none", "quit"}
    BY <1>1, <2>1, Finished DEF TypeOK
  <2>. QED
    BY <1>1, <1>3, <2>2, Assembled
       DEF OnFinished, Watchdog, InLoop, launch, Constant, TypeOK, Ends, Procs
<1>4. CASE LeaveLoop
  BY <1>1, <1>4, Assembled
     DEF LeaveLoop, stops, launch, view, Handled, Constant, TypeOK, Ends, Procs
<1>5. CASE Panic
  <2>1. CoresOK(core')
    <3>1. CASE session = NoSession
      BY <1>1, <1>5, <3>1 DEF Panic
    <3>2. CASE session # NoSession
      <4>1. session \in Cores /\ core' = [core EXCEPT ![session].asked = TRUE]
        BY <1>1, <1>5, <3>2 DEF Panic, TypeOK
      <4>. QED
        BY <1>1, <4>1 DEF CoresOK, CoreType
    <3>. QED
      BY <3>1, <3>2
  <2>. QED
    BY <1>1, <1>5, <2>1, Assembled
       DEF Panic, stops, launch, view, Handled, OutcomeOK, Constant, TypeOK, Ends, Procs
<1>. QED
  BY <1>2, <1>3, <1>4, <1>5 DEF Loop

\* Taking the oldest event from a session's channel.
LEMMA OneTaken ==
  ASSUME CInv, session \in Cores, core[session].queue # << >>,
         core' = [core EXCEPT ![session].queue = Tail(@)]
  PROVE  CoresOK(core')
<1>1. CoresOK(core) /\ core[session] \in CoreType /\ core[session].queue \in Seq(BOOLEAN)
  BY OfCores DEF CoresOK, CoreType
<1> DEFINE q == Tail(core[session].queue)
<1>2. q \in Seq(BOOLEAN) /\ Len(q) = Len(core[session].queue) - 1 /\ Len(core[session].queue) \in Nat
  BY <1>1, Queues
<1>3. Len(q) <= EventCap
  BY <1>1, <1>2, CapAssumption DEF CoresOK
<1>4. core' = [core EXCEPT ![session].queue = q]
  OBVIOUS
<1>. HIDE DEF q
<1>. QED
  BY <1>2, <1>3, <1>4, Requeued

LEMMA OutsideTheLoop ==
  ASSUME CInv, Draining \/ Headless \/ HeadlessSignal
  PROVE  CInv'
<1>1. TypeOK /\ CoresOK(core) /\ OutcomeOK(outcome)
  BY OfCores DEF CInv
<1>2. session \in Cores /\ session # NoSession
  BY <1>1 DEF CInv, SessionHeld, Draining, Headless, HeadlessSignal, DrainEvent, DrainFinished,
              DrainDeadline, HeadlessEvent, HeadlessFinished, TypeOK
<1>3. CASE DrainEvent \/ HeadlessEvent
  BY <1>2, <1>3, OneTaken, CoresStep DEF DrainEvent, HeadlessEvent
<1>4. CASE HeadlessFinished \/ DrainFinished
  <2>1. CoresOK(core')
    BY <1>4, DroppedOK DEF HeadlessFinished, DrainFinished
  <2>. QED
    BY <1>1, <1>4, <2>1, Assembled
       DEF HeadlessFinished, DrainFinished, stops, launch, view, Handled, OutcomeOK, Constant,
           TypeOK, Ends, Procs
<1>5. CASE HeadlessSignal
  <2>1. CoresOK(core')
    BY <1>1, <1>2, <1>5 DEF HeadlessSignal, CoresOK, CoreType
  <2>. QED
    BY <1>1, <1>2, <1>5, <2>1, Assembled
       DEF HeadlessSignal, stops, launch, view, Handled, OutcomeOK, Constant, TypeOK, Ends, Procs
<1>6. CASE DrainDeadline
  <2>1. core[session] \in CoreType /\ << >> \in Seq(BOOLEAN) /\ Len(<< >>) = 0 /\ EventCap \in Nat
    BY <1>1, <1>2, CapAssumption DEF CoresOK
  <2> DEFINE d == [core[session] EXCEPT !.st = "gone", !.up = FALSE, !.owed = FALSE,
                                        !.queue = << >>, !.asked = TRUE]
  <2>2. d \in CoreType /\ d.st = "gone" /\ d.queue = << >>
    BY <2>1 DEF CoreType
  <2>3. core' = [core EXCEPT ![session] = d]
    BY <1>6 DEF DrainDeadline
  <2>. HIDE DEF d
  <2>4. CoresOK(core')
    BY <1>1, <1>2, <2>1, <2>2, <2>3 DEF CoresOK
  <2>. QED
    BY <1>1, <1>6, <2>4, Assembled
       DEF DrainDeadline, stops, launch, view, Handled, Constant, TypeOK, Ends, Procs
<1>. QED
  BY <1>3, <1>4, <1>5, <1>6 DEF Draining, Headless

\* The death of the process takes every core with it.
LEMMA AllKilled ==
  ASSUME CInv
  PROVE  CoresOK(Killed) /\ \A c \in Cores : Killed[c].st # "run"
<1> DEFINE k(c) == [core[c] EXCEPT !.st = "gone", !.up = FALSE, !.owed = FALSE, !.queue = << >>]
<1>1. CoresOK(core) /\ << >> \in Seq(BOOLEAN) /\ Len(<< >>) = 0 /\ EventCap \in Nat
  BY OfCores, CapAssumption
<1>2. NoCore \in CoreType /\ NoCore.queue = << >> /\ NoCore.st = "none"
  BY <1>1 DEF NoCore, CoreType
<1>3. ASSUME NEW c \in Cores
      PROVE  k(c) \in CoreType /\ k(c).queue = << >> /\ k(c).st = "gone"
  BY <1>1, <1>3 DEF CoresOK, CoreType
<1>4. Killed = [c \in Cores |-> IF core[c].st = "none" THEN NoCore ELSE k(c)]
  BY DEF Killed
<1>. HIDE DEF k
<1>. QED
  BY <1>1, <1>2, <1>3, <1>4 DEF CoresOK

\* exec starts a new process that has root and no core.
LEMMA Replaced ==
  ASSUME CInv, Exec
  PROVE  CInv'
<1>1. TypeOK /\ << >> \in Seq(BOOLEAN) /\ Len(<< >>) = 0 /\ EventCap \in Nat
  BY CapAssumption DEF CInv
<1>2. NoCore \in CoreType /\ NoCore.queue = << >> /\ NoCore.st = "none"
  BY <1>1 DEF NoCore, CoreType
<1>3. cli' \in CliType
  BY <1>1 DEF Exec, ReexecArgs, TypeOK, CliType, Modes
<1>4. env' \in EnvType
  <2>1. ConfigPath(cli, env) \in {"env", "given", "home", "fallback", None}
    BY <1>1 DEF ConfigPath, TypeOK, CliType, EnvType
  <2>. QED
    BY <1>1, <2>1 DEF Exec, ReexecEnv, TypeOK, EnvType
<1>5. TypeOK'
  <2>1. core' = [c \in Cores |-> NoCore]
    BY DEF Exec
  <2>2. core' \in [Cores -> CoreType] /\ \A c \in Cores : Len(core'[c].queue) <= EventCap
    BY <1>1, <1>2, <2>1
  <2>3. /\ UNCHANGED <<disk, saved, quitAsked>> /\ root' = TRUE /\ proc' = "starting"
        /\ screen' = "onboarding" /\ selected' = "host" /\ overlay' = {} /\ shown' = FALSE
        /\ pending' = "none" /\ outcome' = "none" /\ watch' = FALSE /\ session' = NoSession
    BY DEF Exec
  <2>. QED
    BY <1>1, <1>3, <1>4, <2>2, <2>3 DEF TypeOK, Modes
<1>6. SessionHeld' /\ NothingStarted' /\ GuestsAreRoot' /\ HeadlessHasMode'
  BY <1>1, <1>2
     DEF Exec, ReexecArgs, SessionHeld, NothingStarted, GuestsAreRoot, HeadlessHasMode, Live,
         TypeOK, CliType, Modes
<1>. QED
  BY <1>5, <1>6 DEF CInv

LEMMA TheProcessEnds ==
  ASSUME CInv, Exit \/ NoSudo
  PROVE  CInv'
<1>1. TypeOK /\ OutcomeOK(outcome) /\ CoresOK(core')
  BY OfCores, AllKilled DEF CInv, Exit, NoSudo
<1>. QED
  BY <1>1, Assembled
     DEF Exit, NoSudo, stops, launch, view, Handled, Constant, TypeOK, Ends, Procs

LEMMA TheProcessStarts ==
  ASSUME CInv, Launching
  PROVE  CInv'
<1>1. TypeOK /\ CoresOK(core) /\ OutcomeOK(outcome)
  BY OfCores DEF CInv
<1>2. Start \in Modes \cup {"onboarding"}
  BY <1>1 DEF Start, TypeOK, CliType
<1>3. CASE LaunchTui
  <2>1. CASE Start = "onboarding" /\ UNCHANGED <<screen, shown, session, core, outcome>>
             /\ selected' = IF disk = "guest" THEN "guest" ELSE "host"
    BY <1>1, <1>3, <2>1, Assembled
       DEF LaunchTui, stops, launch, Handled, Constant, TypeOK, Modes, Ends, Procs
  <2>2. CASE Start \in Modes /\ StartMode(Start, core) /\ UNCHANGED selected
    <3>1. Handled
      BY <1>1, <2>2, ModeStarted
    <3>. QED
      BY <1>1, <1>3, <2>2, <3>1, Assembled
         DEF LaunchTui, stops, launch, Constant, TypeOK, Ends, Procs
  <2>. QED
    BY <1>3, <2>1, <2>2 DEF LaunchTui
<1>4. CASE LaunchHeadless
  <2>1. Start \in Modes
    <3>1. cli.command \in {"host", "guest"}
      BY <1>4 DEF LaunchHeadless, CInv, HeadlessHasMode, Modes
    <3>2. cli.command # "setup" /\ cli.command # None
      BY <3>1, NoneAssumption
    <3>3. Start = cli.command
      BY <3>1, <3>2 DEF Start, Modes
    <3>. QED
      BY <3>1, <3>3 DEF Modes
  <2>2. PICK c \in Cores : core' = [core EXCEPT ![c] = Spawned(Start)] /\ session' = c
    BY <1>4 DEF LaunchHeadless
  <2>3. CoresOK(core')
    <3>1. Len(<< >>) = 0 /\ EventCap \in Nat
      BY CapAssumption
    <3>. QED
      BY <1>1, <1>4, <2>1, <2>2, <3>1, NewCore DEF LaunchHeadless, NeedsElevation, CoresOK
  <2>4. session' # NoSession
    BY <2>2, CoresAssumption DEF Cores, NoSession
  <2>. QED
    BY <1>1, <1>4, <2>2, <2>3, <2>4, Assembled
       DEF LaunchHeadless, stops, launch, view, Handled, Constant, TypeOK, Ends, Procs
<1>5. CASE LaunchRefused
  BY <1>1, <1>5, Assembled
     DEF LaunchRefused, stops, launch, view, Handled, Constant, TypeOK, Ends, Procs
<1>6. CASE LaunchReexec
  BY <1>6, Replaced, TheProcessEnds DEF LaunchReexec
<1>. QED
  BY <1>3, <1>4, <1>5, <1>6 DEF Launching

-----------------------------------------------------------------------------
LEMMA CInvInit ==
  ASSUME Init
  PROVE  CInv
<1>1. PICK l \in Launches :
        cli = l.cli /\ env = l.env /\ root = l.root /\ disk = l.mode /\ saved = l.saved
  BY DEF Init
<1>2. l \in LaunchType
  BY <1>1, LaunchesAssumption
<1>3. /\ cli \in CliType /\ env \in EnvType /\ root \in BOOLEAN
      /\ disk \in Modes \cup {None} /\ saved \in SavedType
  BY <1>1, <1>2 DEF LaunchType
<1>4. HeadlessHasMode
  BY <1>1, <1>2, LaunchesAssumption DEF HeadlessHasMode, LaunchType, CliType
<1>5. << >> \in Seq(BOOLEAN) /\ Len(<< >>) = 0 /\ EventCap \in Nat
  BY CapAssumption
<1>6. NoCore \in CoreType /\ NoCore.queue = << >> /\ NoCore.st = "none"
  BY <1>5 DEF NoCore, CoreType
<1>7. core \in [Cores -> CoreType] /\ \A c \in Cores : Len(core[c].queue) <= EventCap
  BY <1>5, <1>6 DEF Init
<1>8. TypeOK
  BY <1>3, <1>7 DEF Init, TypeOK, Modes
<1>9. SessionHeld /\ NothingStarted /\ GuestsAreRoot
  BY <1>6 DEF Init, SessionHeld, NothingStarted, GuestsAreRoot, Live
<1>. QED
  BY <1>4, <1>8, <1>9 DEF CInv

LEMMA CInvStep ==
  ASSUME CInv, [Next]_vars
  PROVE  CInv'
<1>1. CASE UNCHANGED vars
  BY <1>1
     DEF CInv, TypeOK, SessionHeld, NothingStarted, GuestsAreRoot, HeadlessHasMode, Live, vars,
         launch, view, stops
<1>2. CASE Leaving
  BY <1>2, Replaced, TheProcessEnds DEF Leaving, Reexec
<1>3. CASE CoreStep \/ User \/ Loop \/ Panic \/ Draining \/ Headless \/ HeadlessSignal \/ Launching
  BY <1>3, ACoreSteps, AUserActs, TheLoopTurns, OutsideTheLoop, TheProcessStarts
<1>. QED
  BY <1>1, <1>2, <1>3 DEF Next

\* The invariant of the process holds in every reachable state.
THEOREM CInvHolds == Spec => []CInv
<1>1. Init => CInv
  BY CInvInit
<1>2. CInv /\ [Next]_vars => CInv'
  BY CInvStep
<1>. QED
  BY <1>1, <1>2, PTL DEF Spec

\* The state has its type, whatever the user presses and the core does.
THEOREM CliTypes == Spec => []TypeOK
<1>1. CInv => TypeOK
  BY DEF CInv
<1>. QED
  BY <1>1, CInvHolds, PTL

\* Only a launch, or a loop that was left for sudo, can become a new process.
LEMMA WhoExecs ==
  ASSUME CInv, [Next]_vars, Exec
  PROVE  proc = "starting" \/ outcome = "reexec"
<1>1. proc' = "starting"
  BY DEF Exec
<1>2. CASE UNCHANGED proc
  BY <1>1, <1>2
<1>3. CASE Leaving
  BY <1>1, <1>3 DEF Leaving, Exit, Reexec
<1>4. CASE Launching
  BY <1>4 DEF Launching, LaunchTui, LaunchHeadless, LaunchRefused, LaunchReexec
<1>5. CASE CoreStep \/ User \/ Draining \/ Headless \/ HeadlessSignal \/ Loop \/ Panic
  <2>1. CASE CoreStep
    BY <1>2, <2>1 DEF CoreStep, CoreChange, CoreTell, CoreReturn, CoreFail
  <2>2. CASE User
    BY <1>2, <2>2 DEF User, RequestQuit, LeaveOnboarding, Choose, RequestSwitch, Overlay, Select
  <2>3. CASE Draining \/ Headless \/ HeadlessSignal
    BY <1>1, <1>2, <2>3 DEF Draining, Headless, HeadlessSignal, DrainEvent, DrainFinished,
                       DrainDeadline, HeadlessEvent, HeadlessFinished
  <2>4. CASE Loop \/ Panic
    BY <1>1, <1>2, <2>4 DEF Loop, Panic, OnEvent, OnFinished, Watchdog, LeaveLoop
  <2>. QED
    BY <1>5, <2>1, <2>2, <2>3, <2>4
<1>. QED
  BY <1>2, <1>3, <1>4, <1>5 DEF Next, vars

\* exec, which runs no destructor, never replaces a process with a guest
\* core, not even one the watchdog has given up (app.rs:149-241, main.rs:77-127).
THEOREM NoGuestIsKilled == Spec => ExecKillsNoGuest
<1>1. CInv /\ [Next]_vars =>
        [Exec => \A c \in Cores : Live(c) => core[c].mode # "guest"]_vars
  BY WhoExecs DEF CInv, NothingStarted, GuestsAreRoot
<1>. QED
  BY <1>1, CInvHolds, PTL DEF Spec, ExecKillsNoGuest

\* The guest that sudo starts reads the same file and comes to the same
\* configuration (cli.rs:124-166, privilege.rs:33-42, config.rs:181-225).
THEOREM ConfigurationSurvivesSudo == Spec => SameAfterExec
<1>1. ASSUME CInv, Exec
      PROVE  /\ ConfigPath(cli', env') = ConfigPath(cli, env)
             /\ GuestConfig(cli', saved') = GuestConfig(cli, saved)
  <2>1. cli' = ReexecArgs /\ env' = ReexecEnv /\ saved' = saved /\ cli \in CliType /\ env \in EnvType
    BY <1>1 DEF Exec, CInv, TypeOK
  <2>2. cli'.guest = cli.guest /\ cli'.explicit = cli.explicit /\ cli.explicit \in BOOLEAN
    BY <2>1 DEF ReexecArgs, CliType
  <2>3. env'.netm = ConfigPath(cli, env)
    BY <2>1 DEF ReexecEnv, EnvType
  <2>4. ConfigPath(cli, env) # None
    BY <2>1, NoneAssumption DEF ConfigPath, CliType, EnvType
  <2>5. ConfigPath(cli', env') = ConfigPath(cli, env)
    BY <2>2, <2>3, <2>4 DEF ConfigPath
  <2>6. GuestConfig(cli', saved') = GuestConfig(cli, saved)
    BY <2>1, <2>2 DEF GuestConfig, GuestRoutes
  <2>. QED
    BY <2>5, <2>6
<1>2. CInv /\ [Next]_vars =>
        [Exec => /\ ConfigPath(cli', env') = ConfigPath(cli, env)
                 /\ GuestConfig(cli', saved') = GuestConfig(cli, saved)]_vars
  BY <1>1
<1>. QED
  BY <1>2, CInvHolds, PTL DEF Spec, SameAfterExec

-----------------------------------------------------------------------------
(* The screen.  What it will show once the channel is empty is what the    *)
(* core has up, unless the core still has to say so.                       *)

WillShow(c) == IF core[c].queue # << >> THEN core[c].queue[Len(core[c].queue)] ELSE shown

Follows(c) ==
  /\ screen = core[c].mode
  /\ Live(c) /\ ~core[c].owed => WillShow(c) = core[c].up

ScreenInv == proc = "tui" /\ session # NoSession => Follows(session)

LEMMA FreshScreen ==
  ASSUME CInv, NEW m \in Modes, NEW cs, CoresOK(cs), StartMode(m, cs)
  PROVE  session' # NoSession => Follows(session)'
<1>1. CASE StartCore(m, cs)
  <2>1. PICK c \in Cores : core' = [cs EXCEPT ![c] = Spawned(m)] /\ session' = c
    BY <1>1 DEF StartCore
  <2>2. Spawned(m).mode = m /\ Spawned(m).queue = << >> /\ Spawned(m).up = FALSE
    BY DEF Spawned, NoCore
  <2>3. core'[session'] = Spawned(m)
    BY <2>1 DEF CoresOK
  <2>4. screen' = m /\ shown' = FALSE
    BY <1>1 DEF StartCore
  <2>. QED
    BY <2>2, <2>3, <2>4 DEF Follows, WillShow
<1>2. CASE LeaveForSudo(cs) \/ ShowBadConfig(cs)
  BY <1>2 DEF LeaveForSudo, ShowBadConfig
<1>. QED
  BY <1>1, <1>2 DEF StartMode

LEMMA ScreenAfterFinish ==
  ASSUME CInv, NEW next \in Modes \cup {"none", "quit"}, NEW cs, CoresOK(cs), Finish(next, cs)
  PROVE  session' # NoSession => Follows(session)'
BY FreshScreen DEF Finish

\* The core of the session is asked to stop: the screen does not care.
LEMMA ScreenAsked ==
  ASSUME CInv, ScreenInv, proc = "tui", session # NoSession, UNCHANGED <<session, screen, shown>>,
         core' = [core EXCEPT ![session].asked = TRUE]
  PROVE  Follows(session)'
<1>1. session \in Cores /\ core \in [Cores -> CoreType]
  BY DEF CInv, TypeOK
<1>2. /\ core'[session].mode = core[session].mode /\ core'[session].st = core[session].st
      /\ core'[session].owed = core[session].owed /\ core'[session].up = core[session].up
      /\ core'[session].queue = core[session].queue
  BY <1>1 DEF CoreType
<1>3. Follows(session)
  BY DEF ScreenInv
<1>. QED
  BY <1>2, <1>3 DEF Follows, WillShow, Live

LEMMA ScreenAfterStop ==
  ASSUME CInv, ScreenInv, proc = "tui", NEW next \in Modes \cup {"none", "quit"}, StopSession(next)
  PROVE  session' # NoSession => Follows(session)'
<1>1. CASE session = NoSession /\ Finish(next, core)
  BY <1>1, OfCores, ScreenAfterFinish
<1>2. CASE session # NoSession
  BY <1>2, ScreenAsked DEF StopSession
<1>. QED
  BY <1>1, <1>2 DEF StopSession

\* A step of a core: its own session sees the change only through the queue.
LEMMA ScreenAfterCore ==
  ASSUME CInv, ScreenInv, CoreStep
  PROVE  ScreenInv'
<1>1. PICK c \in Cores : CoreChange(c) \/ CoreTell(c) \/ CoreReturn(c) \/ CoreFail(c)
  BY DEF CoreStep
<1>2. UNCHANGED <<proc, session, screen, shown>>
  BY <1>1 DEF CoreChange, CoreTell, CoreReturn, CoreFail, view
<1>3. core \in [Cores -> CoreType] /\ core[c] \in CoreType
      /\ (session # NoSession => session \in Cores)
  BY DEF CInv, TypeOK
<1>4. SUFFICES ASSUME proc = "tui", session # NoSession
               PROVE  Follows(session)'
  BY <1>2 DEF ScreenInv
<1>5. Follows(session)
  BY <1>4 DEF ScreenInv
<1>6. CASE session # c
  <2>1. core'[session] = core[session]
    BY <1>1, <1>3, <1>4, <1>6 DEF CoreChange, CoreTell, CoreReturn, CoreFail
  <2>. QED
    BY <1>2, <1>5, <2>1 DEF Follows, WillShow, Live
<1>7. CASE session = c /\ CoreChange(c)
  <2>1. core'[c].mode = core[c].mode /\ core'[c].owed = TRUE
    BY <1>3, <1>7 DEF CoreChange, CoreType
  <2>. QED
    BY <1>2, <1>5, <1>7, <2>1 DEF Follows
<1>8. CASE session = c /\ CoreTell(c)
  <2>1. core[c].queue \in Seq(BOOLEAN) /\ core[c].up \in BOOLEAN
    BY <1>3 DEF CoreType
  <2> DEFINE q == Append(core[c].queue, core[c].up)
  <2>2. q # << >> /\ q[Len(q)] = core[c].up
    BY <2>1
  <2>3. core' = [core EXCEPT ![c].owed = FALSE, ![c].queue = q]
    BY <1>8 DEF CoreTell, Heard
  <2>. HIDE DEF q
  <2>4. /\ core'[c].mode = core[c].mode /\ core'[c].queue = q /\ core'[c].up = core[c].up
    BY <1>3, <2>3 DEF CoreType
  <2>. QED
    BY <1>2, <1>5, <1>8, <2>2, <2>4 DEF Follows, WillShow
<1>9. CASE session = c /\ (CoreReturn(c) \/ CoreFail(c))
  <2>1. core'[c].mode = core[c].mode /\ core'[c].st # "run"
    <3>1. CASE CoreReturn(c)
      BY <1>3, <3>1 DEF CoreReturn, CoreType
    <3>2. CASE CoreFail(c)
      <4> DEFINE d == [core[c] EXCEPT !.st = IF Heard(c) THEN "err" ELSE "gone",
                                      !.up = FALSE, !.owed = FALSE]
      <4>1. d.mode = core[c].mode /\ d.st # "run"
        BY <1>3 DEF CoreType
      <4>2. core' = [core EXCEPT ![c] = d]
        BY <3>2 DEF CoreFail
      <4>. HIDE DEF d
      <4>. QED
        BY <1>3, <4>1, <4>2
    <3>. QED
      BY <1>9, <3>1, <3>2
  <2>. QED
    BY <1>2, <1>5, <1>9, <2>1 DEF Follows, Live
<1>. QED
  BY <1>1, <1>6, <1>7, <1>8, <1>9

LEMMA ScreenStep ==
  ASSUME CInv, ScreenInv, [Next]_vars
  PROVE  ScreenInv'
<1>0. TypeOK /\ CoresOK(core)
  BY OfCores DEF CInv
<1>1. CASE UNCHANGED <<proc, session, core, screen, shown>>
  BY <1>1 DEF ScreenInv, Follows, WillShow, Live
<1>2. CASE CoreStep
  BY <1>2, ScreenAfterCore
<1>3. CASE User
  <2>1. CASE RequestQuit
    BY <1>1, <2>1, ScreenAfterStop DEF RequestQuit, InLoop, ScreenInv
  <2>2. CASE LeaveOnboarding \/ Overlay \/ \E m \in Modes : Select(m)
    BY <1>1, <2>2 DEF LeaveOnboarding, Overlay, Select, view
  <2>3. CASE Choose
    BY <1>0, <2>3, FreshScreen DEF Choose, ScreenInv, TypeOK
  <2>4. CASE RequestSwitch
    <3>1. Other(screen) \in Modes
      BY <2>4 DEF RequestSwitch, Other, Modes
    <3>. QED
      BY <2>4, <3>1, ScreenAfterStop DEF RequestSwitch, InLoop, ScreenInv
  <2>. QED
    BY <1>3, <2>1, <2>2, <2>3, <2>4 DEF User
<1>4. CASE OnEvent
  <2>1. session \in Cores /\ core' = [core EXCEPT ![session].queue = << >>]
    BY <1>0, <1>4 DEF OnEvent, TypeOK
  <2>2. /\ core'[session].mode = core[session].mode /\ core'[session].st = core[session].st
        /\ core'[session].owed = core[session].owed /\ core'[session].up = core[session].up
        /\ core'[session].queue = << >>
    BY <1>0, <2>1 DEF CoresOK, CoreType
  <2>. QED
    BY <1>4, <2>2 DEF OnEvent, InLoop, ScreenInv, Follows, WillShow, Live
<1>5. CASE OnFinished \/ Watchdog
  <2>1. Finish(pending, Dropped(session)) /\ CoresOK(Dropped(session))
    BY <1>5, DroppedOK DEF OnFinished, Watchdog
  <2>. QED
    BY <1>0, <2>1, ScreenAfterFinish DEF ScreenInv, TypeOK
<1>6. CASE proc' # "tui"
  BY <1>6 DEF ScreenInv
<1>7. CASE LaunchTui
  <2>1. CASE session' = NoSession
    BY <2>1 DEF ScreenInv
  <2>2. CASE Start \in Modes /\ StartMode(Start, core)
    BY <1>0, <2>2, FreshScreen DEF ScreenInv
  <2>. QED
    BY <1>7, <2>1, <2>2 DEF LaunchTui, CInv, NothingStarted
<1>8. CASE Panic \/ LeaveLoop \/ HeadlessSignal \/ Leaving \/ Headless \/ Draining
           \/ LaunchHeadless \/ LaunchRefused \/ LaunchReexec
  BY <1>6, <1>8
     DEF Panic, LeaveLoop, HeadlessSignal, Leaving, Exit, Reexec, Exec, NoSudo, Headless, HeadlessEvent,
         HeadlessFinished, Draining, DrainEvent, DrainFinished, DrainDeadline, LaunchHeadless,
         LaunchRefused, LaunchReexec
<1>. QED
  BY <1>1, <1>2, <1>3, <1>4, <1>5, <1>7, <1>8 DEF Next, Loop, Launching, vars, view

\* The screen is that of the running core, and shows what it has up, through
\* switches, overlays and a channel that lags (app.rs:149-229, mod.rs:83-92).
THEOREM ScreenFollows == Spec => []ScreenIsOfSession
<1>1. Init => ScreenInv
  BY DEF Init, ScreenInv
<1>2. CInv /\ ScreenInv /\ [Next]_vars => ScreenInv'
  BY ScreenStep
<1>3. ScreenInv => ScreenIsOfSession
  BY DEF ScreenInv, ScreenIsOfSession, Follows, WillShow, Live
<1>. QED
  BY <1>1, <1>2, <1>3, CInvHolds, PTL DEF Spec
=============================================================================
