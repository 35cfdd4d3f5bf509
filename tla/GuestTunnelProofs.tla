-------------------------- MODULE GuestTunnelProofs --------------------------
(***************************************************************************)
(* Theorems about GuestTunnel for every size of its bounds.                *)
(***************************************************************************)
EXTENDS GuestTunnel, TLAPS, WellFoundedInduction

\* The part of the assumption that the types need.
LEMMA Bounds ==
  /\ MaxBackoff \in Nat /\ MaxBackoff >= 1
  /\ MaxReady \in Nat /\ MaxReady >= 1
  /\ KeepAlive \in Nat
  /\ SendBuffer \in Nat
  /\ CountCap \in Nat
BY BoundsAssumption

\* A doubled delay stays within its bounds.
LEMMA NextDelay ==
  ASSUME NEW d \in 1..MaxBackoff
  PROVE  next_retry_backoff(d) \in 1..MaxBackoff
BY Bounds DEF next_retry_backoff, AtMost

\* So do the history counters.
LEMMA NextCount ==
  ASSUME NEW n \in 0..CountCap
  PROVE  AtMost(n + 1, CountCap) \in 0..CountCap
BY Bounds DEF AtMost

\* A turn of the pump that touches nothing but the pump.
PumpGoesOn == UNCHANGED <<config, ctrl, pc, state, finding, end, retry, machine>>

\* The pump ends, or goes on and leaves everything else alone.
LEMMA PumpCases ==
  PumpShutdown \/ PumpPackets \/ PumpPing \/ PumpLink \/ PumpFrame =>
    \/ \E how \in {"shutdown", "lost"} : EndPump(how)
    \/ PumpGoesOn
<1>1. PumpShutdown => EndPump("shutdown")
  BY DEF PumpShutdown
<1>2. PumpPackets => EndPump("lost") \/ PumpGoesOn
  BY DEF PumpPackets, PumpGoesOn
<1>3. PumpPing => EndPump("lost") \/ PumpGoesOn
  BY DEF PumpPing, PumpGoesOn
<1>4. PumpFrame => EndPump("lost") \/ PumpGoesOn
  BY DEF PumpFrame, PumpGoesOn
<1>5. PumpLink => EndPump("lost")
  BY DEF PumpLink
<1> QED
  BY <1>1, <1>2, <1>3, <1>4, <1>5

\* What an abort does to the machine.
LEMMA AbortFrame ==
  Abort => /\ pc \notin Ended /\ pc' = "aborted"
           /\ worker' = IF pc = "up" THEN "revert" ELSE worker
           /\ UNCHANGED <<state, conf, configurator>>
           /\ device' => device
           /\ pc = "applying" => ~device'
<1>1. Abort => pc \notin Ended /\ pc' = "aborted" /\ UNCHANGED <<state, conf, configurator>>
  BY DEF Abort
<1>2. Abort => worker' = IF pc = "up" THEN "revert" ELSE worker
  BY DEF Abort
<1>3. Abort => (device' => device) /\ (pc = "applying" => ~device')
  BY Zenon DEF Abort
<1> QED
  BY <1>1, <1>2, <1>3

(***************************************************************************)
(* Types                                                                   *)
(***************************************************************************)

LEMMA ControlTypes == TypeOK /\ [Next]_vars => ControlOK'
<1> SUFFICES ASSUME TypeOK, ControlOK, [Next]_vars PROVE ControlOK'
  BY DEF TypeOK
<1>1. CASE FindTarget
  BY <1>1 DEF FindTarget, Dial, NoLink, Sleep, ControlOK, States, PcValues, Ended, config, finding
<1>2. CASE Probe
  BY <1>2 DEF Probe, Dial, NextInterface, NoAnswer, Sleep, ControlOK, States, PcValues, Ended,
     config, finding
<1>3. CASE AskNeighbour
  BY <1>3 DEF AskNeighbour, Dial, NextInterface, NoAnswer, Sleep, ControlOK, States, PcValues,
     Ended, config, finding
<1>4. CASE Connect
  BY <1>4 DEF Connect, Failed, Sleep, ControlOK, States, PcValues, Ended, config, finding
<1>5. CASE Handshake
  BY <1>5 DEF Handshake, Failed, Sleep, ControlOK, States, PcValues, Ended, config, finding
<1>6. CASE OpenTun
  BY <1>6 DEF OpenTun, ControlOK, States, PcValues, Ended, config, finding
<1>7. CASE OpenFails
  BY <1>7 DEF OpenFails, Failed, Sleep, ControlOK, States, PcValues, Ended, config, finding
<1>8. CASE ApplyDone
  BY <1>8 DEF ApplyDone, ControlOK, States, PcValues, Ended, config, finding
<1>9. CASE ApplyFails
  BY <1>9 DEF ApplyFails, ControlOK, States, PcValues, Ended, config, finding
<1>10. CASE ApplyPanics
  BY <1>10 DEF ApplyPanics, Reverts, ControlOK, States, PcValues, Ended, config, finding
<1>11. CASE Undo
  BY <1>11 DEF Undo, Reverts, ControlOK, States, PcValues, Ended, config, finding
<1>12. CASE GiveUp
  BY <1>12 DEF GiveUp, Failed, Sleep, ControlOK, States, PcValues, Ended, config, finding
<1>13. CASE Revert
  BY <1>13 DEF Revert, Reverts, ControlOK, States, PcValues, Ended, config, finding
<1>14. CASE Teardown
  BY <1>14 DEF Teardown, Lost, Sleep, ControlOK, States, PcValues, Ended, config, finding
<1>15. CASE WakeUp
  BY <1>15 DEF WakeUp, ControlOK, States, PcValues, Ended, config, finding
<1>16. CASE SeeShutdown
  BY <1>16 DEF SeeShutdown, Stop, Listening, ControlOK, States, PcValues, Ended, config, finding
<1>17. CASE StrayTun
  BY <1>17 DEF StrayTun, ControlOK, States, PcValues, Ended, config, finding
<1>18. CASE StrayApply
  BY <1>18 DEF StrayApply, ControlOK, States, PcValues, Ended, config, finding
<1>19. CASE StrayRevert
  BY <1>19 DEF StrayRevert, Reverts, ControlOK, States, PcValues, Ended, config, finding
<1>20. CASE DropDevice
  BY <1>20 DEF DropDevice, ControlOK, States, PcValues, Ended, config, finding
<1>21. CASE Ask
  BY <1>21 DEF Ask, ControlOK, States, PcValues, Ended, config, finding
<1>22. CASE Abort
  BY <1>22 DEF Abort, Silenced, ControlOK, States, PcValues, Ended, config, finding
<1>23. CASE Speed
  BY <1>23 DEF Speed, Failed, Sleep, ControlOK, States, PcValues, Ended, config, finding
<1>24. CASE HostChanges
  BY <1>24 DEF HostChanges, ControlOK, States, PcValues, Ended, config, finding
<1>25. CASE Traffic
  BY <1>25 DEF Traffic, ControlOK, States, PcValues, Ended, config, finding
<1>26. CASE \E how \in {"shutdown", "lost"} : EndPump(how)
  BY <1>26 DEF EndPump, ControlOK, States, PcValues, Ended, config, finding
<1>27. CASE PumpGoesOn
  BY <1>27 DEF PumpGoesOn, ControlOK, States, PcValues, Ended, config, finding
<1>28. CASE UNCHANGED vars
  BY <1>28 DEF vars, ControlOK, States, PcValues, Ended, config, finding
<1> QED
  BY <1>1, <1>2, <1>3, <1>4, <1>5, <1>6, <1>7, <1>8, <1>9, <1>10, <1>11, <1>12, <1>13,
     <1>14, <1>15, <1>16, <1>17, <1>18, <1>19, <1>20, <1>21, <1>22, <1>23, <1>24, <1>25,
     <1>26, <1>27, <1>28, PumpCases
  DEF Next, GuestStep, StrayStep, PumpStep, Outside

\* While the ready interfaces are gone through, one is left.
TodoInv == pc \in {"probing", "asking"} => todo >= 1

LEMMA TodoStep == TypeOK /\ TodoInv /\ [Next]_vars => TodoInv'
<1> SUFFICES ASSUME CountersOK, TodoInv, [Next]_vars PROVE TodoInv'
  BY DEF TypeOK
<1>1. CASE FindTarget
  BY Bounds, <1>1 DEF FindTarget, Dial, NoLink, Sleep, CountersOK, TodoInv, Ended, finding
<1>2. CASE Probe
  BY Bounds, <1>2 DEF Probe, Dial, NextInterface, NoAnswer, Sleep, CountersOK, TodoInv,
     Ended, finding
<1>3. CASE AskNeighbour
  BY Bounds, <1>3 DEF AskNeighbour, Dial, NextInterface, NoAnswer, Sleep, CountersOK,
     TodoInv, Ended, finding
<1>4. CASE Connect
  BY Bounds, <1>4 DEF Connect, Failed, Sleep, CountersOK, TodoInv, Ended, finding
<1>5. CASE Handshake
  BY Bounds, <1>5 DEF Handshake, Failed, Sleep, CountersOK, TodoInv, Ended, finding
<1>6. CASE OpenTun
  BY Bounds, <1>6 DEF OpenTun, CountersOK, TodoInv, Ended, finding
<1>7. CASE OpenFails
  BY Bounds, <1>7 DEF OpenFails, Failed, Sleep, CountersOK, TodoInv, Ended, finding
<1>8. CASE ApplyDone
  BY Bounds, <1>8 DEF ApplyDone, CountersOK, TodoInv, Ended, finding
<1>9. CASE ApplyFails
  BY Bounds, <1>9 DEF ApplyFails, CountersOK, TodoInv, Ended, finding
<1>10. CASE ApplyPanics
  BY Bounds, <1>10 DEF ApplyPanics, Reverts, CountersOK, TodoInv, Ended, finding
<1>11. CASE Undo
  BY Bounds, <1>11 DEF Undo, Reverts, CountersOK, TodoInv, Ended, finding
<1>12. CASE GiveUp
  BY Bounds, <1>12 DEF GiveUp, Failed, Sleep, CountersOK, TodoInv, Ended, finding
<1>13. CASE Revert
  BY Bounds, <1>13 DEF Revert, Reverts, CountersOK, TodoInv, Ended, finding
<1>14. CASE Teardown
  BY Bounds, <1>14 DEF Teardown, Lost, Sleep, CountersOK, TodoInv, Ended, finding
<1>15. CASE WakeUp
  BY Bounds, <1>15 DEF WakeUp, CountersOK, TodoInv, Ended, finding
<1>16. CASE SeeShutdown
  BY Bounds, <1>16 DEF SeeShutdown, Stop, Listening, CountersOK, TodoInv, Ended, finding
<1>17. CASE StrayTun
  BY Bounds, <1>17 DEF StrayTun, CountersOK, TodoInv, Ended, finding
<1>18. CASE StrayApply
  BY Bounds, <1>18 DEF StrayApply, CountersOK, TodoInv, Ended, finding
<1>19. CASE StrayRevert
  BY Bounds, <1>19 DEF StrayRevert, Reverts, CountersOK, TodoInv, Ended, finding
<1>20. CASE DropDevice
  BY Bounds, <1>20 DEF DropDevice, CountersOK, TodoInv, Ended, finding
<1>21. CASE Ask
  BY Bounds, <1>21 DEF Ask, CountersOK, TodoInv, Ended, finding
<1>22. CASE Abort
  BY AbortFrame, <1>22 DEF TodoInv
<1>23. CASE Speed
  BY Bounds, <1>23 DEF Speed, Failed, Sleep, CountersOK, TodoInv, Ended, finding
<1>24. CASE HostChanges
  BY Bounds, <1>24 DEF HostChanges, CountersOK, TodoInv, Ended, finding
<1>25. CASE Traffic
  BY Bounds, <1>25 DEF Traffic, CountersOK, TodoInv, Ended, finding
<1>26. CASE \E how \in {"shutdown", "lost"} : EndPump(how)
  BY Bounds, <1>26 DEF EndPump, CountersOK, TodoInv, Ended, finding
<1>27. CASE PumpGoesOn
  BY Bounds, <1>27 DEF PumpGoesOn, CountersOK, TodoInv, Ended, finding
<1>28. CASE UNCHANGED vars
  BY Bounds, <1>28 DEF vars, CountersOK, TodoInv, Ended, finding
<1> QED
  BY <1>1, <1>2, <1>3, <1>4, <1>5, <1>6, <1>7, <1>8, <1>9, <1>10, <1>11, <1>12, <1>13,
     <1>14, <1>15, <1>16, <1>17, <1>18, <1>19, <1>20, <1>21, <1>22, <1>23, <1>24, <1>25,
     <1>26, <1>27, <1>28, PumpCases
  DEF Next, GuestStep, StrayStep, PumpStep, Outside

\* A batch that is sent: the buffer takes it.
LEMMA PacketsFrame ==
  PumpPackets => \/ EndPump("lost")
                 \/ /\ unsent' \in {0, unsent + 1} /\ unsent' <= SendBuffer
                    /\ UNCHANGED <<finding, retry, quiet>>
BY DEF PumpPackets

LEMMA CounterTypes == TypeOK /\ TodoInv /\ [Next]_vars => CountersOK'
<1> SUFFICES ASSUME CountersOK, TodoInv, [Next]_vars PROVE CountersOK'
  BY DEF TypeOK
<1>1. CASE OpenTun \/ ApplyFails \/ ApplyPanics \/ Undo
  BY Bounds, <1>1 DEF OpenTun, ApplyFails, ApplyPanics, Reverts, Undo, CountersOK, finding,
     retry, pump
<1>2. CASE Revert \/ WakeUp \/ SeeShutdown \/ StrayTun
  BY Bounds, <1>2 DEF Revert, Reverts, WakeUp, SeeShutdown, Stop, Listening, StrayTun,
     CountersOK, finding, retry, pump
<1>3. CASE StrayApply \/ StrayRevert \/ DropDevice \/ Ask
  BY Bounds, <1>3 DEF StrayApply, StrayRevert, Reverts, DropDevice, Ask, CountersOK,
     finding, retry, pump
<1>4. CASE FindTarget
  BY Bounds, <1>4 DEF FindTarget, Dial, NoLink, Sleep, CountersOK, finding, retry, pump
<1>5. CASE Probe
  BY Bounds, NextDelay, NextCount, <1>5 DEF Probe, Dial, NextInterface, NoAnswer, Sleep,
     TodoInv, CountersOK, finding, retry, pump
<1>6. CASE AskNeighbour
  BY Bounds, NextDelay, NextCount, <1>6 DEF AskNeighbour, Dial, NextInterface, NoAnswer,
     Sleep, TodoInv, CountersOK, finding, retry, pump
<1>7. CASE Connect
  BY Bounds, NextDelay, NextCount, <1>7 DEF Connect, Failed, Sleep, CountersOK, finding,
     retry, pump
<1>8. CASE Handshake
  BY Bounds, NextDelay, NextCount, <1>8 DEF Handshake, Failed, Sleep, CountersOK, finding,
     retry, pump
<1>9. CASE OpenFails
  BY Bounds, NextDelay, NextCount, <1>9 DEF OpenFails, Failed, Sleep, CountersOK, finding,
     retry, pump
<1>10. CASE ApplyDone
  BY Bounds, <1>10 DEF ApplyDone, CountersOK, finding, retry, pump
<1>11. CASE GiveUp
  BY Bounds, NextDelay, NextCount, <1>11 DEF GiveUp, Failed, Sleep, CountersOK, finding,
     retry, pump
<1>12. CASE Teardown
  BY Bounds, <1>12 DEF Teardown, Lost, Sleep, CountersOK, finding, retry, pump
<1>13. CASE Speed
  BY Bounds, NextDelay, NextCount, <1>13 DEF Speed, Failed, Sleep, CountersOK, finding,
     retry, pump
<1>14. CASE Abort
  BY Bounds, <1>14 DEF Abort, Silenced, CountersOK, finding, retry, pump
<1>15. CASE HostChanges
  BY Bounds, <1>15 DEF HostChanges, CountersOK, finding, retry, pump
<1>16. CASE Traffic
  BY Bounds, <1>16 DEF Traffic, CountersOK, finding, retry, pump
<1>17. CASE PumpShutdown
  BY Bounds, <1>17 DEF PumpShutdown, EndPump, Silenced, CountersOK, finding, retry, pump
<1>18. CASE PumpPackets
  BY Bounds, PacketsFrame, <1>18 DEF EndPump, Silenced, CountersOK, finding, retry, pump
<1>19. CASE PumpPing
  BY Bounds, <1>19 DEF PumpPing, EndPump, Silenced, CountersOK, finding, retry, pump
<1>20. CASE PumpLink
  BY Bounds, <1>20 DEF PumpLink, EndPump, Silenced, CountersOK, finding, retry, pump
<1>21. CASE PumpFrame
  BY Bounds, <1>21 DEF PumpFrame, EndPump, Silenced, CountersOK, finding, retry, pump
<1>22. CASE UNCHANGED vars
  BY Bounds, <1>22 DEF vars, CountersOK, finding, retry, pump
<1> QED
  BY <1>1, <1>2, <1>3, <1>4, <1>5, <1>6, <1>7, <1>8, <1>9, <1>10, <1>11, <1>12, <1>13,
     <1>14, <1>15, <1>16, <1>17, <1>18, <1>19, <1>20, <1>21, <1>22
  DEF Next, GuestStep, StrayStep, PumpStep, Outside

LEMMA MachineTypes == TypeOK /\ [Next]_vars => MachineOK'
<1> SUFFICES ASSUME MachineOK, [Next]_vars PROVE MachineOK'
  BY DEF TypeOK
<1>1. CASE FindTarget \/ Probe \/ AskNeighbour \/ Connect
  BY <1>1 DEF FindTarget, Dial, NoLink, Sleep, Probe, NextInterface, NoAnswer, AskNeighbour,
     Connect, Failed, MachineOK, machine
<1>2. CASE Handshake \/ WakeUp \/ SeeShutdown \/ Ask
  BY <1>2 DEF Handshake, Failed, Sleep, WakeUp, SeeShutdown, Stop, Listening, Ask,
     MachineOK, machine
<1>3. CASE HostChanges \/ Traffic
  BY <1>3 DEF HostChanges, Traffic, MachineOK, machine
<1>4. CASE OpenTun
  BY <1>4 DEF OpenTun, MachineOK, machine
<1>5. CASE OpenFails
  BY <1>5 DEF OpenFails, Failed, Sleep, MachineOK, machine
<1>6. CASE ApplyDone
  BY <1>6 DEF ApplyDone, MachineOK, machine
<1>7. CASE ApplyFails
  BY <1>7 DEF ApplyFails, MachineOK, machine
<1>8. CASE ApplyPanics
  BY <1>8 DEF ApplyPanics, Reverts, MachineOK, machine
<1>9. CASE Undo
  BY <1>9 DEF Undo, Reverts, MachineOK, machine
<1>10. CASE GiveUp
  BY <1>10 DEF GiveUp, Failed, Sleep, MachineOK, machine
<1>11. CASE Revert
  BY <1>11 DEF Revert, Reverts, MachineOK, machine
<1>12. CASE Teardown
  BY <1>12 DEF Teardown, Lost, Sleep, MachineOK, machine
<1>13. CASE StrayTun
  BY <1>13 DEF StrayTun, MachineOK, machine
<1>14. CASE StrayApply
  BY <1>14 DEF StrayApply, MachineOK, machine
<1>15. CASE StrayRevert
  BY <1>15 DEF StrayRevert, Reverts, MachineOK, machine
<1>16. CASE DropDevice
  BY <1>16 DEF DropDevice, MachineOK, machine
<1>17. CASE Abort
  BY <1>17 DEF Abort, Silenced, MachineOK, machine
<1>18. CASE Speed
  BY <1>18 DEF Speed, Failed, Sleep, MachineOK, machine
<1>19. CASE \E how \in {"shutdown", "lost"} : EndPump(how)
  BY <1>19 DEF EndPump, MachineOK, machine
<1>20. CASE PumpGoesOn
  BY <1>20 DEF PumpGoesOn, MachineOK, machine
<1>21. CASE UNCHANGED vars
  BY <1>21 DEF vars, MachineOK, machine
<1> QED
  BY <1>1, <1>2, <1>3, <1>4, <1>5, <1>6, <1>7, <1>8, <1>9, <1>10, <1>11, <1>12, <1>13,
     <1>14, <1>15, <1>16, <1>17, <1>18, <1>19, <1>20, <1>21, PumpCases
  DEF Next, GuestStep, StrayStep, PumpStep, Outside

LEMMA PumpTypes == TypeOK /\ [Next]_vars => PumpOK'
<1> SUFFICES ASSUME PumpOK, [Next]_vars PROVE PumpOK'
  BY DEF TypeOK
<1>1. CASE FindTarget \/ Probe \/ AskNeighbour \/ Connect
  BY <1>1 DEF FindTarget, Dial, NoLink, Sleep, Probe, NextInterface, NoAnswer, AskNeighbour,
     Connect, Failed, PumpOK, pump
<1>2. CASE Handshake \/ OpenTun \/ OpenFails \/ ApplyFails
  BY <1>2 DEF Handshake, Failed, Sleep, OpenTun, OpenFails, ApplyFails, PumpOK, pump
<1>3. CASE ApplyPanics \/ Undo \/ GiveUp \/ Revert
  BY <1>3 DEF ApplyPanics, Reverts, Undo, GiveUp, Failed, Sleep, Revert, PumpOK, pump
<1>4. CASE Teardown \/ WakeUp \/ SeeShutdown \/ StrayTun
  BY <1>4 DEF Teardown, Lost, Sleep, WakeUp, SeeShutdown, Stop, Listening, StrayTun, PumpOK,
     pump
<1>5. CASE StrayApply \/ StrayRevert \/ DropDevice \/ Ask
  BY <1>5 DEF StrayApply, StrayRevert, Reverts, DropDevice, Ask, PumpOK, pump
<1>6. CASE Speed
  BY <1>6 DEF Speed, Failed, Sleep, PumpOK, pump
<1>7. CASE ApplyDone
  BY <1>7 DEF ApplyDone, PumpOK, pump
<1>8. CASE Abort
  BY <1>8 DEF Abort, Silenced, PumpOK, pump
<1>9. CASE HostChanges
  BY <1>9 DEF HostChanges, PumpOK, pump
<1>10. CASE Traffic
  BY <1>10 DEF Traffic, PumpOK, pump
<1>11. CASE PumpShutdown
  BY <1>11 DEF PumpShutdown, EndPump, Silenced, PumpOK, pump
<1>12. CASE PumpPackets
  BY <1>12 DEF PumpPackets, EndPump, Silenced, PumpOK, pump
<1>13. CASE PumpPing
  BY <1>13 DEF PumpPing, EndPump, Silenced, PumpOK, pump
<1>14. CASE PumpLink
  BY <1>14 DEF PumpLink, EndPump, Silenced, PumpOK, pump
<1>15. CASE PumpFrame
  BY <1>15 DEF PumpFrame, EndPump, Silenced, PumpOK, pump
<1>16. CASE UNCHANGED vars
  BY <1>16 DEF vars, PumpOK, pump
<1> QED
  BY <1>1, <1>2, <1>3, <1>4, <1>5, <1>6, <1>7, <1>8, <1>9, <1>10, <1>11, <1>12, <1>13,
     <1>14, <1>15, <1>16
  DEF Next, GuestStep, StrayStep, PumpStep, Outside

LEMMA TypeInit == Init => TypeOK
<1>1. Init => ControlOK
  BY DEF Init, ControlOK, States, PcValues
<1>2. Init => CountersOK
  BY Bounds DEF Init, CountersOK
<1>3. Init => MachineOK
  BY DEF Init, MachineOK
<1>4. Init => PumpOK
  BY DEF Init, PumpOK
<1> QED
  BY <1>1, <1>2, <1>3, <1>4 DEF TypeOK

LEMMA TypeStep == TypeOK /\ TodoInv /\ [Next]_vars => (TypeOK /\ TodoInv)'
BY ControlTypes, CounterTypes, MachineTypes, PumpTypes, TodoStep DEF TypeOK

\* Every variable keeps its type: the delays never leave their bounds.
THEOREM TypeCorrect == Spec => []TypeOK
<1>1. Init => TodoInv
  BY DEF Init, TodoInv
<1>2. QED
  BY <1>1, TypeInit, TypeStep, PTL DEF Spec

(***************************************************************************)
(* The machine at every await of the guest                                 *)
(***************************************************************************)

\* Nothing of the tunnel exists, and nothing is being created.
Untouched == ~device /\ conf # "changed" /\ configurator = "none" /\ worker = "idle"

\* The device exists and the machine's traffic may go there.
Tunnelled == device /\ conf = "changed" /\ configurator = "real"

MachineInv ==
  /\ pc \in BetweenSessions => Untouched
  /\ pc = "opening" => ~device /\ conf # "changed" /\ configurator = "none" /\ worker = "tun"
  /\ pc = "applying" => Tunnelled /\ worker = "apply"
  /\ pc = "undoing" => /\ device /\ worker = "revert"
                       /\ Tunnelled \/ (configurator = "noop" /\ conf # "changed")
  /\ pc = "up" => Tunnelled /\ worker = "idle"
  /\ pc = "closing" => Tunnelled /\ worker = "revert"
  /\ pc \in {"undone", "closed"} => device /\ conf # "changed" /\ worker = "idle"
  /\ pc = "stopped" => conf # "changed" /\ worker \in {"idle", "tun"}
  /\ pc = "aborted" /\ conf = "changed" =>
       configurator = "real" /\ worker \in {"apply", "revert"}
  /\ pc = "aborted" /\ worker = "apply" => conf = "changed"

LEMMA MachineInit == Init => MachineInv
BY DEF Init, MachineInv, BetweenSessions, Untouched

LEMMA MachineStep == TypeOK /\ MachineInv /\ [Next]_vars => MachineInv'
<1> SUFFICES ASSUME TypeOK, MachineInv, [Next]_vars PROVE MachineInv'
  OBVIOUS
<1>1. CASE FindTarget
  BY <1>1 DEF FindTarget, Dial, NoLink, Sleep, MachineInv, BetweenSessions, Untouched,
     Tunnelled, Ended, machine
<1>2. CASE Probe
  BY <1>2 DEF Probe, Dial, NextInterface, NoAnswer, Sleep, MachineInv, BetweenSessions,
     Untouched, Tunnelled, Ended, machine
<1>3. CASE AskNeighbour
  BY <1>3 DEF AskNeighbour, Dial, NextInterface, NoAnswer, Sleep, MachineInv,
     BetweenSessions, Untouched, Tunnelled, Ended, machine
<1>4. CASE Connect
  BY <1>4 DEF Connect, Failed, Sleep, MachineInv, BetweenSessions, Untouched, Tunnelled,
     Ended, machine
<1>5. CASE Handshake
  BY <1>5 DEF Handshake, Failed, Sleep, MachineInv, BetweenSessions, Untouched, Tunnelled,
     Ended, machine
<1>6. CASE OpenTun
  BY <1>6 DEF OpenTun, MachineInv, BetweenSessions, Untouched, Tunnelled, Ended, machine
<1>7. CASE OpenFails
  BY <1>7 DEF OpenFails, Failed, Sleep, MachineInv, BetweenSessions, Untouched, Tunnelled,
     Ended, machine
<1>8. CASE ApplyDone
  BY <1>8 DEF ApplyDone, MachineInv, BetweenSessions, Untouched, Tunnelled, Ended, machine
<1>9. CASE ApplyFails
  BY <1>9 DEF ApplyFails, MachineInv, BetweenSessions, Untouched, Tunnelled, Ended, machine
<1>10. CASE ApplyPanics
  BY <1>10 DEF ApplyPanics, Reverts, MachineInv, BetweenSessions, Untouched, Tunnelled,
     Ended, machine
<1>11. CASE Undo
  BY <1>11 DEF Undo, Reverts, MachineInv, BetweenSessions, Untouched, Tunnelled, Ended, machine
<1>12. CASE GiveUp
  BY <1>12 DEF GiveUp, Failed, Sleep, MachineInv, BetweenSessions, Untouched, Tunnelled,
     Ended, machine
<1>13. CASE Revert
  BY <1>13 DEF Revert, Reverts, MachineInv, BetweenSessions, Untouched, Tunnelled, Ended, machine
<1>14. CASE Teardown
  BY <1>14 DEF Teardown, Lost, Sleep, MachineInv, BetweenSessions, Untouched, Tunnelled,
     Ended, machine
<1>15. CASE WakeUp
  BY <1>15 DEF WakeUp, MachineInv, BetweenSessions, Untouched, Tunnelled, Ended, machine
<1>16. CASE SeeShutdown
  BY <1>16 DEF SeeShutdown, Stop, Listening, MachineInv, BetweenSessions, Untouched,
     Tunnelled, Ended, machine
<1>17. CASE StrayTun
  BY <1>17 DEF StrayTun, MachineInv, BetweenSessions, Untouched, Tunnelled, Ended, machine
<1>18. CASE StrayApply
  BY <1>18 DEF StrayApply, MachineInv, BetweenSessions, Untouched, Tunnelled, Ended, machine
<1>19. CASE StrayRevert
  BY <1>19 DEF StrayRevert, Reverts, MachineInv, BetweenSessions, Untouched, Tunnelled,
     Ended, machine
<1>20. CASE DropDevice
  BY <1>20 DEF DropDevice, MachineInv, BetweenSessions, Untouched, Tunnelled, Ended, machine
<1>21. CASE Ask
  BY <1>21 DEF Ask, MachineInv, BetweenSessions, Untouched, Tunnelled, Ended, machine
<1>22. CASE Abort
  BY AbortFrame, TypeOK, <1>22 DEF TypeOK, ControlOK, States, PcValues, MachineInv, BetweenSessions,
     Untouched, Tunnelled, Ended
<1>23. CASE Speed
  BY <1>23 DEF Speed, Failed, Sleep, MachineInv, BetweenSessions, Untouched, Tunnelled,
     Ended, machine
<1>24. CASE HostChanges
  BY <1>24 DEF HostChanges, MachineInv, BetweenSessions, Untouched, Tunnelled, Ended, machine
<1>25. CASE Traffic
  BY <1>25 DEF Traffic, MachineInv, BetweenSessions, Untouched, Tunnelled, Ended, machine
<1>26. CASE \E how \in {"shutdown", "lost"} : EndPump(how)
  BY <1>26 DEF EndPump, MachineInv, BetweenSessions, Untouched, Tunnelled, Ended, machine
<1>27. CASE PumpGoesOn
  BY <1>27 DEF PumpGoesOn, MachineInv, BetweenSessions, Untouched, Tunnelled, Ended, machine
<1>28. CASE UNCHANGED vars
  BY <1>28 DEF vars, MachineInv, BetweenSessions, Untouched, Tunnelled, Ended, machine
<1> QED
  BY <1>1, <1>2, <1>3, <1>4, <1>5, <1>6, <1>7, <1>8, <1>9, <1>10, <1>11, <1>12, <1>13,
     <1>14, <1>15, <1>16, <1>17, <1>18, <1>19, <1>20, <1>21, <1>22, <1>23, <1>24, <1>25,
     <1>26, <1>27, <1>28, PumpCases
  DEF Next, GuestStep, StrayStep, PumpStep, Outside

LEMMA MachineAlways == Spec => [](TypeOK /\ MachineInv)
<1>1. QED
  BY TypeCorrect, MachineInit, MachineStep, PTL DEF Spec

\* Outside a session nothing of the tunnel is left on the machine.
THEOREM NothingBetweenSessions == Spec => []CleanBetweenSessions
<1>1. MachineInv => CleanBetweenSessions
  BY DEF MachineInv, CleanBetweenSessions, BetweenSessions, Untouched
<1>2. QED
  BY <1>1, MachineAlways, PTL

\* Until the guest's task is aborted, traffic is routed into the device only
\* while the device exists.
THEOREM RoutesNeedDevice == Spec => [](conf = "changed" /\ pc # "aborted" => device)
<1>1. TypeOK /\ MachineInv => (conf = "changed" /\ pc # "aborted" => device)
  BY DEF TypeOK, ControlOK, States, PcValues, MachineInv, BetweenSessions, Untouched, Tunnelled, Ended
<1>2. QED
  BY <1>1, MachineAlways, PTL

(***************************************************************************)
(* What the user is shown                                                  *)
(***************************************************************************)

LEMMA ShownStep == TypeOK /\ MachineInv /\ ShownIsTrue /\ [Next]_vars => ShownIsTrue'
<1> SUFFICES ASSUME TypeOK, MachineInv, ShownIsTrue, [Next]_vars PROVE ShownIsTrue'
  OBVIOUS
<1>1. CASE FindTarget
  BY <1>1 DEF FindTarget, Dial, NoLink, Sleep, MachineInv, Tunnelled, ShownIsTrue, Ended,
     machine
<1>2. CASE Probe
  BY <1>2 DEF Probe, Dial, NextInterface, NoAnswer, Sleep, MachineInv, Tunnelled,
     ShownIsTrue, Ended, machine
<1>3. CASE AskNeighbour
  BY <1>3 DEF AskNeighbour, Dial, NextInterface, NoAnswer, Sleep, MachineInv, Tunnelled,
     ShownIsTrue, Ended, machine
<1>4. CASE Connect
  BY <1>4 DEF Connect, Failed, Sleep, MachineInv, Tunnelled, ShownIsTrue, Ended, machine
<1>5. CASE Handshake
  BY <1>5 DEF Handshake, Failed, Sleep, MachineInv, Tunnelled, ShownIsTrue, Ended, machine
<1>6. CASE OpenTun
  BY <1>6 DEF OpenTun, MachineInv, Tunnelled, ShownIsTrue, Ended, machine
<1>7. CASE OpenFails
  BY <1>7 DEF OpenFails, Failed, Sleep, MachineInv, Tunnelled, ShownIsTrue, Ended, machine
<1>8. CASE ApplyDone
  BY <1>8 DEF ApplyDone, MachineInv, Tunnelled, ShownIsTrue, Ended, machine
<1>9. CASE ApplyFails
  BY <1>9 DEF ApplyFails, MachineInv, Tunnelled, ShownIsTrue, Ended, machine
<1>10. CASE ApplyPanics
  BY <1>10 DEF ApplyPanics, Reverts, MachineInv, Tunnelled, ShownIsTrue, Ended, machine
<1>11. CASE Undo
  BY <1>11 DEF Undo, Reverts, MachineInv, Tunnelled, ShownIsTrue, Ended, machine
<1>12. CASE GiveUp
  BY <1>12 DEF GiveUp, Failed, Sleep, MachineInv, Tunnelled, ShownIsTrue, Ended, machine
<1>13. CASE Revert
  BY <1>13 DEF Revert, Reverts, MachineInv, Tunnelled, ShownIsTrue, Ended, machine
<1>14. CASE Teardown
  BY TypeOK, <1>14 DEF Teardown, Lost, Sleep, MachineInv, Tunnelled, ShownIsTrue, Ended,
     machine
<1>15. CASE WakeUp
  BY <1>15 DEF WakeUp, MachineInv, Tunnelled, ShownIsTrue, Ended, machine
<1>16. CASE SeeShutdown
  BY <1>16 DEF SeeShutdown, Stop, Listening, MachineInv, Tunnelled, ShownIsTrue, Ended,
     machine
<1>17. CASE StrayTun
  BY <1>17 DEF StrayTun, MachineInv, Tunnelled, ShownIsTrue, Ended, machine
<1>18. CASE StrayApply
  BY <1>18 DEF StrayApply, MachineInv, Tunnelled, ShownIsTrue, Ended, machine
<1>19. CASE StrayRevert
  BY <1>19 DEF StrayRevert, Reverts, MachineInv, Tunnelled, ShownIsTrue, Ended, machine
<1>20. CASE DropDevice
  BY <1>20 DEF DropDevice, MachineInv, Tunnelled, ShownIsTrue, Ended, machine
<1>21. CASE Ask
  BY <1>21 DEF Ask, MachineInv, Tunnelled, ShownIsTrue, Ended, machine
<1>22. CASE Abort
  BY AbortFrame, <1>22 DEF ShownIsTrue, Ended
<1>23. CASE Speed
  BY <1>23 DEF Speed, Failed, Sleep, MachineInv, Tunnelled, ShownIsTrue, Ended, machine
<1>24. CASE HostChanges
  BY <1>24 DEF HostChanges, MachineInv, Tunnelled, ShownIsTrue, Ended, machine
<1>25. CASE Traffic
  BY <1>25 DEF Traffic, MachineInv, Tunnelled, ShownIsTrue, Ended, machine
<1>26. CASE \E how \in {"shutdown", "lost"} : EndPump(how)
  BY <1>26 DEF EndPump, MachineInv, Tunnelled, ShownIsTrue, Ended, machine
<1>27. CASE PumpGoesOn
  BY <1>27 DEF PumpGoesOn, MachineInv, Tunnelled, ShownIsTrue, Ended, machine
<1>28. CASE UNCHANGED vars
  BY <1>28 DEF vars, MachineInv, Tunnelled, ShownIsTrue, Ended, machine
<1> QED
  BY <1>1, <1>2, <1>3, <1>4, <1>5, <1>6, <1>7, <1>8, <1>9, <1>10, <1>11, <1>12, <1>13,
     <1>14, <1>15, <1>16, <1>17, <1>18, <1>19, <1>20, <1>21, <1>22, <1>23, <1>24, <1>25,
     <1>26, <1>27, <1>28, PumpCases
  DEF Next, GuestStep, StrayStep, PumpStep, Outside

\* What the user is shown is so.
THEOREM ShownAlways == Spec => []ShownIsTrue
<1>1. Init => ShownIsTrue
  BY DEF Init, ShownIsTrue
<1>2. QED
  BY <1>1, ShownStep, MachineAlways, PTL DEF Spec

(***************************************************************************)
(* Powers of two.  Induction is by minimal counterexample: a set of        *)
(* natural numbers that is not empty has a least element.                  *)
(***************************************************************************)

LEMMA Least ==
  ASSUME NEW S \in SUBSET Nat, S # {}
  PROVE  \E m \in S : \A n \in S : m <= n
<1>1. PICK m \in S : \A n \in S : <<n, m>> \notin OpToRel(<, Nat)
  BY NatLessThanWellFounded, WFMin
<1>2. \A n \in S : ~(n < m)
  BY <1>1 DEF OpToRel
<1>3. m \in Nat /\ \A n \in S : n \in Nat
  OBVIOUS
<1> QED
  BY <1>2, <1>3

\* g is Power2 up to n.
Doubles(g, n) ==
  /\ g \in [0..n -> Nat]
  /\ \A i \in 0..n : g[i] = IF i = 0 THEN 1 ELSE 2 * g[i - 1]

LEMMA DoublesExist == \A n \in Nat : \E g : Doubles(g, n)
<1> SUFFICES ASSUME NEW k \in Nat, \A g : ~Doubles(g, k) PROVE FALSE
  OBVIOUS
<1> DEFINE S == {n \in Nat : \A g : ~Doubles(g, n)}
<1>1. PICK m \in S : \A n \in S : m <= n
  <2>1. S \in SUBSET Nat /\ S # {}
    OBVIOUS
  <2> HIDE DEF S
  <2> QED
    BY <2>1, Least
<1>2. CASE m = 0
  <2>1. Doubles([i \in 0..0 |-> 1], 0)
    BY DEF Doubles
  <2> QED
    BY <1>2, <2>1
<1>3. CASE m # 0
  <2>1. m - 1 \in Nat /\ m - 1 \notin S
    BY <1>1, <1>3
  <2>2. PICK g : Doubles(g, m - 1)
    BY <2>1
  <2>3. Doubles([i \in 0..m |-> IF i < m THEN g[i] ELSE 2 * g[m - 1]], m)
    BY <2>1, <2>2, <1>3 DEF Doubles
  <2> QED
    BY <2>3
<1> QED
  BY <1>2, <1>3

LEMMA DoublesAgree ==
  ASSUME NEW n \in Nat, NEW k \in Nat, NEW g, NEW h, Doubles(g, n), Doubles(h, k)
  PROVE  \A i \in Nat : i <= n /\ i <= k => g[i] = h[i]
<1> DEFINE S == {i \in Nat : i <= n /\ i <= k /\ g[i] # h[i]}
<1> SUFFICES ASSUME S # {} PROVE FALSE
  OBVIOUS
<1>1. PICK m \in S : \A i \in S : m <= i
  <2>1. S \in SUBSET Nat
    OBVIOUS
  <2> HIDE DEF S
  <2> QED
    BY <2>1, Least
<1>2. m \in 0..n /\ m \in 0..k
  OBVIOUS
<1>3. m # 0
  BY <1>2 DEF Doubles
<1>4. m - 1 \in Nat /\ m - 1 \notin S
  BY <1>1, <1>3
<1>5. g[m - 1] = h[m - 1]
  BY <1>2, <1>4
<1>6. g[m] = h[m]
  BY <1>2, <1>3, <1>5 DEF Doubles
<1> QED
  BY <1>6

\* The recursion of Power2 defines it.
LEMMA Power2Def ==
  /\ Power2 \in [Nat -> Nat]
  /\ \A n \in Nat : Power2[n] = IF n = 0 THEN 1 ELSE 2 * Power2[n - 1]
<1> DEFINE G(n) == CHOOSE g : Doubles(g, n)
           f == [n \in Nat |-> G(n)[n]]
<1>1. \A n \in Nat : Doubles(G(n), n)
  BY DoublesExist
<1>2. \A n \in Nat : f[n] = IF n = 0 THEN 1 ELSE 2 * f[n - 1]
  <2> SUFFICES ASSUME NEW n \in Nat PROVE f[n] = IF n = 0 THEN 1 ELSE 2 * f[n - 1]
    OBVIOUS
  <2>1. f[n] = G(n)[n] /\ (n # 0 => f[n - 1] = G(n - 1)[n - 1])
    OBVIOUS
  <2> HIDE DEF f, G
  <2>2. G(n)[n] = IF n = 0 THEN 1 ELSE 2 * G(n)[n - 1]
    BY <1>1 DEF Doubles
  <2>3. ASSUME n # 0 PROVE G(n)[n - 1] = G(n - 1)[n - 1]
    <3>1. n - 1 \in Nat /\ Doubles(G(n), n) /\ Doubles(G(n - 1), n - 1)
      BY <1>1, <2>3
    <3>2. \A i \in Nat : i <= n /\ i <= n - 1 => G(n)[i] = G(n - 1)[i]
      BY <3>1, DoublesAgree
    <3> QED
      BY <3>1, <3>2
  <2> QED
    BY <2>1, <2>2, <2>3
<1>3. f = [n \in Nat |-> IF n = 0 THEN 1 ELSE 2 * f[n - 1]]
  <2>1. f = [n \in Nat |-> f[n]]
    OBVIOUS
  <2> HIDE DEF f
  <2> QED
    BY <1>2, <2>1
<1>4. Power2 = [n \in Nat |-> IF n = 0 THEN 1 ELSE 2 * Power2[n - 1]]
  <2> HIDE DEF f
  <2> QED
    BY <1>3 DEF Power2
<1>5. \A n \in Nat : Power2[n] = IF n = 0 THEN 1 ELSE 2 * Power2[n - 1]
  BY <1>4
<1>6. \A n \in Nat : Power2[n] \in Nat
  <2> DEFINE S == {n \in Nat : Power2[n] \notin Nat}
  <2>1. S # {} => \E m \in S : \A n \in S : m <= n
    <3>1. S \in SUBSET Nat
      OBVIOUS
    <3> HIDE DEF S
    <3> QED
      BY <3>1, Least
  <2>2. \A m \in S : m - 1 \in Nat /\ m - 1 \in S
    BY <1>5
  <2> QED
    BY <2>1, <2>2
<1> QED
  BY <1>4, <1>5, <1>6

\* Doubling a capped delay and capping the doubled one are the same, also
\* where the counter of the history has stopped.
LEMMA DoubledNext ==
  ASSUME NEW n \in 0..CountCap
  PROVE  /\ next_retry_backoff(Doubled(n)) = Doubled(AtMost(n + 1, CountCap))
         /\ Doubled(AtMost(n + 1, CountCap) - 1) = Doubled(n)
<1> DEFINE P == Power2[n]
<1>1. P \in Nat /\ Power2[n + 1] = 2 * P
  BY Power2Def, Bounds
<1>2. CASE n < CountCap
  <2>1. AtMost(n + 1, CountCap) = n + 1
    BY <1>2, Bounds DEF AtMost
  <2>2. next_retry_backoff(AtMost(P, MaxBackoff)) = AtMost(2 * P, MaxBackoff)
    <3> HIDE DEF P
    <3> QED
      BY <1>1, Bounds DEF next_retry_backoff, AtMost
  <2> QED
    BY <1>1, <2>1, <2>2 DEF Doubled
<1>3. CASE n = CountCap
  <2>1. AtMost(n + 1, CountCap) = n
    BY <1>3, Bounds DEF AtMost
  <2>2. /\ n \in Nat \ {0} /\ n - 1 \in Nat
        /\ MaxBackoff <= Power2[n - 1]
    BY <1>3, BoundsAssumption
  <2>3. Power2[n - 1] \in Nat /\ P = 2 * Power2[n - 1]
    BY <2>2, Power2Def
  <2>4. AtMost(P, MaxBackoff) = MaxBackoff /\ AtMost(Power2[n - 1], MaxBackoff) = MaxBackoff
    <3> HIDE DEF P
    <3> QED
      BY <2>2, <2>3, Bounds DEF AtMost
  <2>5. next_retry_backoff(MaxBackoff) = MaxBackoff
    BY Bounds DEF next_retry_backoff, AtMost
  <2> QED
    BY <2>1, <2>4, <2>5 DEF Doubled
<1> QED
  BY <1>2, <1>3, Bounds

LEMMA DoubledZero == Doubled(0) = 1
<1>1. Power2[0] = 1
  BY Power2Def
<1> QED
  BY <1>1, Bounds DEF Doubled, AtMost

(***************************************************************************)
(* The waits                                                               *)
(***************************************************************************)

\* The two delays are the ones their histories ask for; from the moment the
\* tunnel is up to its teardown the delay of failures waits for its reset,
\* and while the guest sleeps it sleeps as long as its history says.
InSession == {"up", "closing", "closed"}

WaitsInv ==
  /\ discovery_backoff = Doubled(misses)
  /\ pc \in InSession => fails = 0
  /\ pc \notin InSession \cup Ended => failure_backoff = Doubled(fails)
  /\ pc \in {"probing", "asking"} => state = "Discovering"
  /\ WaitsFollowHistory

\* A step that leaves the delays, their histories and what is shown alone,
\* and neither enters the sleep nor leaves or enters a session.
RetryFrame ==
  /\ UNCHANGED retry
  /\ pc' # "sleeping"
  /\ pc' \in InSession => pc \in InSession
  /\ pc \in InSession => pc' \in InSession \cup Ended
  /\ pc' \notin InSession \cup Ended => pc \notin InSession \cup Ended
  /\ pc' \in {"probing", "asking"} => state' = "Discovering"

LEMMA FrameKeepsWaits == WaitsInv /\ RetryFrame => WaitsInv'
BY DEF WaitsInv, RetryFrame, WaitsFollowHistory, retry, Doubled, InSession, Ended

\* The other steps: a wait begins, or a history starts again.
LEMMA FailedKeepsWaits ==
  ASSUME TypeOK, WaitsInv, pc \notin InSession \cup Ended, Failed
  PROVE  WaitsInv'
<1>1. /\ fails \in 0..CountCap
      /\ failure_backoff = Doubled(fails) /\ discovery_backoff = Doubled(misses)
  BY DEF TypeOK, CountersOK, WaitsInv
<1>2. /\ state' = "Disconnected" /\ fails' = AtMost(fails + 1, CountCap)
      /\ UNCHANGED <<discovery_backoff, misses>>
  BY DEF Failed
<1>3. fails' > 0 /\ fails' # 0 /\ fails' \in Nat
  BY <1>1, <1>2, Bounds, BoundsAssumption DEF AtMost
<1>4. CASE reconnect
  <2>1. pc' = "sleeping" /\ delay' = failure_backoff
        /\ failure_backoff' = next_retry_backoff(failure_backoff)
    BY <1>4 DEF Failed, Sleep
  <2>2. failure_backoff' = Doubled(fails') /\ delay' = Doubled(fails' - 1)
    BY <1>1, <1>2, <2>1, DoubledNext
  <2>3. WaitsFollowHistory'
    BY <1>2, <1>3, <2>1, <2>2 DEF WaitsFollowHistory, Doubled
  <2> QED
    BY <1>1, <1>2, <2>1, <2>2, <2>3 DEF WaitsInv, InSession, Ended, Doubled
<1>5. CASE ~reconnect
  BY <1>1, <1>2, <1>5 DEF Failed, WaitsInv, WaitsFollowHistory, InSession, Ended, Doubled
<1> QED
  BY <1>4, <1>5

LEMMA NoAnswerKeepsWaits ==
  ASSUME TypeOK, WaitsInv, pc \in {"probing", "asking"}, state' = state, NoAnswer
  PROVE  WaitsInv'
<1>1. /\ misses \in 0..CountCap /\ state = "Discovering"
      /\ failure_backoff = Doubled(fails) /\ discovery_backoff = Doubled(misses)
  BY DEF TypeOK, CountersOK, WaitsInv, InSession, Ended
<1>2. /\ pc' = "sleeping" /\ delay' = discovery_backoff
      /\ discovery_backoff' = next_retry_backoff(discovery_backoff)
      /\ misses' = AtMost(misses + 1, CountCap)
      /\ UNCHANGED <<failure_backoff, fails>>
  BY DEF NoAnswer, Sleep
<1>3. discovery_backoff' = Doubled(misses') /\ delay' = Doubled(misses' - 1)
  BY <1>1, <1>2, DoubledNext
<1>4. WaitsFollowHistory'
  BY <1>1, <1>2, <1>3 DEF WaitsFollowHistory, Doubled
<1> QED
  BY <1>1, <1>2, <1>3, <1>4 DEF WaitsInv, InSession, Ended, Doubled

LEMMA DialKeepsWaits ==
  ASSUME WaitsInv, pc \notin InSession \cup Ended, NEW watched, Dial(watched)
  PROVE  WaitsInv'
BY DoubledZero DEF Dial, WaitsInv, WaitsFollowHistory, InSession, Ended, Doubled

LEMMA NoLinkKeepsWaits ==
  ASSUME WaitsInv, pc \notin InSession \cup Ended, NoLink
  PROVE  WaitsInv'
BY DoubledZero DEF NoLink, Sleep, WaitsInv, WaitsFollowHistory, InSession, Ended, Doubled

LEMMA NextInterfaceKeepsWaits ==
  ASSUME TypeOK, WaitsInv, pc \in {"probing", "asking"}, NextInterface
  PROVE  WaitsInv'
<1>1. CASE todo > 1
  BY <1>1, FrameKeepsWaits DEF NextInterface, RetryFrame, WaitsInv, InSession, Ended
<1>2. CASE ~(todo > 1)
  BY <1>2, NoAnswerKeepsWaits DEF NextInterface
<1> QED
  BY <1>1, <1>2

LEMMA WaitsStep == TypeOK /\ WaitsInv /\ [Next]_vars => WaitsInv'
<1> SUFFICES ASSUME TypeOK, WaitsInv, [Next]_vars PROVE WaitsInv'
  OBVIOUS
<1>1. CASE FindTarget
  <2>1. pc = "top" /\ pc \notin InSession \cup Ended
    BY <1>1 DEF FindTarget, InSession, Ended
  <2>2. CASE \E watched \in BOOLEAN : Dial(watched)
    BY <2>1, <2>2, DialKeepsWaits
  <2>3. CASE NoLink
    BY <2>1, <2>3, NoLinkKeepsWaits
  <2>4. CASE pc' = "probing" /\ state' = "Discovering" /\ UNCHANGED retry
    BY <2>1, <2>4, FrameKeepsWaits DEF RetryFrame, InSession, Ended
  <2> QED
    BY <1>1, <2>2, <2>3, <2>4 DEF FindTarget
<1>2. CASE Probe
  <2>1. pc \in {"probing", "asking"} /\ pc \notin InSession \cup Ended
    BY <1>2 DEF Probe, InSession, Ended
  <2>2. CASE Dial(TRUE)
    BY <2>1, <2>2, DialKeepsWaits
  <2>3. CASE pc' = "asking" /\ UNCHANGED <<state, finding, retry>>
    BY <2>1, <2>3, FrameKeepsWaits DEF RetryFrame, WaitsInv, InSession, Ended
  <2>4. CASE NextInterface
    BY <2>1, <2>4, NextInterfaceKeepsWaits
  <2> QED
    BY <1>2, <2>2, <2>3, <2>4 DEF Probe
<1>3. CASE AskNeighbour
  <2>1. pc \in {"probing", "asking"} /\ pc \notin InSession \cup Ended
    BY <1>3 DEF AskNeighbour, InSession, Ended
  <2> QED
    BY <1>3, <2>1, DialKeepsWaits, NextInterfaceKeepsWaits DEF AskNeighbour
<1>4. CASE Connect
  <2>1. Failed \/ RetryFrame
    BY <1>4 DEF Connect, RetryFrame, InSession, Ended
  <2> QED
    BY <1>4, <2>1, FailedKeepsWaits, FrameKeepsWaits DEF Connect, InSession, Ended
<1>5. CASE Handshake
  <2>1. Failed \/ RetryFrame
    BY <1>5 DEF Handshake, RetryFrame, InSession, Ended
  <2> QED
    BY <1>5, <2>1, FailedKeepsWaits, FrameKeepsWaits DEF Handshake, InSession, Ended
<1>6. CASE Speed
  <2>1. Failed \/ RetryFrame
    BY <1>6 DEF Speed, RetryFrame, InSession, Ended
  <2> QED
    BY <1>6, <2>1, FailedKeepsWaits, FrameKeepsWaits DEF Speed, InSession, Ended
<1>7. CASE OpenFails
  BY <1>7, FailedKeepsWaits DEF OpenFails, InSession, Ended
<1>8. CASE GiveUp
  BY <1>8, FailedKeepsWaits DEF GiveUp, InSession, Ended
<1>9. CASE ApplyDone
  BY <1>9 DEF ApplyDone, WaitsInv, WaitsFollowHistory, InSession, Ended, Doubled
<1>10. CASE Teardown
  <2>1. CASE end = "shutdown" /\ pc' = "stopped" /\ UNCHANGED <<state, retry>>
    BY <1>10, <2>1, FrameKeepsWaits DEF Teardown, RetryFrame, InSession, Ended
  <2>2. CASE Lost
    BY <1>10, <2>2, DoubledZero DEF Teardown, Lost, Sleep, WaitsInv, WaitsFollowHistory,
       InSession, Ended, Doubled
  <2> QED
    BY <1>10, <2>1, <2>2 DEF Teardown
<1>11. CASE OpenTun \/ ApplyFails \/ ApplyPanics \/ Undo
  <2>1. RetryFrame
    BY <1>11 DEF OpenTun, ApplyFails, ApplyPanics, Reverts, Undo, RetryFrame, InSession, Ended
  <2> QED
    BY <2>1, FrameKeepsWaits
<1>12. CASE Revert \/ WakeUp \/ SeeShutdown \/ Abort
  <2>1. RetryFrame
    BY <1>12, AbortFrame DEF Revert, Reverts, WakeUp, SeeShutdown, Stop, Listening, Abort,
       RetryFrame, InSession, Ended
  <2> QED
    BY <2>1, FrameKeepsWaits
<1>13. CASE StrayTun \/ StrayApply \/ StrayRevert \/ DropDevice
  <2>1. RetryFrame
    BY <1>13 DEF StrayTun, StrayApply, StrayRevert, DropDevice, RetryFrame, InSession, Ended
  <2> QED
    BY <2>1, FrameKeepsWaits
<1>14. CASE \E how \in {"shutdown", "lost"} : EndPump(how)
  <2>1. RetryFrame
    BY <1>14 DEF EndPump, RetryFrame, InSession, Ended
  <2> QED
    BY <2>1, FrameKeepsWaits
<1>15. CASE UNCHANGED <<pc, state, retry>>
  BY <1>15 DEF WaitsInv, WaitsFollowHistory, retry, Doubled
<1>16. Ask \/ HostChanges \/ Traffic \/ PumpGoesOn \/ UNCHANGED vars
         => UNCHANGED <<pc, state, retry>>
  BY DEF Ask, HostChanges, Traffic, PumpGoesOn, vars
<1> QED
  BY <1>1, <1>2, <1>3, <1>4, <1>5, <1>6, <1>7, <1>8, <1>9, <1>10, <1>11, <1>12, <1>13,
     <1>14, <1>15, <1>16, PumpCases
  DEF Next, GuestStep, StrayStep, PumpStep, Outside

\* Each wait is the one its history asks for, whichever way failures to
\* connect, unanswered searches and sessions follow one another.
THEOREM WaitsAlways == Spec => []WaitsFollowHistory
<1>1. Init => WaitsInv
  BY DoubledZero DEF Init, WaitsInv, WaitsFollowHistory, InSession, Ended
<1>2. WaitsInv => WaitsFollowHistory
  BY DEF WaitsInv
<1>3. QED
  BY <1>1, <1>2, WaitsStep, TypeCorrect, PTL DEF Spec

(***************************************************************************)
(* The guest implements TunnelLifecycle                                    *)
(***************************************************************************)

LEMMA LifecycleInit == Init => Lifecycle!Init
BY DEF Init, Lifecycle!Init

LEMMA LifecycleStep == TypeOK /\ MachineInv /\ [Next]_vars => [Lifecycle!Next]_(Lifecycle!vars)
<1> SUFFICES ASSUME TypeOK, MachineInv, [Next]_vars PROVE [Lifecycle!Next]_(Lifecycle!vars)
  OBVIOUS
<1> USE DEF Lifecycle!Next, Lifecycle!vars, Lifecycle!Create, Lifecycle!Route, Lifecycle!Unroute,
            Lifecycle!Remove, Lifecycle!Return, Lifecycle!Kill
<1>1. CASE FindTarget
  BY <1>1 DEF FindTarget, Dial, NoLink, Sleep, MachineInv, BetweenSessions, Untouched,
     Tunnelled, Ended, machine
<1>2. CASE Probe
  BY <1>2 DEF Probe, Dial, NextInterface, NoAnswer, Sleep, MachineInv, BetweenSessions,
     Untouched, Tunnelled, Ended, machine
<1>3. CASE AskNeighbour
  BY <1>3 DEF AskNeighbour, Dial, NextInterface, NoAnswer, Sleep, MachineInv,
     BetweenSessions, Untouched, Tunnelled, Ended, machine
<1>4. CASE Connect
  BY <1>4 DEF Connect, Failed, Sleep, MachineInv, BetweenSessions, Untouched, Tunnelled,
     Ended, machine
<1>5. CASE Handshake
  BY <1>5 DEF Handshake, Failed, Sleep, MachineInv, BetweenSessions, Untouched, Tunnelled,
     Ended, machine
<1>6. CASE OpenTun
  BY <1>6 DEF OpenTun, MachineInv, BetweenSessions, Untouched, Tunnelled, Ended, machine
<1>7. CASE OpenFails
  BY <1>7 DEF OpenFails, Failed, Sleep, MachineInv, BetweenSessions, Untouched, Tunnelled,
     Ended, machine
<1>8. CASE ApplyDone
  BY <1>8 DEF ApplyDone, MachineInv, BetweenSessions, Untouched, Tunnelled, Ended, machine
<1>9. CASE ApplyFails
  BY <1>9 DEF ApplyFails, MachineInv, BetweenSessions, Untouched, Tunnelled, Ended, machine
<1>10. CASE ApplyPanics
  BY <1>10 DEF ApplyPanics, Reverts, MachineInv, BetweenSessions, Untouched, Tunnelled,
     Ended, machine
<1>11. CASE Undo
  BY <1>11 DEF Undo, Reverts, MachineInv, BetweenSessions, Untouched, Tunnelled, Ended, machine
<1>12. CASE GiveUp
  BY <1>12 DEF GiveUp, Failed, Sleep, MachineInv, BetweenSessions, Untouched, Tunnelled,
     Ended, machine
<1>13. CASE Revert
  BY <1>13 DEF Revert, Reverts, MachineInv, BetweenSessions, Untouched, Tunnelled, Ended, machine
<1>14. CASE Teardown
  BY <1>14 DEF Teardown, Lost, Sleep, MachineInv, BetweenSessions, Untouched, Tunnelled,
     Ended, machine
<1>15. CASE WakeUp
  BY <1>15 DEF WakeUp, MachineInv, BetweenSessions, Untouched, Tunnelled, Ended, machine
<1>16. CASE SeeShutdown
  BY <1>16 DEF SeeShutdown, Stop, Listening, MachineInv, BetweenSessions, Untouched,
     Tunnelled, Ended, machine
<1>17. CASE StrayTun
  BY TypeOK, <1>17 DEF TypeOK, MachineOK, StrayTun, MachineInv, BetweenSessions, Untouched,
     Tunnelled, Ended, machine
<1>18. CASE StrayApply
  BY <1>18 DEF StrayApply, MachineInv, BetweenSessions, Untouched, Tunnelled, Ended, machine
<1>19. CASE StrayRevert
  BY <1>19 DEF StrayRevert, Reverts, MachineInv, BetweenSessions, Untouched, Tunnelled,
     Ended, machine
<1>20. CASE DropDevice
  BY <1>20 DEF DropDevice, MachineInv, BetweenSessions, Untouched, Tunnelled, Ended, machine
<1>21. CASE Ask
  BY <1>21 DEF Ask, MachineInv, BetweenSessions, Untouched, Tunnelled, Ended, machine
<1>22. CASE Abort
  <2>1. device \in BOOLEAN /\ device' \in BOOLEAN
    BY MachineTypes DEF TypeOK, MachineOK
  <2>2. device' \in {device, FALSE}
    BY <1>22, <2>1, AbortFrame
  <2>3. pc \notin Ended /\ pc' = "aborted" /\ conf' = conf
    BY <1>22, AbortFrame
  <2>4. Lifecycle!Kill
    BY <2>2, <2>3 DEF Ended
  <2> QED
    BY <2>4
<1>23. CASE Speed
  BY <1>23 DEF Speed, Failed, Sleep, MachineInv, BetweenSessions, Untouched, Tunnelled,
     Ended, machine
<1>24. CASE HostChanges
  BY <1>24 DEF HostChanges, MachineInv, BetweenSessions, Untouched, Tunnelled, Ended, machine
<1>25. CASE Traffic
  BY <1>25 DEF Traffic, MachineInv, BetweenSessions, Untouched, Tunnelled, Ended, machine
<1>26. CASE \E how \in {"shutdown", "lost"} : EndPump(how)
  BY <1>26 DEF EndPump, MachineInv, BetweenSessions, Untouched, Tunnelled, Ended, machine
<1>27. CASE PumpGoesOn
  BY <1>27 DEF PumpGoesOn, MachineInv, BetweenSessions, Untouched, Tunnelled, Ended, machine
<1>28. CASE UNCHANGED vars
  BY <1>28 DEF vars, MachineInv, BetweenSessions, Untouched, Tunnelled, Ended, machine
<1> QED
  BY <1>1, <1>2, <1>3, <1>4, <1>5, <1>6, <1>7, <1>8, <1>9, <1>10, <1>11, <1>12, <1>13,
     <1>14, <1>15, <1>16, <1>17, <1>18, <1>19, <1>20, <1>21, <1>22, <1>23, <1>24, <1>25,
     <1>26, <1>27, <1>28, PumpCases
  DEF Next, GuestStep, StrayStep, PumpStep, Outside

\* Every step of the guest is one the abstract lifecycle allows, or none.
THEOREM LifecycleKept == Spec => KeepsLifecycle
<1>1. QED
  BY LifecycleInit, LifecycleStep, MachineAlways, PTL DEF Spec, KeepsLifecycle, Lifecycle!Spec
=============================================================================
