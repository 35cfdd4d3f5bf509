------------------------- MODULE HostSessionProofs -------------------------
(***************************************************************************)
(* Proofs about HostSession for every set of TCP peers, with or without a  *)
(* serial port, and for every capacity of the event channel.               *)
(***************************************************************************)
EXTENDS HostSession, TLAPS

\* At most one TCP session is alive: the one `run` keeps a handle of.
OneTcpSession == \A p \in Conns : phase[p] \in TaskPhases => current = p

\* Before the shutdown nothing is joined or aborted; after it every task that
\* still runs is yet to be joined or was aborted.
TeardownCovers ==
  /\ ~Cancelled => joining = << >> /\ doomed = {}
  /\ Cancelled =>
       \A p \in Peers : ~Finished(p) => p \in doomed \/ \E i \in 1..Len(joining) : joining[i] = p
  /\ main = "returned" => joining = << >>

IInv == TypeOK /\ OneTcpSession /\ SlotExclusive /\ SlotNotLeaked /\ TeardownCovers

-----------------------------------------------------------------------------
LEMMA TasksCoverSessions ==
  ASSUME TypeOK
  PROVE  /\ Tasks \in Seq(Peers)
         /\ \A p \in Peers : p = current \/ p \in Ports =>
              \E i \in 1..Len(Tasks) : Tasks[i] = p
<1> DEFINE T == IF current = None THEN << >> ELSE <<current>>
           P == IF Ports = {} THEN << >> ELSE <<CHOOSE p \in Ports : TRUE>>
<1>1. /\ T \in Seq(Peers)
      /\ \A p \in Peers : p = current => Len(T) = 1 /\ T[1] = p
  <2>1. CASE current = None
    BY <2>1, NoneAssumption
  <2>2. CASE current # None
    <3>1. current \in Peers
      BY <2>2 DEF TypeOK, Peers
    <3>2. T = <<current>>
      BY <2>2
    <3>. QED  BY <3>1, <3>2
  <2>. QED  BY <2>1, <2>2
<1>2. \A p \in Ports : p = CHOOSE q \in Ports : TRUE
  BY PortsAssumption
<1>3. /\ P \in Seq(Peers)
      /\ \A p \in Ports : Len(P) = 1 /\ P[1] = p
  <2>1. CASE Ports = {}
    BY <2>1
  <2>2. CASE Ports # {}
    <3>1. (CHOOSE p \in Ports : TRUE) \in Peers
      BY <2>2 DEF Peers
    <3>2. P = <<CHOOSE p \in Ports : TRUE>>
      BY <2>2
    <3>. QED  BY <1>2, <3>1, <3>2
  <2>. QED  BY <2>1, <2>2
<1>4. Tasks = T \o P
  BY DEF Tasks
<1> HIDE DEF T, P
<1>5. /\ T \o P \in Seq(Peers)
      /\ Len(T \o P) = Len(T) + Len(P)
      /\ \A i \in 1..Len(T) : (T \o P)[i] = T[i]
      /\ \A i \in 1..Len(P) : (T \o P)[Len(T) + i] = P[i]
  BY <1>1, <1>3
<1>6. ASSUME NEW p \in Peers, p = current
      PROVE  1 \in 1..Len(T \o P) /\ (T \o P)[1] = p
  BY <1>1, <1>3, <1>5, <1>6
<1>7. ASSUME NEW p \in Ports
      PROVE  Len(T) + 1 \in 1..Len(T \o P) /\ (T \o P)[Len(T) + 1] = p
  BY <1>1, <1>3, <1>5
<1>8. QED
  BY <1>4, <1>5, <1>6, <1>7

-----------------------------------------------------------------------------
\* The definitions every step of the type invariant looks into.
LEMMA TypeStep == TypeOK /\ [Next]_vars => TypeOK'
<1> SUFFICES ASSUME TypeOK, [Next]_vars PROVE TypeOK'
  OBVIOUS
<1> USE PortsAssumption DEF TypeOK, Peers, ConnPhases, PortPhases, LoopPhases, TaskPhases,
                            HoldingPhases
<1>1. ASSUME NEW p \in Peers, FinishReject(p) PROVE TypeOK'
  BY <1>1 DEF FinishReject, Move
<1>2. ASSUME NEW p \in Peers, HelloRefused(p) PROVE TypeOK'
  BY <1>2 DEF HelloRefused, Move
<1>3. ASSUME NEW p \in Peers, Decline(p) PROVE TypeOK'
  BY <1>3 DEF Decline, Move
<1>4. ASSUME NEW p \in Peers, ClaimSlot(p) PROVE TypeOK'
  BY <1>4 DEF ClaimSlot, Move
<1>5. ASSUME NEW p \in Peers, LoseSlot(p) PROVE TypeOK'
  BY <1>5 DEF LoseSlot, Move
<1>6. ASSUME NEW p \in Peers, TellLoser(p) PROVE TypeOK'
  BY <1>6 DEF TellLoser, Move, After
<1>7. ASSUME NEW p \in Peers, Announce(p) PROVE TypeOK'
  BY <1>7 DEF Announce, Move, Event, Events
<1>8. ASSUME NEW p \in Peers, Teardown(p) PROVE TypeOK'
  BY <1>8 DEF Teardown, Move, Release
<1>9. ASSUME NEW p \in Peers, AnnounceEnd(p) PROVE TypeOK'
  BY <1>9 DEF AnnounceEnd, Move, After, Event, Events
<1>10. ASSUME NEW p \in Peers, LogUnavailable(p) PROVE TypeOK'
  BY <1>10 DEF LogUnavailable, Move
<1>11. ASSUME NEW p \in Peers, AwaitHello(p) PROVE TypeOK'
  BY <1>11 DEF AwaitHello, Move
<1>12. ASSUME NEW p \in Peers, StopWaiting(p) PROVE TypeOK'
  BY <1>12 DEF StopWaiting, Move
<1>13. ASSUME NEW p \in Peers, ReportClosed(p) PROVE TypeOK'
  BY <1>13 DEF ReportClosed, Move
<1>14. ASSUME NEW p \in Peers, ClosePort(p) PROVE TypeOK'
  BY <1>14 DEF ClosePort, Move
<1>15. ASSUME NEW p \in Peers, Vanish(p) PROVE TypeOK'
  BY <1>15 DEF Vanish, Finished
<1>16. ASSUME NEW p \in Peers, Admit(p) PROVE TypeOK'
  BY <1>16 DEF Admit, Move
<1>17. ASSUME NEW p \in Peers, RejectBusy(p) PROVE TypeOK'
  BY <1>17 DEF RejectBusy, Move
<1>18. ASSUME NEW p \in Peers, SpawnReject(p) PROVE TypeOK'
  BY <1>18 DEF SpawnReject, Move
<1>19. ASSUME NEW p \in Peers, Connect(p) PROVE TypeOK'
  BY <1>19 DEF Connect, Move
<1>20. ASSUME NEW p \in Peers, OpenFails(p) PROVE TypeOK'
  BY <1>20 DEF OpenFails, Move
<1>21. ASSUME NEW p \in Peers, OpenPort(p) PROVE TypeOK'
  BY <1>21 DEF OpenPort, Move
<1>22. ASSUME NEW p \in Peers, HelloAccepted(p) PROVE TypeOK'
  BY <1>22 DEF HelloAccepted, Move
<1>23. ASSUME NEW p \in Peers, ForeignHello(p) PROVE TypeOK'
  BY <1>23 DEF ForeignHello, Move
<1>24. ASSUME NEW p \in Peers, HelloLinkError(p) PROVE TypeOK'
  BY <1>24 DEF HelloLinkError, Move
<1>25. ASSUME NEW p \in Peers, SpeedDone(p) PROVE TypeOK'
  BY <1>25 DEF SpeedDone, Move
<1>26. ASSUME NEW p \in Peers, SpeedFailed(p) PROVE TypeOK'
  BY <1>26 DEF SpeedFailed, Move, Release
<1>27. ASSUME NEW p \in Peers, LeavePump(p) PROVE TypeOK'
  BY <1>27 DEF LeavePump, Move
<1>28. ASSUME Join PROVE TypeOK'
  BY <1>28 DEF Join
<1>29. ASSUME Abort PROVE TypeOK'
  BY <1>29 DEF Abort
<1>30. ASSUME Return PROVE TypeOK'
  BY <1>30 DEF Return
<1>31. ASSUME Shutdown PROVE TypeOK'
  BY <1>31, TasksCoverSessions DEF Shutdown
<1>32. ASSUME Consume PROVE TypeOK'
  <2>1. events # << >> /\ Head(events) \in Events /\ Tail(events) \in Seq(Events)
    BY <1>32 DEF Consume
  <2>2. ui' \in Peers \cup {None} /\ events' \in Seq(Events)
    BY <1>32, <2>1 DEF Consume, Events
  <2>. QED  BY <1>32, <2>2 DEF Consume
<1>33. CASE UNCHANGED vars
  BY <1>33 DEF vars
<1>. QED
  BY <1>1, <1>2, <1>3, <1>4, <1>5, <1>6, <1>7, <1>8, <1>9, <1>10, <1>11, <1>12, <1>13, <1>14,
     <1>15, <1>16, <1>17, <1>18, <1>19, <1>20, <1>21, <1>22, <1>23, <1>24, <1>25, <1>26, <1>27,
     <1>28, <1>29, <1>30, <1>31, <1>32, <1>33
  DEF Next, SessionStep, AcceptStep, OuterStep, MainStep

-----------------------------------------------------------------------------
\* The slot follows the sessions: only ClaimSlot fills it, only its holder
\* empties it, and no session is dropped in the middle before a shutdown.
LEMMA SlotStep == IInv /\ [Next]_vars => (SlotExclusive /\ SlotNotLeaked)'
<1> SUFFICES ASSUME IInv, [Next]_vars PROVE (SlotExclusive /\ SlotNotLeaked)'
  OBVIOUS
<1> USE NoneAssumption, PortsAssumption DEF IInv, TypeOK, SlotExclusive, SlotNotLeaked,
      TeardownCovers, Cancelled, Peers, ConnPhases, PortPhases, LoopPhases, TaskPhases,
      HoldingPhases
<1>1. ASSUME NEW p \in Peers, FinishReject(p) PROVE (SlotExclusive /\ SlotNotLeaked)'
  BY <1>1 DEF FinishReject, Move
<1>2. ASSUME NEW p \in Peers, HelloRefused(p) PROVE (SlotExclusive /\ SlotNotLeaked)'
  BY <1>2 DEF HelloRefused, Move
<1>3. ASSUME NEW p \in Peers, Decline(p) PROVE (SlotExclusive /\ SlotNotLeaked)'
  BY <1>3 DEF Decline, Move
<1>4. ASSUME NEW p \in Peers, ClaimSlot(p) PROVE (SlotExclusive /\ SlotNotLeaked)'
  BY <1>4 DEF ClaimSlot, Move
<1>5. ASSUME NEW p \in Peers, LoseSlot(p) PROVE (SlotExclusive /\ SlotNotLeaked)'
  BY <1>5 DEF LoseSlot, Move
<1>6. ASSUME NEW p \in Peers, TellLoser(p) PROVE (SlotExclusive /\ SlotNotLeaked)'
  BY <1>6 DEF TellLoser, Move, After
<1>7. ASSUME NEW p \in Peers, Announce(p) PROVE (SlotExclusive /\ SlotNotLeaked)'
  BY <1>7 DEF Announce, Move
<1>8. ASSUME NEW p \in Peers, Teardown(p) PROVE (SlotExclusive /\ SlotNotLeaked)'
  BY <1>8 DEF Teardown, Move, Release
<1>9. ASSUME NEW p \in Peers, AnnounceEnd(p) PROVE (SlotExclusive /\ SlotNotLeaked)'
  BY <1>9 DEF AnnounceEnd, Move, After
<1>10. ASSUME NEW p \in Peers, LogUnavailable(p) PROVE (SlotExclusive /\ SlotNotLeaked)'
  BY <1>10 DEF LogUnavailable, Move
<1>11. ASSUME NEW p \in Peers, AwaitHello(p) PROVE (SlotExclusive /\ SlotNotLeaked)'
  BY <1>11 DEF AwaitHello, Move
<1>12. ASSUME NEW p \in Peers, StopWaiting(p) PROVE (SlotExclusive /\ SlotNotLeaked)'
  BY <1>12 DEF StopWaiting, Move
<1>13. ASSUME NEW p \in Peers, ReportClosed(p) PROVE (SlotExclusive /\ SlotNotLeaked)'
  BY <1>13 DEF ReportClosed, Move
<1>14. ASSUME NEW p \in Peers, ClosePort(p) PROVE (SlotExclusive /\ SlotNotLeaked)'
  BY <1>14 DEF ClosePort, Move
<1>15. ASSUME NEW p \in Peers, Vanish(p) PROVE (SlotExclusive /\ SlotNotLeaked)'
  BY <1>15 DEF Vanish, Finished
<1>16. ASSUME NEW p \in Peers, Admit(p) PROVE (SlotExclusive /\ SlotNotLeaked)'
  BY <1>16 DEF Admit, Move
<1>17. ASSUME NEW p \in Peers, RejectBusy(p) PROVE (SlotExclusive /\ SlotNotLeaked)'
  BY <1>17 DEF RejectBusy, Move
<1>18. ASSUME NEW p \in Peers, SpawnReject(p) PROVE (SlotExclusive /\ SlotNotLeaked)'
  BY <1>18 DEF SpawnReject, Move
<1>19. ASSUME NEW p \in Peers, Connect(p) PROVE (SlotExclusive /\ SlotNotLeaked)'
  BY <1>19 DEF Connect, Move
<1>20. ASSUME NEW p \in Peers, OpenFails(p) PROVE (SlotExclusive /\ SlotNotLeaked)'
  BY <1>20 DEF OpenFails, Move
<1>21. ASSUME NEW p \in Peers, OpenPort(p) PROVE (SlotExclusive /\ SlotNotLeaked)'
  BY <1>21 DEF OpenPort, Move
<1>22. ASSUME NEW p \in Peers, HelloAccepted(p) PROVE (SlotExclusive /\ SlotNotLeaked)'
  BY <1>22 DEF HelloAccepted, Move
<1>23. ASSUME NEW p \in Peers, ForeignHello(p) PROVE (SlotExclusive /\ SlotNotLeaked)'
  BY <1>23 DEF ForeignHello, Move
<1>24. ASSUME NEW p \in Peers, HelloLinkError(p) PROVE (SlotExclusive /\ SlotNotLeaked)'
  BY <1>24 DEF HelloLinkError, Move
<1>25. ASSUME NEW p \in Peers, SpeedDone(p) PROVE (SlotExclusive /\ SlotNotLeaked)'
  BY <1>25 DEF SpeedDone, Move
<1>26. ASSUME NEW p \in Peers, SpeedFailed(p) PROVE (SlotExclusive /\ SlotNotLeaked)'
  BY <1>26 DEF SpeedFailed, Move, Release
<1>27. ASSUME NEW p \in Peers, LeavePump(p) PROVE (SlotExclusive /\ SlotNotLeaked)'
  BY <1>27 DEF LeavePump, Move
<1>28. ASSUME Join PROVE (SlotExclusive /\ SlotNotLeaked)'
  BY <1>28 DEF Join
<1>29. ASSUME Abort PROVE (SlotExclusive /\ SlotNotLeaked)'
  BY <1>29 DEF Abort
<1>30. ASSUME Return PROVE (SlotExclusive /\ SlotNotLeaked)'
  BY <1>30 DEF Return
<1>31. ASSUME Shutdown PROVE (SlotExclusive /\ SlotNotLeaked)'
  BY <1>31 DEF Shutdown
<1>32. ASSUME Consume PROVE (SlotExclusive /\ SlotNotLeaked)'
  BY <1>32 DEF Consume
<1>33. CASE UNCHANGED vars
  BY <1>33 DEF vars
<1>. QED
  BY <1>1, <1>2, <1>3, <1>4, <1>5, <1>6, <1>7, <1>8, <1>9, <1>10, <1>11, <1>12, <1>13, <1>14,
     <1>15, <1>16, <1>17, <1>18, <1>19, <1>20, <1>21, <1>22, <1>23, <1>24, <1>25, <1>26, <1>27,
     <1>28, <1>29, <1>30, <1>31, <1>32, <1>33
  DEF Next, SessionStep, AcceptStep, OuterStep, MainStep

-----------------------------------------------------------------------------
\* A second TCP session is only started when the first has ended.
LEMMA OneTcpStep == IInv /\ [Next]_vars => OneTcpSession'
<1> SUFFICES ASSUME IInv, [Next]_vars PROVE OneTcpSession'
  OBVIOUS
<1> USE NoneAssumption, PortsAssumption DEF IInv, TypeOK, OneTcpSession, Peers, ConnPhases,
      PortPhases, LoopPhases, TaskPhases, HoldingPhases
<1>1. ASSUME NEW p \in Peers, FinishReject(p) PROVE OneTcpSession'
  BY <1>1 DEF FinishReject, Move
<1>2. ASSUME NEW p \in Peers, HelloRefused(p) PROVE OneTcpSession'
  BY <1>2 DEF HelloRefused, Move
<1>3. ASSUME NEW p \in Peers, Decline(p) PROVE OneTcpSession'
  BY <1>3 DEF Decline, Move
<1>4. ASSUME NEW p \in Peers, ClaimSlot(p) PROVE OneTcpSession'
  BY <1>4 DEF ClaimSlot, Move
<1>5. ASSUME NEW p \in Peers, LoseSlot(p) PROVE OneTcpSession'
  BY <1>5 DEF LoseSlot, Move
<1>6. ASSUME NEW p \in Peers, TellLoser(p) PROVE OneTcpSession'
  BY <1>6 DEF TellLoser, Move, After
<1>7. ASSUME NEW p \in Peers, Announce(p) PROVE OneTcpSession'
  BY <1>7 DEF Announce, Move
<1>8. ASSUME NEW p \in Peers, Teardown(p) PROVE OneTcpSession'
  BY <1>8 DEF Teardown, Move, Release
<1>9. ASSUME NEW p \in Peers, AnnounceEnd(p) PROVE OneTcpSession'
  BY <1>9 DEF AnnounceEnd, Move, After
<1>10. ASSUME NEW p \in Peers, LogUnavailable(p) PROVE OneTcpSession'
  BY <1>10 DEF LogUnavailable, Move
<1>11. ASSUME NEW p \in Peers, AwaitHello(p) PROVE OneTcpSession'
  BY <1>11 DEF AwaitHello, Move
<1>12. ASSUME NEW p \in Peers, StopWaiting(p) PROVE OneTcpSession'
  BY <1>12 DEF StopWaiting, Move
<1>13. ASSUME NEW p \in Peers, ReportClosed(p) PROVE OneTcpSession'
  BY <1>13 DEF ReportClosed, Move
<1>14. ASSUME NEW p \in Peers, ClosePort(p) PROVE OneTcpSession'
  BY <1>14 DEF ClosePort, Move
<1>15. ASSUME NEW p \in Peers, Vanish(p) PROVE OneTcpSession'
  BY <1>15 DEF Vanish, Finished
<1>16. ASSUME NEW p \in Peers, Admit(p) PROVE OneTcpSession'
  BY <1>16 DEF Admit, Move, Busy, TcpBusy
<1>17. ASSUME NEW p \in Peers, RejectBusy(p) PROVE OneTcpSession'
  BY <1>17 DEF RejectBusy, Move
<1>18. ASSUME NEW p \in Peers, SpawnReject(p) PROVE OneTcpSession'
  BY <1>18 DEF SpawnReject, Move
<1>19. ASSUME NEW p \in Peers, Connect(p) PROVE OneTcpSession'
  BY <1>19 DEF Connect, Move
<1>20. ASSUME NEW p \in Peers, OpenFails(p) PROVE OneTcpSession'
  BY <1>20 DEF OpenFails, Move
<1>21. ASSUME NEW p \in Peers, OpenPort(p) PROVE OneTcpSession'
  BY <1>21 DEF OpenPort, Move
<1>22. ASSUME NEW p \in Peers, HelloAccepted(p) PROVE OneTcpSession'
  BY <1>22 DEF HelloAccepted, Move
<1>23. ASSUME NEW p \in Peers, ForeignHello(p) PROVE OneTcpSession'
  BY <1>23 DEF ForeignHello, Move
<1>24. ASSUME NEW p \in Peers, HelloLinkError(p) PROVE OneTcpSession'
  BY <1>24 DEF HelloLinkError, Move
<1>25. ASSUME NEW p \in Peers, SpeedDone(p) PROVE OneTcpSession'
  BY <1>25 DEF SpeedDone, Move
<1>26. ASSUME NEW p \in Peers, SpeedFailed(p) PROVE OneTcpSession'
  BY <1>26 DEF SpeedFailed, Move, Release
<1>27. ASSUME NEW p \in Peers, LeavePump(p) PROVE OneTcpSession'
  BY <1>27 DEF LeavePump, Move
<1>28. ASSUME Join PROVE OneTcpSession'
  BY <1>28 DEF Join
<1>29. ASSUME Abort PROVE OneTcpSession'
  BY <1>29 DEF Abort
<1>30. ASSUME Return PROVE OneTcpSession'
  BY <1>30 DEF Return
<1>31. ASSUME Shutdown PROVE OneTcpSession'
  BY <1>31 DEF Shutdown
<1>32. ASSUME Consume PROVE OneTcpSession'
  BY <1>32 DEF Consume
<1>33. CASE UNCHANGED vars
  BY <1>33 DEF vars
<1>. QED
  BY <1>1, <1>2, <1>3, <1>4, <1>5, <1>6, <1>7, <1>8, <1>9, <1>10, <1>11, <1>12, <1>13, <1>14,
     <1>15, <1>16, <1>17, <1>18, <1>19, <1>20, <1>21, <1>22, <1>23, <1>24, <1>25, <1>26, <1>27,
     <1>28, <1>29, <1>30, <1>31, <1>32, <1>33
  DEF Next, SessionStep, AcceptStep, OuterStep, MainStep

-----------------------------------------------------------------------------
\* The shutdown starts with every task in `joining`, and a task leaves it
\* finished or aborted.
LEMMA CoverStep == IInv /\ [Next]_vars => TeardownCovers'
<1> SUFFICES ASSUME IInv, [Next]_vars PROVE TeardownCovers'
  OBVIOUS
<1> USE PortsAssumption DEF IInv, TypeOK, OneTcpSession, TeardownCovers, Finished, Cancelled,
      Peers, ConnPhases, PortPhases, LoopPhases, TaskPhases, HoldingPhases
<1>1. ASSUME NEW p \in Peers, FinishReject(p) PROVE TeardownCovers'
  BY <1>1 DEF FinishReject, Move
<1>2. ASSUME NEW p \in Peers, HelloRefused(p) PROVE TeardownCovers'
  BY <1>2 DEF HelloRefused, Move
<1>3. ASSUME NEW p \in Peers, Decline(p) PROVE TeardownCovers'
  BY <1>3 DEF Decline, Move
<1>4. ASSUME NEW p \in Peers, ClaimSlot(p) PROVE TeardownCovers'
  BY <1>4 DEF ClaimSlot, Move
<1>5. ASSUME NEW p \in Peers, LoseSlot(p) PROVE TeardownCovers'
  BY <1>5 DEF LoseSlot, Move
<1>6. ASSUME NEW p \in Peers, TellLoser(p) PROVE TeardownCovers'
  BY <1>6 DEF TellLoser, Move, After
<1>7. ASSUME NEW p \in Peers, Announce(p) PROVE TeardownCovers'
  BY <1>7 DEF Announce, Move
<1>8. ASSUME NEW p \in Peers, Teardown(p) PROVE TeardownCovers'
  BY <1>8 DEF Teardown, Move, Release
<1>9. ASSUME NEW p \in Peers, AnnounceEnd(p) PROVE TeardownCovers'
  BY <1>9 DEF AnnounceEnd, Move, After
<1>10. ASSUME NEW p \in Peers, LogUnavailable(p) PROVE TeardownCovers'
  BY <1>10 DEF LogUnavailable, Move
<1>11. ASSUME NEW p \in Peers, AwaitHello(p) PROVE TeardownCovers'
  BY <1>11 DEF AwaitHello, Move
<1>12. ASSUME NEW p \in Peers, StopWaiting(p) PROVE TeardownCovers'
  BY <1>12 DEF StopWaiting, Move
<1>13. ASSUME NEW p \in Peers, ReportClosed(p) PROVE TeardownCovers'
  BY <1>13 DEF ReportClosed, Move
<1>14. ASSUME NEW p \in Peers, ClosePort(p) PROVE TeardownCovers'
  BY <1>14 DEF ClosePort, Move
<1>15. ASSUME NEW p \in Peers, Vanish(p) PROVE TeardownCovers'
  BY <1>15 DEF Vanish, Finished
<1>16. ASSUME NEW p \in Peers, Admit(p) PROVE TeardownCovers'
  BY <1>16 DEF Admit, Move
<1>17. ASSUME NEW p \in Peers, RejectBusy(p) PROVE TeardownCovers'
  BY <1>17 DEF RejectBusy, Move
<1>18. ASSUME NEW p \in Peers, SpawnReject(p) PROVE TeardownCovers'
  BY <1>18 DEF SpawnReject, Move
<1>19. ASSUME NEW p \in Peers, Connect(p) PROVE TeardownCovers'
  BY <1>19 DEF Connect, Move
<1>20. ASSUME NEW p \in Peers, OpenFails(p) PROVE TeardownCovers'
  BY <1>20 DEF OpenFails, Move
<1>21. ASSUME NEW p \in Peers, OpenPort(p) PROVE TeardownCovers'
  BY <1>21 DEF OpenPort, Move
<1>22. ASSUME NEW p \in Peers, HelloAccepted(p) PROVE TeardownCovers'
  BY <1>22 DEF HelloAccepted, Move
<1>23. ASSUME NEW p \in Peers, ForeignHello(p) PROVE TeardownCovers'
  BY <1>23 DEF ForeignHello, Move
<1>24. ASSUME NEW p \in Peers, HelloLinkError(p) PROVE TeardownCovers'
  BY <1>24 DEF HelloLinkError, Move
<1>25. ASSUME NEW p \in Peers, SpeedDone(p) PROVE TeardownCovers'
  BY <1>25 DEF SpeedDone, Move
<1>26. ASSUME NEW p \in Peers, SpeedFailed(p) PROVE TeardownCovers'
  BY <1>26 DEF SpeedFailed, Move, Release
<1>27. ASSUME NEW p \in Peers, LeavePump(p) PROVE TeardownCovers'
  BY <1>27 DEF LeavePump, Move
<1>28. ASSUME Join PROVE TeardownCovers'
  <2>1. ASSUME NEW q \in Peers, ~Finished(q)'
        PROVE  (q \in doomed \/ \E i \in 1..Len(joining) : joining[i] = q)'
    <3>. CASE q \in doomed
      BY <1>28 DEF Join
    <3>. CASE \E i \in 1..Len(joining) : joining[i] = q
      <4>1. PICK i \in 1..Len(joining) : joining[i] = q
        OBVIOUS
      <4>2. CASE i = 1
        BY <2>1, <4>1, <4>2, <1>28 DEF Join
      <4>3. CASE i # 1
        <5>1. i - 1 \in 1..Len(Tail(joining)) /\ Tail(joining)[i - 1] = q
          BY <4>1, <4>3, <1>28 DEF Join
        <5>. QED  BY <5>1, <1>28 DEF Join
      <4>. QED  BY <4>2, <4>3
    <3>. QED  BY <2>1, <1>28 DEF Join
  <2>. QED  BY <2>1, <1>28 DEF Join
<1>29. ASSUME Abort PROVE TeardownCovers'
  <2>1. ASSUME NEW q \in Peers, ~Finished(q)'
        PROVE  (q \in doomed \/ \E i \in 1..Len(joining) : joining[i] = q)'
    <3>. CASE q \in doomed
      BY <1>29 DEF Abort
    <3>. CASE \E i \in 1..Len(joining) : joining[i] = q
      <4>1. PICK i \in 1..Len(joining) : joining[i] = q
        OBVIOUS
      <4>2. CASE i = 1
        BY <2>1, <4>1, <4>2, <1>29 DEF Abort
      <4>3. CASE i # 1
        <5>1. i - 1 \in 1..Len(Tail(joining)) /\ Tail(joining)[i - 1] = q
          BY <4>1, <4>3, <1>29 DEF Abort
        <5>. QED  BY <5>1, <1>29 DEF Abort
      <4>. QED  BY <4>2, <4>3
    <3>. QED  BY <2>1, <1>29 DEF Abort
  <2>. QED  BY <2>1, <1>29 DEF Abort
<1>30. ASSUME Return PROVE TeardownCovers'
  BY <1>30 DEF Return
<1>31. ASSUME Shutdown PROVE TeardownCovers'
  <2>1. ASSUME NEW q \in Peers, ~Finished(q)'
        PROVE  \E i \in 1..Len(Tasks) : Tasks[i] = q
    <3>1. q = current \/ q \in Ports
      BY <1>31, <2>1 DEF Shutdown
    <3>. QED  BY <3>1, TasksCoverSessions
  <2>. QED  BY <1>31, <2>1 DEF Shutdown
<1>32. ASSUME Consume PROVE TeardownCovers'
  BY <1>32 DEF Consume
<1>33. CASE UNCHANGED vars
  BY <1>33 DEF vars
<1>. QED
  BY <1>1, <1>2, <1>3, <1>4, <1>5, <1>6, <1>7, <1>8, <1>9, <1>10, <1>11, <1>12, <1>13, <1>14,
     <1>15, <1>16, <1>17, <1>18, <1>19, <1>20, <1>21, <1>22, <1>23, <1>24, <1>25, <1>26, <1>27,
     <1>28, <1>29, <1>30, <1>31, <1>32, <1>33
  DEF Next, SessionStep, AcceptStep, OuterStep, MainStep

-----------------------------------------------------------------------------
LEMMA InitIInv == Init => IInv
  BY NoneAssumption, PortsAssumption
  DEF Init, IInv, TypeOK, OneTcpSession, SlotExclusive, SlotNotLeaked, TeardownCovers,
      Cancelled, Peers, ConnPhases, PortPhases, LoopPhases, TaskPhases, HoldingPhases

LEMMA NextIInv == IInv /\ [Next]_vars => IInv'
  BY TypeStep, SlotStep, OneTcpStep, CoverStep DEF IInv

\* Every reachable state satisfies the inductive invariant, whatever the
\* peers, the serial configuration and the capacity of the event channel.
THEOREM Inductive == Spec => []IInv
  BY InitIInv, NextIInv, PTL DEF Spec

\* Type correctness.
THEOREM TypeCorrect == Spec => []TypeOK
<1>1. IInv => TypeOK
  BY DEF IInv
<1>. QED  BY <1>1, Inductive, PTL

\* At most one guest is served at a time, and it is the one in the slot.
THEOREM OneGuestAtATime == Spec => []SlotExclusive
<1>1. IInv => SlotExclusive
  BY DEF IInv
<1>. QED  BY <1>1, Inductive, PTL

\* While the host accepts guests the slot is never left to a guest that is
\* gone, on any of the ways a session can end.
THEOREM SlotIsFreed == Spec => []SlotNotLeaked
<1>1. IInv => SlotNotLeaked
  BY DEF IInv
<1>. QED  BY <1>1, Inductive, PTL

\* When `run` returns, every session has ended or was aborted.
THEOREM ShutdownCoversAll == Spec => []NoneLeftBehind
<1>1. IInv => NoneLeftBehind
  <2>1. ASSUME IInv, main = "returned", NEW p \in Peers, ~Finished(p)
        PROVE  p \in doomed
    <3>1. joining = << >> /\ Len(joining) = 0
      BY <2>1 DEF IInv, TeardownCovers
    <3>2. p \in doomed \/ \E i \in 1..Len(joining) : joining[i] = p
      BY <2>1 DEF IInv, TeardownCovers, Cancelled
    <3>. QED  BY <3>1, <3>2
  <2>. QED  BY <2>1 DEF NoneLeftBehind
<1>. QED  BY <1>1, Inductive, PTL

-----------------------------------------------------------------------------
\* A TCP session whose guest has been announced and whose end has not.
AnnouncedPhases == {"speed", "pump", "closing", "ending"}

\* Without a serial port, what the screen shows once the channel is drained is
\* exactly the announced session.
ScreenFollows ==
  TcpOnly =>
    /\ \A p \in Conns : phase[p] \in AnnouncedPhases => ShownAfter(Len(events)) = p
    /\ \A p \in Conns : ShownAfter(Len(events)) = p => phase[p] \in AnnouncedPhases
    /\ ShownAfter(Len(events)) \in Conns \cup {None}

SInv == IInv /\ ScreenFollows /\ StreamAlternates

\* A queued event changes what the screen ends with, and nothing before it.
LEMMA AfterAppend ==
  ASSUME TypeOK, NEW e \in Events, events' = Append(events, e), ui' = ui
  PROVE  /\ Len(events') = Len(events) + 1
         /\ \A i \in 1..Len(events) : events'[i] = events[i]
         /\ events'[Len(events')] = e
         /\ \A i \in 0..Len(events) : ShownAfter(i)' = ShownAfter(i)
         /\ ShownAfter(Len(events))' = IF e.kind = "connected" THEN e.peer ELSE None
<1>1. /\ events \in Seq(Events) /\ Len(events) \in Nat
      /\ Len(events') = Len(events) + 1
      /\ \A i \in 1..Len(events) : events'[i] = events[i]
      /\ events'[Len(events) + 1] = e
  BY DEF TypeOK
<1>. QED
  BY <1>1 DEF ShownAfter

\* A consumed event shifts the stream and leaves what follows it as it was.
LEMMA AfterConsume ==
  ASSUME TypeOK, Consume
  PROVE  /\ Len(events') = Len(events) - 1 /\ Len(events) \in Nat \ {0}
         /\ \A i \in 1..Len(events') : events'[i] = events[i + 1]
         /\ \A i \in 0..Len(events') : ShownAfter(i)' = ShownAfter(i + 1)
<1>1. /\ events \in Seq(Events) /\ Len(events) \in Nat \ {0}
      /\ Len(events') = Len(events) - 1
      /\ \A i \in 1..Len(events') : events'[i] = events[i + 1]
      /\ ui' = IF events[1].kind = "connected" THEN events[1].peer ELSE None
  BY DEF TypeOK, Consume
<1>. QED
  BY <1>1 DEF ShownAfter

\* Only Announce, AnnounceEnd and Consume touch the stream; the other steps
\* keep a session on the side of the announcement it is on.
LEMMA ScreenStep == SInv /\ [Next]_vars => (ScreenFollows /\ StreamAlternates)'
<1> SUFFICES ASSUME SInv, [Next]_vars, TcpOnly' PROVE (ScreenFollows /\ StreamAlternates)'
  BY DEF ScreenFollows, StreamAlternates
<1> USE NoneAssumption, PortsAssumption
    DEF SInv, IInv, TypeOK, ScreenFollows, StreamAlternates, TcpOnly, OneTcpSession,
        TeardownCovers, Cancelled, Peers, ConnPhases, PortPhases, LoopPhases, TaskPhases,
        HoldingPhases, AnnouncedPhases
<1>1. ASSUME ui' = ui, events' = events, TcpOnly,
             \A q \in Conns : phase'[q] \in AnnouncedPhases <=> phase[q] \in AnnouncedPhases
      PROVE  (ScreenFollows /\ StreamAlternates)'
  <2>1. \A i \in 0..Len(events) : ShownAfter(i)' = ShownAfter(i)
    BY <1>1 DEF ShownAfter
  <2>. QED  BY <1>1, <2>1
<1>2. ASSUME NEW p \in Peers, FinishReject(p) PROVE (ScreenFollows /\ StreamAlternates)'
  BY <1>1, <1>2 DEF FinishReject, Move
<1>3. ASSUME NEW p \in Peers, HelloRefused(p) PROVE (ScreenFollows /\ StreamAlternates)'
  BY <1>1, <1>3 DEF HelloRefused, Move
<1>4. ASSUME NEW p \in Peers, Decline(p) PROVE (ScreenFollows /\ StreamAlternates)'
  BY <1>1, <1>4 DEF Decline, Move
<1>5. ASSUME NEW p \in Peers, ClaimSlot(p) PROVE (ScreenFollows /\ StreamAlternates)'
  BY <1>1, <1>5 DEF ClaimSlot, Move
<1>6. ASSUME NEW p \in Peers, LoseSlot(p) PROVE (ScreenFollows /\ StreamAlternates)'
  BY <1>1, <1>6 DEF LoseSlot, Move
<1>7. ASSUME NEW p \in Peers, TellLoser(p) PROVE (ScreenFollows /\ StreamAlternates)'
  BY <1>1, <1>7 DEF TellLoser, Move, After
<1>8. ASSUME NEW p \in Peers, Announce(p) PROVE (ScreenFollows /\ StreamAlternates)'
  <2>1. TcpOnly /\ p \in Conns /\ phase[p] = "announce"
    BY <1>8 DEF Announce, Move
  <2>2. Event("connected", p) \in Events
    BY DEF Event, Events
  <2>3. ShownAfter(Len(events)) = None
    BY <2>1
  <2>4. phase' = [phase EXCEPT ![p] = "speed"]
    BY <1>8 DEF Announce, Move
  <2>5. /\ \A i \in 0..Len(events) : ShownAfter(i)' = ShownAfter(i)
        /\ Len(events') = Len(events) + 1 /\ Len(events) \in Nat
        /\ \A i \in 1..Len(events) : events'[i] = events[i]
        /\ events'[Len(events')] = Event("connected", p)
        /\ ShownAfter(Len(events))' = p
    BY <1>8, <2>2, AfterAppend DEF Announce, Event
  <2>6. ScreenFollows'
    BY <2>1, <2>3, <2>4, <2>5
  <2>7. StreamAlternates'
    <3>1. ASSUME NEW i \in 1..Len(events')
          PROVE  ShownAfter(i - 1)' = IF events'[i].kind = "connected" THEN None
                                      ELSE events'[i].peer
      <4>1. CASE i \in 1..Len(events)
        BY <4>1, <2>1, <2>5
      <4>2. CASE i = Len(events')
        BY <4>2, <2>3, <2>5 DEF Event
      <4>. QED  BY <4>1, <4>2, <2>5
    <3>. QED  BY <3>1
  <2>. QED  BY <2>6, <2>7
<1>9. ASSUME NEW p \in Peers, Teardown(p) PROVE (ScreenFollows /\ StreamAlternates)'
  BY <1>1, <1>9 DEF Teardown, Move, Release
<1>10. ASSUME NEW p \in Peers, AnnounceEnd(p) PROVE (ScreenFollows /\ StreamAlternates)'
  <2>1. TcpOnly /\ p \in Conns /\ phase[p] = "ending"
    BY <1>10 DEF AnnounceEnd, Move, After, Cancelled
  <2>2. Event("disconnected", p) \in Events
    BY DEF Event, Events
  <2>3. ShownAfter(Len(events)) = p
    BY <2>1
  <2>4. phase' = [phase EXCEPT ![p] = "off"]
    BY <1>10, <2>1 DEF AnnounceEnd, Move, After
  <2>5. /\ \A i \in 0..Len(events) : ShownAfter(i)' = ShownAfter(i)
        /\ Len(events') = Len(events) + 1 /\ Len(events) \in Nat
        /\ \A i \in 1..Len(events) : events'[i] = events[i]
        /\ events'[Len(events')] = Event("disconnected", p)
        /\ ShownAfter(Len(events))' = None
    BY <1>10, <2>2, AfterAppend DEF AnnounceEnd, Event
  <2>6. ScreenFollows'
    BY <2>1, <2>3, <2>4, <2>5
  <2>7. StreamAlternates'
    <3>1. ASSUME NEW i \in 1..Len(events')
          PROVE  ShownAfter(i - 1)' = IF events'[i].kind = "connected" THEN None
                                      ELSE events'[i].peer
      <4>1. CASE i \in 1..Len(events)
        BY <4>1, <2>1, <2>5
      <4>2. CASE i = Len(events')
        BY <4>2, <2>3, <2>5 DEF Event
      <4>. QED  BY <4>1, <4>2, <2>5
    <3>. QED  BY <3>1
  <2>. QED  BY <2>6, <2>7
<1>11. ASSUME NEW p \in Peers, LogUnavailable(p) PROVE (ScreenFollows /\ StreamAlternates)'
  BY <1>1, <1>11 DEF LogUnavailable, Move
<1>12. ASSUME NEW p \in Peers, AwaitHello(p) PROVE (ScreenFollows /\ StreamAlternates)'
  BY <1>1, <1>12 DEF AwaitHello, Move
<1>13. ASSUME NEW p \in Peers, StopWaiting(p) PROVE (ScreenFollows /\ StreamAlternates)'
  BY <1>1, <1>13 DEF StopWaiting, Move
<1>14. ASSUME NEW p \in Peers, ReportClosed(p) PROVE (ScreenFollows /\ StreamAlternates)'
  BY <1>1, <1>14 DEF ReportClosed, Move
<1>15. ASSUME NEW p \in Peers, ClosePort(p) PROVE (ScreenFollows /\ StreamAlternates)'
  BY <1>1, <1>15 DEF ClosePort, Move
<1>16. ASSUME NEW p \in Peers, Vanish(p) PROVE (ScreenFollows /\ StreamAlternates)'
  BY <1>1, <1>16 DEF Vanish, Finished
<1>17. ASSUME NEW p \in Peers, Admit(p) PROVE (ScreenFollows /\ StreamAlternates)'
  BY <1>1, <1>17 DEF Admit, Move
<1>18. ASSUME NEW p \in Peers, RejectBusy(p) PROVE (ScreenFollows /\ StreamAlternates)'
  BY <1>1, <1>18 DEF RejectBusy, Move
<1>19. ASSUME NEW p \in Peers, SpawnReject(p) PROVE (ScreenFollows /\ StreamAlternates)'
  BY <1>1, <1>19 DEF SpawnReject, Move
<1>20. ASSUME NEW p \in Peers, Connect(p) PROVE (ScreenFollows /\ StreamAlternates)'
  BY <1>1, <1>20 DEF Connect, Move
<1>21. ASSUME NEW p \in Peers, OpenFails(p) PROVE (ScreenFollows /\ StreamAlternates)'
  BY <1>1, <1>21 DEF OpenFails, Move
<1>22. ASSUME NEW p \in Peers, OpenPort(p) PROVE (ScreenFollows /\ StreamAlternates)'
  BY <1>1, <1>22 DEF OpenPort, Move
<1>23. ASSUME NEW p \in Peers, HelloAccepted(p) PROVE (ScreenFollows /\ StreamAlternates)'
  BY <1>1, <1>23 DEF HelloAccepted, Move
<1>24. ASSUME NEW p \in Peers, ForeignHello(p) PROVE (ScreenFollows /\ StreamAlternates)'
  BY <1>1, <1>24 DEF ForeignHello, Move
<1>25. ASSUME NEW p \in Peers, HelloLinkError(p) PROVE (ScreenFollows /\ StreamAlternates)'
  BY <1>1, <1>25 DEF HelloLinkError, Move
<1>26. ASSUME NEW p \in Peers, SpeedDone(p) PROVE (ScreenFollows /\ StreamAlternates)'
  BY <1>1, <1>26 DEF SpeedDone, Move
<1>27. ASSUME NEW p \in Peers, SpeedFailed(p) PROVE (ScreenFollows /\ StreamAlternates)'
  BY <1>1, <1>27 DEF SpeedFailed, Move, Release
<1>28. ASSUME NEW p \in Peers, LeavePump(p) PROVE (ScreenFollows /\ StreamAlternates)'
  BY <1>1, <1>28 DEF LeavePump, Move
<1>29. ASSUME Join PROVE (ScreenFollows /\ StreamAlternates)'
  BY <1>1, <1>29 DEF Join
<1>30. ASSUME Abort PROVE (ScreenFollows /\ StreamAlternates)'
  BY <1>1, <1>30 DEF Abort
<1>31. ASSUME Return PROVE (ScreenFollows /\ StreamAlternates)'
  BY <1>1, <1>31 DEF Return
<1>32. ASSUME Shutdown PROVE (ScreenFollows /\ StreamAlternates)'
  BY <1>1, <1>32 DEF Shutdown
<1>33. ASSUME Consume PROVE (ScreenFollows /\ StreamAlternates)'
  <2>1. TcpOnly /\ phase' = phase
    BY <1>33 DEF Consume
  <2>2. /\ Len(events') = Len(events) - 1 /\ Len(events) \in Nat \ {0}
        /\ \A i \in 1..Len(events') : events'[i] = events[i + 1]
        /\ \A i \in 0..Len(events') : ShownAfter(i)' = ShownAfter(i + 1)
    BY <1>33, AfterConsume
  <2>3. ShownAfter(Len(events))' = ShownAfter(Len(events))
    BY <2>2
  <2>4. ScreenFollows'
    <3>. DEFINE shown == ShownAfter(Len(events))
    <3>1. shown' = shown
      BY <2>3
    <3>2. /\ \A p \in Conns : phase[p] \in AnnouncedPhases => shown = p
          /\ \A p \in Conns : shown = p => phase[p] \in AnnouncedPhases
          /\ shown \in Conns \cup {None}
      BY <2>1
    <3>. HIDE DEF shown
    <3>. QED  BY <2>1, <3>1, <3>2 DEF shown
  <2>5. StreamAlternates'
    <3>1. ASSUME NEW i \in 1..Len(events')
          PROVE  ShownAfter(i - 1)' = IF events'[i].kind = "connected" THEN None
                                      ELSE events'[i].peer
      <4>. HIDE DEF TypeOK, IInv, ScreenFollows, StreamAlternates, TcpOnly
      <4>1. /\ i + 1 \in 1..Len(events) /\ events'[i] = events[i + 1]
            /\ i - 1 \in 0..Len(events') /\ (i - 1) + 1 = i /\ (i + 1) - 1 = i
        BY <2>2
      <4>2. \A j \in 1..Len(events) : ShownAfter(j - 1) =
              IF events[j].kind = "connected" THEN None ELSE events[j].peer
        BY <2>1 DEF StreamAlternates
      <4>3. ShownAfter(i - 1)' = ShownAfter(i)
        BY <2>2, <4>1
      <4>. QED  BY <4>1, <4>2, <4>3
    <3>. QED  BY <3>1
  <2>. QED  BY <2>4, <2>5
<1>34. CASE UNCHANGED vars
  BY <1>1, <1>34 DEF vars
<1>. QED
  BY <1>2, <1>3, <1>4, <1>5, <1>6, <1>7, <1>8, <1>9, <1>10, <1>11, <1>12, <1>13, <1>14, <1>15,
     <1>16, <1>17, <1>18, <1>19, <1>20, <1>21, <1>22, <1>23, <1>24, <1>25, <1>26, <1>27, <1>28,
     <1>29, <1>30, <1>31, <1>32, <1>33, <1>34
  DEF Next, SessionStep, AcceptStep, OuterStep, MainStep

-----------------------------------------------------------------------------
\* With TCP alone the consumer's screen follows the sessions: guests come and
\* go one after the other, in the order in which they were served.
THEOREM EventsAlternateOverTcp == Spec => []StreamAlternates
<1>1. Init => SInv
  BY InitIInv, NoneAssumption
  DEF Init, SInv, ScreenFollows, StreamAlternates, ShownAfter, AnnouncedPhases, Peers
<1>2. SInv /\ [Next]_vars => SInv'
  BY NextIInv, ScreenStep DEF SInv
<1>3. SInv => StreamAlternates
  BY DEF SInv
<1>. QED  BY <1>1, <1>2, <1>3, PTL DEF Spec
=============================================================================
