-------------------------- MODULE TunnelLinkProofs --------------------------
(***************************************************************************)
(* Proofs about TunnelLink, for links and control queues of any capacity,  *)
(* bursts of any length, and crashes, torn frames, early timers and        *)
(* packets at any time, however many.                                      *)
(*                                                                         *)
(* First the numbers over TCP, where every attempt has a connection of its *)
(* own (SInv), then the types over every kind of link (TInv), then the     *)
(* numbers on a serial line, which carries all attempts (LineOK).          *)
(***************************************************************************)
EXTENDS TunnelLink, SequenceTheorems, TLAPS

Early == {"hello", "config", "burst"}  \* the guest's result cannot exist yet

\* What TCP delivers: no frame is torn.
Whole == [kind : FrameKinds, n : Int, cut : {0}]

\* The frames that may be under way while the guest is at g and has pushed p.
UpSet(g, p)   == {f \in Whole : f.kind = "SpeedDone" => g \notin Early /\ f.n = p}
DownSet(g, p) == {f \in Whole : f.kind = "SpeedResult" => g \notin Early /\ f.n = p}
Harmless      == {f \in Whole : f.kind \notin {"SpeedDone", "SpeedResult"}}

\* The connection of an attempt carries only numbers of this attempt.
SInv ==
  /\ up \in Seq(UpSet(guest, pushed))
  /\ down \in Seq(DownSet(guest, pushed))
  /\ ctrl \in Seq(Harmless)
  /\ pushed \in Nat /\ gcount \in Nat /\ hcount \in Nat
  /\ measured \in {Nothing, pushed}
  /\ guest \in Early => measured = Nothing /\ gcount = pushed

Tcp == kind = "tcp"

-----------------------------------------------------------------------------
(* Sequences and sets of frames. *)

LEMMA Widen ==
  ASSUME NEW S, NEW T, S \subseteq T
  PROVE  Seq(S) \subseteq Seq(T)
OBVIOUS

LEMMA Joined ==
  ASSUME NEW S, NEW s \in Seq(S), NEW t \in Seq(S)
  PROVE  s \o t \in Seq(S)
OBVIOUS

LEMMA One ==
  ASSUME NEW S, NEW e \in S
  PROVE  <<e>> \in Seq(S)
OBVIOUS

LEMMA Framed ==
  /\ \A k \in FrameKinds : Frame(k) \in Whole /\ Frame(k).kind = k
  /\ \A k \in FrameKinds \ {"SpeedDone", "SpeedResult"} : Frame(k) \in Harmless
  /\ \A k \in FrameKinds, n \in Nat :
       Count(k, n) \in Whole /\ Count(k, n).kind = k /\ Count(k, n).n = n
BY DEF Frame, Count, Whole, Harmless, Nothing

LEMMA HarmlessAnywhere ==
  ASSUME NEW g, NEW p
  PROVE  Harmless \subseteq UpSet(g, p) /\ Harmless \subseteq DownSet(g, p)
BY DEF Harmless, UpSet, DownSet

\* Once the burst is over nothing is ruled out that was allowed before.
LEMMA Later ==
  ASSUME NEW g, NEW h, NEW p, h \notin Early
  PROVE  UpSet(g, p) \subseteq UpSet(h, p) /\ DownSet(g, p) \subseteq DownSet(h, p)
BY DEF UpSet, DownSet

\* Before it is over neither number is under way, whatever was pushed.
LEMMA Before ==
  ASSUME NEW g \in Early, NEW h, NEW p, NEW q
  PROVE  UpSet(g, p) \subseteq UpSet(h, q) /\ DownSet(g, p) \subseteq DownSet(h, q)
BY DEF UpSet, DownSet

\* The reader gets the head of the channel.
LEMMA TakenWhole ==
  ASSUME NEW S, S \subseteq Whole, NEW ch \in Seq(S), NEW r \in Taken(ch)
  PROVE  r.f \in S /\ r.rest \in Seq(S)
<1>1. ch # << >> /\ Head(ch) \in S /\ Tail(ch) \in Seq(S)
  <2>1. ch # << >>
    BY DEF Taken, Readable
  <2>. QED
    BY <2>1
<1>2. Head(ch).cut = 0 /\ Head(ch) = [kind |-> Head(ch).kind, n |-> Head(ch).n, cut |-> 0]
  BY <1>1 DEF Whole
<1>3. SubSeq(ch, 2 + Head(ch).cut, Len(ch)) = Tail(ch)
  BY <1>1, <1>2
<1>4. r = [f |-> [Head(ch) EXCEPT !.cut = 0, !.n = Head(ch).n], rest |-> Tail(ch)]
  <2>1. ~(Head(ch).cut > 0)
    BY <1>2
  <2>2. Readable(ch)
    BY DEF Taken
  <2>3. {y \in {Head(ch)} : y.cut > 0 /\ y.kind \in {"Hello", "Config"}} = {}
    BY <2>1
  <2> DEFINE n == IF Head(ch).cut > 0 /\ Head(ch).n # Nothing THEN Garbage ELSE Head(ch).n
             rest == SubSeq(ch, 2 + Head(ch).cut, Len(ch))
             skip == {y \in {Head(ch)} : y.cut > 0 /\ y.kind \in {"Hello", "Config"}}
  <2>4. Taken(ch) = {[f |-> [Head(ch) EXCEPT !.cut = 0, !.n = n], rest |-> rest]}
                      \cup {[f |-> Frame("skipped"), rest |-> rest] : x \in skip}
    BY <2>2, Zenon DEF Taken
  <2>5. n = Head(ch).n /\ rest = Tail(ch) /\ skip = {}
    BY <2>1, <2>3, <1>3
  <2>. HIDE DEF n, rest, skip
  <2>. QED
    BY <2>4, <2>5
<1>5. r.f = Head(ch)
  BY <1>2, <1>4
<1>. QED
  BY <1>1, <1>4, <1>5

LEMMA Named ==
  ASSUME NEW k \in FrameKinds \ {"SpeedDone", "SpeedResult"}, NEW g, NEW p
  PROVE  /\ <<Frame(k)>> \in Seq(UpSet(g, p)) /\ <<Frame(k)>> \in Seq(DownSet(g, p))
         /\ <<Frame(k)>> \in Seq(Harmless)
<1>1. Frame(k) \in Harmless
  BY Framed
<1>2. Frame(k) \in UpSet(g, p) /\ Frame(k) \in DownSet(g, p)
  BY <1>1, HarmlessAnywhere
<1>. QED
  BY <1>1, <1>2, One

Kinds4 == {"Bye", "Eof", "Ping", "Pong"}

LEMMA Short ==
  ASSUME NEW g, NEW p
  PROVE  /\ << >> \in Seq(UpSet(g, p)) /\ << >> \in Seq(DownSet(g, p)) /\ << >> \in Seq(Harmless)
         /\ \A k \in {"Hello", "Config", "IpPacket", "SpeedChunk"} \cup Kinds4 :
              /\ <<Frame(k)>> \in Seq(UpSet(g, p)) /\ <<Frame(k)>> \in Seq(DownSet(g, p))
              /\ <<Frame(k)>> \in Seq(Harmless)
BY Named DEF FrameKinds, Kinds4

-----------------------------------------------------------------------------
(* What an end writes and what it leaves behind. *)

LEMMA Sent ==
  ASSUME Tcp, NEW S, NEW fs \in Seq(S)
  PROVE  /\ up \in Seq(S) /\ ToHost(fs) => up' \in Seq(S)
         /\ down \in Seq(S) /\ ToGuest(fs) => down' \in Seq(S)
<1>1. up \in Seq(S) => up \o fs \in Seq(S)
  BY Joined
<1>2. down \in Seq(S) => down \o fs \in Seq(S)
  BY Joined
<1>. QED
  BY <1>1, <1>2 DEF ToHost, ToGuest

LEMMA LastSent ==
  ASSUME NEW S, NEW ch \in Seq(S), NEW fs \in Seq(S), Frame("Eof") \in S
  PROVE  Last(ch, fs) \in Seq(S)
<1>1. ch \o fs \in Seq(S)
  BY Joined
<1>2. (IF Room(ch) THEN ch \o fs ELSE ch) \in Seq(S)
  BY <1>1
<1>3. (IF Serial THEN << >> ELSE <<Frame("Eof")>>) \in Seq(S)
  BY One
<1>. QED
  BY <1>2, <1>3, Joined DEF Last

LEMMA GuestEnded ==
  ASSUME Tcp, SInv, NEW phase \in {"idle", "off"}, NEW last \in {<< >>, Bye},
         GuestEnds(phase, last), UNCHANGED hvars
  PROVE  SInv'
<1>1. /\ guest' = phase /\ gcount' = 0 /\ UNCHANGED <<pushed, measured, hcount, ctrl>>
      /\ GuestCloses(last)
  BY DEF GuestEnds, hvars
<1>2. phase \notin Early
  BY DEF Early
<1>3. up \in Seq(UpSet(phase, pushed)) /\ down \in Seq(DownSet(phase, pushed))
  BY <1>2, Later, Widen DEF SInv
<1>4. Frame("Eof") \in UpSet(phase, pushed)
  BY Framed, HarmlessAnywhere DEF FrameKinds
<1>5. last \in Seq(UpSet(phase, pushed))
  BY Short DEF Bye, Kinds4
<1>6. Last(up, last) \in Seq(UpSet(phase, pushed))
  BY <1>3, <1>4, <1>5, LastSent
<1>7. up' \in Seq(UpSet(phase, pushed)) /\ down' \in Seq(DownSet(phase, pushed))
  BY <1>1, <1>6, Short DEF GuestCloses, Left, Sticky, Tcp
<1>. QED
  BY <1>1, <1>2, <1>7 DEF SInv

\* A step of the host: the guest's numbers stand.
LEMMA HostMoved ==
  ASSUME SInv, UNCHANGED gvars, ctrl' \in Seq(Harmless), hcount' \in Nat,
         up' \in Seq(UpSet(guest, pushed)), down' \in Seq(DownSet(guest, pushed))
  PROVE  SInv'
BY DEF SInv, gvars

LEMMA HostEnded ==
  ASSUME Tcp, SInv, NEW last \in {<< >>, Bye}, HostEnds(last), UNCHANGED gvars
  PROVE  SInv'
<1> DEFINE D == DownSet(guest, pushed)
<1>1. Frame("Eof") \in D
  BY Framed, HarmlessAnywhere DEF FrameKinds
<1>2. last \in Seq(D)
  BY Short DEF Bye, Kinds4
<1>3. Last(down, last) \in Seq(D)
  BY <1>1, <1>2, LastSent DEF SInv
<1>4. ctrl' = << >> /\ hcount' = 0 /\ up' = << >> /\ down' \in Seq(D)
  BY <1>3, Short DEF HostEnds, HostCloses, Left, Sticky, Tcp
<1>. QED
  BY <1>4, Short, HostMoved

-----------------------------------------------------------------------------
(* The guest. *)

\* The guest goes on in the same attempt; what it took and wrote is in order.
LEMMA GuestMoved ==
  ASSUME SInv, UNCHANGED hvars, guest' \notin Early \/ (guest \in Early /\ gcount' = pushed),
         gcount' \in Nat, UNCHANGED pushed,
         measured' = measured \/ (guest' \notin Early /\ measured' = pushed),
         up' \in Seq(UpSet(guest, pushed)), down' \in Seq(DownSet(guest, pushed))
  PROVE  SInv'
<1>1. CASE guest' \notin Early
  <2>1. up' \in Seq(UpSet(guest', pushed)) /\ down' \in Seq(DownSet(guest', pushed))
    BY <1>1, Later, Widen
  <2>. QED
    BY <1>1, <2>1 DEF SInv, hvars
<1>2. CASE guest' \in Early
  <2>1. up' \in Seq(UpSet(guest', pushed)) /\ down' \in Seq(DownSet(guest', pushed))
    BY <1>2, Before, Widen
  <2>. QED
    BY <1>2, <2>1 DEF SInv, hvars
<1>. QED
  BY <1>1, <1>2

LEMMA AGuestReads ==
  ASSUME Tcp, SInv, GuestRead
  PROVE  SInv'
<1> DEFINE U == UpSet(guest, pushed)
           D == DownSet(guest, pushed)
<1>1. PICK r \in Taken(down) :
        \/ r.f.kind = "skipped" /\ GuestTakes(r.rest) /\ UNCHANGED <<gvars, up, hbuf>>
        \/ /\ r.f.kind # "skipped"
           /\ \/ GuestHandshake(r.f, r.rest)
              \/ GuestProbeClosed(r.f, r.rest)
              \/ GuestProbe(r.f, r.rest)
              \/ GuestPump(r.f, r.rest)
  BY DEF GuestRead
<1>2. r.f \in D /\ r.rest \in Seq(D) /\ D \subseteq Whole
  <2>1. D \subseteq Whole
    BY DEF DownSet
  <2>. QED
    BY <2>1, TakenWhole DEF SInv
<1>3. UNCHANGED hvars /\ up \in Seq(U)
  BY DEF GuestRead, SInv
<1>4. r.f.kind # "skipped"
  BY <1>2 DEF Whole, FrameKinds
<1>5. GuestTakes(r.rest) => down' \in Seq(D)
  BY <1>2 DEF GuestTakes
<1>6. << >> \in Seq(U) /\ <<Frame("Pong")>> \in Seq(U)
  BY Short DEF Kinds4
<1>7. ToHost(<<Frame("Pong")>>) => up' \in Seq(U)
  BY <1>3, <1>6, Sent
<1>8. CASE GuestHandshake(r.f, r.rest)
  <2>1. CASE GuestEnds("idle", << >>)
    BY <1>3, <2>1, GuestEnded
  <2>2. CASE /\ GuestAt(IF guest = "hello" THEN "config" ELSE "burst") /\ GuestTakes(r.rest)
             /\ UNCHANGED <<up, hbuf>> /\ guest \in {"hello", "config"}
    <3>1. guest \in Early /\ gcount = pushed /\ gcount \in Nat
      BY <2>2 DEF Early, SInv
    <3>. QED
      BY <1>3, <1>5, <2>2, <3>1, GuestMoved DEF GuestAt
  <2>. QED
    BY <1>8, <2>1, <2>2 DEF GuestHandshake
<1>9. CASE GuestProbeClosed(r.f, r.rest)
  BY <1>3, <1>9, GuestEnded DEF GuestProbeClosed
<1>10. CASE GuestProbe(r.f, r.rest)
  <2>1. down' \in Seq(D) /\ UNCHANGED pushed /\ guest \notin Early
    BY <1>5, <1>10 DEF GuestProbe, GuestAt, Early
  <2>2. guest' \in {"setup", "chunk", "recv"} /\ guest' \notin Early
    BY <1>10 DEF GuestProbe, GuestAt, Early
  <2>3. gcount \in Nat
    BY DEF SInv
  <2>4. gcount' \in Nat
    BY <1>10, <2>3 DEF GuestProbe, GuestAt
  <2>5. measured' = measured \/ measured' = pushed
    BY <1>2, <1>10 DEF GuestProbe, GuestAt, DownSet
  <2>6. up' \in Seq(U)
    <3>1. Count("SpeedResult", gcount) \in U
      BY <2>3, Framed DEF UpSet, FrameKinds
    <3>2. ToHost(<<Count("SpeedResult", gcount)>>) => up' \in Seq(U)
      BY <1>3, <3>1, One, Sent
    <3>. QED
      BY <1>3, <1>7, <1>10, <3>2 DEF GuestProbe
  <2>. QED
    BY <1>3, <2>1, <2>2, <2>4, <2>5, <2>6, GuestMoved
<1>11. CASE GuestPump(r.f, r.rest)
  <2>1. CASE GuestEnds("idle", << >>) \/ GuestEnds("idle", Bye)
    BY <1>3, <2>1, GuestEnded
  <2>2. CASE /\ GuestTakes(r.rest) /\ UNCHANGED <<guest, gcount, pushed, measured>>
             /\ IF r.f.kind = "Ping" THEN ToHost(<<Frame("Pong")>>) ELSE UNCHANGED up
    <3>1. guest \notin Early \/ gcount = pushed
      BY DEF SInv
    <3>. QED
      BY <1>3, <1>5, <1>7, <2>2, <3>1, GuestMoved DEF SInv
  <2>. QED
    BY <1>11, <2>1, <2>2 DEF GuestPump
<1>. QED
  BY <1>1, <1>4, <1>8, <1>9, <1>10, <1>11

LEMMA AGuestSteps ==
  ASSUME Tcp, SInv, GuestChunk \/ GuestDone \/ GuestSetUp \/ GuestPacket
  PROVE  SInv'
<1>1. /\ up \in Seq(UpSet(guest, pushed)) /\ down \in Seq(DownSet(guest, pushed))
      /\ pushed \in Nat /\ gcount \in Nat
  BY DEF SInv
<1>2. CASE GuestChunk
  <2>1. /\ guest = "burst" /\ guest' = "burst" /\ gcount' = gcount + 1 /\ pushed' = gcount + 1
        /\ ToHost(<<Frame("SpeedChunk")>>) /\ UNCHANGED <<hvars, measured, down>>
    BY <1>2 DEF GuestChunk
  <2>2. up' \in Seq(UpSet(guest, pushed))
    BY <1>1, <2>1, Short, Sent
  <2>3. up' \in Seq(UpSet(guest', pushed')) /\ down' \in Seq(DownSet(guest', pushed'))
    BY <1>1, <2>1, <2>2, Before, Widen DEF Early
  <2>. QED
    BY <1>1, <2>1, <2>3 DEF SInv, hvars, Early
<1>3. CASE GuestDone
  <2>1. /\ guest = "burst" /\ guest' = "result" /\ gcount' = 0
        /\ ToHost(<<Count("SpeedDone", gcount)>>)
        /\ UNCHANGED <<hvars, pushed, measured, down>> /\ gcount = pushed
    BY <1>3 DEF GuestDone, SInv, Early
  <2>2. /\ up \in Seq(UpSet("result", pushed)) /\ down' \in Seq(DownSet("result", pushed))
    BY <1>1, <2>1, Later, Widen DEF Early
  <2>3. Count("SpeedDone", gcount) \in UpSet("result", pushed)
    BY <1>1, <2>1, Framed DEF UpSet, Early, FrameKinds
  <2>4. up' \in Seq(UpSet("result", pushed))
    BY <2>1, <2>2, <2>3, One, Sent
  <2>. QED
    BY <1>1, <2>1, <2>2, <2>4 DEF SInv, hvars, Early
<1>4. CASE GuestSetUp
  BY <1>1, <1>4, GuestMoved DEF GuestSetUp, wires, Early
<1>5. CASE GuestPacket
  <2>1. CASE GuestEnds("idle", Bye)
    BY <1>5, <2>1, GuestEnded DEF GuestPacket
  <2>2. CASE ToHost(<<Frame("IpPacket")>>) /\ UNCHANGED <<gvars, down, bufs>>
    <3>1. up' \in Seq(UpSet(guest, pushed))
      BY <1>1, <2>2, Short, Sent
    <3>2. guest \notin Early
      BY <1>5 DEF GuestPacket, Early
    <3>. QED
      BY <1>1, <1>5, <2>2, <3>1, <3>2, GuestMoved DEF GuestPacket, gvars
  <2>. QED
    BY <1>5, <2>1, <2>2 DEF GuestPacket
<1>. QED
  BY <1>2, <1>3, <1>4, <1>5

\* A new attempt has a connection of its own: nothing is under way but Hello.
LEMMA AGuestConnects ==
  ASSUME Tcp, SInv, GuestConnect
  PROVE  SInv'
<1>1. /\ guest' = "hello" /\ gcount' = 0 /\ pushed' = 0 /\ measured' = Nothing
      /\ up' = <<Frame("Hello")>> /\ down' = << >> /\ UNCHANGED <<hcount, ctrl>>
  BY DEF GuestConnect, Serial, Tcp
<1>2. up' \in Seq(UpSet("hello", 0)) /\ down' \in Seq(DownSet("hello", 0))
  BY <1>1, Short
<1>. QED
  BY <1>1, <1>2 DEF SInv

LEMMA AGuestTimes ==
  ASSUME Tcp, SInv, GuestTimers
  PROVE  SInv'
<1>1. /\ up \in Seq(UpSet(guest, pushed)) /\ down \in Seq(DownSet(guest, pushed))
      /\ pushed \in Nat /\ gcount \in Nat
  BY DEF SInv
<1>2. UNCHANGED hvars
  BY DEF GuestTimers, GuestTimeout, GuestTick
<1>3. CASE GuestTimeout
  <2>1. CASE GuestEnds("idle", << >>)
    BY <1>2, <2>1, GuestEnded
  <2>2. CASE GuestAt("setup") /\ UNCHANGED <<up, down, hbuf>>
    BY <1>1, <1>2, <2>2, GuestMoved DEF GuestAt, Early
  <2>. QED
    BY <1>3, <2>1, <2>2 DEF GuestTimeout
<1>4. CASE GuestTick
  <2>1. CASE GuestEnds("idle", Bye)
    BY <1>2, <2>1, GuestEnded
  <2>2. CASE ToHost(<<Frame("Ping")>>) /\ UNCHANGED <<guest, gcount, pushed, measured, down>>
    <3>1. up' \in Seq(UpSet(guest, pushed))
      BY <1>1, <2>2, Short, Sent DEF Kinds4
    <3>2. guest \notin Early
      BY <1>4 DEF GuestTick, Early
    <3>. QED
      BY <1>1, <1>2, <2>2, <3>1, <3>2, GuestMoved
  <2>. QED
    BY <1>4, <2>1, <2>2 DEF GuestTick
<1>. QED
  BY <1>3, <1>4 DEF GuestTimers

LEMMA AGuestLeaves ==
  ASSUME Tcp, SInv, GuestGivesUp \/ GuestCrash \/ GuestStop
  PROVE  SInv'
<1>1. CASE GuestEnds("idle", Bye) \/ GuestEnds("idle", << >>) \/ GuestEnds("off", Bye)
  BY <1>1, GuestEnded DEF GuestGivesUp, GuestCrash, GuestStop
<1>2. CASE GuestAt("off") /\ UNCHANGED wires /\ UNCHANGED hvars
  BY <1>2, GuestMoved DEF GuestAt, wires, SInv, Early
<1>. QED
  BY <1>1, <1>2 DEF GuestGivesUp, GuestCrash, GuestStop

-----------------------------------------------------------------------------
(* The host. *)

LEMMA Queued ==
  ASSUME ctrl \in Seq(Harmless)
  PROVE  \A k \in Kinds4 : Queue(<<Frame(k)>>) \in Seq(Harmless)
<1>1. ASSUME NEW k \in Kinds4
      PROVE  ctrl \o <<Frame(k)>> \in Seq(Harmless)
  BY Short, Joined
<1>. QED
  BY <1>1 DEF Queue

LEMMA Ingested ==
  ASSUME SInv, NEW f, NEW phase, Ingest(f, phase)
  PROVE  ctrl' \in Seq(Harmless) /\ hcount' \in Nat
BY Queued DEF Ingest, TearDown, Bye, SInv, Kinds4

LEMMA AHostReads ==
  ASSUME Tcp, SInv, HostRead
  PROVE  SInv'
<1> DEFINE U == UpSet(guest, pushed)
           D == DownSet(guest, pushed)
<1>1. PICK r \in Taken(up) :
        \/ r.f.kind = "skipped" /\ HostTakes(r.rest) /\ UNCHANGED <<hvars, down, gbuf>>
        \/ /\ r.f.kind # "skipped"
           /\ \/ HostHandshake(r.f, r.rest)
              \/ HostProbe(r.f, r.rest)
              \/ host \in Pumping /\ Ingest(r.f, host) /\ HostTakes(r.rest) /\ UNCHANGED <<down, gbuf>>
  BY DEF HostRead
<1>2. r.f \in U /\ r.rest \in Seq(U) /\ U \subseteq Whole
  <2>1. U \subseteq Whole
    BY DEF UpSet
  <2>. QED
    BY <2>1, TakenWhole DEF SInv
<1>3. UNCHANGED gvars /\ down \in Seq(D) /\ ctrl \in Seq(Harmless) /\ hcount \in Nat
  BY DEF HostRead, SInv
<1>4. r.f.kind # "skipped"
  BY <1>2 DEF Whole, FrameKinds
<1>5. HostTakes(r.rest) => up' \in Seq(U)
  BY <1>2 DEF HostTakes
<1>6. \A k \in {"Hello", "Config"} \cup Kinds4 : <<Frame(k)>> \in Seq(D)
  BY Short
<1>7. CASE HostHandshake(r.f, r.rest)
  <2>1. CASE HostGreets(r.rest)
    <3>1. <<Frame("Hello"), Frame("Config")>> \in Seq(D)
      <4>1. Frame("Hello") \in D /\ Frame("Config") \in D
        BY Framed, HarmlessAnywhere DEF FrameKinds
      <4>. QED
        BY <4>1
    <3>2. down' \in Seq(D)
      BY <1>3, <2>1, <3>1, Sent DEF HostGreets
    <3>. QED
      BY <1>3, <1>5, <2>1, <3>2, HostMoved DEF HostGreets, HostAt
  <2>2. CASE HostAt("listen") /\ HostTakes(r.rest) /\ UNCHANGED <<down, gbuf>>
    BY <1>3, <1>5, <2>2, HostMoved DEF HostAt
  <2>3. CASE HostEnds(Bye)
    BY <1>3, <2>3, HostEnded
  <2>. QED
    BY <1>7, <2>1, <2>2, <2>3 DEF HostHandshake
<1>8. CASE HostProbe(r.f, r.rest)
  <2>1. CASE HostEnds(<< >>)
    BY <1>3, <2>1, HostEnded
  <2>2. CASE Ingest(r.f, "opened") /\ HostTakes(r.rest) /\ UNCHANGED <<down, gbuf>>
    BY <1>3, <1>5, <2>2, Ingested, HostMoved
  <2>3. CASE HostBurst(r.f, r.rest)
    <3>1. hcount = pushed /\ guest \notin Early
      BY <1>2, <2>3 DEF HostBurst, UpSet
    <3>2. Count("SpeedResult", hcount) \in D
      BY <1>3, <3>1, Framed DEF DownSet, FrameKinds
    <3>3. down' \in Seq(D)
      BY <1>3, <2>3, <3>2, One, Sent DEF HostBurst
    <3>. QED
      BY <1>3, <1>5, <2>3, <3>3, HostMoved DEF HostBurst
  <2>4. CASE /\ HostTakes(r.rest) /\ UNCHANGED <<ctrl, down>>
             /\ hcount' \in {0, 1, hcount, hcount + 1}
    BY <1>3, <1>5, <2>4, HostMoved
  <2>5. CASE HostTakes(r.rest) /\ UNCHANGED <<ctrl, hcount>> /\ ToGuest(<<Frame("Pong")>>)
    <3>1. down' \in Seq(D)
      BY <1>3, <1>6, <2>5, Sent DEF Kinds4
    <3>. QED
      BY <1>3, <1>5, <2>5, <3>1, HostMoved
  <2>. QED
    BY <1>8, <2>1, <2>2, <2>3, <2>4, <2>5 DEF HostProbe
<1>9. CASE Ingest(r.f, host) /\ HostTakes(r.rest) /\ UNCHANGED <<down, gbuf>>
  BY <1>3, <1>5, <1>9, Ingested, HostMoved
<1>. QED
  BY <1>1, <1>4, <1>7, <1>8, <1>9

LEMMA AHostSteps ==
  ASSUME Tcp, SInv,
         HostOpen \/ HostChunk \/ HostDone \/ HostWrite \/ HostPacket \/ HostClosed
         \/ HostTimers \/ HostCrash
  PROVE  SInv'
<1> DEFINE U == UpSet(guest, pushed)
           D == DownSet(guest, pushed)
<1>1. up \in Seq(U) /\ down \in Seq(D) /\ ctrl \in Seq(Harmless) /\ hcount \in Nat
  BY DEF SInv
<1>2. UNCHANGED gvars
  BY DEF HostOpen, HostChunk, HostDone, HostWrite, HostPacket, HostClosed, HostTimers,
         HostTimeout, HostTick, HostCrash
<1>3. CASE HostOpen
  BY <1>1, <1>2, <1>3, HostMoved DEF HostOpen, HostAt, wires
<1>4. CASE HostChunk
  <2>1. down' \in Seq(D)
    BY <1>1, <1>4, Short, Sent DEF HostChunk
  <2>. QED
    BY <1>1, <1>2, <1>4, <2>1, HostMoved DEF HostChunk
<1>5. CASE HostDone
  <2>1. Count("SpeedDone", hcount) \in D
    BY <1>1, Framed DEF DownSet, FrameKinds
  <2>2. down' \in Seq(D)
    BY <1>1, <1>5, <2>1, One, Sent DEF HostDone
  <2>. QED
    BY <1>1, <1>2, <1>5, <2>2, HostMoved DEF HostDone
<1>6. CASE HostWrite
  <2>1. Head(ctrl) \in Harmless /\ Tail(ctrl) \in Seq(Harmless)
    BY <1>1, <1>6 DEF HostWrite
  <2>2. Head(ctrl) \in D
    BY <2>1, HarmlessAnywhere
  <2>3. down' \in Seq(D)
    BY <1>1, <1>6, <2>2, One, Sent DEF HostWrite
  <2>. QED
    BY <1>1, <1>2, <1>6, <2>1, <2>3, HostMoved DEF HostWrite
<1>7. CASE HostPacket
  <2>1. down' \in Seq(D)
    BY <1>1, <1>7, Short, Sent DEF HostPacket
  <2>. QED
    BY <1>1, <1>2, <1>7, <2>1, HostMoved DEF HostPacket, hvars
<1>8. CASE HostClosed \/ HostCrash
  BY <1>2, <1>8, HostEnded DEF HostClosed, HostCrash
<1>9. CASE HostTimeout
  <2>1. CASE HostEnds(Bye) \/ HostEnds(<< >>)
    BY <1>2, <2>1, HostEnded
  <2>2. CASE HostAt("opened") /\ UNCHANGED wires
    BY <1>1, <1>2, <2>2, HostMoved DEF HostAt, wires
  <2>. QED
    BY <1>9, <2>1, <2>2 DEF HostTimeout
<1>10. CASE HostTick
  <2>1. ctrl' \in Seq(Harmless) /\ hcount' \in Nat
    BY <1>1, <1>10, Queued DEF HostTick, TearDown, Bye, Kinds4
  <2>. QED
    BY <1>1, <1>2, <1>10, <2>1, HostMoved DEF HostTick, wires
<1>. QED
  BY <1>3, <1>4, <1>5, <1>6, <1>7, <1>8, <1>9, <1>10 DEF HostTimers

-----------------------------------------------------------------------------
LEMMA SInvInit ==
  ASSUME Init
  PROVE  SInv
BY Short DEF Init, SInv, Early

LEMMA SInvStep ==
  ASSUME Tcp, SInv, [Next]_vars
  PROVE  SInv'
<1>1. CASE UNCHANGED vars
  BY <1>1 DEF SInv, vars, gvars, hvars, wires
<1>2. ~Tear
  BY DEF Tear, Serial, Tcp
<1>. QED
  BY <1>1, <1>2, AGuestReads, AGuestSteps, AGuestConnects, AGuestTimes, AGuestLeaves, AHostReads,
     AHostSteps
     DEF Next, GuestSteps, HostSteps

LEMMA KindIsKept ==
  ASSUME [Next]_vars
  PROVE  kind' = kind
BY DEF Next, vars, GuestSteps, HostSteps, GuestConnect, GuestRead, GuestChunk, GuestDone,
       GuestSetUp, GuestPacket, GuestTimers, GuestTimeout, GuestTick, GuestGivesUp, GuestCrash,
       GuestStop, HostOpen, HostRead, HostChunk, HostDone, HostWrite, HostPacket, HostClosed,
       HostTimers, HostTimeout, HostTick, HostCrash, Tear

-----------------------------------------------------------------------------
(* Types, over every kind of link. *)

\* A link in one direction, of which b frames are in the reader's buffer.
ChannelOK(ch, b) == ch \in Seq(Frames) /\ Len(ch) <= Cap + 1 /\ b \in 0 .. Len(ch)

\* The writer only gets what the pump hands to it.
Answers == {Frame("Bye"), Frame("Ping"), Frame("Pong")}

GuestOK ==
  /\ guest \in GuestPhases
  /\ gcount \in 0 .. MaxBytes
  /\ silent \in 0 .. MaxMissed
  /\ pushed \in 0 .. MaxBytes
  /\ measured \in (0 .. MaxBytes) \cup {Nothing, Garbage}

HostOK ==
  /\ host \in HostPhases
  /\ hcount \in 0 .. MaxBytes
  /\ missed \in 0 .. MaxMissed
  /\ ctrl \in Seq(Answers) /\ Len(ctrl) <= CtrlCap

\* Nothing is buffered at an end that is closed; over TCP there is room for
\* the end of the stream as long as its writer has not closed.  A listening
\* TCP host is always open.
WiresOK ==
  /\ ChannelOK(up, hbuf) /\ ChannelOK(down, gbuf)
  /\ ~GuestHolds => gbuf = 0
  /\ ~HostHolds => hbuf = 0
  /\ Tcp /\ GuestHolds => Len(up) <= Cap
  /\ Tcp /\ HostHolds => Len(down) <= Cap
  /\ Tcp => host # "closed"

BoundsOK == kind \in Kinds /\ faults \in 0 .. MaxFaults /\ packets \in 0 .. MaxPackets

TInv == GuestOK /\ HostOK /\ WiresOK /\ BoundsOK /\ (Tcp => SInv)

LEMMA Bounds ==
  /\ Cap \in Nat /\ Cap >= 3
  /\ CtrlCap \in Nat /\ CtrlCap >= 1 /\ MaxBytes \in Nat /\ MaxBytes >= 1
  /\ MaxMissed \in Nat /\ MaxMissed >= 1 /\ MaxFaults \in Nat /\ MaxPackets \in Nat
BY BoundsAssumption

LEMMA FramesAre ==
  /\ \A k \in FrameKinds : Frame(k) \in Frames /\ Frame(k).kind = k
  /\ \A k \in FrameKinds, n \in 0 .. MaxBytes :
       Count(k, n) \in Frames /\ Count(k, n).kind = k /\ Count(k, n).n = n
  /\ Answers \subseteq Frames
<1>1. \A k \in FrameKinds : Frame(k) \in Frames /\ Frame(k).kind = k
  BY DEF Frame, Frames
<1>2. \A k \in FrameKinds, n \in 0 .. MaxBytes :
        Count(k, n) \in Frames /\ Count(k, n).kind = k /\ Count(k, n).n = n
  BY DEF Count, Frames
<1>3. Answers \subseteq Frames
  BY <1>1 DEF Answers, FrameKinds
<1> QED
  BY <1>1, <1>2, <1>3

\* A frame that cannot be read yet is short of at most two others, so there
\* is always room behind it.
LEMMA RoomFor ==
  ASSUME NEW ch \in Seq(Frames)
  PROVE  /\ Room(ch) => Len(ch) + 1 <= Cap
         /\ Fits(ch, 2) => Len(ch) + 2 <= Cap + 1
         /\ Fits(ch, 2) /\ (ch # << >> => Head(ch).cut = 0) => Len(ch) + 2 <= Cap
<1>1. Len(ch) \in Nat
  OBVIOUS
<1>2. CASE ch = << >>
  <2>1. Len(ch) = 0
    BY <1>2
  <2> QED
    BY <1>2, <2>1, Bounds
<1>3. CASE ch # << >>
  <2>1. Head(ch) \in Frames
    BY <1>3
  <2>2. Head(ch).cut \in 0 .. 2
    BY <2>1 DEF Frames
  <2>3. Len(ch) > 0
    BY <1>3
  <2> QED
    BY <1>1, <1>3, <2>2, <2>3, Bounds DEF Room, Fits, Readable
<1> QED
  BY <1>2, <1>3

\* A part of a sequence.
LEMMA Part ==
  ASSUME NEW ch \in Seq(Frames), NEW m \in Nat, m >= 1, m <= Len(ch) + 1
  PROVE  /\ SubSeq(ch, m, Len(ch)) \in Seq(Frames) /\ Len(SubSeq(ch, m, Len(ch))) = Len(ch) - (m - 1)
         /\ \A i \in 1 .. Len(ch) - (m - 1) : SubSeq(ch, m, Len(ch))[i] = ch[i + (m - 1)]
         /\ SubSeq(ch, 1, m - 1) \in Seq(Frames) /\ Len(SubSeq(ch, 1, m - 1)) = m - 1
         /\ \A i \in 1 .. m - 1 : SubSeq(ch, 1, m - 1)[i] = ch[i]
<1>1. Len(ch) \in Nat /\ \A i \in m .. Len(ch) : ch[i] \in Frames
  OBVIOUS
<1>2. \A i \in 1 .. m - 1 : ch[i] \in Frames
  BY <1>1
<1>3. /\ SubSeq(ch, m, Len(ch)) \in Seq(Frames)
      /\ Len(SubSeq(ch, m, Len(ch))) = IF m <= Len(ch) THEN Len(ch) - m + 1 ELSE 0
      /\ \A i \in 1 .. Len(ch) - m + 1 : SubSeq(ch, m, Len(ch))[i] = ch[m + i - 1]
  BY <1>1, SubSeqProperties
<1>4. /\ SubSeq(ch, 1, m - 1) \in Seq(Frames)
      /\ Len(SubSeq(ch, 1, m - 1)) = IF 1 <= m - 1 THEN m - 1 - 1 + 1 ELSE 0
      /\ \A i \in 1 .. m - 1 - 1 + 1 : SubSeq(ch, 1, m - 1)[i] = ch[1 + i - 1]
  BY <1>2, SubSeqProperties
<1> HIDE DEF Frames
<1>5. \A i \in 1 .. m - 1 : SubSeq(ch, 1, m - 1)[i] = ch[i]
  BY <1>4
<1>6. \A i \in 1 .. Len(ch) - (m - 1) : SubSeq(ch, m, Len(ch))[i] = ch[i + (m - 1)]
  <2> TAKE i \in 1 .. Len(ch) - (m - 1)
  <2>1. i \in 1 .. Len(ch) - m + 1 /\ m + i - 1 = i + (m - 1)
    BY <1>1
  <2> QED
    BY <1>3, <2>1
<1> QED
  BY <1>1, <1>3, <1>4, <1>5, <1>6

\* What the reader gets, and what is left for it.
LEMMA Read ==
  ASSUME NEW ch \in Seq(Frames), NEW r \in Taken(ch)
  PROVE  /\ Readable(ch) /\ ch # << >> /\ Head(ch) = ch[1] /\ Head(ch) \in Frames
         /\ r.rest \in Seq(Frames) /\ Len(r.rest) = Len(ch) - (1 + Head(ch).cut)
         /\ Head(ch).cut \in 0 .. 2 /\ 1 + Head(ch).cut <= Len(ch)
         /\ \A i \in 1 .. Len(r.rest) : r.rest[i] = ch[i + (1 + Head(ch).cut)]
         /\ r.f.kind \in {Head(ch).kind, "skipped"}
         /\ r.f.kind # "skipped" => r.f.n \in {Head(ch).n, Garbage}
<1> DEFINE h == Head(ch)
           n == IF h.cut > 0 /\ h.n # Nothing THEN Garbage ELSE h.n
           rest == SubSeq(ch, 2 + h.cut, Len(ch))
           skip == {y \in {h} : y.cut > 0 /\ y.kind \in {"Hello", "Config"}}
<1>1. Readable(ch)
  BY DEF Taken
<1>2. ch # << >> /\ Len(ch) > h.cut
  BY <1>1 DEF Readable
<1>3. h \in Frames /\ h = ch[1]
  BY <1>2
<1>4. h.cut \in 0 .. 2 /\ Len(ch) \in Nat
  BY <1>3 DEF Frames
<1>5. Taken(ch) = {[f |-> [h EXCEPT !.cut = 0, !.n = n], rest |-> rest]}
                    \cup {[f |-> Frame("skipped"), rest |-> rest] : x \in skip}
  BY <1>1, Zenon DEF Taken
<1>6. /\ [h EXCEPT !.cut = 0, !.n = n].kind = h.kind
      /\ [h EXCEPT !.cut = 0, !.n = n].n = n
  BY <1>3 DEF Frames
<1>7. Frame("skipped").kind = "skipped"
  BY DEF Frame
<1>8. r.rest = rest /\ (\/ r.f = [h EXCEPT !.cut = 0, !.n = n]
                        \/ r.f = Frame("skipped"))
  <2> HIDE DEF h, n, rest, skip
  <2> QED
    BY <1>5
<1>9. r.f.kind \in {h.kind, "skipped"} /\ (r.f.kind # "skipped" => r.f.n \in {h.n, Garbage})
  <2>1. n \in {h.n, Garbage}
    OBVIOUS
  <2> HIDE DEF h, n, rest, skip
  <2> QED
    BY <1>6, <1>7, <1>8, <2>1
<1>10. /\ rest \in Seq(Frames) /\ Len(rest) = Len(ch) - (1 + h.cut)
       /\ \A i \in 1 .. Len(rest) : rest[i] = ch[i + (1 + h.cut)]
  <2>1. 2 + h.cut \in Nat /\ 2 + h.cut >= 1 /\ 2 + h.cut <= Len(ch) + 1 /\ (2 + h.cut) - 1 = 1 + h.cut
    BY <1>2, <1>4
  <2>2. /\ rest \in Seq(Frames) /\ Len(rest) = Len(ch) - ((2 + h.cut) - 1)
        /\ \A i \in 1 .. Len(ch) - ((2 + h.cut) - 1) : rest[i] = ch[i + ((2 + h.cut) - 1)]
    BY <2>1, Part
  <2> HIDE DEF h, rest
  <2> QED
    BY <2>1, <2>2
<1> QED
  BY <1>1, <1>2, <1>3, <1>4, <1>8, <1>9, <1>10

\* A reader that reads has the whole frame in its buffer.
LEMMA ReadBuffered ==
  ASSUME NEW ch \in Seq(Frames), NEW b \in 0 .. Len(ch), NEW r \in Taken(ch)
  PROVE  /\ r.rest \in Seq(Frames) /\ Len(r.rest) <= Len(ch)
         /\ Buffered(ch, b, TRUE) - (Len(ch) - Len(r.rest)) \in 0 .. Len(r.rest)
<1> DEFINE c == Head(ch).cut
           s == SubSeq(ch, 1, b)
<1>1. /\ ch # << >> /\ Head(ch) = ch[1] /\ c \in 0 .. 2 /\ 1 + c <= Len(ch) /\ Len(ch) \in Nat
      /\ r.rest \in Seq(Frames) /\ Len(r.rest) = Len(ch) - (1 + c)
  BY Read
<1>2. CASE Readable(s)
  <2>1. s # << >> /\ Len(s) > Head(s).cut
    BY <1>2 DEF Readable
  <2>2. s \in Seq(Frames) /\ Len(s) = b
    BY <1>1
  <2>3. b >= 1 /\ s[1] = ch[1]
    BY <1>1, <2>1, <2>2
  <2>4. Head(s) = ch[1]
    BY <2>1, <2>2, <2>3
  <2>5. b >= 1 + c
    BY <1>1, <2>1, <2>2, <2>4
  <2> QED
    BY <1>1, <1>2, <2>5 DEF Buffered
<1>3. CASE ~Readable(s)
  BY <1>1, <1>3 DEF Buffered
<1> QED
  BY <1>2, <1>3

LEMMA BufferedIsThere ==
  ASSUME NEW ch \in Seq(Frames), NEW b \in 0 .. Len(ch), NEW reading
  PROVE  Buffered(ch, b, reading) \in 0 .. Len(ch)
BY DEF Buffered

\* A step that writes a frame, or nothing, to the host.
LEMMA ToHostOK ==
  ASSUME WiresOK, NEW f \in Frames, ToHost(<<f>>), Room(up)
  PROVE  ChannelOK(up', hbuf) /\ (Tcp /\ GuestHolds => Len(up') <= Cap)
<1>1. up \in Seq(Frames) /\ Len(up) \in Nat /\ hbuf \in 0 .. Len(up)
  BY DEF WiresOK, ChannelOK
<1>2. Len(up) + 1 <= Cap
  BY <1>1, RoomFor
<1>3. up \o <<f>> \in Seq(Frames) /\ Len(up \o <<f>>) = Len(up) + 1
  BY <1>1
<1> QED
  BY <1>1, <1>2, <1>3, Bounds DEF ToHost, ChannelOK, WiresOK

LEMMA ToGuestOK ==
  ASSUME WiresOK, NEW f \in Frames, ToGuest(<<f>>), Room(down)
  PROVE  ChannelOK(down', gbuf) /\ (Tcp /\ HostHolds => Len(down') <= Cap)
<1>1. down \in Seq(Frames) /\ Len(down) \in Nat /\ gbuf \in 0 .. Len(down)
  BY DEF WiresOK, ChannelOK
<1>2. Len(down) + 1 <= Cap
  BY <1>1, RoomFor
<1>3. down \o <<f>> \in Seq(Frames) /\ Len(down \o <<f>>) = Len(down) + 1
  BY <1>1
<1> QED
  BY <1>1, <1>2, <1>3, Bounds DEF ToGuest, ChannelOK, WiresOK

\* The last words of an end, of a stream that has room for its end.
LEMMA LastOK ==
  ASSUME NEW ch \in Seq(Frames), NEW last \in {<< >>, Bye}, Len(ch) <= Cap + 1,
         Tcp => Len(ch) <= Cap
  PROVE  Last(ch, last) \in Seq(Frames) /\ Len(Last(ch, last)) \in Len(ch) .. Cap + 1
<1>1. Frame("Bye") \in Frames /\ Frame("Eof") \in Frames /\ Len(ch) \in Nat
  BY FramesAre DEF FrameKinds
<1>2. last \in Seq(Frames) /\ Len(last) \in 0 .. 1
  <2>1. CASE last = << >>
    BY <2>1
  <2>2. CASE last = Bye
    BY <1>1, <2>2 DEF Bye
  <2> QED
    BY <2>1, <2>2
<1> DEFINE a == IF Room(ch) THEN ch \o last ELSE ch
           b == IF Serial THEN << >> ELSE <<Frame("Eof")>>
<1>3. /\ a \in Seq(Frames) /\ Len(a) \in Nat /\ Len(a) >= Len(ch) /\ Len(a) <= Cap + 1
      /\ Tcp => Len(a) <= Cap
  <2>1. CASE Room(ch)
    <3>1. Len(ch) + 1 <= Cap
      BY <2>1, RoomFor
    <3>2. ch \o last \in Seq(Frames) /\ Len(ch \o last) = Len(ch) + Len(last)
      BY <1>2
    <3>3. a = ch \o last
      BY <2>1
    <3> HIDE DEF a, Frames
    <3> QED
      BY <1>1, <1>2, <3>1, <3>2, <3>3, Bounds
  <2>2. CASE ~Room(ch)
    BY <1>1, <2>2
  <2> QED
    BY <2>1, <2>2
<1>4. b \in Seq(Frames) /\ Len(b) = IF Tcp THEN 1 ELSE 0
  BY <1>1 DEF Serial, Tcp
<1>5. Last(ch, last) = a \o b
  BY Zenon DEF Last
<1> HIDE DEF a, b
<1>6. a \o b \in Seq(Frames) /\ Len(a \o b) = Len(a) + Len(b)
  BY <1>3, <1>4, ConcatProperties
<1> QED
  BY <1>1, <1>3, <1>4, <1>5, <1>6, Bounds

\* What an end leaves behind in the port.
LEMMA LeftOK ==
  ASSUME NEW ch \in Seq(Frames), NEW b \in 0 .. Len(ch)
  PROVE  Left(ch, b) \in Seq(Frames) /\ Len(Left(ch, b)) <= Len(ch) /\ (Tcp => Left(ch, b) = << >>)
<1>1. Len(ch) \in Nat
  OBVIOUS
<1>2. CASE Sticky
  <2>1. /\ SubSeq(ch, b + 1, Len(ch)) \in Seq(Frames)
        /\ Len(SubSeq(ch, b + 1, Len(ch))) = Len(ch) - b
    BY <1>1, Part
  <2> QED
    BY <1>1, <1>2, <2>1 DEF Left, Sticky, Tcp
<1>3. CASE ~Sticky
  BY <1>1, <1>3 DEF Left
<1> QED
  BY <1>2, <1>3

LEMMA GuestEndsOK ==
  ASSUME WiresOK, GuestOK, GuestHolds, NEW phase \in {"idle", "off"}, NEW last \in {<< >>, Bye},
         GuestEnds(phase, last), UNCHANGED <<kind, host>>
  PROVE  WiresOK' /\ GuestOK'
<1>1. /\ guest' = phase /\ gcount' = 0 /\ silent' = 0 /\ UNCHANGED <<pushed, measured>>
      /\ up' = (IF Sticky \/ HostHolds THEN Last(up, last) ELSE << >>)
      /\ down' = Left(down, GBuffered) /\ gbuf' = 0 /\ hbuf' = hbuf
  BY DEF GuestEnds, GuestCloses
<1>2. GuestOK'
  BY <1>1, Bounds DEF GuestOK, GuestPhases
<1>3. up \in Seq(Frames) /\ Len(up) <= Cap + 1 /\ (Tcp => Len(up) <= Cap) /\ hbuf \in 0 .. Len(up)
  BY DEF WiresOK, ChannelOK
<1>4. down \in Seq(Frames) /\ Len(down) <= Cap + 1 /\ gbuf \in 0 .. Len(down) /\ Len(down) \in Nat
  BY DEF WiresOK, ChannelOK
<1>5. Last(up, last) \in Seq(Frames) /\ Len(Last(up, last)) \in Len(up) .. Cap + 1
  BY <1>3, LastOK
<1>6. ChannelOK(up', hbuf')
  <2>1. CASE Sticky \/ HostHolds
    BY <1>1, <1>3, <1>5, <2>1, Bounds DEF ChannelOK
  <2>2. CASE ~(Sticky \/ HostHolds)
    <3>1. up' = << >> /\ hbuf' = 0
      BY <1>1, <2>2 DEF WiresOK
    <3> QED
      BY <3>1, Bounds DEF ChannelOK
  <2> QED
    BY <2>1, <2>2
<1>7. ChannelOK(down', gbuf') /\ (Tcp => down' = << >>)
  <2>1. GBuffered \in 0 .. Len(down)
    BY <1>4, BufferedIsThere DEF GBuffered
  <2>2. Left(down, GBuffered) \in Seq(Frames) /\ Len(Left(down, GBuffered)) <= Len(down)
        /\ (Tcp => Left(down, GBuffered) = << >>)
    BY <1>4, <2>1, LeftOK
  <2> QED
    BY <1>1, <1>4, <2>2, Bounds DEF ChannelOK
<1>8. ~GuestHolds' /\ (HostHolds' <=> HostHolds) /\ (Tcp' <=> Tcp)
  BY <1>1 DEF GuestHolds, HostHolds, Serial, Tcp
<1>9. Tcp => Len(down') <= Cap
  BY <1>7, Bounds
<1> QED
  BY <1>1, <1>2, <1>6, <1>7, <1>8, <1>9 DEF WiresOK

LEMMA HostEndsOK ==
  ASSUME WiresOK, HostHolds, NEW last \in {<< >>, Bye}, HostEnds(last), UNCHANGED <<kind, guest>>
  PROVE  WiresOK' /\ HostOK'
<1>1. /\ host' = (IF Serial THEN "closed" ELSE "listen") /\ hcount' = 0 /\ missed' = 0 /\ ctrl' = << >>
      /\ down' = (IF Sticky \/ GuestHolds THEN Last(down, last) ELSE << >>)
      /\ up' = Left(up, HBuffered) /\ hbuf' = 0 /\ gbuf' = gbuf
  BY DEF HostEnds, HostCloses
<1>2. HostOK'
  BY <1>1, Bounds DEF HostOK, HostPhases, HostReading
<1>3. down \in Seq(Frames) /\ Len(down) <= Cap + 1 /\ (Tcp => Len(down) <= Cap)
      /\ gbuf \in 0 .. Len(down)
  BY DEF WiresOK, ChannelOK
<1>4. up \in Seq(Frames) /\ Len(up) <= Cap + 1 /\ hbuf \in 0 .. Len(up) /\ Len(up) \in Nat
  BY DEF WiresOK, ChannelOK
<1>5. Last(down, last) \in Seq(Frames) /\ Len(Last(down, last)) \in Len(down) .. Cap + 1
  BY <1>3, LastOK
<1>6. ChannelOK(down', gbuf')
  <2>1. CASE Sticky \/ GuestHolds
    BY <1>1, <1>3, <1>5, <2>1, Bounds DEF ChannelOK
  <2>2. CASE ~(Sticky \/ GuestHolds)
    <3>1. down' = << >> /\ gbuf' = 0
      BY <1>1, <2>2 DEF WiresOK
    <3> QED
      BY <3>1, Bounds DEF ChannelOK
  <2> QED
    BY <2>1, <2>2
<1>7. ChannelOK(up', hbuf') /\ (Tcp => up' = << >>)
  <2>1. HBuffered \in 0 .. Len(up)
    BY <1>4, BufferedIsThere DEF HBuffered
  <2>2. Left(up, HBuffered) \in Seq(Frames) /\ Len(Left(up, HBuffered)) <= Len(up)
        /\ (Tcp => Left(up, HBuffered) = << >>)
    BY <1>4, <2>1, LeftOK
  <2> QED
    BY <1>1, <1>4, <2>2, Bounds DEF ChannelOK
<1>8. ~HostHolds' /\ (GuestHolds' <=> GuestHolds) /\ (Tcp' <=> Tcp) /\ (Tcp' => host' # "closed")
  BY <1>1 DEF GuestHolds, HostHolds, Serial, Tcp
<1>9. Tcp => Len(up') <= Cap
  BY <1>7, Bounds
<1> QED
  BY <1>1, <1>2, <1>6, <1>7, <1>8, <1>9 DEF WiresOK

\* The guest goes on, with what it has taken and written.
LEMMA GuestGoesOn ==
  ASSUME WiresOK, GuestHolds, GuestHolds', UNCHANGED <<kind, host, hbuf>>,
         ChannelOK(up', hbuf), Tcp /\ GuestHolds => Len(up') <= Cap,
         ChannelOK(down', gbuf'), Len(down') <= Len(down)
  PROVE  WiresOK'
<1>1. (HostHolds' <=> HostHolds) /\ (Tcp' <=> Tcp)
  BY DEF HostHolds, Serial, Tcp
<1>2. Len(down) \in Nat /\ Len(down') \in Nat
  BY DEF WiresOK, ChannelOK
<1> QED
  BY <1>1, <1>2, Bounds DEF WiresOK

LEMMA HostGoesOn ==
  ASSUME WiresOK, HostHolds, HostHolds', UNCHANGED <<kind, guest, gbuf>>, Tcp => host' # "closed",
         ChannelOK(down', gbuf), Tcp /\ HostHolds => Len(down') <= Cap,
         ChannelOK(up', hbuf'), Len(up') <= Len(up)
  PROVE  WiresOK'
<1>1. (GuestHolds' <=> GuestHolds) /\ (Tcp' <=> Tcp)
  BY DEF GuestHolds, Tcp
<1>2. Len(up) \in Nat /\ Len(up') \in Nat
  BY DEF WiresOK, ChannelOK
<1> QED
  BY <1>1, <1>2, Bounds DEF WiresOK

LEMMA FiresCases == Fires => (faults > 0 /\ faults' = faults - 1) \/ faults' = faults
BY Zenon DEF Fires, Fault

\* Frames that are taken leave the link as it should be.
LEMMA GuestTakesOK ==
  ASSUME WiresOK, guest \in GuestReading, NEW r \in Taken(down), GuestTakes(r.rest)
  PROVE  ChannelOK(down', gbuf') /\ Len(down') <= Len(down)
<1>1. down \in Seq(Frames) /\ Len(down) <= Cap + 1 /\ gbuf \in 0 .. Len(down)
  BY DEF WiresOK, ChannelOK
<1>2. GBuffered = Buffered(down, gbuf, TRUE)
  BY DEF GBuffered, Buffered
<1>3. /\ r.rest \in Seq(Frames) /\ Len(r.rest) <= Len(down)
      /\ GBuffered - (Len(down) - Len(r.rest)) \in 0 .. Len(r.rest)
  BY <1>1, <1>2, ReadBuffered
<1> QED
  BY <1>1, <1>3, Bounds DEF GuestTakes, ChannelOK

LEMMA HostTakesOK ==
  ASSUME WiresOK, host \in HostReading, NEW r \in Taken(up), HostTakes(r.rest)
  PROVE  ChannelOK(up', hbuf') /\ Len(up') <= Len(up)
<1>1. up \in Seq(Frames) /\ Len(up) <= Cap + 1 /\ hbuf \in 0 .. Len(up)
  BY DEF WiresOK, ChannelOK
<1>2. HBuffered = Buffered(up, hbuf, TRUE)
  BY DEF HBuffered, Buffered
<1>3. /\ r.rest \in Seq(Frames) /\ Len(r.rest) <= Len(up)
      /\ HBuffered - (Len(up) - Len(r.rest)) \in 0 .. Len(r.rest)
  BY <1>1, <1>2, ReadBuffered
<1> QED
  BY <1>1, <1>3, Bounds DEF HostTakes, ChannelOK

LEMMA TGuestReads ==
  ASSUME GuestOK, WiresOK, GuestRead
  PROVE  GuestOK' /\ WiresOK'
<1>1. PICK r \in Taken(down) :
        \/ r.f.kind = "skipped" /\ GuestTakes(r.rest) /\ UNCHANGED <<gvars, up, hbuf>>
        \/ /\ r.f.kind # "skipped"
           /\ \/ GuestHandshake(r.f, r.rest)
              \/ GuestProbeClosed(r.f, r.rest)
              \/ GuestProbe(r.f, r.rest)
              \/ GuestPump(r.f, r.rest)
  BY DEF GuestRead
<1>2. guest \in GuestReading /\ UNCHANGED <<kind, hvars>> /\ UNCHANGED <<kind, host>>
  BY DEF GuestRead, hvars
<1>3. GuestHolds
  BY <1>2 DEF GuestHolds, GuestReading
<1>4. down \in Seq(Frames) /\ up \in Seq(Frames)
      /\ ChannelOK(up, hbuf) /\ (Tcp /\ GuestHolds => Len(up) <= Cap)
  BY DEF WiresOK, ChannelOK
<1>5. r.f.kind # "skipped" => r.f.n \in (0 .. MaxBytes) \cup {Nothing, Garbage}
  <2>1. Head(down) \in Frames /\ (r.f.kind # "skipped" => r.f.n \in {Head(down).n, Garbage})
    BY <1>4, Read
  <2> QED
    BY <2>1 DEF Frames
<1>6. GuestTakes(r.rest) => ChannelOK(down', gbuf') /\ Len(down') <= Len(down)
  BY <1>2, GuestTakesOK
<1>7. \A phase \in {"idle", "off"}, last \in {<< >>, Bye} :
        GuestEnds(phase, last) => GuestOK' /\ WiresOK'
  BY <1>2, <1>3, GuestEndsOK
<1>8. ASSUME GuestTakes(r.rest), UNCHANGED hbuf, guest' \in GuestPhases \ {"idle", "off"},
             ChannelOK(up', hbuf), Tcp /\ GuestHolds => Len(up') <= Cap
      PROVE  WiresOK'
  <2>1. GuestHolds'
    BY <1>8 DEF GuestHolds
  <2> QED
    BY <1>2, <1>3, <1>6, <1>8, <2>1, GuestGoesOn
<1>9. up' = up => ChannelOK(up', hbuf) /\ (Tcp /\ GuestHolds => Len(up') <= Cap)
  BY <1>4
<1>10. ASSUME Room(up), NEW f \in Frames, ToHost(<<f>>)
       PROVE  ChannelOK(up', hbuf) /\ (Tcp /\ GuestHolds => Len(up') <= Cap)
  BY <1>10, ToHostOK
<1>11. CASE r.f.kind = "skipped" /\ GuestTakes(r.rest) /\ UNCHANGED <<gvars, up, hbuf>>
  <2>1. GuestOK' /\ guest' \in GuestPhases \ {"idle", "off"}
    BY <1>2, <1>11 DEF GuestOK, gvars, GuestPhases, GuestReading
  <2> QED
    BY <1>8, <1>9, <1>11, <2>1
<1>12. CASE GuestHandshake(r.f, r.rest)
  <2>1. CASE GuestEnds("idle", << >>)
    BY <1>7, <2>1
  <2>2. CASE /\ guest' \in {"config", "burst"} /\ UNCHANGED <<gcount, silent, pushed, measured>>
             /\ GuestTakes(r.rest) /\ UNCHANGED <<up, hbuf>>
    <3>1. GuestOK' /\ guest' \in GuestPhases \ {"idle", "off"}
      BY <2>2 DEF GuestOK, GuestPhases, GuestReading
    <3> QED
      BY <1>8, <1>9, <2>2, <3>1
  <2> QED
    BY <1>12, <2>1, <2>2 DEF GuestHandshake, GuestAt
<1>13. CASE GuestProbeClosed(r.f, r.rest)
  BY <1>7, <1>13 DEF GuestProbeClosed
<1>14. CASE r.f.kind # "skipped" /\ GuestProbe(r.f, r.rest)
  <2>1. GuestTakes(r.rest) /\ UNCHANGED hbuf
    BY <1>14 DEF GuestProbe
  <2>2. guest' \in {"setup", "chunk", "recv"} /\ UNCHANGED <<silent, pushed>>
    BY <1>14 DEF GuestProbe, GuestAt
  <2>3. gcount' \in 0 .. MaxBytes
    BY <1>14, Bounds DEF GuestProbe, GuestAt, GuestOK
  <2>4. measured' \in {measured, r.f.n}
    BY <1>14 DEF GuestProbe, GuestAt
  <2>5. GuestOK' /\ guest' \in GuestPhases \ {"idle", "off"}
    BY <1>5, <1>14, <2>2, <2>3, <2>4 DEF GuestOK, GuestPhases, GuestReading
  <2>6. ChannelOK(up', hbuf) /\ (Tcp /\ GuestHolds => Len(up') <= Cap)
    <3>1. /\ Frame("Pong") \in Frames /\ Count("SpeedResult", gcount) \in Frames
      BY FramesAre DEF FrameKinds, GuestOK
    <3>2. \/ up' = up
          \/ Room(up) /\ (ToHost(<<Frame("Pong")>>) \/ ToHost(<<Count("SpeedResult", gcount)>>))
      BY <1>14 DEF GuestProbe
    <3> QED
      BY <1>9, <1>10, <3>1, <3>2
  <2> QED
    BY <1>8, <2>1, <2>5, <2>6
<1>15. CASE GuestPump(r.f, r.rest)
  <2>1. CASE GuestEnds("idle", << >>) \/ GuestEnds("idle", Bye)
    BY <1>7, <2>1
  <2>2. CASE /\ silent' = 0 /\ GuestTakes(r.rest) /\ UNCHANGED hbuf
             /\ UNCHANGED <<guest, gcount, pushed, measured>>
             /\ UNCHANGED up \/ (Room(up) /\ ToHost(<<Frame("Pong")>>))
    <3>1. GuestOK' /\ guest' \in GuestPhases \ {"idle", "off"}
      BY <1>2, <2>2, Bounds DEF GuestOK, GuestPhases, GuestReading
    <3>2. Frame("Pong") \in Frames
      BY FramesAre DEF FrameKinds
    <3> QED
      BY <1>8, <1>9, <1>10, <2>2, <3>1, <3>2
  <2> QED
    BY <1>15, <2>1, <2>2 DEF GuestPump
<1> QED
  BY <1>1, <1>11, <1>12, <1>13, <1>14, <1>15

LEMMA TGuestSteps ==
  ASSUME GuestOK, WiresOK, BoundsOK,
         GuestChunk \/ GuestDone \/ GuestSetUp \/ GuestPacket \/ GuestTick
  PROVE  GuestOK' /\ WiresOK'
<1>1. guest \in {"burst", "setup", "pump"} /\ UNCHANGED <<kind, hvars>> /\ UNCHANGED <<kind, host>>
  BY DEF GuestChunk, GuestDone, GuestSetUp, GuestPacket, GuestTick, hvars
<1>2. GuestHolds
  BY <1>1 DEF GuestHolds
<1>3. /\ ChannelOK(up, hbuf) /\ (Tcp /\ GuestHolds => Len(up) <= Cap)
      /\ ChannelOK(down, gbuf) /\ Len(down) \in Nat
  BY DEF WiresOK, ChannelOK
<1>4. \A last \in {<< >>, Bye} : GuestEnds("idle", last) => GuestOK' /\ WiresOK'
  BY <1>1, <1>2, GuestEndsOK
<1>5. ASSUME NEW f \in Frames, (Room(up) /\ ToHost(<<f>>)) \/ up' = up,
             UNCHANGED <<down, bufs>>, guest' \in {"burst", "result", "pump"}
      PROVE  WiresOK'
  <2>1. GuestHolds' /\ UNCHANGED <<hbuf, gbuf>>
    BY <1>5 DEF GuestHolds, bufs
  <2>2. ChannelOK(up', hbuf) /\ (Tcp /\ GuestHolds => Len(up') <= Cap)
    BY <1>3, <1>5, ToHostOK
  <2> QED
    BY <1>1, <1>2, <1>3, <1>5, <2>1, <2>2, GuestGoesOn
<1>6. /\ \A k \in {"SpeedChunk", "IpPacket", "Ping"} : Frame(k) \in Frames
      /\ Count("SpeedDone", gcount) \in Frames
  BY FramesAre DEF FrameKinds, GuestOK
<1>7. CASE GuestChunk
  <2>1. GuestOK' /\ guest' = "burst" /\ UNCHANGED <<down, bufs>> /\ Room(up) /\ ToHost(<<Frame("SpeedChunk")>>)
    BY <1>7, Bounds DEF GuestChunk, GuestOK
  <2> QED
    BY <1>5, <1>6, <2>1
<1>8. CASE GuestDone
  <2>1. /\ GuestOK' /\ guest' = "result" /\ UNCHANGED <<down, bufs>>
        /\ Room(up) /\ ToHost(<<Count("SpeedDone", gcount)>>)
    BY <1>8, Bounds DEF GuestDone, GuestOK, GuestPhases, GuestReading
  <2> QED
    BY <1>5, <1>6, <2>1
<1>9. CASE GuestSetUp
  <2>1. GuestOK' /\ guest' = "pump" /\ UNCHANGED <<down, bufs>> /\ up' = up
    BY <1>9, Bounds DEF GuestSetUp, GuestOK, GuestPhases, GuestReading, wires
  <2> QED
    BY <1>5, <1>6, <2>1
<1>10. CASE GuestPacket
  <2>1. CASE Room(up) /\ ToHost(<<Frame("IpPacket")>>) /\ UNCHANGED <<gvars, down, bufs>>
    <3>1. GuestOK' /\ guest' = "pump"
      BY <1>10, <2>1 DEF GuestPacket, GuestOK, gvars
    <3> QED
      BY <1>5, <1>6, <2>1, <3>1
  <2>2. CASE GuestEnds("idle", Bye)
    BY <1>4, <2>2
  <2> QED
    BY <1>10, <2>1, <2>2 DEF GuestPacket
<1>11. CASE GuestTick
  <2>1. CASE /\ silent < MaxMissed /\ Room(up) /\ silent' = silent + 1 /\ ToHost(<<Frame("Ping")>>)
             /\ UNCHANGED <<guest, gcount, pushed, measured, down, bufs>>
    <3>1. GuestOK' /\ guest' = "pump"
      BY <1>11, <2>1, Bounds DEF GuestTick, GuestOK
    <3> QED
      BY <1>5, <1>6, <2>1, <3>1
  <2>2. CASE GuestEnds("idle", Bye)
    BY <1>4, <2>2
  <2> QED
    BY <1>11, <2>1, <2>2 DEF GuestTick
<1> QED
  BY <1>7, <1>8, <1>9, <1>10, <1>11

LEMMA TGuestLeaves ==
  ASSUME GuestOK, WiresOK, GuestTimeout \/ GuestGivesUp \/ GuestCrash \/ GuestStop
  PROVE  GuestOK' /\ WiresOK'
<1>1. UNCHANGED <<kind, hvars>> /\ UNCHANGED <<kind, host>>
  BY DEF GuestTimeout, GuestGivesUp, GuestCrash, GuestStop, hvars
<1>2. CASE GuestHolds /\ \E phase \in {"idle", "off"}, last \in {<< >>, Bye} : GuestEnds(phase, last)
  BY <1>1, <1>2, GuestEndsOK
<1>3. CASE ~GuestHolds /\ GuestAt("off") /\ UNCHANGED wires
  <2>1. ~GuestHolds' /\ (HostHolds' <=> HostHolds) /\ (Tcp' <=> Tcp)
    BY <1>1, <1>3 DEF GuestHolds, GuestAt, HostHolds, Serial, Tcp
  <2> QED
    BY <1>1, <1>3, <2>1 DEF GuestAt, GuestOK, GuestPhases, WiresOK, wires, bufs, ChannelOK
<1>4. CASE guest \in {"result", "chunk", "recv"} /\ GuestAt("setup") /\ gbuf' = GBuffered
           /\ UNCHANGED <<up, down, hbuf>>
  <2>1. GuestHolds /\ GuestHolds' /\ GuestOK'
    BY <1>4 DEF GuestHolds, GuestAt, GuestOK, GuestPhases
  <2>2. down \in Seq(Frames) /\ gbuf \in 0 .. Len(down) /\ Len(down) <= Cap + 1
    BY DEF WiresOK, ChannelOK
  <2>3. GBuffered \in 0 .. Len(down)
    BY <2>2, BufferedIsThere DEF GBuffered
  <2>4. ChannelOK(down', gbuf') /\ Len(down') <= Len(down)
    BY <1>4, <2>2, <2>3 DEF ChannelOK
  <2>5. ChannelOK(up', hbuf) /\ (Tcp /\ GuestHolds => Len(up') <= Cap)
    BY <1>4 DEF WiresOK
  <2>6. UNCHANGED hbuf
    BY <1>4
  <2> QED
    BY <1>1, <2>1, <2>4, <2>5, <2>6, GuestGoesOn
<1>5. CASE GuestTimeout
  BY <1>2, <1>4, <1>5 DEF GuestTimeout, GuestHolds
<1>6. CASE GuestGivesUp \/ GuestCrash
  BY <1>2, <1>6 DEF GuestGivesUp, GuestCrash, GuestHolds
<1>7. CASE GuestStop
  BY <1>2, <1>3, <1>7 DEF GuestStop
<1> QED
  BY <1>5, <1>6, <1>7

LEMMA TGuestConnects ==
  ASSUME GuestOK, HostOK, WiresOK, GuestConnect
  PROVE  GuestOK' /\ HostOK' /\ WiresOK'
<1>1. /\ guest = "idle" /\ guest' = "hello" /\ gcount' = 0 /\ silent' = 0 /\ pushed' = 0
      /\ measured' = Nothing /\ UNCHANGED <<kind, hbuf, gbuf>>
  BY DEF GuestConnect, bufs
<1>2. GuestOK'
  BY <1>1, Bounds DEF GuestOK, GuestPhases, GuestReading
<1>3. ~GuestHolds /\ GuestHolds' /\ gbuf = 0 /\ (Tcp' <=> Tcp)
  BY <1>1 DEF GuestHolds, WiresOK, Tcp
<1>4. Frame("Hello") \in Frames
  BY FramesAre DEF FrameKinds
<1>5. CASE Serial
  <2>1. Room(up) /\ ToHost(<<Frame("Hello")>>) /\ UNCHANGED <<hvars, down>> /\ ~Tcp
    BY <1>5 DEF GuestConnect, Serial, Tcp
  <2>2. ChannelOK(up', hbuf)
    BY <1>4, <2>1, ToHostOK
  <2>3. HostHolds' <=> HostHolds
    BY <1>1, <2>1 DEF HostHolds, Serial, hvars
  <2>4. HostOK'
    BY <2>1 DEF HostOK, hvars
  <2> QED
    BY <1>1, <1>2, <1>3, <2>1, <2>2, <2>3, <2>4 DEF WiresOK
<1>6. CASE ~Serial
  <2>1. /\ host = "listen" /\ host' = "hello" /\ up' = <<Frame("Hello")>> /\ down' = << >>
        /\ UNCHANGED <<hcount, missed, ctrl>>
    BY <1>6 DEF GuestConnect
  <2>2. ~HostHolds /\ HostHolds' /\ hbuf = 0
    BY <1>1, <1>6, <2>1 DEF HostHolds, WiresOK, Serial
  <2>3. HostOK'
    BY <2>1 DEF HostOK, HostPhases, HostReading
  <2>4. up' \in Seq(Frames) /\ Len(up') = 1 /\ down' \in Seq(Frames) /\ Len(down') = 0
    BY <1>4, <2>1
  <2>5. ChannelOK(up', hbuf') /\ ChannelOK(down', gbuf') /\ Len(up') <= Cap /\ Len(down') <= Cap
    BY <1>1, <1>3, <2>2, <2>4, Bounds DEF ChannelOK
  <2> QED
    BY <1>2, <1>3, <2>1, <2>2, <2>3, <2>5 DEF WiresOK
<1> QED
  BY <1>5, <1>6

-----------------------------------------------------------------------------
(* The host's types. *)

LEMMA QueueOK ==
  ASSUME ctrl \in Seq(Answers), Len(ctrl) <= CtrlCap
  PROVE  \A a \in Answers : Queue(<<a>>) \in Seq(Answers) /\ Len(Queue(<<a>>)) <= CtrlCap
<1>1. ASSUME NEW a \in Answers
      PROVE  ctrl \o <<a>> \in Seq(Answers) /\ Len(ctrl \o <<a>>) = Len(ctrl) + Len(<<a>>)
  OBVIOUS
<1> QED
  BY <1>1 DEF Queue

LEMMA TearDownOK ==
  ASSUME HostOK, TearDown
  PROVE  HostOK' /\ host' = "closing"
<1>1. Frame("Bye") \in Answers
  BY DEF Answers
<1>2. Queue(Bye) \in Seq(Answers) /\ Len(Queue(Bye)) <= CtrlCap
  BY <1>1, QueueOK DEF Bye, HostOK
<1> QED
  BY <1>2, Bounds DEF TearDown, HostOK, HostPhases

LEMMA IngestOK ==
  ASSUME HostOK, NEW f, NEW phase \in HostPhases, Ingest(f, phase)
  PROVE  HostOK' /\ host' \in {"closing", phase}
<1>1. CASE TearDown
  BY <1>1, TearDownOK
<1>2. CASE host' = phase /\ ctrl' = Queue(<<Frame("Pong")>>) /\ UNCHANGED <<hcount, missed>>
  <2>1. Frame("Pong") \in Answers
    BY DEF Answers
  <2>2. ctrl' \in Seq(Answers) /\ Len(ctrl') <= CtrlCap
    BY <1>2, <2>1, QueueOK DEF HostOK
  <2> QED
    BY <1>2, <2>2 DEF HostOK
<1>3. CASE host' = phase /\ missed' \in {0, missed} /\ UNCHANGED <<hcount, ctrl>>
  BY <1>3, Bounds DEF HostOK
<1> QED
  BY <1>1, <1>2, <1>3 DEF Ingest

LEMMA THostReads ==
  ASSUME HostOK, WiresOK, Tcp => SInv, HostRead
  PROVE  HostOK' /\ WiresOK'
<1>1. PICK r \in Taken(up) :
        \/ r.f.kind = "skipped" /\ HostTakes(r.rest) /\ UNCHANGED <<hvars, down, gbuf>>
        \/ /\ r.f.kind # "skipped"
           /\ \/ HostHandshake(r.f, r.rest)
              \/ HostProbe(r.f, r.rest)
              \/ host \in Pumping /\ Ingest(r.f, host) /\ HostTakes(r.rest) /\ UNCHANGED <<down, gbuf>>
  BY DEF HostRead
<1>2. host \in HostReading /\ HostHolds /\ UNCHANGED <<kind, gvars>> /\ UNCHANGED <<kind, guest>>
  BY DEF HostRead, gvars
<1>3. /\ ChannelOK(down, gbuf) /\ (Tcp /\ HostHolds => Len(down) <= Cap) /\ down \in Seq(Frames)
  BY DEF WiresOK, ChannelOK
<1>4. HostTakes(r.rest) => ChannelOK(up', hbuf') /\ Len(up') <= Len(up)
  BY <1>2, HostTakesOK
<1>5. \A last \in {<< >>, Bye} : HostEnds(last) => HostOK' /\ WiresOK'
  BY <1>2, HostEndsOK
<1>6. ASSUME HostTakes(r.rest), UNCHANGED gbuf, host' \in HostPhases,
             host' = host \/ host' \notin {"closed", "listen"},
             ChannelOK(down', gbuf), Tcp /\ HostHolds => Len(down') <= Cap
      PROVE  WiresOK'
  <2>1. HostHolds' /\ (Tcp => host' # "closed")
    BY <1>2, <1>6 DEF HostHolds, Serial, WiresOK, Tcp
  <2> QED
    BY <1>2, <1>4, <1>6, <2>1, HostGoesOn
<1>7. down' = down => ChannelOK(down', gbuf) /\ (Tcp /\ HostHolds => Len(down') <= Cap)
  BY <1>3
<1>8. ASSUME Room(down), NEW f \in Frames, ToGuest(<<f>>)
      PROVE  ChannelOK(down', gbuf) /\ (Tcp /\ HostHolds => Len(down') <= Cap)
  BY <1>8, ToGuestOK
<1>9. host \in HostPhases /\ hcount \in 0 .. MaxBytes
  BY DEF HostOK
<1>10. CASE HostTakes(r.rest) /\ UNCHANGED <<hvars, down, gbuf>>
  <2>1. HostOK' /\ host' = host
    BY <1>10 DEF HostOK, hvars
  <2> QED
    BY <1>6, <1>7, <1>9, <1>10, <2>1
<1>11. CASE HostHandshake(r.f, r.rest)
  <2>1. CASE HostGreets(r.rest)
    <3>1. /\ Fits(down, 2) /\ ToGuest(<<Frame("Hello"), Frame("Config")>>)
          /\ host' = "first" /\ UNCHANGED <<hcount, missed, ctrl, gbuf>> /\ HostTakes(r.rest)
      BY <2>1 DEF HostGreets, HostAt
    <3>2. HostOK'
      BY <3>1 DEF HostOK, HostPhases, HostReading
    <3>3. <<Frame("Hello"), Frame("Config")>> \in Seq(Frames)
      <4>1. Frame("Hello") \in Frames /\ Frame("Config") \in Frames
        BY FramesAre DEF FrameKinds
      <4> QED
        BY <4>1
    <3>4. /\ down \o <<Frame("Hello"), Frame("Config")>> \in Seq(Frames)
          /\ Len(down \o <<Frame("Hello"), Frame("Config")>>) = Len(down) + 2
      BY <1>3, <3>3
    <3>5. Len(down) + 2 <= Cap + 1
      BY <1>3, <3>1, RoomFor
    <3>6. Tcp => Len(down) + 2 <= Cap
      <4>1. Tcp /\ down # << >> => Head(down) \in Whole
        BY DEF SInv, DownSet
      <4> QED
        BY <1>3, <3>1, <4>1, RoomFor DEF Whole
    <3>7. ChannelOK(down', gbuf) /\ (Tcp /\ HostHolds => Len(down') <= Cap)
      BY <1>3, <3>1, <3>4, <3>5, <3>6 DEF ToGuest, ChannelOK
    <3> QED
      BY <1>6, <3>1, <3>2, <3>7 DEF HostPhases, HostReading
  <2>2. CASE HostAt("listen") /\ host = "listen" /\ HostTakes(r.rest) /\ UNCHANGED <<down, gbuf>>
    <3>1. UNCHANGED <<hvars, down, gbuf>>
      BY <2>2 DEF HostAt, hvars
    <3> QED
      BY <1>10, <2>2, <3>1
  <2>3. CASE HostEnds(Bye)
    BY <1>5, <2>3
  <2> QED
    BY <1>11, <2>1, <2>2, <2>3 DEF HostHandshake
<1>12. CASE HostProbe(r.f, r.rest)
  <2>1. CASE HostEnds(<< >>)
    BY <1>5, <2>1
  <2>2. CASE Ingest(r.f, "opened") /\ HostTakes(r.rest) /\ UNCHANGED <<down, gbuf>>
    <3>1. HostOK' /\ host' \in {"closing", "opened"}
      BY <2>2, IngestOK DEF HostPhases, HostReading, Pumping
    <3> QED
      BY <1>6, <1>7, <2>2, <3>1 DEF HostOK
  <2>3. CASE HostBurst(r.f, r.rest)
    <3>1. Count("SpeedResult", hcount) \in Frames
      BY <1>9, FramesAre DEF FrameKinds
    <3>2. HostOK' /\ host' = "send"
      BY <2>3, Bounds DEF HostBurst, HostOK, HostPhases
    <3> QED
      BY <1>6, <1>8, <2>3, <3>1, <3>2 DEF HostBurst, HostOK
  <2>4. CASE /\ HostTakes(r.rest) /\ UNCHANGED <<missed, ctrl, gbuf>>
             /\ host' \in {"recv", "opened"} /\ hcount' \in 0 .. MaxBytes
             /\ UNCHANGED down \/ (Room(down) /\ ToGuest(<<Frame("Pong")>>))
    <3>1. Frame("Pong") \in Frames
      BY FramesAre DEF FrameKinds
    <3>2. HostOK'
      BY <2>4 DEF HostOK, HostPhases, HostReading, Pumping
    <3> QED
      BY <1>6, <1>7, <1>8, <2>4, <3>1, <3>2 DEF HostOK
  <2>5. CASE host = "first"
    BY <1>12, <2>1, <2>2, <2>4, <2>5, Bounds DEF HostProbe, HostBurst
  <2>6. CASE host = "recv"
    BY <1>9, <1>12, <2>1, <2>3, <2>4, <2>6, Bounds DEF HostProbe
  <2>7. CASE host = "result"
    BY <1>12, <2>1, <2>4, <2>7, Bounds DEF HostProbe, HostBurst
  <2> QED
    BY <1>12, <2>5, <2>6, <2>7 DEF HostProbe, HostBurst
<1>13. CASE host \in Pumping /\ Ingest(r.f, host) /\ HostTakes(r.rest) /\ UNCHANGED <<down, gbuf>>
  <2>1. HostOK' /\ host' \in {"closing", host}
    BY <1>9, <1>13, IngestOK
  <2> QED
    BY <1>6, <1>7, <1>13, <2>1 DEF HostOK, Pumping
<1> QED
  BY <1>1, <1>10, <1>11, <1>12, <1>13

LEMMA THostSteps ==
  ASSUME HostOK, WiresOK,
         HostOpen \/ HostChunk \/ HostDone \/ HostWrite \/ HostPacket \/ HostClosed
         \/ HostTimers \/ HostCrash
  PROVE  HostOK' /\ WiresOK'
<1>1. UNCHANGED <<kind, guest>>
  BY DEF HostOpen, HostChunk, HostDone, HostWrite, HostPacket, HostClosed, HostTimers,
         HostTimeout, HostTick, HostCrash, gvars
<1>2. /\ ChannelOK(down, gbuf) /\ (Tcp /\ HostHolds => Len(down) <= Cap)
      /\ ChannelOK(up, hbuf) /\ Len(up) \in Nat
  BY DEF WiresOK, ChannelOK
<1>3. ASSUME host \notin {"closed", "listen"}, NEW last \in {<< >>, Bye}, HostEnds(last)
      PROVE  HostOK' /\ WiresOK'
  <2>1. HostHolds
    BY <1>3 DEF HostHolds
  <2> QED
    BY <1>1, <1>3, <2>1, HostEndsOK
<1>4. ASSUME NEW f \in Frames, (Room(down) /\ ToGuest(<<f>>)) \/ down' = down,
             host \notin {"closed", "listen"}, host' \notin {"closed", "listen"},
             UNCHANGED <<up, bufs>>
      PROVE  WiresOK'
  <2>1. HostHolds /\ HostHolds' /\ UNCHANGED <<hbuf, gbuf>>
    BY <1>4 DEF HostHolds, bufs
  <2>2. ChannelOK(down', gbuf) /\ (Tcp /\ HostHolds => Len(down') <= Cap)
    BY <1>2, <1>4, ToGuestOK
  <2> QED
    BY <1>1, <1>2, <1>4, <2>1, <2>2, HostGoesOn
<1>5. /\ \A k \in {"SpeedChunk", "IpPacket", "Ping"} : Frame(k) \in Frames
      /\ Count("SpeedDone", hcount) \in Frames
  BY FramesAre DEF FrameKinds, HostOK
<1>6. CASE HostOpen
  <2>1. host = "closed" /\ HostOK' /\ host' = "listen" /\ UNCHANGED wires
    BY <1>6 DEF HostOpen, HostAt, HostOK, HostPhases, HostReading
  <2>2. (Tcp' <=> Tcp) /\ (GuestHolds' <=> GuestHolds) /\ ~Tcp
    BY <1>1, <2>1 DEF Tcp, GuestHolds, WiresOK
  <2>3. ~HostHolds /\ HostHolds'
    BY <1>1, <2>1, <2>2 DEF HostHolds, Serial, Tcp
  <2> QED
    BY <2>1, <2>2, <2>3 DEF WiresOK, wires, bufs
<1>7. CASE HostChunk
  <2>1. /\ HostOK' /\ host = "send" /\ host' = "send" /\ UNCHANGED <<up, bufs>>
        /\ Room(down) /\ ToGuest(<<Frame("SpeedChunk")>>)
    BY <1>7, Bounds DEF HostChunk, HostOK
  <2> QED
    BY <1>4, <1>5, <2>1
<1>8. CASE HostDone
  <2>1. /\ HostOK' /\ host = "send" /\ host' = "result" /\ UNCHANGED <<up, bufs>>
        /\ Room(down) /\ ToGuest(<<Count("SpeedDone", hcount)>>)
    BY <1>8, Bounds DEF HostDone, HostOK, HostPhases, HostReading
  <2> QED
    BY <1>4, <1>5, <2>1
<1>9. CASE HostWrite
  <2>1. /\ host \in Pumping \cup {"closing"} /\ host' = host /\ UNCHANGED <<up, bufs>>
        /\ Room(down) /\ ToGuest(<<Head(ctrl)>>) /\ ctrl # << >> /\ ctrl' = Tail(ctrl)
        /\ UNCHANGED <<hcount, missed>>
    BY <1>9 DEF HostWrite
  <2>2. Head(ctrl) \in Answers /\ Tail(ctrl) \in Seq(Answers) /\ Len(Tail(ctrl)) <= CtrlCap
    BY <2>1, Bounds DEF HostOK
  <2>3. Head(ctrl) \in Frames /\ HostOK'
    BY <2>1, <2>2, FramesAre DEF HostOK
  <2> QED
    BY <1>4, <2>1, <2>3 DEF Pumping
<1>10. CASE HostPacket
  <2>1. /\ HostOK' /\ host \in Pumping /\ host' = host /\ UNCHANGED <<up, bufs>>
        /\ Room(down) /\ ToGuest(<<Frame("IpPacket")>>)
    BY <1>10 DEF HostPacket, HostOK, hvars
  <2> QED
    BY <1>4, <1>5, <2>1 DEF Pumping
<1>11. CASE HostClosed
  BY <1>3, <1>11 DEF HostClosed
<1>12. CASE HostCrash
  BY <1>1, <1>12, HostEndsOK DEF HostCrash
<1>13. CASE HostTimeout
  <2>1. CASE \E last \in {<< >>, Bye} : HostEnds(last)
    BY <1>3, <1>13, <2>1 DEF HostTimeout
  <2>2. CASE host = "first" /\ HostAt("opened") /\ UNCHANGED wires
    <3>1. HostOK' /\ host' = "opened" /\ UNCHANGED <<up, bufs>> /\ down' = down
      BY <2>2 DEF HostAt, HostOK, HostPhases, HostReading, Pumping, wires
    <3> QED
      BY <1>4, <1>5, <2>2, <3>1
  <2> QED
    BY <1>13, <2>1, <2>2 DEF HostTimeout
<1>14. CASE HostTick
  <2>1. host \in {"opened", "pump"} /\ UNCHANGED <<up, bufs>> /\ down' = down
    BY <1>14 DEF HostTick, wires
  <2>2. HostOK' /\ host' \in {"closing", "pump"}
    <3>1. CASE TearDown
      BY <3>1, TearDownOK
    <3>2. CASE /\ missed < MaxMissed /\ missed' = missed + 1
               /\ host' = "pump" /\ ctrl' = Queue(<<Frame("Ping")>>) /\ UNCHANGED hcount
      <4>1. Frame("Ping") \in Answers
        BY DEF Answers
      <4>2. ctrl' \in Seq(Answers) /\ Len(ctrl') <= CtrlCap
        BY <3>2, <4>1, QueueOK DEF HostOK
      <4> QED
        BY <3>2, <4>2, Bounds DEF HostOK, HostPhases, HostReading, Pumping
    <3> QED
      BY <1>14, <3>1, <3>2 DEF HostTick
  <2> QED
    BY <1>4, <1>5, <2>1, <2>2
<1> QED
  BY <1>6, <1>7, <1>8, <1>9, <1>10, <1>11, <1>12, <1>13, <1>14 DEF HostTimers

-----------------------------------------------------------------------------
(* Torn frames. *)

\* What a link loses or tears: one frame is missing, or claims others.
Lost(ch, i)   == SubSeq(ch, 1, i - 1) \o SubSeq(ch, i + 1, Len(ch))
Bit(ch, i, k) == [ch EXCEPT ![i].cut = k]

LEMMA TornIs ==
  ASSUME NEW ch \in Seq(Frames), NEW b \in 0 .. Len(ch), NEW t \in Torn(ch, b)
  PROVE  \E i \in b + 1 .. Len(ch) : t = Lost(ch, i) \/ \E k \in 1 .. 2 : t = Bit(ch, i, k)
<1> DEFINE J == {j \in b + 1 .. Len(ch) : ch[j].kind # "Bye" /\ ch[j].cut = 0}
<1>1. Torn(ch, b) = {Lost(ch, i) : i \in b + 1 .. Len(ch)} \cup {Bit(ch, i, k) : i \in J, k \in 1 .. 2}
  BY SMT DEF Torn, Lost, Bit
<1>2. J \subseteq b + 1 .. Len(ch)
  OBVIOUS
<1> HIDE DEF J
<1> QED
  BY <1>1, <1>2

LEMMA Glued ==
  ASSUME NEW a \in Seq(Frames), NEW b \in Seq(Frames), NEW t, t = a \o b
  PROVE  /\ t \in Seq(Frames) /\ Len(t) = Len(a) + Len(b)
         /\ \A j \in 1 .. Len(a) + Len(b) : t[j] = IF j <= Len(a) THEN a[j] ELSE b[j - Len(a)]
BY ConcatProperties

LEMMA Without ==
  ASSUME NEW ch \in Seq(Frames), NEW i \in 1 .. Len(ch)
  PROVE  /\ Lost(ch, i) \in Seq(Frames) /\ Len(Lost(ch, i)) = Len(ch) - 1
         /\ \A j \in 1 .. Len(ch) - 1 : Lost(ch, i)[j] = IF j < i THEN ch[j] ELSE ch[j + 1]
<1>1. Len(ch) \in Nat /\ i \in Nat
  OBVIOUS
<1>2. PICK a : a = SubSeq(ch, 1, i - 1)
  OBVIOUS
<1>3. PICK b : b = SubSeq(ch, i + 1, Len(ch))
  OBVIOUS
<1>4. PICK t : t = Lost(ch, i)
  OBVIOUS
<1>5. a \in Seq(Frames) /\ Len(a) = i - 1 /\ \A j \in 1 .. i - 1 : a[j] = ch[j]
  BY <1>1, <1>2, Part
<1>6. b \in Seq(Frames) /\ Len(b) = Len(ch) - i /\ \A j \in 1 .. Len(ch) - i : b[j] = ch[j + i]
  <2>1. i + 1 \in Nat /\ i + 1 >= 1 /\ i + 1 <= Len(ch) + 1 /\ (i + 1) - 1 = i
    BY <1>1
  <2>2. /\ b \in Seq(Frames) /\ Len(b) = Len(ch) - ((i + 1) - 1)
        /\ \A j \in 1 .. Len(ch) - ((i + 1) - 1) : b[j] = ch[j + ((i + 1) - 1)]
    BY <1>3, <2>1, Part
  <2> QED
    BY <2>1, <2>2
<1>7. t = a \o b
  BY <1>2, <1>3, <1>4 DEF Lost
<1>8. /\ t \in Seq(Frames) /\ Len(t) = Len(a) + Len(b)
      /\ \A j \in 1 .. Len(a) + Len(b) : t[j] = IF j <= Len(a) THEN a[j] ELSE b[j - Len(a)]
  BY <1>5, <1>6, <1>7, Glued
<1>9. Len(t) = Len(ch) - 1 /\ Len(a) + Len(b) = Len(ch) - 1
  BY <1>1, <1>5, <1>6, <1>8
<1>10. ASSUME NEW j \in 1 .. Len(ch) - 1
       PROVE  t[j] = IF j < i THEN ch[j] ELSE ch[j + 1]
  <2>1. CASE j < i
    <3>1. j <= Len(a) /\ j \in 1 .. i - 1
      BY <1>1, <1>5, <2>1
    <3> QED
      BY <1>5, <1>8, <1>9, <2>1, <3>1
  <2>2. CASE ~(j < i)
    <3>1. j - (i - 1) \in 1 .. Len(ch) - i /\ (j - (i - 1)) + i = j + 1
      BY <1>1, <2>2
    <3>2. t[j] = b[j - (i - 1)]
      BY <1>1, <1>5, <1>8, <1>9, <2>2
    <3> QED
      BY <1>6, <2>2, <3>1, <3>2
  <2> QED
    BY <2>1, <2>2
<1> QED
  BY <1>4, <1>8, <1>9, <1>10

LEMMA Cut ==
  ASSUME NEW ch \in Seq(Frames), NEW i \in 1 .. Len(ch), NEW k \in 1 .. 2
  PROVE  /\ Bit(ch, i, k) \in Seq(Frames) /\ Len(Bit(ch, i, k)) = Len(ch)
         /\ \A j \in 1 .. Len(ch) : Bit(ch, i, k)[j].kind = ch[j].kind /\ Bit(ch, i, k)[j].n = ch[j].n
<1>1. \A f \in Frames : /\ [f EXCEPT !.cut = k] \in Frames
                        /\ [f EXCEPT !.cut = k].kind = f.kind /\ [f EXCEPT !.cut = k].n = f.n
  BY DEF Frames
<1>2. PICK e : e = [ch[i] EXCEPT !.cut = k]
  OBVIOUS
<1>3. e \in Frames /\ e.kind = ch[i].kind /\ e.n = ch[i].n
  BY <1>1, <1>2
<1>4. Bit(ch, i, k) = [ch EXCEPT ![i] = e]
  BY <1>2 DEF Bit
<1>5. PICK t : t = [ch EXCEPT ![i] = e]
  OBVIOUS
<1>6. t \in Seq(Frames) /\ Len(t) = Len(ch) /\ \A j \in 1 .. Len(ch) : t[j] = IF j = i THEN e ELSE ch[j]
  BY <1>3, <1>5
<1> QED
  BY <1>3, <1>4, <1>5, <1>6

LEMMA TornOK ==
  ASSUME NEW ch \in Seq(Frames), NEW b \in 0 .. Len(ch), NEW t \in Torn(ch, b)
  PROVE  t \in Seq(Frames) /\ Len(t) \in b .. Len(ch)
<1>1. PICK i \in b + 1 .. Len(ch) : t = Lost(ch, i) \/ \E k \in 1 .. 2 : t = Bit(ch, i, k)
  BY TornIs
<1>2. i \in 1 .. Len(ch) /\ Len(ch) \in Nat
  OBVIOUS
<1>3. CASE t = Lost(ch, i)
  BY <1>2, <1>3, Without
<1>4. CASE \E k \in 1 .. 2 : t = Bit(ch, i, k)
  BY <1>2, <1>4, Cut
<1> QED
  BY <1>1, <1>3, <1>4

LEMMA TTear ==
  ASSUME GuestOK, HostOK, WiresOK, Tear
  PROVE  GuestOK' /\ HostOK' /\ WiresOK'
<1>1. UNCHANGED <<kind, gvars, hvars, bufs>> /\ ~Tcp
  BY DEF Tear, Serial, Tcp
<1>2. GuestOK' /\ HostOK' /\ UNCHANGED <<kind, guest, host, hbuf, gbuf>>
  BY <1>1 DEF gvars, hvars, GuestOK, HostOK, bufs
<1>3. (GuestHolds' <=> GuestHolds) /\ (HostHolds' <=> HostHolds) /\ (Tcp' <=> Tcp)
  BY <1>2 DEF GuestHolds, HostHolds, Serial, Tcp
<1>4. /\ up \in Seq(Frames) /\ hbuf \in 0 .. Len(up) /\ Len(up) <= Cap + 1
      /\ down \in Seq(Frames) /\ gbuf \in 0 .. Len(down) /\ Len(down) <= Cap + 1
  BY DEF WiresOK, ChannelOK
<1>5. CASE up' \in Torn(up, hbuf) /\ UNCHANGED down
  <2>1. up' \in Seq(Frames) /\ Len(up') \in hbuf .. Len(up)
    BY <1>4, <1>5, TornOK
  <2> QED
    BY <1>1, <1>2, <1>3, <1>4, <1>5, <2>1, Bounds DEF WiresOK, ChannelOK
<1>6. CASE down' \in Torn(down, gbuf) /\ UNCHANGED up
  <2>1. down' \in Seq(Frames) /\ Len(down') \in gbuf .. Len(down)
    BY <1>4, <1>6, TornOK
  <2> QED
    BY <1>1, <1>2, <1>3, <1>4, <1>6, <2>1, Bounds DEF WiresOK, ChannelOK
<1> QED
  BY <1>5, <1>6 DEF Tear

-----------------------------------------------------------------------------
LEMMA BoundsStep ==
  ASSUME BoundsOK, [Next]_vars
  PROVE  BoundsOK'
<1>1. kind' = kind
  BY KindIsKept
<1>2. faults' \in 0 .. MaxFaults
  <2>1. faults \in 0 .. MaxFaults /\ MaxFaults \in Nat
    BY Bounds DEF BoundsOK
  <2>2. \/ faults' = faults
        \/ faults > 0 /\ faults' = faults - 1
    <3>1. GuestConnect \/ GuestTimeout \/ GuestTick \/ HostTimeout \/ HostTick =>
            Fires \/ faults' = faults
      BY DEF GuestConnect, GuestTimeout, GuestTick, HostTimeout, HostTick, GuestTimer, HostTimer
    <3>2. GuestGivesUp \/ GuestCrash \/ HostCrash \/ Tear => Fault
      BY DEF GuestGivesUp, GuestCrash, HostCrash, Tear
    <3>3. GuestSteps \/ HostSteps \/ GuestPacket \/ HostPacket \/ GuestStop \/ UNCHANGED vars =>
            faults' = faults
      BY DEF GuestSteps, HostSteps, GuestRead, GuestChunk, GuestDone, GuestSetUp, GuestPacket,
             GuestStop, HostOpen, HostRead, HostChunk, HostDone, HostWrite, HostClosed, HostPacket,
             vars
    <3> QED
      BY <3>1, <3>2, <3>3, FiresCases DEF Next, GuestTimers, HostTimers, Fault
  <2> QED
    BY <2>1, <2>2
<1>3. packets' \in 0 .. MaxPackets
  <2>1. packets \in 0 .. MaxPackets /\ MaxPackets \in Nat
    BY Bounds DEF BoundsOK
  <2>2. packets' = packets \/ (packets > 0 /\ packets' = packets - 1)
    BY DEF Next, vars, GuestSteps, HostSteps, GuestConnect, GuestRead, GuestChunk, GuestDone,
       GuestSetUp, GuestPacket, GuestTimers, GuestTimeout, GuestTick, GuestGivesUp, GuestCrash,
       GuestStop, HostOpen, HostRead, HostChunk, HostDone, HostWrite, HostPacket, HostClosed,
       HostTimers, HostTimeout, HostTick, HostCrash, Tear
  <2> QED
    BY <2>1, <2>2
<1> QED
  BY <1>1, <1>2, <1>3 DEF BoundsOK

LEMMA TypeStep ==
  ASSUME TInv, [Next]_vars
  PROVE  TInv'
<1> USE DEF TInv
<1>1. BoundsOK'
  BY BoundsStep
<1>2. (Tcp => SInv)'
  BY SInvStep, KindIsKept DEF Tcp
<1>3. ASSUME GuestSteps \/ GuestTimers \/ GuestPacket \/ GuestGivesUp \/ GuestCrash \/ GuestStop
      PROVE  GuestOK' /\ HostOK' /\ WiresOK'
  <2>1. UNCHANGED hvars
    BY <1>3 DEF GuestSteps, GuestTimers, GuestRead, GuestChunk, GuestDone, GuestSetUp, GuestPacket,
       GuestTimeout, GuestTick, GuestGivesUp, GuestCrash, GuestStop
  <2>2. HostOK'
    BY <2>1 DEF HostOK, hvars
  <2> QED
    BY <1>3, <2>2, TGuestReads, TGuestSteps, TGuestLeaves DEF GuestSteps, GuestTimers
<1>4. ASSUME HostSteps \/ HostTimers \/ HostPacket \/ HostCrash
      PROVE  GuestOK' /\ HostOK' /\ WiresOK'
  <2>1. UNCHANGED gvars
    BY <1>4 DEF HostSteps, HostTimers, HostOpen, HostRead, HostChunk, HostDone, HostWrite, HostPacket,
       HostClosed, HostTimeout, HostTick, HostCrash
  <2>2. GuestOK'
    BY <2>1 DEF GuestOK, gvars
  <2> QED
    BY <1>4, <2>2, THostReads, THostSteps DEF HostSteps
<1>5. CASE UNCHANGED vars
  <2>1. UNCHANGED <<kind, guest, host, gcount, silent, pushed, measured, hcount, missed, ctrl>>
        /\ UNCHANGED <<up, down, hbuf, gbuf>>
    BY <1>5 DEF vars, gvars, hvars, wires, bufs
  <2>2. GuestOK' /\ HostOK'
    BY <2>1 DEF GuestOK, HostOK
  <2>3. (GuestHolds' <=> GuestHolds) /\ (HostHolds' <=> HostHolds) /\ (Tcp' <=> Tcp)
    BY <2>1 DEF GuestHolds, HostHolds, Serial, Tcp
  <2> QED
    BY <1>1, <1>2, <2>1, <2>2, <2>3 DEF WiresOK, ChannelOK
<1> QED
  BY <1>1, <1>2, <1>3, <1>4, <1>5, TGuestConnects, TTear DEF Next

LEMMA TypeInit == Init => TInv
<1> SUFFICES ASSUME Init PROVE TInv
  OBVIOUS
<1>1. GuestOK
  BY Bounds DEF Init, GuestOK, GuestPhases
<1>2. HostOK
  BY Bounds DEF Init, HostOK, HostPhases, HostReading
<1>3. WiresOK
  BY Bounds DEF Init, WiresOK, ChannelOK
<1>4. BoundsOK
  BY Bounds DEF Init, BoundsOK
<1> QED
  BY <1>1, <1>2, <1>3, <1>4, SInvInit DEF TInv

LEMMA TypeAlways == Spec => []TInv
BY TypeInit, TypeStep, PTL DEF Spec

\* Every variable keeps its type, over every kind of link: in particular the
\* link and the host's control queue never hold more than they can, and what
\* a reader has buffered is what is there.
THEOREM TypeCorrect == Spec => []TypeOK
<1>1. TInv => TypeOK
  <2> SUFFICES ASSUME TInv PROVE TypeOK
    OBVIOUS
  <2>1. ctrl \in Seq(Frames)
    BY FramesAre, Widen DEF TInv, HostOK
  <2> QED
    BY <2>1 DEF TInv, GuestOK, HostOK, WiresOK, ChannelOK, BoundsOK, TypeOK
<1>2. QED
  BY <1>1, TypeAlways, PTL
-----------------------------------------------------------------------------
(* The numbers on a serial line, which one stream of bytes carries for all  *)
(* attempts.                                                                *)

Line == kind = "serial"

Has(ch, k)        == \E i \in 1 .. Len(ch) : ch[i].kind = k
Numbers(ch, k, p) == \A i \in 1 .. Len(ch) : ch[i].kind = k => ch[i].n = p
\* What is behind a Hello.
After(ch, K)      == \A i, j \in 1 .. Len(ch) : i < j /\ ch[i].kind = "Hello" => ch[j].kind \in K

Knock    == {"Hello", "Bye"}
NoResult == FrameKinds \ {"SpeedResult"}

\* The host has answered this attempt's Hello, or an earlier one's that the
\* guest takes for it.
Greeted == guest \in {"config", "burst", "result"} \/ (guest = "hello" /\ Has(down, "Hello"))

\* What a closed end is sent is lost.
LQuiet ==
  /\ ~GuestHolds => down = << >>
  /\ host = "closed" => up = << >>
  /\ host # "hello"

\* Behind a Hello the host has yet to read there is no burst.
LAsks == host = "listen" /\ Has(up, "Hello") =>
           guest \in {"idle", "off", "hello"} /\ ~Has(down, "Hello") /\ After(up, Knock)

\* A greeted guest's host waits for no end of a burst but this one's.
LPushes == Greeted /\ host \in {"first", "recv"} =>
             IF guest = "result" THEN Numbers(up, "SpeedDone", pushed) ELSE ~Has(up, "SpeedDone")

\* Behind the host's Hello there is no result of an earlier attempt.
LHears ==
  /\ guest = "hello" => After(down, NoResult)
  /\ guest \in {"config", "burst"} => ~Has(down, "SpeedResult")
  /\ guest = "result" => Numbers(down, "SpeedResult", pushed)

LKnows ==
  /\ guest \in Early => measured = Nothing /\ gcount = pushed
  /\ measured \in {Nothing, Garbage, pushed}

LineOK == LQuiet /\ LAsks /\ LPushes /\ LHears /\ LKnows

-----------------------------------------------------------------------------
(* What a channel carries when frames are taken, torn and written. *)

\* Frames are missing, and some claim others; their order is the old one.
Thinned(t, s) ==
  /\ t \in Seq(Frames)
  /\ \A i \in 1 .. Len(t) : \E a \in 1 .. Len(s) : t[i].kind = s[a].kind /\ t[i].n = s[a].n
  /\ \A i, j \in 1 .. Len(t) : i < j =>
       \E a, b \in 1 .. Len(s) : a < b /\ t[i].kind = s[a].kind /\ t[j].kind = s[b].kind

\* t has frames of a kind in K only if s has, with the same number.
Keeps(t, s, K) ==
  \A k \in K : /\ Has(t, k) => Has(s, k)
               /\ \A p : Numbers(s, k, p) => Numbers(t, k, p)

LEMMA ThinnedKeeps ==
  ASSUME NEW s \in Seq(Frames), NEW t, Thinned(t, s)
  PROVE  /\ \A K : Keeps(t, s, K) /\ (After(s, K) => After(t, K))
         /\ s = << >> => t = << >>
<1>1. ASSUME NEW k PROVE Has(t, k) => Has(s, k)
  BY DEF Thinned, Has
<1>2. ASSUME NEW k, NEW p PROVE Numbers(s, k, p) => Numbers(t, k, p)
  BY DEF Thinned, Numbers
<1>3. ASSUME NEW K PROVE After(s, K) => After(t, K)
  <2> SUFFICES ASSUME After(s, K), NEW i \in 1 .. Len(t), NEW j \in 1 .. Len(t), i < j,
                      t[i].kind = "Hello"
               PROVE  t[j].kind \in K
    BY DEF After
  <2>1. PICK a \in 1 .. Len(s), b \in 1 .. Len(s) :
          a < b /\ t[i].kind = s[a].kind /\ t[j].kind = s[b].kind
    BY DEF Thinned
  <2> QED
    BY <2>1 DEF After
<1>4. ASSUME s = << >> PROVE t = << >>
  <2>1. t \in Seq(Frames) /\ \A i \in 1 .. Len(t) : \E a \in 1 .. Len(s) : TRUE
    BY DEF Thinned
  <2>2. Len(s) = 0 /\ Len(t) \in Nat
    BY <1>4, <2>1
  <2>3. ~(Len(t) >= 1)
    BY <2>1, <2>2
  <2> QED
    BY <2>1, <2>2, <2>3
<1> QED
  BY <1>1, <1>2, <1>3, <1>4 DEF Keeps

LEMMA SameThinned ==
  ASSUME NEW s \in Seq(Frames)
  PROVE  Thinned(s, s)
BY DEF Thinned

LEMMA RestThinned ==
  ASSUME NEW ch \in Seq(Frames), NEW r \in Taken(ch)
  PROVE  Thinned(r.rest, ch)
<1> DEFINE c == 1 + Head(ch).cut
<1>1. /\ r.rest \in Seq(Frames) /\ Len(r.rest) = Len(ch) - c /\ c \in Nat /\ c <= Len(ch)
      /\ \A i \in 1 .. Len(r.rest) : r.rest[i] = ch[i + c]
  BY Read
<1>2. Len(ch) \in Nat
  OBVIOUS
<1> HIDE DEF c
<1>3. \A i \in 1 .. Len(r.rest) : i + c \in 1 .. Len(ch)
  BY <1>1, <1>2
<1>4. ASSUME NEW i \in 1 .. Len(r.rest), NEW j \in 1 .. Len(r.rest), i < j
      PROVE  \E a, b \in 1 .. Len(ch) :
               a < b /\ r.rest[i].kind = ch[a].kind /\ r.rest[j].kind = ch[b].kind
  <2>1. i + c < j + c
    BY <1>1, <1>4
  <2> QED
    BY <1>1, <1>3, <1>4, <2>1
<1> QED
  BY <1>1, <1>3, <1>4 DEF Thinned

LEMMA TornThinned ==
  ASSUME NEW ch \in Seq(Frames), NEW b \in 0 .. Len(ch), NEW t \in Torn(ch, b)
  PROVE  Thinned(t, ch)
<1>1. PICK i \in b + 1 .. Len(ch) : t = Lost(ch, i) \/ \E k \in 1 .. 2 : t = Bit(ch, i, k)
  BY TornIs
<1>2. i \in 1 .. Len(ch) /\ Len(ch) \in Nat
  OBVIOUS
<1>3. CASE t = Lost(ch, i)
  <2>1. /\ t \in Seq(Frames) /\ Len(t) = Len(ch) - 1
        /\ \A j \in 1 .. Len(ch) - 1 : t[j] = IF j < i THEN ch[j] ELSE ch[j + 1]
    BY <1>2, <1>3, Without
  <2> DEFINE at(j) == IF j < i THEN j ELSE j + 1
  <2>2. \A j \in 1 .. Len(t) : at(j) \in 1 .. Len(ch) /\ t[j] = ch[at(j)]
    BY <1>2, <2>1
  <2>3. \A j, k \in 1 .. Len(t) : j < k => at(j) < at(k)
    BY <1>2, <2>1
  <2> HIDE DEF at
  <2> QED
    BY <2>1, <2>2, <2>3 DEF Thinned
<1>4. CASE \E k \in 1 .. 2 : t = Bit(ch, i, k)
  <2>1. /\ t \in Seq(Frames) /\ Len(t) = Len(ch)
        /\ \A j \in 1 .. Len(ch) : t[j].kind = ch[j].kind /\ t[j].n = ch[j].n
    BY <1>2, <1>4, Cut
  <2> QED
    BY <2>1 DEF Thinned
<1> QED
  BY <1>1, <1>3, <1>4

LEMMA Appended ==
  ASSUME NEW s \in Seq(Frames), NEW f \in Frames, NEW t, t = s \o <<f>>
  PROVE  /\ \A k : Has(t, k) <=> Has(s, k) \/ f.kind = k
         /\ \A k, p : Numbers(s, k, p) /\ (f.kind = k => f.n = p) => Numbers(t, k, p)
         /\ \A K : After(s, K) /\ (f.kind \in K \/ ~Has(s, "Hello")) => After(t, K)
<1>1. /\ Len(s) \in Nat /\ Len(t) = Len(s) + 1 /\ t[Len(s) + 1] = f
      /\ \A i \in 1 .. Len(s) : t[i] = s[i]
  OBVIOUS
<1>2. 1 .. Len(t) = (1 .. Len(s)) \cup {Len(s) + 1}
  BY <1>1
<1>3. \A k : Has(t, k) <=> Has(s, k) \/ f.kind = k
  BY <1>1, <1>2 DEF Has
<1>4. \A k, p : Numbers(s, k, p) /\ (f.kind = k => f.n = p) => Numbers(t, k, p)
  BY <1>1, <1>2 DEF Numbers
<1>5. ASSUME NEW K, After(s, K), f.kind \in K \/ ~Has(s, "Hello") PROVE After(t, K)
  <2> SUFFICES ASSUME NEW i \in 1 .. Len(t), NEW j \in 1 .. Len(t), i < j, t[i].kind = "Hello"
               PROVE  t[j].kind \in K
    BY DEF After
  <2>1. i \in 1 .. Len(s)
    BY <1>1
  <2>2. CASE j = Len(s) + 1
    BY <1>1, <1>5, <2>1, <2>2 DEF Has
  <2>3. CASE j \in 1 .. Len(s)
    BY <1>1, <1>5, <2>1, <2>3 DEF After
  <2> QED
    BY <1>2, <2>2, <2>3
<1> QED
  BY <1>3, <1>4, <1>5

LEMMA AppendKeeps ==
  ASSUME NEW s \in Seq(Frames), NEW f \in Frames, NEW t, t = s \o <<f>>, NEW K, f.kind \notin K
  PROVE  Keeps(t, s, K)
BY Appended DEF Keeps

\* What the frame that is read tells of the channel.
LEMMA Told ==
  ASSUME NEW ch \in Seq(Frames), NEW r \in Taken(ch), r.f.kind # "skipped"
  PROVE  /\ Has(ch, r.f.kind)
         /\ \A p : Numbers(ch, r.f.kind, p) => r.f.n \in {p, Garbage}
         /\ \A K : r.f.kind = "Hello" /\ After(ch, K) =>
                     \A i \in 1 .. Len(r.rest) : r.rest[i].kind \in K
<1> DEFINE c == 1 + Head(ch).cut
<1>1. /\ ch # << >> /\ Head(ch) = ch[1] /\ r.f.kind = ch[1].kind /\ r.f.n \in {ch[1].n, Garbage}
      /\ Len(r.rest) = Len(ch) - c /\ c \in Nat /\ c >= 1 /\ c <= Len(ch)
      /\ \A i \in 1 .. Len(r.rest) : r.rest[i] = ch[i + c]
  BY Read
<1>2. Len(ch) \in Nat /\ 1 \in 1 .. Len(ch)
  BY <1>1
<1> HIDE DEF c
<1>3. ASSUME NEW K, r.f.kind = "Hello", After(ch, K), NEW i \in 1 .. Len(r.rest)
      PROVE  r.rest[i].kind \in K
  <2>1. i + c \in 1 .. Len(ch) /\ 1 < i + c
    BY <1>1, <1>2
  <2> QED
    BY <1>1, <1>2, <1>3, <2>1 DEF After
<1> QED
  BY <1>1, <1>2, <1>3 DEF Has, Numbers

-----------------------------------------------------------------------------
(* Steps that keep the line in order. *)

LEMMA LineIs ==
  ASSUME Line
  PROVE  Serial /\ ~Sticky /\ (HostHolds <=> host # "closed")
BY DEF Line, Serial, Sticky, HostHolds

\* What is written to a guest, or to a host, that may be closed.
LEMMA ToGuestKeeps ==
  ASSUME Line, down \in Seq(Frames), NEW f \in Frames, ToGuest(<<f>>)
  PROVE  /\ \A K : f.kind \notin K => Keeps(down', down, K)
         /\ f.kind \in NoResult /\ After(down, NoResult) => After(down', NoResult)
         /\ ~GuestHolds => down' = down
         /\ Has(down', "Hello") => Has(down, "Hello") \/ f.kind = "Hello"
         /\ \A p : Numbers(down, "SpeedResult", p) /\ f.n = p => Numbers(down', "SpeedResult", p)
         /\ ~Has(down, "Hello") => After(down', NoResult) \/ f.kind = "Hello"
<1>1. down' = down \/ (GuestHolds /\ down' = down \o <<f>>)
  BY LineIs DEF ToGuest
<1>2. CASE down' = down
  BY <1>2 DEF Keeps, After, Has
<1>3. CASE GuestHolds /\ down' = down \o <<f>>
  <2>1. \A K : f.kind \notin K => Keeps(down', down, K)
    BY <1>3, AppendKeeps
  <2>2. \A K : After(down, K) /\ (f.kind \in K \/ ~Has(down, "Hello")) => After(down', K)
    BY <1>3, Appended
  <2>3. ~Has(down, "Hello") => After(down, NoResult)
    BY DEF Has, After
  <2>4. Has(down', "Hello") => Has(down, "Hello") \/ f.kind = "Hello"
    BY <1>3, Appended
  <2>5. \A p : Numbers(down, "SpeedResult", p) /\ f.n = p => Numbers(down', "SpeedResult", p)
    BY <1>3, Appended
  <2> QED
    BY <1>3, <2>1, <2>2, <2>3, <2>4, <2>5
<1> QED
  BY <1>1, <1>2, <1>3

LEMMA ToHostKeeps ==
  ASSUME Line, up \in Seq(Frames), NEW f \in Frames, ToHost(<<f>>)
  PROVE  /\ \A K : f.kind \notin K => Keeps(up', up, K)
         /\ host = "closed" => up' = up
         /\ \A K : f.kind \in K /\ After(up, K) => After(up', K)
         /\ \A p : Numbers(up, "SpeedDone", p) /\ f.n = p => Numbers(up', "SpeedDone", p)
         /\ ~Has(up, "Hello") => \A K : After(up', K)
<1>1. up' = up \/ (host # "closed" /\ up' = up \o <<f>>)
  BY LineIs DEF ToHost
<1>2. ~Has(up, "Hello") => \A K : After(up, K)
  BY DEF Has, After
<1>3. CASE up' = up
  BY <1>2, <1>3 DEF Keeps
<1>4. CASE host # "closed" /\ up' = up \o <<f>>
  <2>1. \A K : f.kind \notin K => Keeps(up', up, K)
    BY <1>4, AppendKeeps
  <2>2. \A K : After(up, K) /\ (f.kind \in K \/ ~Has(up, "Hello")) => After(up', K)
    BY <1>4, Appended
  <2>3. \A p : Numbers(up, "SpeedDone", p) /\ f.n = p => Numbers(up', "SpeedDone", p)
    BY <1>4, Appended
  <2> QED
    BY <1>2, <1>4, <2>1, <2>2, <2>3
<1> QED
  BY <1>1, <1>3, <1>4

\* The host goes on, or bytes are lost: no Hello and no number is new.
LEMMA LHostGoesOn ==
  ASSUME LineOK, UNCHANGED gvars,
         Keeps(up', up, {"Hello", "SpeedDone"}), After(up, Knock) => After(up', Knock),
         Keeps(down', down, {"Hello", "SpeedResult"}),
         After(down, NoResult) => After(down', NoResult),
         ~GuestHolds /\ down = << >> => down' = << >>,
         host' = "closed" => host = "closed" /\ (up = << >> => up' = << >>),
         host' # "hello", host' = "listen" => host = "listen",
         host' \in {"first", "recv"} => host \in {"first", "recv"}
  PROVE  LineOK'
<1>1. UNCHANGED <<guest, gcount, pushed, measured>> /\ (GuestHolds' <=> GuestHolds)
  BY DEF gvars, GuestHolds
<1>2. LQuiet'
  BY <1>1 DEF LineOK, LQuiet
<1>3. /\ Has(up', "Hello") => Has(up, "Hello")
      /\ Has(up', "SpeedDone") => Has(up, "SpeedDone")
      /\ Has(down', "Hello") => Has(down, "Hello")
      /\ Has(down', "SpeedResult") => Has(down, "SpeedResult")
  BY DEF Keeps
<1>4. /\ Numbers(up, "SpeedDone", pushed) => Numbers(up', "SpeedDone", pushed)
      /\ Numbers(down, "SpeedResult", pushed) => Numbers(down', "SpeedResult", pushed)
  BY DEF Keeps
<1>5. LAsks'
  BY <1>1, <1>3 DEF LineOK, LAsks
<1>6. Greeted' => Greeted
  BY <1>1, <1>3 DEF Greeted
<1>7. LPushes'
  BY <1>1, <1>3, <1>4, <1>6 DEF LineOK, LPushes
<1>8. LHears'
  BY <1>1, <1>3, <1>4 DEF LineOK, LHears
<1>9. LKnows'
  BY <1>1 DEF LineOK, LKnows
<1> QED
  BY <1>2, <1>5, <1>7, <1>8, <1>9 DEF LineOK

\* The guest goes on after the handshake.
LEMMA LGuestGoesOn ==
  ASSUME LineOK, UNCHANGED <<host, pushed>>,
         guest \notin {"idle", "off", "hello"}, guest' \notin {"idle", "off", "hello"},
         guest' \in {"config", "burst", "result"} =>
           guest' = guest \/ (guest = "config" /\ guest' = "burst"),
         guest' \in Early => UNCHANGED <<gcount, measured>>,
         measured' \in {measured, Garbage, pushed},
         Keeps(down', down, {"SpeedResult"}),
         Keeps(up', up, {"Hello", "SpeedDone"}),
         host = "closed" /\ up = << >> => up' = << >>
  PROVE  LineOK'
<1>1. GuestHolds' /\ LQuiet'
  BY DEF LineOK, LQuiet, GuestHolds
<1>2. /\ Has(up', "Hello") => Has(up, "Hello")
      /\ Has(up', "SpeedDone") => Has(up, "SpeedDone")
      /\ Has(down', "SpeedResult") => Has(down, "SpeedResult")
  BY DEF Keeps
<1>3. /\ Numbers(up, "SpeedDone", pushed) => Numbers(up', "SpeedDone", pushed)
      /\ Numbers(down, "SpeedResult", pushed) => Numbers(down', "SpeedResult", pushed)
  BY DEF Keeps
<1>4. LAsks'
  BY <1>2 DEF LineOK, LAsks
<1>5. Greeted' => Greeted
  BY DEF Greeted
<1>6. Greeted' => guest' \in {"config", "burst", "result"}
  BY DEF Greeted
<1>7. LPushes'
  BY <1>2, <1>3, <1>5, <1>6 DEF LineOK, LPushes
<1>8. LHears'
  BY <1>2, <1>3 DEF LineOK, LHears
<1>9. LKnows'
  BY DEF LineOK, LKnows, Early
<1> QED
  BY <1>1, <1>4, <1>7, <1>8, <1>9 DEF LineOK

\* What was taken is off the line.
LEMMA DownTaken ==
  ASSUME down \in Seq(Frames), NEW r \in Taken(down), GuestTakes(r.rest)
  PROVE  /\ \A K : Keeps(down', down, K) /\ (After(down, K) => After(down', K))
         /\ down = << >> => down' = << >>
<1>1. Thinned(r.rest, down) /\ down' = r.rest
  BY RestThinned DEF GuestTakes
<1> QED
  BY <1>1, ThinnedKeeps

LEMMA UpTaken ==
  ASSUME up \in Seq(Frames), NEW r \in Taken(up), HostTakes(r.rest)
  PROVE  /\ \A K : Keeps(up', up, K) /\ (After(up, K) => After(up', K))
         /\ up = << >> => up' = << >>
<1>1. Thinned(r.rest, up) /\ up' = r.rest
  BY RestThinned DEF HostTakes
<1> QED
  BY <1>1, ThinnedKeeps

LEMMA SameKeeps ==
  ASSUME NEW s \in Seq(Frames)
  PROVE  \A K : Keeps(s, s, K)
BY DEF Keeps

\* An attempt or a session of the guest ends.
LEMMA LGuestEnds ==
  ASSUME LineOK, Line, up \in Seq(Frames), UNCHANGED host,
         NEW phase \in {"idle", "off"}, NEW last \in {<< >>, Bye}, GuestEnds(phase, last)
  PROVE  LineOK'
<1>1. /\ guest' = phase /\ UNCHANGED <<pushed, measured>> /\ down' = << >>
      /\ up' = IF host # "closed" THEN Last(up, last) ELSE << >>
  BY LineIs DEF GuestEnds, GuestCloses, Left
<1>2. Last(up, last) = up \/ Last(up, last) = up \o <<Frame("Bye")>>
  <2>1. Last(up, last) = (IF Room(up) THEN up \o last ELSE up) \o << >>
    BY LineIs DEF Last
  <2>2. last = << >> \/ last = <<Frame("Bye")>>
    BY Zenon DEF Bye
  <2>3. Frame("Bye") \in Frames
    BY FramesAre DEF FrameKinds
  <2>4. \A s \in Seq(Frames) : s \o << >> = s
    OBVIOUS
  <2>5. up \o <<Frame("Bye")>> \in Seq(Frames)
    BY <2>3
  <2> QED
    BY <2>1, <2>2, <2>4, <2>5
<1>3. Frame("Bye") \in Frames /\ Frame("Bye").kind = "Bye"
  BY FramesAre DEF FrameKinds
<1>4. host # "closed" => /\ Has(up', "Hello") => Has(up, "Hello")
                         /\ After(up, Knock) => After(up', Knock)
  <2>1. \A t : t = up \o <<Frame("Bye")>> =>
          /\ Has(t, "Hello") => Has(up, "Hello")
          /\ After(up, Knock) => After(t, Knock)
    BY <1>3, Appended DEF Knock
  <2> QED
    BY <1>1, <1>2, <2>1
<1>5. ~Has(down', "Hello")
  BY <1>1 DEF Has
<1>6. LQuiet'
  BY <1>1 DEF LineOK, LQuiet
<1>7. LAsks'
  BY <1>1, <1>4, <1>5 DEF LineOK, LAsks
<1>8. ~Greeted' /\ LPushes' /\ LHears'
  BY <1>1 DEF Greeted, LPushes, LHears
<1>9. LKnows'
  BY <1>1 DEF LineOK, LKnows, Early
<1> QED
  BY <1>6, <1>7, <1>8, <1>9 DEF LineOK

\* A session of the host ends.
LEMMA LHostEnds ==
  ASSUME LineOK, Line, down \in Seq(Frames), UNCHANGED gvars,
         NEW last \in {<< >>, Bye}, HostEnds(last)
  PROVE  LineOK'
<1>1. /\ host' = "closed" /\ up' = << >>
      /\ down' = IF GuestHolds THEN Last(down, last) ELSE << >>
  BY LineIs DEF HostEnds, HostCloses, Left
<1>2. Last(down, last) = down \/ Last(down, last) = down \o <<Frame("Bye")>>
  <2>1. Last(down, last) = (IF Room(down) THEN down \o last ELSE down) \o << >>
    BY LineIs DEF Last
  <2>2. last = << >> \/ last = <<Frame("Bye")>>
    BY Zenon DEF Bye
  <2>3. Frame("Bye") \in Frames
    BY FramesAre DEF FrameKinds
  <2>4. \A s \in Seq(Frames) : s \o << >> = s
    OBVIOUS
  <2>5. down \o <<Frame("Bye")>> \in Seq(Frames)
    BY <2>3
  <2> QED
    BY <2>1, <2>2, <2>4, <2>5
<1>3. Frame("Bye") \in Frames /\ Frame("Bye").kind = "Bye"
  BY FramesAre DEF FrameKinds
<1>4. UNCHANGED <<guest, gcount, pushed, measured>> /\ (GuestHolds' <=> GuestHolds)
  BY DEF gvars, GuestHolds
<1>5. /\ After(down, NoResult) => After(down', NoResult)
      /\ Has(down', "SpeedResult") => Has(down, "SpeedResult")
      /\ Numbers(down, "SpeedResult", pushed) => Numbers(down', "SpeedResult", pushed)
  <2>1. \A t : t = down \o <<Frame("Bye")>> =>
          /\ After(down, NoResult) => After(t, NoResult)
          /\ Has(t, "SpeedResult") => Has(down, "SpeedResult")
          /\ Numbers(down, "SpeedResult", pushed) => Numbers(t, "SpeedResult", pushed)
    <3> TAKE t
    <3> HAVE t = down \o <<Frame("Bye")>>
    <3>1. Frame("Bye").kind \in NoResult /\ Frame("Bye").kind # "SpeedResult"
      BY <1>3 DEF NoResult, FrameKinds
    <3>2. After(down, NoResult) => After(t, NoResult)
      BY <1>3, <3>1, Appended
    <3>3. Has(t, "SpeedResult") => Has(down, "SpeedResult")
      BY <1>3, <3>1, Appended
    <3>4. Numbers(down, "SpeedResult", pushed) => Numbers(t, "SpeedResult", pushed)
      BY <1>3, <3>1, Appended
    <3> QED
      BY <3>2, <3>3, <3>4
  <2>2. \A t : t = << >> =>
          After(t, NoResult) /\ ~Has(t, "SpeedResult") /\ Numbers(t, "SpeedResult", pushed)
    BY DEF After, Has, Numbers
  <2> QED
    BY <1>1, <1>2, <2>1, <2>2
<1>6. LQuiet'
  BY <1>1, <1>4 DEF LineOK, LQuiet
<1>7. LAsks' /\ LPushes'
  BY <1>1 DEF LAsks, LPushes
<1>8. LHears'
  BY <1>4, <1>5 DEF LineOK, LHears
<1>9. LKnows'
  BY <1>4 DEF LineOK, LKnows
<1> QED
  BY <1>6, <1>7, <1>8, <1>9 DEF LineOK

\* What the guest reads on a line.
LEMMA LGuestReads ==
  ASSUME GuestOK, WiresOK, LineOK, Line, GuestRead
  PROVE  LineOK'
<1>1. PICK r \in Taken(down) :
        \/ r.f.kind = "skipped" /\ GuestTakes(r.rest) /\ UNCHANGED <<gvars, up, hbuf>>
        \/ /\ r.f.kind # "skipped"
           /\ \/ GuestHandshake(r.f, r.rest)
              \/ GuestProbeClosed(r.f, r.rest)
              \/ GuestProbe(r.f, r.rest)
              \/ GuestPump(r.f, r.rest)
  BY DEF GuestRead
<1>2. guest \in GuestReading /\ UNCHANGED host /\ GuestHolds
  BY DEF GuestRead, hvars, GuestHolds, GuestReading
<1>3. down \in Seq(Frames) /\ up \in Seq(Frames)
  BY DEF WiresOK, ChannelOK
<1>4. GuestTakes(r.rest) =>
        \A K : Keeps(down', down, K) /\ (After(down, K) => After(down', K))
  BY <1>3, DownTaken
<1>5. /\ Frame("Pong") \in Frames /\ Frame("Pong").kind = "Pong"
      /\ Count("SpeedResult", gcount) \in Frames
      /\ Count("SpeedResult", gcount).kind = "SpeedResult"
  BY FramesAre DEF FrameKinds, GuestOK
<1>6. ToHost(<<Frame("Pong")>>) \/ ToHost(<<Count("SpeedResult", gcount)>>) \/ up' = up =>
        /\ Keeps(up', up, {"Hello", "SpeedDone"})
        /\ host = "closed" /\ up = << >> => up' = << >>
  BY <1>3, <1>5, ToHostKeeps, SameKeeps
<1>7. \A last \in {<< >>, Bye} : GuestEnds("idle", last) => LineOK'
  BY <1>2, <1>3, LGuestEnds
<1>8. CASE GuestTakes(r.rest) /\ UNCHANGED <<gvars, up, hbuf>>
  <2>1. Keeps(up', up, {"Hello", "SpeedDone"}) /\ (After(up, Knock) => After(up', Knock))
    BY <1>3, <1>8, SameKeeps
  <2>2. host' # "hello"
    BY <1>2 DEF LineOK, LQuiet
  <2> QED
    BY <1>2, <1>4, <1>8, <2>1, <2>2, LHostGoesOn
<1>9. CASE r.f.kind # "skipped" /\ GuestHandshake(r.f, r.rest)
  <2>1. CASE GuestEnds("idle", << >>)
    BY <1>7, <2>1
  <2>2. CASE /\ guest = "hello" /\ r.f.kind = "Hello" /\ GuestAt("config")
             /\ GuestTakes(r.rest) /\ UNCHANGED <<up, hbuf>>
    <3>1. guest' = "config" /\ UNCHANGED <<gcount, pushed, measured, up, host>>
      BY <1>2, <2>2 DEF GuestAt
    <3>2. Has(down, "Hello") /\ After(down, NoResult) /\ Greeted
      BY <1>3, <1>9, <2>2, Told DEF LineOK, LHears, Greeted
    <3>3. ~Has(down', "SpeedResult")
      <4>1. \A i \in 1 .. Len(r.rest) : r.rest[i].kind \in NoResult
        BY <1>3, <1>9, <2>2, <3>2, Told
      <4> QED
        BY <2>2, <4>1 DEF GuestTakes, Has, NoResult
    <3>4. LQuiet' /\ LAsks'
      BY <1>2, <3>1, <3>2, <2>2 DEF LineOK, LQuiet, LAsks, GuestHolds
    <3>5. LPushes'
      BY <3>1, <3>2, <2>2 DEF LineOK, LPushes
    <3>6. LHears'
      BY <3>1, <3>3 DEF LHears
    <3>7. LKnows'
      BY <3>1, <2>2 DEF LineOK, LKnows, Early
    <3> QED
      BY <3>4, <3>5, <3>6, <3>7 DEF LineOK
  <2>3. CASE guest = "config" /\ GuestAt("burst") /\ GuestTakes(r.rest) /\ UNCHANGED <<up, hbuf>>
    <3>1. guest' = "burst" /\ UNCHANGED <<gcount, pushed, measured, up, host>>
      BY <1>2, <2>3 DEF GuestAt
    <3> QED
      BY <1>4, <1>6, <2>3, <3>1, LGuestGoesOn
  <2> QED
    BY <1>9, <2>1, <2>2, <2>3 DEF GuestHandshake
<1>10. CASE GuestProbeClosed(r.f, r.rest)
  BY <1>7, <1>10 DEF GuestProbeClosed
<1>11. CASE r.f.kind # "skipped" /\ GuestProbe(r.f, r.rest)
  <2>1. /\ GuestTakes(r.rest) /\ guest \in {"result", "chunk", "recv"}
        /\ guest' \in {"setup", "chunk", "recv"} /\ UNCHANGED <<pushed, host>>
    BY <1>2, <1>11 DEF GuestProbe, GuestAt
  <2>2. \/ measured' = measured
        \/ guest = "result" /\ r.f.kind = "SpeedResult" /\ measured' = r.f.n
    BY <1>11 DEF GuestProbe, GuestAt
  <2>3. guest = "result" /\ r.f.kind = "SpeedResult" => r.f.n \in {pushed, Garbage}
    BY <1>3, <1>11, Told DEF LineOK, LHears
  <2>4. ToHost(<<Frame("Pong")>>) \/ ToHost(<<Count("SpeedResult", gcount)>>) \/ up' = up
    BY <1>11 DEF GuestProbe
  <2>5. guest' \notin Early
    BY <2>1 DEF Early
  <2> QED
    BY <1>4, <1>6, <2>1, <2>2, <2>3, <2>4, <2>5, LGuestGoesOn
<1>12. CASE GuestPump(r.f, r.rest)
  <2>1. CASE GuestEnds("idle", << >>) \/ GuestEnds("idle", Bye)
    BY <1>7, <2>1
  <2>2. CASE /\ guest = "pump" /\ GuestTakes(r.rest) /\ UNCHANGED <<guest, gcount, pushed, measured>>
             /\ UNCHANGED up \/ ToHost(<<Frame("Pong")>>)
    BY <1>2, <1>4, <1>6, <2>2, LGuestGoesOn
  <2> QED
    BY <1>12, <2>1, <2>2 DEF GuestPump
<1> QED
  BY <1>1, <1>8, <1>9, <1>10, <1>11, <1>12

LEMMA LGuestSteps ==
  ASSUME GuestOK, WiresOK, LineOK, Line,
         GuestChunk \/ GuestDone \/ GuestSetUp \/ GuestPacket \/ GuestTick
  PROVE  LineOK'
<1>1. UNCHANGED <<host, down>> \/ \E last \in {<< >>, Bye} : GuestEnds("idle", last)
  BY DEF GuestChunk, GuestDone, GuestSetUp, GuestPacket, GuestTick, hvars, wires, bufs
<1>2. UNCHANGED host
  BY DEF GuestChunk, GuestDone, GuestSetUp, GuestPacket, GuestTick, hvars
<1>3. up \in Seq(Frames) /\ down \in Seq(Frames)
  BY DEF WiresOK, ChannelOK
<1>4. \A last \in {<< >>, Bye} : GuestEnds("idle", last) => LineOK'
  BY <1>2, <1>3, LGuestEnds
<1>5. /\ \A k \in {"SpeedChunk", "IpPacket", "Ping"} : Frame(k) \in Frames /\ Frame(k).kind = k
      /\ Count("SpeedDone", gcount) \in Frames /\ Count("SpeedDone", gcount).kind = "SpeedDone"
      /\ Count("SpeedDone", gcount).n = gcount
  BY FramesAre DEF FrameKinds, GuestOK
<1>6. ASSUME NEW k \in {"SpeedChunk", "IpPacket", "Ping"}, ToHost(<<Frame(k)>>) \/ up' = up
      PROVE  /\ Keeps(up', up, {"Hello", "SpeedDone"})
             /\ host = "closed" /\ up = << >> => up' = << >>
  BY <1>3, <1>5, <1>6, ToHostKeeps, SameKeeps
<1>7. CASE GuestChunk
  <2>1. /\ guest = "burst" /\ guest' = "burst" /\ gcount' = gcount + 1 /\ pushed' = gcount + 1
        /\ ToHost(<<Frame("SpeedChunk")>>) /\ UNCHANGED <<measured, down, host>>
    BY <1>2, <1>7 DEF GuestChunk
  <2>2. /\ Has(up', "Hello") => Has(up, "Hello")
        /\ Has(up', "SpeedDone") => Has(up, "SpeedDone")
        /\ host = "closed" /\ up = << >> => up' = << >>
    BY <1>6, <2>1 DEF Keeps
  <2>3. LQuiet' /\ LAsks'
    BY <2>1, <2>2 DEF LineOK, LQuiet, LAsks, GuestHolds
  <2>4. LPushes' /\ LHears'
    BY <2>1, <2>2 DEF LineOK, LPushes, LHears, Greeted
  <2>5. LKnows'
    BY <2>1 DEF LineOK, LKnows, Early
  <2> QED
    BY <2>3, <2>4, <2>5 DEF LineOK
<1>8. CASE GuestDone
  <2>1. /\ guest = "burst" /\ guest' = "result" /\ UNCHANGED <<pushed, measured, down, host>>
        /\ ToHost(<<Count("SpeedDone", gcount)>>)
    BY <1>2, <1>8 DEF GuestDone
  <2>2. gcount = pushed
    BY <2>1 DEF LineOK, LKnows, Early
  <2>3. /\ Keeps(up', up, {"Hello"}) /\ (host = "closed" => up' = up)
        /\ Numbers(up, "SpeedDone", pushed) => Numbers(up', "SpeedDone", pushed)
    BY <1>3, <1>5, <2>1, <2>2, ToHostKeeps
  <2>4. ~Has(up, "SpeedDone") => Numbers(up, "SpeedDone", pushed)
    BY DEF Has, Numbers
  <2>5. ~Has(down, "SpeedResult") => Numbers(down, "SpeedResult", pushed)
    BY DEF Has, Numbers
  <2>6. LQuiet' /\ LAsks'
    BY <2>1, <2>3 DEF LineOK, LQuiet, LAsks, GuestHolds, Keeps
  <2>7. LPushes' /\ LHears'
    BY <2>1, <2>3, <2>4, <2>5 DEF LineOK, LPushes, LHears, Greeted
  <2>8. LKnows'
    BY <2>1 DEF LineOK, LKnows, Early
  <2> QED
    BY <2>6, <2>7, <2>8 DEF LineOK
<1>9. ASSUME guest \in {"setup", "pump"}, guest' = "pump", UNCHANGED <<pushed, measured, down>>,
             NEW k \in {"SpeedChunk", "IpPacket", "Ping"}, ToHost(<<Frame(k)>>) \/ up' = up
      PROVE  LineOK'
  <2>1. Keeps(down', down, {"SpeedResult"})
    BY <1>3, <1>9, SameKeeps
  <2>2. Keeps(up', up, {"Hello", "SpeedDone"}) /\ (host = "closed" /\ up = << >> => up' = << >>)
    BY <1>6, <1>9
  <2>3. guest' \notin Early
    BY <1>9 DEF Early
  <2> QED
    BY <1>2, <1>9, <2>1, <2>2, <2>3, LGuestGoesOn
<1>10. CASE GuestSetUp
  BY <1>9, <1>10 DEF GuestSetUp, wires
<1>11. CASE GuestPacket
  <2>1. CASE ToHost(<<Frame("IpPacket")>>) /\ UNCHANGED <<gvars, down, bufs>>
    BY <1>9, <1>11, <2>1 DEF GuestPacket, gvars
  <2> QED
    BY <1>4, <1>11, <2>1 DEF GuestPacket
<1>12. CASE GuestTick
  <2>1. CASE ToHost(<<Frame("Ping")>>) /\ UNCHANGED <<guest, gcount, pushed, measured, down, bufs>>
    BY <1>9, <1>12, <2>1 DEF GuestTick
  <2> QED
    BY <1>4, <1>12, <2>1 DEF GuestTick
<1> QED
  BY <1>7, <1>8, <1>10, <1>11, <1>12

LEMMA LGuestLeaves ==
  ASSUME WiresOK, LineOK, Line, GuestTimeout \/ GuestGivesUp \/ GuestCrash \/ GuestStop
  PROVE  LineOK'
<1>1. UNCHANGED host
  BY DEF GuestTimeout, GuestGivesUp, GuestCrash, GuestStop, hvars
<1>2. up \in Seq(Frames) /\ down \in Seq(Frames)
  BY DEF WiresOK, ChannelOK
<1>3. CASE \E phase \in {"idle", "off"}, last \in {<< >>, Bye} : GuestEnds(phase, last)
  BY <1>1, <1>2, <1>3, LGuestEnds
<1>4. CASE /\ guest \in {"result", "chunk", "recv"} /\ GuestAt("setup") /\ UNCHANGED <<up, down>>
  <2>1. guest' = "setup" /\ UNCHANGED <<pushed, measured>> /\ guest' \notin Early
    BY <1>4 DEF GuestAt, Early
  <2>2. Keeps(down', down, {"SpeedResult"}) /\ Keeps(up', up, {"Hello", "SpeedDone"})
    BY <1>2, <1>4, SameKeeps
  <2> QED
    BY <1>1, <1>4, <2>1, <2>2, LGuestGoesOn
<1>5. CASE ~GuestHolds /\ GuestAt("off") /\ UNCHANGED wires
  <2>1. /\ guest \in {"idle", "off"} /\ guest' = "off"
        /\ UNCHANGED <<gcount, pushed, measured, up, down>>
    BY <1>5 DEF GuestAt, wires, GuestHolds
  <2>2. LQuiet' /\ LAsks'
    BY <1>1, <2>1 DEF LineOK, LQuiet, LAsks, GuestHolds
  <2>3. LPushes' /\ LHears' /\ LKnows'
    BY <1>1, <2>1 DEF LineOK, LPushes, LHears, LKnows, Greeted, Early
  <2> QED
    BY <2>2, <2>3 DEF LineOK
<1> QED
  BY <1>3, <1>4, <1>5 DEF GuestTimeout, GuestGivesUp, GuestCrash, GuestStop

\* A new attempt: whatever is left on the way to the host, nothing is on the
\* way to the guest.
LEMMA LGuestConnects ==
  ASSUME WiresOK, LineOK, Line, GuestConnect
  PROVE  LineOK'
<1>1. /\ guest = "idle" /\ guest' = "hello" /\ gcount' = 0 /\ pushed' = 0 /\ measured' = Nothing
      /\ ToHost(<<Frame("Hello")>>) /\ UNCHANGED <<host, down>>
  BY LineIs DEF GuestConnect, hvars
<1>2. up \in Seq(Frames) /\ down = << >>
  BY <1>1 DEF WiresOK, ChannelOK, LineOK, LQuiet, GuestHolds
<1>3. Frame("Hello") \in Frames /\ Frame("Hello").kind = "Hello"
  BY FramesAre DEF FrameKinds
<1>4. /\ host = "closed" => up' = up
      /\ After(up, Knock) => After(up', Knock)
      /\ ~Has(up, "Hello") => After(up', Knock)
  BY <1>1, <1>2, <1>3, ToHostKeeps DEF Knock
<1>5. ~Has(down', "Hello") /\ After(down', NoResult)
  BY <1>1, <1>2 DEF Has, After
<1>6. LQuiet'
  BY <1>1, <1>4 DEF LineOK, LQuiet, GuestHolds
<1>7. LAsks'
  BY <1>1, <1>4, <1>5 DEF LineOK, LAsks
<1>8. LPushes' /\ LHears' /\ LKnows'
  BY <1>1, <1>5 DEF LPushes, LHears, LKnows, Greeted, Early
<1> QED
  BY <1>6, <1>7, <1>8 DEF LineOK

-----------------------------------------------------------------------------
(* The host on a line. *)

\* The host goes on with what it has taken, and writes what holds no result.
LEMMA LHostTakes ==
  ASSUME WiresOK, LineOK, Line, UNCHANGED gvars, host \notin {"closed", "hello"},
         NEW r \in Taken(up), HostTakes(r.rest),
         down' = down \/ \E f \in Frames : f.kind \in {"Ping", "Pong"} /\ ToGuest(<<f>>),
         host' \notin {"closed", "hello"}, host' = "listen" => host = "listen",
         host' \in {"first", "recv"} => host \in {"first", "recv"}
  PROVE  LineOK'
<1>1. down \in Seq(Frames) /\ up \in Seq(Frames)
  BY DEF WiresOK, ChannelOK
<1>2. \A K : Keeps(up', up, K) /\ (After(up, K) => After(up', K))
  BY <1>1, UpTaken
<1>3. /\ Keeps(down', down, {"Hello", "SpeedResult"})
      /\ After(down, NoResult) => After(down', NoResult)
      /\ ~GuestHolds => down' = down
  <2>1. CASE down' = down
    BY <1>1, <2>1, SameKeeps
  <2>2. CASE \E f \in Frames : f.kind \in {"Ping", "Pong"} /\ ToGuest(<<f>>)
    BY <1>1, <2>2, ToGuestKeeps DEF NoResult, FrameKinds
  <2> QED
    BY <2>1, <2>2
<1> QED
  BY <1>2, <1>3, LHostGoesOn

\* A host with its own bursts, packets and answers.
LEMMA LHostWrites ==
  ASSUME WiresOK, LineOK, Line, UNCHANGED <<gvars, up>>, host \notin {"closed", "hello"},
         down' = down \/ \E f \in Frames : f.kind \notin {"Hello", "SpeedResult"} /\ ToGuest(<<f>>),
         host' \notin {"closed", "hello", "listen", "first", "recv"} \/ host' = host
  PROVE  LineOK'
<1>1. down \in Seq(Frames) /\ up \in Seq(Frames)
  BY DEF WiresOK, ChannelOK
<1>2. UNCHANGED gvars /\ Keeps(up', up, {"Hello", "SpeedDone"}) /\ (After(up, Knock) => After(up', Knock))
  BY <1>1, SameKeeps
<1>3. /\ Keeps(down', down, {"Hello", "SpeedResult"})
      /\ After(down, NoResult) => After(down', NoResult)
      /\ ~GuestHolds => down' = down
  <2>1. CASE down' = down
    BY <1>1, <2>1, SameKeeps
  <2>2. CASE \E f \in Frames : f.kind \notin {"Hello", "SpeedResult"} /\ ToGuest(<<f>>)
    <3>1. PICK f \in Frames : f.kind \notin {"Hello", "SpeedResult"} /\ ToGuest(<<f>>)
      BY <2>2
    <3>2. f.kind \in NoResult
      BY <3>1 DEF NoResult, Frames
    <3> QED
      BY <1>1, <3>1, <3>2, ToGuestKeeps
  <2> QED
    BY <2>1, <2>2
<1> QED
  BY <1>2, <1>3, LHostGoesOn

LEMMA LHostReads ==
  ASSUME HostOK, WiresOK, LineOK, Line, HostRead
  PROVE  LineOK'
<1>1. PICK r \in Taken(up) :
        \/ r.f.kind = "skipped" /\ HostTakes(r.rest) /\ UNCHANGED <<hvars, down, gbuf>>
        \/ /\ r.f.kind # "skipped"
           /\ \/ HostHandshake(r.f, r.rest)
              \/ HostProbe(r.f, r.rest)
              \/ host \in Pumping /\ Ingest(r.f, host) /\ HostTakes(r.rest) /\ UNCHANGED <<down, gbuf>>
  BY DEF HostRead
<1>2. /\ host \in HostReading /\ host \notin {"closed", "hello"} /\ UNCHANGED gvars
      /\ UNCHANGED <<guest, gcount, pushed, measured>> /\ (GuestHolds' <=> GuestHolds)
  BY DEF HostRead, HostReading, Pumping, gvars, LineOK, LQuiet, GuestHolds
<1>3. down \in Seq(Frames) /\ up \in Seq(Frames)
  BY DEF WiresOK, ChannelOK
<1>4. \A last \in {<< >>, Bye} : HostEnds(last) => LineOK'
  BY <1>2, <1>3, LHostEnds
<1>5. ASSUME HostTakes(r.rest), host' = host, UNCHANGED down
      PROVE  LineOK'
  BY <1>2, <1>5, LHostTakes
<1>6. CASE HostTakes(r.rest) /\ UNCHANGED <<hvars, down, gbuf>>
  BY <1>5, <1>6 DEF hvars
<1>7. CASE r.f.kind # "skipped" /\ HostHandshake(r.f, r.rest)
  <2>1. CASE host = "listen" /\ r.f.kind = "Hello" /\ HostGreets(r.rest)
    <3>1. /\ host' = "first" /\ HostTakes(r.rest) /\ up' = r.rest
          /\ ToGuest(<<Frame("Hello"), Frame("Config")>>)
      BY <2>1 DEF HostGreets, HostAt, HostTakes
    <3>2. /\ guest \in {"idle", "off", "hello"} /\ ~Has(down, "Hello")
          /\ \A i \in 1 .. Len(up') : up'[i].kind \in Knock
      <4>1. Has(up, "Hello")
        BY <1>3, <1>7, <2>1, Told
      <4>2. After(up, Knock)
        BY <2>1, <4>1 DEF LineOK, LAsks
      <4> QED
        BY <1>3, <1>7, <2>1, <3>1, <4>1, <4>2, Told DEF LineOK, LAsks
    <3>3. ~Has(up', "SpeedDone")
      BY <3>2 DEF Has, Knock
    <3>4. (~GuestHolds => down' = down) /\ After(down', NoResult)
      <4>1. /\ Frame("Hello") \in Frames /\ Frame("Config") \in Frames
            /\ Frame("Hello").kind = "Hello" /\ Frame("Config").kind = "Config"
        BY FramesAre DEF FrameKinds
      <4>2. After(down, NoResult)
        BY <3>2 DEF Has, After
      <4>3. CASE GuestHolds
        <5>1. PICK s : s = down \o <<Frame("Hello")>>
          OBVIOUS
        <5>2. s \in Seq(Frames) /\ After(s, NoResult)
          <6>1. \A K : After(down, K) /\ (Frame("Hello").kind \in K \/ ~Has(down, "Hello")) => After(s, K)
            BY <1>3, <4>1, <5>1, Appended
          <6>2. After(s, NoResult)
            BY <3>2, <4>2, <6>1
          <6>3. s \in Seq(Frames)
            BY <1>3, <4>1, <5>1
          <6> QED
            BY <6>2, <6>3
        <5>3. down' = s \o <<Frame("Config")>>
          <6>1. down' = down \o <<Frame("Hello"), Frame("Config")>>
            BY <3>1, <4>3 DEF ToGuest
          <6>2. down \o <<Frame("Hello"), Frame("Config")>>
                  = (down \o <<Frame("Hello")>>) \o <<Frame("Config")>>
            BY <1>3, <4>1
          <6> QED
            BY <5>1, <6>1, <6>2
        <5>4. Frame("Config").kind \in NoResult
          BY <4>1 DEF NoResult, FrameKinds
        <5> QED
          BY <4>1, <4>3, <5>2, <5>3, <5>4, Appended
      <4>4. CASE ~GuestHolds
        BY <3>1, <4>2, <4>4, LineIs DEF ToGuest
      <4> QED
        BY <4>3, <4>4
    <3>5. LQuiet' /\ LAsks'
      BY <1>2, <3>1, <3>4 DEF LineOK, LQuiet, LAsks
    <3>6. LPushes' /\ LHears'
      BY <1>2, <3>2, <3>3, <3>4 DEF LPushes, LHears, Greeted
    <3>7. LKnows'
      BY <1>2 DEF LineOK, LKnows
    <3> QED
      BY <3>5, <3>6, <3>7 DEF LineOK
  <2>2. CASE HostAt("listen") /\ host = "listen" /\ HostTakes(r.rest) /\ UNCHANGED <<down, gbuf>>
    BY <1>5, <2>2 DEF HostAt
  <2> QED
    BY <1>2, <1>7, <2>1, <2>2 DEF HostHandshake
<1>8. CASE r.f.kind # "skipped" /\ HostBurst(r.f, r.rest)
  <2>1. /\ host = "recv" /\ host' = "send" /\ r.f.kind = "SpeedDone" /\ r.f.n = hcount
        /\ ToGuest(<<Count("SpeedResult", hcount)>>)
    BY <1>8 DEF HostBurst
  <2>2. /\ Count("SpeedResult", hcount) \in Frames /\ hcount \in Nat
        /\ Count("SpeedResult", hcount).kind = "SpeedResult" /\ Count("SpeedResult", hcount).n = hcount
    BY FramesAre, Bounds DEF FrameKinds, HostOK
  <2>3. Has(up, "SpeedDone") /\ (Numbers(up, "SpeedDone", pushed) => hcount \in {pushed, Garbage})
    BY <1>3, <1>8, <2>1, Told
  <2>4. hcount # Garbage
    BY <2>2 DEF Garbage
  <2>5. guest \notin {"config", "burst"} /\ (guest = "hello" => ~Has(down, "Hello"))
    BY <2>1, <2>3 DEF LineOK, LPushes, Greeted
  <2>6. guest = "result" => hcount = pushed
    BY <2>1, <2>3, <2>4 DEF LineOK, LPushes, Greeted
  <2>7. /\ ~GuestHolds => down' = down
        /\ ~Has(down, "Hello") => After(down', NoResult)
        /\ Numbers(down, "SpeedResult", hcount) => Numbers(down', "SpeedResult", hcount)
    BY <1>3, <2>1, <2>2, ToGuestKeeps
  <2>8. LQuiet' /\ LAsks' /\ LPushes'
    BY <1>2, <2>1, <2>7 DEF LineOK, LQuiet, LAsks, LPushes
  <2>9. LHears'
    BY <1>2, <2>5, <2>6, <2>7 DEF LineOK, LHears
  <2>10. LKnows'
    BY <1>2 DEF LineOK, LKnows
  <2> QED
    BY <2>8, <2>9, <2>10 DEF LineOK
<1>9. CASE HostProbe(r.f, r.rest) /\ ~HostBurst(r.f, r.rest)
  <2>1. CASE HostEnds(<< >>)
    BY <1>4, <2>1
  <2>2. CASE Ingest(r.f, "opened") /\ HostTakes(r.rest) /\ UNCHANGED <<down, gbuf>>
    <3>1. host' \in {"closing", "opened"}
      BY <2>2, IngestOK DEF HostPhases, HostReading, Pumping
    <3> QED
      BY <1>2, <2>2, <3>1, LHostTakes
  <2>3. CASE /\ HostTakes(r.rest) /\ ((host' = "recv" /\ host \in {"first", "recv"}) \/ host' = "opened")
             /\ UNCHANGED down \/ ToGuest(<<Frame("Pong")>>)
    <3>1. Frame("Pong") \in Frames /\ Frame("Pong").kind = "Pong"
      BY FramesAre DEF FrameKinds
    <3> QED
      BY <1>2, <2>3, <3>1, LHostTakes
  <2>4. CASE host = "first"
    BY <1>9, <2>1, <2>2, <2>3, <2>4 DEF HostProbe
  <2>5. CASE host = "recv"
    BY <1>9, <2>1, <2>3, <2>5 DEF HostProbe
  <2>6. CASE host = "result"
    BY <1>9, <2>1, <2>3, <2>6 DEF HostProbe
  <2> QED
    BY <1>9, <2>4, <2>5, <2>6 DEF HostProbe
<1>10. CASE host \in Pumping /\ Ingest(r.f, host) /\ HostTakes(r.rest) /\ UNCHANGED <<down, gbuf>>
  <2>1. host' \in {"closing", host} /\ host \in {"opened", "pump"}
    BY <1>10, IngestOK DEF HostPhases, HostReading, Pumping
  <2> QED
    BY <1>2, <1>10, <2>1, LHostTakes
<1> QED
  BY <1>1, <1>6, <1>7, <1>8, <1>9, <1>10

LEMMA LHostSteps ==
  ASSUME HostOK, WiresOK, LineOK, Line,
         HostOpen \/ HostChunk \/ HostDone \/ HostWrite \/ HostPacket \/ HostClosed
         \/ HostTimers \/ HostCrash
  PROVE  LineOK'
<1>1. UNCHANGED gvars
  BY DEF HostOpen, HostChunk, HostDone, HostWrite, HostPacket, HostClosed, HostTimers,
         HostTimeout, HostTick, HostCrash
<1>2. down \in Seq(Frames) /\ up \in Seq(Frames)
  BY DEF WiresOK, ChannelOK
<1>3. CASE \E last \in {<< >>, Bye} : HostEnds(last)
  BY <1>1, <1>2, <1>3, LHostEnds
<1>4. /\ \A k \in {"SpeedChunk", "IpPacket"} : Frame(k) \in Frames /\ Frame(k).kind = k
      /\ Count("SpeedDone", hcount) \in Frames /\ Count("SpeedDone", hcount).kind = "SpeedDone"
  BY FramesAre DEF FrameKinds, HostOK
<1>5. CASE HostOpen
  <2>1. /\ host = "closed" /\ host' = "listen" /\ UNCHANGED <<up, down>>
        /\ UNCHANGED <<guest, gcount, pushed, measured>> /\ (GuestHolds' <=> GuestHolds)
    BY <1>1, <1>5 DEF HostOpen, HostAt, wires, gvars, GuestHolds
  <2>2. ~Has(up', "Hello")
    BY <2>1 DEF LineOK, LQuiet, Has
  <2>3. LQuiet' /\ LAsks' /\ LPushes'
    BY <2>1, <2>2 DEF LineOK, LQuiet, LAsks, LPushes
  <2>4. LHears' /\ LKnows'
    BY <2>1 DEF LineOK, LHears, LKnows
  <2> QED
    BY <2>3, <2>4 DEF LineOK
<1>6. CASE HostChunk \/ HostDone
  <2>1. /\ host = "send" /\ host' \in {"send", "result"} /\ UNCHANGED <<gvars, up>>
        /\ ToGuest(<<Frame("SpeedChunk")>>) \/ ToGuest(<<Count("SpeedDone", hcount)>>)
    BY <1>1, <1>6 DEF HostChunk, HostDone
  <2> QED
    BY <1>4, <2>1, LHostWrites
<1>7. CASE HostWrite
  <2>1. /\ host \in {"opened", "pump", "closing"} /\ host' = host /\ UNCHANGED <<gvars, up>>
        /\ ToGuest(<<Head(ctrl)>>) /\ ctrl # << >>
    BY <1>1, <1>7 DEF HostWrite, Pumping
  <2>2. Head(ctrl) \in Answers
    BY <2>1 DEF HostOK
  <2>3. Head(ctrl) \in Frames /\ Head(ctrl).kind \in {"Bye", "Ping", "Pong"}
    BY <2>2, FramesAre DEF Answers, FrameKinds
  <2> QED
    BY <2>1, <2>3, LHostWrites
<1>8. CASE HostPacket
  <2>1. /\ host \in {"opened", "pump"} /\ host' = host /\ UNCHANGED <<gvars, up>>
        /\ ToGuest(<<Frame("IpPacket")>>)
    BY <1>1, <1>8 DEF HostPacket, Pumping, hvars
  <2> QED
    BY <1>4, <2>1, LHostWrites
<1>9. CASE HostClosed \/ HostCrash
  BY <1>3, <1>9 DEF HostClosed, HostCrash
<1>10. CASE HostTimeout
  <2>1. CASE host = "first" /\ HostAt("opened") /\ UNCHANGED wires
    <3>1. host' = "opened" /\ UNCHANGED <<gvars, up>> /\ down' = down
      BY <1>1, <2>1 DEF HostAt, wires
    <3> QED
      BY <2>1, <3>1, LHostWrites
  <2> QED
    BY <1>3, <1>10, <2>1 DEF HostTimeout
<1>11. CASE HostTick
  <2>1. /\ host \in {"opened", "pump"} /\ host' \in {"closing", "pump"} /\ UNCHANGED <<gvars, up>>
        /\ down' = down
    BY <1>1, <1>11 DEF HostTick, TearDown, wires
  <2> QED
    BY <2>1, LHostWrites
<1> QED
  BY <1>5, <1>6, <1>7, <1>8, <1>9, <1>10, <1>11 DEF HostTimers

\* Bytes that are lost bring nothing new.
LEMMA LTear ==
  ASSUME WiresOK, LineOK, Line, Tear
  PROVE  LineOK'
<1>1. UNCHANGED gvars /\ host' = host
  BY DEF Tear, hvars
<1>2. /\ up \in Seq(Frames) /\ hbuf \in 0 .. Len(up)
      /\ down \in Seq(Frames) /\ gbuf \in 0 .. Len(down)
  BY DEF WiresOK, ChannelOK
<1>3. Thinned(up', up) /\ Thinned(down', down)
  BY <1>2, TornThinned, SameThinned DEF Tear
<1>4. /\ \A K : Keeps(up', up, K) /\ (After(up, K) => After(up', K))
      /\ \A K : Keeps(down', down, K) /\ (After(down, K) => After(down', K))
      /\ (up = << >> => up' = << >>) /\ (down = << >> => down' = << >>)
  BY <1>2, <1>3, ThinnedKeeps
<1>5. host' # "hello"
  BY <1>1 DEF LineOK, LQuiet
<1> QED
  BY <1>1, <1>4, <1>5, LHostGoesOn

LEMMA LineStep ==
  ASSUME TInv, Line => LineOK, [Next]_vars
  PROVE  (Line => LineOK)'
<1> SUFFICES ASSUME Line PROVE LineOK'
  BY KindIsKept DEF Line
<1>1. GuestOK /\ HostOK /\ WiresOK /\ LineOK
  BY DEF TInv
<1>2. CASE UNCHANGED vars
  <2>1. UNCHANGED <<guest, host, gcount, pushed, measured, up, down>>
    BY <1>2 DEF vars, gvars, hvars, wires
  <2>2. (GuestHolds' <=> GuestHolds) /\ (Greeted' <=> Greeted)
    BY <2>1 DEF GuestHolds, Greeted
  <2> QED
    BY <1>1, <2>1, <2>2 DEF LineOK, LQuiet, LAsks, LPushes, LHears, LKnows
<1> QED
  BY <1>1, <1>2, LGuestReads, LGuestSteps, LGuestLeaves, LGuestConnects, LHostReads, LHostSteps, LTear
     DEF Next, GuestSteps, GuestTimers, HostSteps

\* Over TCP and on a serial line, whatever is lost, torn or late: what the
\* guest reports as its upload is what it pushed in this attempt (or foreign
\* bytes, when the frame with the result was torn on a line), never the
\* result of an earlier attempt whose frames are still under way, although
\* the guest itself does not compare (speed.rs:207-284).  Of a port that
\* keeps what it is sent while it is closed the property says nothing.
THEOREM SpeedIsOwn == Spec => []SpeedIsOfThisAttempt
<1> DEFINE I == TInv /\ (Line => LineOK)
<1>1. Init => I
  <2> SUFFICES ASSUME Init PROVE LineOK
    BY TypeInit
  <2>1. /\ guest = "idle" /\ host = "listen" /\ up = << >> /\ down = << >>
        /\ measured = Nothing
    BY DEF Init
  <2>2. ~Has(up, "Hello")
    BY <2>1 DEF Has
  <2> QED
    BY <2>1, <2>2 DEF LineOK, LQuiet, LAsks, LPushes, LHears, LKnows, Greeted, Early
<1>2. I /\ [Next]_vars => I'
  BY TypeStep, LineStep
<1>3. I => SpeedIsOfThisAttempt
  <2> SUFFICES ASSUME I, ~Sticky PROVE measured \in {Nothing, Garbage, pushed}
    BY DEF SpeedIsOfThisAttempt
  <2>1. Tcp \/ Line
    BY KindsAssumption DEF TInv, BoundsOK, LinkKinds, Sticky, Tcp, Line
  <2> QED
    BY <2>1 DEF TInv, SInv, LineOK, LKnows
<1> QED
  BY <1>1, <1>2, <1>3, PTL DEF Spec
=============================================================================
