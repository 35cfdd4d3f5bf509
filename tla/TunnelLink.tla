----------------------------- MODULE TunnelLink -----------------------------
(***************************************************************************)
(* One guest and one host at the two ends of a link: the handshake, the    *)
(* link-capacity probe with its independent timeouts, the frame pumps with *)
(* their two keep-alives, Bye, and the frames on the wire between them     *)
(* (crates/netm-guest/src/guest.rs, crates/netm-host/src/{session,lib}.rs, *)
(* crates/netm-proto/src/{speed,frame}.rs).                                *)
(*                                                                         *)
(* The link is TCP (a connection of its own per attempt, which reports its *)
(* end) or a serial port (one stream of bytes for ever, in which nothing   *)
(* marks the end of a session and bytes can be lost).  GuestTunnel and     *)
(* HostSession model what each side does with its user interface, its      *)
(* devices and its other peers; here both see every frame of the other.    *)
(*                                                                         *)
(* Time: a timer is due when its owner has nothing to read and the other   *)
(* side will send nothing before hearing from it.  A timer that fires      *)
(* although an answer was under way is a fault, of which a behaviour has   *)
(* finitely many.                                                          *)
(***************************************************************************)
EXTENDS Integers, Sequences

CONSTANTS
  Kinds,      \* the kinds of link to consider, of LinkKinds
  Cap,        \* frames a link (socket buffers, tty) holds in one direction
  CtrlCap,    \* capacity of the host's control queue (64 in `pump`)
  MaxBytes,   \* Params.max_bytes, in chunks
  MaxMissed,  \* MAX_MISSED_PINGS; the guest's keepalive_timeout in its ticks
  MaxFaults,  \* bound: crashes, torn frames and premature timers
  MaxPackets  \* bound: packets sent while in the pumps

\* What comes for a closed port is lost ("serial": a UART), or kept, and the
\* writer waits when it is full ("sticky": a pseudo-terminal, CDC-ACM).
LinkKinds == {"tcp", "serial", "sticky"}

ASSUME KindsAssumption  == Kinds \subseteq LinkKinds
ASSUME BoundsAssumption ==
  /\ Cap \in Nat /\ Cap >= 3
  /\ {CtrlCap, MaxBytes, MaxMissed} \subseteq Nat \ {0}
  /\ {MaxFaults, MaxPackets} \subseteq Nat

VARIABLES
  kind,     \* the kind of this link
  guest,    \* where the guest is
  gcount,   \* chunks of the guest's present burst, sent or received
  silent,   \* the guest's ticks since it last received a frame (last_rx)
  pushed,   \* history: chunks the guest pushed in this attempt
  measured, \* history: what the guest reported of its push, or Nothing
  host,     \* where the host is
  hcount,   \* chunks of the host's present burst, sent or received
  missed,   \* the host's missed_pings
  ctrl,     \* the host's control queue, drained by writer_loop
  up,       \* frames on their way to the host
  down,     \* frames on their way to the guest
  hbuf,     \* how many frames of up are in the host's read buffer already
  gbuf,     \* how many frames of down are in the guest's read buffer
  faults,   \* faults left
  packets   \* packets left

gvars == <<guest, gcount, silent, pushed, measured>>
hvars == <<host, hcount, missed, ctrl>>
bufs  == <<hbuf, gbuf>>
wires == <<up, down, bufs>>
vars  == <<kind, gvars, hvars, wires, faults, packets>>

(***************************************************************************)
(* The guest: "idle" between two attempts, "hello" and "config" in the     *)
(* handshake, "burst" while it pushes, "result", "chunk" and "recv" while  *)
(* it reads in run_as_initiator, "setup" while TUN and platform are set up *)
(* (nothing is read), "pump", and "off" once stopped for good.             *)
(* The host: "closed" while the serial port is closed, "listen" in accept  *)
(* or wait_for_hello, "hello" in the handshake of a TCP connection,        *)
(* "first", "recv", "send" and "result" in run_as_responder, "opened" in   *)
(* the pump before its first tick, "pump", and "closing" while the         *)
(* teardown waits for the writer.                                          *)
(***************************************************************************)
GuestReading == {"hello", "config", "result", "chunk", "recv", "pump"}
GuestPhases  == GuestReading \cup {"idle", "burst", "setup", "off"}
Pumping      == {"opened", "pump"}
HostReading  == Pumping \cup {"listen", "hello", "first", "recv", "result"}
HostPhases   == HostReading \cup {"closed", "send", "closing"}

Nothing == -1  \* no value
Garbage == -2  \* the value read from a body of foreign bytes

FrameKinds == {"Hello", "Config", "IpPacket", "Ping", "Pong", "Bye",
               "SpeedChunk", "SpeedDone", "SpeedResult", "Eof"}

\* n is the number SpeedDone and SpeedResult carry.  cut is the number of
\* frames that follow whose bytes a torn frame's length field still claims.
\* "Eof" is the end of a TCP stream.
Frame(k)     == [kind |-> k, n |-> Nothing, cut |-> 0]
Count(k, n)  == [kind |-> k, n |-> n, cut |-> 0]
Frames       == [kind : FrameKinds, n : (0 .. MaxBytes) \cup {Nothing, Garbage},
                 cut : 0 .. 2]

TypeOK ==
  /\ kind \in Kinds
  /\ guest \in GuestPhases
  /\ gcount \in 0 .. MaxBytes
  /\ silent \in 0 .. MaxMissed
  /\ pushed \in 0 .. MaxBytes
  /\ measured \in (0 .. MaxBytes) \cup {Nothing, Garbage}
  /\ host \in HostPhases
  /\ hcount \in 0 .. MaxBytes
  /\ missed \in 0 .. MaxMissed
  /\ ctrl \in Seq(Frames) /\ Len(ctrl) <= CtrlCap
  /\ up \in Seq(Frames) /\ Len(up) <= Cap + 1
  /\ down \in Seq(Frames) /\ Len(down) <= Cap + 1
  /\ hbuf \in 0 .. Len(up) /\ gbuf \in 0 .. Len(down)
  /\ faults \in 0 .. MaxFaults
  /\ packets \in 0 .. MaxPackets

Init ==
  /\ kind \in Kinds
  /\ guest = "idle" /\ gcount = 0 /\ silent = 0
  /\ pushed = 0 /\ measured = Nothing
  /\ host = "listen" /\ hcount = 0 /\ missed = 0 /\ ctrl = << >>
  /\ up = << >> /\ down = << >> /\ hbuf = 0 /\ gbuf = 0
  /\ faults = MaxFaults /\ packets = MaxPackets

-----------------------------------------------------------------------------
(* The wire *)

Serial == kind # "tcp"
Sticky == kind = "sticky"

\* The decoder has a whole frame.  A torn one is whole once the bytes of the
\* frames behind it have filled its length.
Readable(ch) == ch # << >> /\ Len(ch) > Head(ch).cut

\* SyncFrameCodec::decode (FrameCodec::decode where nothing is torn): the
\* frame the reader gets and what remains of ch.  A torn frame swallows the
\* bytes its length claims; the junk left of a frame claimed in part is
\* skipped up to the next magic.  Raw payloads and numbers accept any bytes,
\* Hello and Config may not parse: then the frame is "skipped".
Taken(ch) ==
  IF ~Readable(ch) THEN {} ELSE
  LET h    == Head(ch)
      n    == IF h.cut > 0 /\ h.n # Nothing THEN Garbage ELSE h.n
      rest == SubSeq(ch, 2 + h.cut, Len(ch))
  IN {[f |-> [h EXCEPT !.cut = 0, !.n = n], rest |-> rest]}
     \cup {[f |-> Frame("skipped"), rest |-> rest] :
             x \in {y \in {h} : y.cut > 0 /\ y.kind \in {"Hello", "Config"}}}

\* The link takes k more frames; what waits for the rest of a torn frame is
\* in the reader's buffer already.
Fits(ch, k) == Readable(ch) => Len(ch) + k <= Cap
Room(ch)    == Fits(ch, 1)

\* How much of ch a reader has in its buffer: a read takes all that is there,
\* and the reader reads when its buffer holds no whole frame.
Buffered(ch, buf, reading) ==
  IF reading /\ ~Readable(SubSeq(ch, 1, buf)) THEN Len(ch) ELSE buf
HBuffered == Buffered(up, hbuf, host \in HostReading)
GBuffered == Buffered(down, gbuf, guest \in GuestReading)

\* A step takes frames up to rest from the link.
HostTakes(rest)  == up' = rest /\ hbuf' = HBuffered - (Len(up) - Len(rest))
GuestTakes(rest) == down' = rest /\ gbuf' = GBuffered - (Len(down) - Len(rest))

GuestHolds == guest \notin {"idle", "off"}            \* has the link open
HostHolds  == IF Serial THEN host # "closed" ELSE host # "listen"

\* Bytes to a closed end go nowhere, unless the port keeps them.
ToHost(fs)  == up' = IF Sticky \/ HostHolds THEN up \o fs ELSE up
ToGuest(fs) == down' = IF Sticky \/ GuestHolds THEN down \o fs ELSE down

\* What an end sends last: what it still hands over (a Bye or nothing), if it
\* fits, and over TCP the end of the stream.  What a closed end has not read
\* is lost, but for what a sticky port keeps.
Last(ch, fs) ==
  (IF Room(ch) THEN ch \o fs ELSE ch) \o (IF Serial THEN << >> ELSE <<Frame("Eof")>>)
Left(ch, buffered) == IF Sticky THEN SubSeq(ch, buffered + 1, Len(ch)) ELSE << >>

GuestCloses(fs) ==
  /\ up' = IF Sticky \/ HostHolds THEN Last(up, fs) ELSE << >>
  /\ down' = Left(down, GBuffered)
  /\ gbuf' = 0 /\ UNCHANGED hbuf

HostCloses(fs) ==
  /\ down' = IF Sticky \/ GuestHolds THEN Last(down, fs) ELSE << >>
  /\ up' = Left(up, HBuffered)
  /\ hbuf' = 0 /\ UNCHANGED gbuf

-----------------------------------------------------------------------------
(* The guest *)

GuestAt(phase) == guest' = phase /\ UNCHANGED <<gcount, silent, pushed, measured>>

\* The attempt or the session is over; serve drops the link.
GuestEnds(phase, last) ==
  /\ guest' = phase /\ gcount' = 0 /\ silent' = 0
  /\ GuestCloses(last)
  /\ UNCHANGED <<pushed, measured>>

Bye == <<Frame("Bye")>>

\* `handshake`: Hello, then Config; any other frame fails the attempt, with
\* no Bye.
GuestHandshake(f, rest) ==
  LET expected == IF guest = "hello" THEN "Hello" ELSE "Config"
      next     == IF guest = "hello" THEN "config" ELSE "burst"
  IN /\ guest \in {"hello", "config"}
     /\ \/ f.kind = expected /\ GuestAt(next) /\ GuestTakes(rest) /\ UNCHANGED <<up, hbuf>>
        \/ f.kind # expected /\ GuestEnds("idle", << >>)

\* send_burst: one chunk, then more or SpeedDone, as budget and size allow.
GuestChunk ==
  /\ guest = "burst" /\ gcount < MaxBytes /\ Room(up)
  /\ ToHost(<<Frame("SpeedChunk")>>)
  /\ gcount' = gcount + 1 /\ pushed' = gcount + 1
  /\ UNCHANGED <<kind, guest, silent, measured, hvars, down, bufs, faults, packets>>

GuestDone ==
  /\ guest = "burst" /\ gcount > 0 /\ Room(up)
  /\ ToHost(<<Count("SpeedDone", gcount)>>)
  /\ guest' = "result" /\ gcount' = 0
  /\ UNCHANGED <<kind, silent, pushed, measured, hvars, down, bufs, faults, packets>>

\* next_frame: Bye and the end of the stream close the link for the probe,
\* and `serve` gives the attempt up.
GuestProbeClosed(f, rest) ==
  /\ guest \in {"result", "chunk", "recv"} /\ f.kind \in {"Bye", "Eof"}
  /\ GuestEnds("idle", << >>)

\* run_as_initiator: the host's result, its burst, the result of that.  Any
\* other error skips the probe and the tunnel comes up without it.
GuestProbe(f, rest) ==
  LET skip == GuestAt("setup") /\ UNCHANGED up
      more == gcount + 1 <= MaxBytes
  IN /\ f.kind \notin {"Bye", "Eof"}
     /\ GuestTakes(rest) /\ UNCHANGED hbuf
     /\ \/ /\ guest = "result"
           /\ \/ /\ f.kind = "SpeedResult"
                 /\ guest' = "chunk" /\ measured' = f.n
                 /\ UNCHANGED <<gcount, silent, pushed, up>>
              \/ f.kind # "SpeedResult" /\ skip
        \/ /\ guest = "chunk"
           /\ \/ /\ f.kind \in {"SpeedChunk", "SpeedDone"}
                 /\ guest' = "recv" /\ gcount' = IF f.kind = "SpeedChunk" THEN 1 ELSE 0
                 /\ UNCHANGED <<silent, pushed, measured, up>>
              \/ f.kind \notin {"SpeedChunk", "SpeedDone"} /\ skip
        \/ /\ guest = "recv"
           /\ \/ /\ f.kind = "SpeedChunk" /\ more
                 /\ gcount' = gcount + 1 /\ UNCHANGED <<guest, silent, pushed, measured, up>>
              \/ /\ f.kind = "SpeedDone" /\ f.n = gcount /\ Room(up)
                 /\ ToHost(<<Count("SpeedResult", gcount)>>) /\ GuestAt("setup")
              \/ /\ f.kind = "Ping" /\ Room(up)
                 /\ ToHost(<<Frame("Pong")>>) /\ GuestAt("recv")
              \/ f.kind = "Pong" /\ GuestAt("recv") /\ UNCHANGED up
              \/ f.kind = "SpeedChunk" /\ ~more /\ skip
              \/ f.kind = "SpeedDone" /\ f.n # gcount /\ skip
              \/ f.kind \in {"Hello", "Config", "IpPacket", "SpeedResult"} /\ skip

\* TUN and platform are set up.
GuestSetUp ==
  /\ guest = "setup"
  /\ guest' = "pump" /\ gcount' = 0 /\ silent' = 0
  /\ UNCHANGED <<kind, pushed, measured, hvars, wires, faults, packets>>

\* `pump` reads: every frame is a sign of life; Ping is answered (in
\* send_timeout, or the session is lost), Bye and the end of the stream end it.
GuestPump(f, rest) ==
  /\ guest = "pump"
  /\ \/ f.kind \in {"Bye", "Eof"} /\ GuestEnds("idle", << >>)
     \/ f.kind = "Ping" /\ ~Room(up) /\ GuestEnds("idle", Bye)
     \/ /\ f.kind \notin {"Bye", "Eof"} /\ (f.kind = "Ping" => Room(up))
        /\ silent' = 0 /\ GuestTakes(rest) /\ UNCHANGED hbuf
        /\ IF f.kind = "Ping" THEN ToHost(<<Frame("Pong")>>) ELSE UNCHANGED up
        /\ UNCHANGED <<guest, gcount, pushed, measured>>

\* The guest takes the next frame.  The decoder goes on by itself after one
\* it skips.
GuestRead ==
  /\ guest \in GuestReading
  /\ \E r \in Taken(down) :
       \/ r.f.kind = "skipped" /\ GuestTakes(r.rest) /\ UNCHANGED <<gvars, up, hbuf>>
       \/ /\ r.f.kind # "skipped"
          /\ \/ GuestHandshake(r.f, r.rest)
             \/ GuestProbeClosed(r.f, r.rest)
             \/ GuestProbe(r.f, r.rest)
             \/ GuestPump(r.f, r.rest)
  /\ UNCHANGED <<kind, hvars, faults, packets>>

\* A packet from the TUN; send_timeout ends the session when it is stuck.
GuestPacket ==
  /\ guest = "pump" /\ packets > 0 /\ packets' = packets - 1
  /\ IF Room(up)
     THEN ToHost(<<Frame("IpPacket")>>) /\ UNCHANGED <<gvars, down, bufs>>
     ELSE GuestEnds("idle", Bye)
  /\ UNCHANGED <<kind, hvars, faults>>


-----------------------------------------------------------------------------
(* The host *)

HostAt(phase) == host' = phase /\ UNCHANGED <<hcount, missed, ctrl>>

\* The session is over: accept the next connection, or close the port.
HostEnds(last) ==
  /\ host' = IF Serial THEN "closed" ELSE "listen"
  /\ hcount' = 0 /\ missed' = 0 /\ ctrl' = << >>
  /\ HostCloses(last)

\* The port is opened again.
HostOpen ==
  /\ host = "closed"
  /\ HostAt("listen")
  /\ UNCHANGED <<kind, gvars, wires, faults, packets>>

\* hello_reply: Hello and Config, and the wait for the probe begins.
HostGreets(rest) ==
  /\ Fits(down, 2)
  /\ ToGuest(<<Frame("Hello"), Frame("Config")>>)
  /\ HostAt("first") /\ HostTakes(rest) /\ UNCHANGED gbuf

\* wait_for_hello ignores every other frame, `handshake` (TCP) refuses it.
HostHandshake(f, rest) ==
  \/ host \in {"listen", "hello"} /\ f.kind = "Hello" /\ HostGreets(rest)
  \/ host = "listen" /\ f.kind # "Hello" /\ HostAt("listen") /\ HostTakes(rest) /\ UNCHANGED <<down, gbuf>>
  \/ host = "hello" /\ f.kind # "Hello" /\ HostEnds(Bye)

\* Mutant: an unbounded control queue.
QueueUnbounded(fs) == ctrl \o fs

\* A frame handed to the control queue, which drops it when full.
Queue(fs) == IF Len(ctrl) + Len(fs) <= CtrlCap THEN ctrl \o fs ELSE ctrl

\* The pump's teardown: Bye goes to the writer, which gets a second.
TearDown == host' = "closing" /\ hcount' = 0 /\ missed' = 0 /\ ctrl' = Queue(Bye)

\* Mutant: only a Ping of our own tells that the guest is there.
IngestDeafToPong(f, phase) ==
  \/ f.kind \in {"Bye", "Hello", "Eof"} /\ TearDown
  \/ f.kind = "Ping" /\ host' = phase /\ ctrl' = Queue(<<Frame("Pong")>>) /\ UNCHANGED <<hcount, missed>>
  \/ f.kind \notin {"Bye", "Hello", "Eof", "Ping"} /\ host' = phase /\ UNCHANGED <<hcount, missed, ctrl>>

\* ingest_frame, in the pump or about to be: Bye, a new Hello and the end of
\* the stream end the session, Ping is answered, Pong clears missed_pings.
Ingest(f, phase) ==
  \/ f.kind \in {"Bye", "Hello", "Eof"} /\ TearDown
  \/ f.kind = "Ping" /\ host' = phase /\ ctrl' = Queue(<<Frame("Pong")>>) /\ UNCHANGED <<hcount, missed>>
  \/ f.kind = "Pong" /\ host' = phase /\ missed' = 0 /\ UNCHANGED <<hcount, ctrl>>
  \/ /\ f.kind \notin {"Bye", "Hello", "Eof", "Ping", "Pong"}
     /\ host' = phase /\ UNCHANGED <<hcount, missed, ctrl>>

\* Mutant: the announced number of bytes is not compared.
HostBurstTrusting(f, rest) ==
  /\ host = "recv" /\ f.kind = "SpeedDone" /\ Room(down)
  /\ ToGuest(<<Count("SpeedResult", hcount)>>)
  /\ host' = "send" /\ hcount' = 0 /\ HostTakes(rest)
  /\ UNCHANGED <<missed, ctrl, gbuf>>

\* recv_burst took in exactly what was announced: the result goes out and
\* the host's own burst begins.
HostBurst(f, rest) ==
  /\ host = "recv" /\ f.kind = "SpeedDone" /\ f.n = hcount /\ Room(down)
  /\ ToGuest(<<Count("SpeedResult", hcount)>>)
  /\ host' = "send" /\ hcount' = 0 /\ HostTakes(rest)
  /\ UNCHANGED <<missed, ctrl, gbuf>>

\* run_as_responder.  Whatever else comes first is left to the pump; any
\* error is the end of the session, without a Bye.
HostProbe(f, rest) ==
  LET go(phase, n) == host' = phase /\ hcount' = n /\ HostTakes(rest) /\ UNCHANGED <<missed, ctrl, gbuf>>
      more == hcount + 1 <= MaxBytes
  IN \/ /\ host = "first"
        /\ \/ f.kind = "SpeedChunk" /\ go("recv", 1) /\ UNCHANGED down
           \/ f.kind = "SpeedDone" /\ go("recv", 0) /\ UNCHANGED down
           \/ f.kind \in {"Bye", "Eof"} /\ HostEnds(<< >>)
           \/ /\ f.kind \notin {"SpeedChunk", "SpeedDone", "Bye", "Eof"}
              /\ Ingest(f, "opened") /\ HostTakes(rest) /\ UNCHANGED <<down, gbuf>>
     \/ HostBurst(f, rest)
     \/ /\ host = "recv"
        /\ \/ f.kind = "SpeedChunk" /\ more /\ go("recv", hcount + 1) /\ UNCHANGED down
           \/ f.kind = "Ping" /\ Room(down) /\ ToGuest(<<Frame("Pong")>>) /\ go("recv", hcount)
           \/ f.kind = "Pong" /\ go("recv", hcount) /\ UNCHANGED down
           \/ /\ \/ f.kind = "SpeedChunk" /\ ~more
                 \/ f.kind = "SpeedDone" /\ f.n # hcount
                 \/ f.kind \in {"Hello", "Config", "IpPacket", "Bye", "SpeedResult", "Eof"}
              /\ HostEnds(<< >>)
     \/ /\ host = "result"
        /\ \/ f.kind = "SpeedResult" /\ go("opened", 0) /\ UNCHANGED down
           \/ f.kind # "SpeedResult" /\ HostEnds(<< >>)

\* The host takes the next frame.  A listening TCP host has no connection.
HostRead ==
  /\ host \in HostReading /\ HostHolds
  /\ \E r \in Taken(up) :
       \/ r.f.kind = "skipped" /\ HostTakes(r.rest) /\ UNCHANGED <<hvars, down, gbuf>>
       \/ /\ r.f.kind # "skipped"
          /\ \/ HostHandshake(r.f, r.rest)
             \/ HostProbe(r.f, r.rest)
             \/ host \in Pumping /\ Ingest(r.f, host) /\ HostTakes(r.rest) /\ UNCHANGED <<down, gbuf>>
  /\ UNCHANGED <<kind, gvars, faults, packets>>

\* send_burst.
HostChunk ==
  /\ host = "send" /\ hcount < MaxBytes /\ Room(down)
  /\ ToGuest(<<Frame("SpeedChunk")>>) /\ hcount' = hcount + 1
  /\ UNCHANGED <<kind, gvars, host, missed, ctrl, up, bufs, faults, packets>>

HostDone ==
  /\ host = "send" /\ hcount > 0 /\ Room(down)
  /\ ToGuest(<<Count("SpeedDone", hcount)>>)
  /\ host' = "result" /\ hcount' = 0
  /\ UNCHANGED <<kind, gvars, missed, ctrl, up, bufs, faults, packets>>

\* writer_loop: control frames first, then packets.
HostWrite ==
  /\ host \in Pumping \cup {"closing"} /\ ctrl # << >> /\ Room(down)
  /\ ToGuest(<<Head(ctrl)>>) /\ ctrl' = Tail(ctrl)
  /\ UNCHANGED <<kind, gvars, host, hcount, missed, up, bufs, faults, packets>>

HostPacket ==
  /\ host \in Pumping /\ ctrl = << >> /\ Room(down)
  /\ packets > 0 /\ packets' = packets - 1
  /\ ToGuest(<<Frame("IpPacket")>>)
  /\ UNCHANGED <<kind, gvars, hvars, up, bufs, faults>>

\* The writer is done, or a second is over and it is aborted.
HostClosed ==
  /\ host = "closing" /\ (ctrl = << >> \/ ~Room(down))
  /\ HostEnds(<< >>)
  /\ UNCHANGED <<kind, gvars, faults, packets>>

-----------------------------------------------------------------------------
(* Timers *)

\* What the two sides do without waiting for a timer.
GuestSteps == GuestRead \/ GuestChunk \/ GuestDone \/ GuestSetUp
HostSteps  == HostOpen \/ HostRead \/ HostChunk \/ HostDone \/ HostWrite \/ HostClosed

Fault == faults > 0 /\ faults' = faults - 1

\* A timer fires when nothing else is going to happen; as a fault, earlier.
Fires == IF ENABLED (GuestSteps \/ HostSteps) THEN Fault ELSE UNCHANGED faults

GuestTimer == ~Readable(down) /\ Fires
HostTimer  == ~Readable(up) /\ Fires

\* The delay of a retry is over (sleep in `run`): a new attempt, connect or
\* open the port, and send Hello.  (A connection
\* made while the host is busy is refused: HostSession.)
GuestConnect ==
  /\ guest = "idle" /\ Fires
  /\ guest' = "hello" /\ gcount' = 0 /\ silent' = 0 /\ pushed' = 0 /\ measured' = Nothing
  /\ IF Serial
     THEN /\ Room(up) /\ ToHost(<<Frame("Hello")>>) /\ UNCHANGED <<hvars, down>>
     ELSE /\ host = "listen" /\ host' = "hello"
          /\ up' = <<Frame("Hello")>> /\ down' = << >>
          /\ UNCHANGED <<hcount, missed, ctrl>>
  /\ UNCHANGED <<kind, bufs, packets>>

\* handshake_timeout fails the attempt, the probe's timeout skips the probe.
GuestTimeout ==
  /\ GuestTimer
  /\ \/ guest \in {"hello", "config"} /\ GuestEnds("idle", << >>)
     \/ guest \in {"result", "chunk", "recv"} /\ GuestAt("setup") /\ gbuf' = GBuffered /\ UNCHANGED <<up, down, hbuf>>
  /\ UNCHANGED <<kind, hvars, packets>>

\* Mutant: the tick only pings.
GuestTickDeaf ==
  /\ guest = "pump" /\ GuestTimer
  /\ ToHost(IF Room(up) THEN <<Frame("Ping")>> ELSE << >>)
  /\ UNCHANGED <<kind, gvars, down, bufs, hvars, packets>>

\* ping.tick: after keepalive_timeout of silence the session is lost,
\* otherwise a Ping goes out; so it is when the link takes no frame.
GuestTick ==
  /\ guest = "pump" /\ GuestTimer
  /\ \/ /\ silent < MaxMissed /\ Room(up)
        /\ silent' = silent + 1 /\ ToHost(<<Frame("Ping")>>)
        /\ UNCHANGED <<guest, gcount, pushed, measured, down, bufs>>
     \/ (silent = MaxMissed \/ ~Room(up)) /\ GuestEnds("idle", Bye)
  /\ UNCHANGED <<kind, hvars, packets>>

\* The handshake times out (Bye), nobody starts the probe in `idle` (carry
\* on), the other side falls silent in the probe (end, without a Bye).
HostTimeout ==
  /\ HostTimer
  /\ \/ host = "hello" /\ HostEnds(Bye)
     \/ host = "first" /\ HostAt("opened") /\ UNCHANGED wires
     \/ host \in {"recv", "result"} /\ HostEnds(<< >>)
  /\ UNCHANGED <<kind, gvars, packets>>

\* Mutant: unanswered pings are never counted.
HostTickTrusting ==
  /\ \/ host = "opened" /\ UNCHANGED faults
     \/ host = "pump" /\ HostTimer
  /\ host' = "pump" /\ ctrl' = Queue(<<Frame("Ping")>>) /\ UNCHANGED <<hcount, missed>>
  /\ UNCHANGED <<kind, gvars, wires, packets>>

\* ping.tick, the first at once: enough unanswered pings end the session, and
\* a ping counts as unanswered even when the queue had no place for it.
HostTick ==
  /\ \/ host = "opened" /\ UNCHANGED faults
     \/ host = "pump" /\ HostTimer
  /\ \/ missed = MaxMissed /\ TearDown
     \/ /\ missed < MaxMissed /\ missed' = missed + 1
        /\ host' = "pump" /\ ctrl' = Queue(<<Frame("Ping")>>) /\ UNCHANGED hcount
  /\ UNCHANGED <<kind, gvars, wires, packets>>

-----------------------------------------------------------------------------
(* Faults and stops *)

\* TUN or platform cannot be set up, the cable's carrier is gone: Bye, and
\* another attempt.  Over TCP both arrive, the end of the stream after the
\* Bye; a link that falls silent without a word is modelled as a serial one.
GuestGivesUp ==
  /\ guest \in {"setup", "pump"} /\ Fault
  /\ GuestEnds("idle", Bye)
  /\ UNCHANGED <<kind, hvars, packets>>

\* The process dies and is started again.
GuestCrash ==
  /\ GuestHolds /\ Fault
  /\ GuestEnds("idle", << >>)
  /\ UNCHANGED <<kind, hvars, packets>>

\* Shutdown, for good: with a link open, Bye (which may not fit).
GuestStop ==
  /\ guest # "off"
  /\ IF GuestHolds
     THEN GuestEnds("off", Bye)
     ELSE GuestAt("off") /\ UNCHANGED wires
  /\ UNCHANGED <<kind, hvars, faults, packets>>

\* So does the host's.
HostCrash ==
  /\ HostHolds /\ Fault
  /\ HostEnds(<< >>)
  /\ UNCHANGED <<kind, gvars, packets>>

\* Bytes of one frame are lost on a serial link: its beginning, and what is
\* left is junk, or its end, and its length claims what follows.
Torn(ch, read) ==
  {SubSeq(ch, 1, i - 1) \o SubSeq(ch, i + 1, Len(ch)) : i \in read + 1 .. Len(ch)}
  \cup {[ch EXCEPT ![i].cut = k] :
          i \in {j \in read + 1 .. Len(ch) : ch[j].kind # "Bye" /\ ch[j].cut = 0},
          k \in 1 .. 2}

Tear ==
  /\ Serial /\ Fault
  /\ \/ up' \in Torn(up, hbuf) /\ UNCHANGED down
     \/ down' \in Torn(down, gbuf) /\ UNCHANGED up
  /\ UNCHANGED <<kind, gvars, hvars, bufs, packets>>

-----------------------------------------------------------------------------
GuestTimers == GuestTimeout \/ GuestTick
HostTimers  == HostTimeout \/ HostTick

Next ==
  \/ GuestConnect \/ GuestSteps \/ GuestTimers \/ GuestPacket
  \/ GuestGivesUp \/ GuestCrash \/ GuestStop
  \/ HostSteps \/ HostTimers \/ HostPacket \/ HostCrash
  \/ Tear

(***************************************************************************)
(* Fairness.  Both processes keep running, their timers fire in the end,   *)
(* and the guest retries as long as it is not stopped.  Nothing is assumed *)
(* of packets, faults and stops.                                           *)
(***************************************************************************)
Fairness ==
  /\ WF_vars(GuestConnect) /\ WF_vars(GuestSteps) /\ WF_vars(GuestTimers)
  /\ WF_vars(HostSteps) /\ WF_vars(HostTimers)

Spec == Init /\ [][Next]_vars
FairSpec == Spec /\ Fairness

-----------------------------------------------------------------------------
(* Properties *)

\* Mutual: the tunnel is up at both ends.
TunnelUp == guest = "pump" /\ host \in Pumping

\* What the guest reports as its upload is what it pushed in this attempt,
\* whatever was lost or left over from earlier ones, unless the very frame
\* with the result was torn (the guest itself does not compare: `_sent`) or
\* the port kept the result of an earlier attempt.
SpeedIsOfThisAttempt == ~Sticky => measured \in {Nothing, Garbage, pushed}

\* The keep-alive of one side never ends a session while the other side is
\* pumping, unless as many timers were early as pings may be missed; on a
\* serial link one torn frame can swallow as many answers.
KeepAliveEnds ==
  \/ host = "pump" /\ host' = "closing" /\ missed = MaxMissed /\ up' = up
  \/ guest = "pump" /\ guest' = "idle" /\ silent = MaxMissed /\ down = << >>
NoFalseAlarm ==
  [][KeepAliveEnds /\ TunnelUp =>
       MaxFaults - faults' >= IF Serial THEN 1 ELSE MaxMissed]_vars

\* The host waits for the rest of a burst the guest has given up; every Ping
\* of the guest's pump restarts the wait.  Only a packet ends this.
StalledProbe == guest = "pump" /\ host = "recv"

\* Whatever was lost, torn or late, guest and host find each other again and
\* stay connected, unless the guest is stopped or no packet ends a stalled
\* probe, over TCP and over a port that keeps nothing.
MeetAgain ==
  kind # "sticky" => <>[]TunnelUp \/ <>(guest = "off") \/ <>[]StalledProbe

\* When the guest is gone for good, the host's session ends, even if the Bye
\* got lost, and the single guest slot is free again; only a port that keeps
\* bytes nobody reads can hold the host up, which then waits to write.  The
\* keep-alive decides on the serial links; over TCP a Bye or an Eof arrives.
HostNotices == guest = "off" ~> (host = "listen" \/ (Sticky /\ ~Fits(down, 2)))

\* session.rs:336: "Serial links persist across sessions. A new Hello means
\* the guest restarted, so reopen the session and answer its new handshake."
\* So a guest that keeps trying gets its handshake answered in the end.
RestartIsAnswered == guest = "hello" ~> guest \in {"burst", "off"}
=============================================================================
