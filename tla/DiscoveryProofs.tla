--------------------------- MODULE DiscoveryProofs ---------------------------
(***************************************************************************)
(* Proofs about Discovery for every set of links, whatever is pulled,      *)
(* plugged, restarted, lost, delayed or failing.                           *)
(***************************************************************************)
EXTENDS Discovery, FunctionTheorems, FiniteSetTheorems, TLAPS

\* What is in flight for the probe under way belongs to it: probes are only
\* answered while it lasts, by a host it has heard of; and the guest goes
\* into a probe with no target.
ProbeInv ==
  /\ net \subseteq Datagram /\ casts \subseteq {"multi", "uni"}
  /\ data_port \in DataPorts \cup {NoPort}
  /\ \A d \in net : d.type = "probe" => gpc = "probing"
  /\ \A d \in net : d.type = "offer" /\ d.mine => gpc = "probing" /\ d.port \in heard
  /\ gpc = "probing" /\ data_port # NoPort => data_port \in heard
  /\ responder.running => data_port # NoPort
  /\ gpc \in {"idle", "choose", "probing"} => target = NoTarget

\* Nothing the guest asks about is touched but datagrams, which may go.
Elsewhere == UNCHANGED <<gpc, target, heard, data_port, casts>> /\ net' \subseteq net

\* A responder runs only for a host.
Serving == responder'.running => data_port' # NoPort

LEMMA ElsewhereKeeps == ASSUME ProbeInv, Elsewhere, Serving PROVE ProbeInv'
  BY DEF ProbeInv, Elsewhere, Serving

LEMMA SentIsProbes ==
  ASSUME NEW l, NEW cs \in SUBSET {"multi", "uni"}
  PROVE  Sent(l, cs) \subseteq Datagram /\ \A d \in Sent(l, cs) : d.type = "probe"
<1>1. ASSUME NEW d \in Sent(l, cs) PROVE d \in Datagram /\ d.type = "probe"
  <2>1. PICK c \in cs : d = [type |-> "probe", link |-> l, cast |-> c] /\ l \in Cables
    BY <1>1 DEF Sent
  <2>2. d \in [type : {"probe"}, link : Cables, cast : {"multi", "uni"}] /\ d.type = "probe"
    BY <2>1
  <2>. QED
    BY <2>2 DEF Datagram
<1>. QED
  BY <1>1

\* Once a probe is over, nothing in flight is for it any more.
LEMMA CloseForgets ==
  ASSUME net \subseteq Datagram, NEW s, Close(s)
  PROVE  net' \subseteq Datagram /\ \A d \in net' : d.type = "offer" /\ ~d.mine
<1>1. ASSUME NEW e \in Offers
      PROVE  /\ [e EXCEPT !.mine = FALSE] \in Datagram
             /\ [e EXCEPT !.mine = FALSE].type = "offer"
             /\ [e EXCEPT !.mine = FALSE].mine = FALSE
  <2>1. e \in [type : {"offer"}, link : Cables, port : DataPorts, mine : BOOLEAN]
    BY DEF Offers, Datagram
  <2>2. [e EXCEPT !.mine = FALSE] \in [type : {"offer"}, link : Cables, port : DataPorts, mine : BOOLEAN]
    BY <2>1
  <2>. QED
    BY <2>1, <2>2 DEF Datagram
<1>. QED
  BY <1>1 DEF Close

LEMMA HostKeeps == ASSUME ProbeInv, HostStep PROVE ProbeInv'
<1>1. CASE Poll
  <2>1. Elsewhere /\ data_port # NoPort
    BY <1>1 DEF Poll, Elsewhere, gvars
  <2>. QED
    BY <2>1, ElsewhereKeeps DEF Serving, Elsewhere
<1>2. CASE Refresh
  <2>1. Elsewhere /\ responder.running
    BY <1>2 DEF Refresh, Elsewhere, gvars
  <2>. QED
    BY <2>1, ElsewhereKeeps DEF Serving, Elsewhere, ProbeInv
<1>3. CASE ResponderStops
  <2>1. Elsewhere /\ Serving
    BY <1>3 DEF ResponderStops, Elsewhere, gvars, Serving, Idle
  <2>. QED
    BY <2>1, ElsewhereKeeps
<1>4. CASE HostStarts
  BY <1>4 DEF HostStarts, ProbeInv, gvars
<1>5. CASE HostStops
  BY <1>5 DEF HostStops, ProbeInv, gvars, Idle
<1>. QED
  BY <1>1, <1>2, <1>3, <1>4, <1>5 DEF HostStep

LEMMA LinkKeeps == ASSUME ProbeInv, LinkStep \/ \E l \in Links : Learn(l) PROVE ProbeInv'
<1>1. Elsewhere
  <2>1. CASE Lose
    BY <2>1 DEF Lose, Elsewhere, gvars, hvars
  <2>2. ASSUME NEW l \in Cables, Plug(l) \/ ComesUp(l) \/ Unplug(l) PROVE Elsewhere
    BY <2>2 DEF Plug, ComesUp, Unplug, Elsewhere, gvars, hvars
  <2>3. ASSUME NEW l \in Links, Learn(l) PROVE Elsewhere
    BY <2>3 DEF Learn, Elsewhere, gvars, hvars
  <2>. QED
    BY <2>1, <2>2, <2>3 DEF LinkStep
<1>2. responder'.running => responder.running
  <2>1. ASSUME NEW l \in Cables, Unplug(l) PROVE responder'.running => responder.running
    BY <2>1 DEF Unplug
  <2>. QED
    BY <2>1 DEF LinkStep, Lose, Plug, ComesUp, Learn, hvars
<1>. QED
  BY <1>1, <1>2, ElsewhereKeeps DEF Serving, Elsewhere, ProbeInv

LEMMA GuestKeeps == ASSUME ProbeInv, GuestStep PROVE ProbeInv'
<1> USE DEF ProbeInv, hvars
<1>1. CASE StartRound
  BY <1>1 DEF StartRound
<1>2. CASE EndRound
  BY <1>2 DEF EndRound
<1>3. CASE StartProbe
  <2>1. CASE UNCHANGED <<gpc, casts, net, heard>>
    BY <1>3, <2>1 DEF StartProbe
  <2>2. CASE gpc' = "probing"
    <3>0. casts' \in SUBSET {"multi", "uni"} /\ net' = net \cup Sent(cur', casts')
      BY <1>3, <2>2 DEF StartProbe
    <3>1. /\ \A d \in net' : d \in net \/ d.type = "probe"
          /\ heard' = {data_port} \ {NoPort} /\ gpc = "choose"
      BY <1>3, <2>2, <3>0, SentIsProbes DEF StartProbe
    <3>2. \A d \in net : ~(d.type = "offer" /\ d.mine)
      BY <3>1
    <3>3. casts' \subseteq {"multi", "uni"} /\ net' \subseteq Datagram
      BY <3>0, SentIsProbes
    <3>. QED
      BY <1>3, <2>2, <3>1, <3>2, <3>3 DEF StartProbe
  <2>. QED
    BY <1>3, <2>1, <2>2 DEF StartProbe
<1>4. CASE Resend
  <2>1. net' \subseteq Datagram /\ \A d \in net' : d \in net \/ d.type = "probe"
    BY <1>4, SentIsProbes DEF Resend
  <2>. QED
    BY <1>4, <2>1 DEF Resend, gvars
<1>5. CASE Unanswered
  <2>1. /\ Close({}) /\ casts' = {} /\ data_port' = data_port /\ responder' = responder
        /\ gpc' \in {"dialing", "choose"} /\ (gpc' = "choose" => target' = target)
    BY <1>5 DEF Unanswered, Close
  <2>2. net' \subseteq Datagram /\ \A d \in net' : d.type = "offer" /\ ~d.mine
    BY <2>1, CloseForgets
  <2>. QED
    BY <1>5, <2>1, <2>2 DEF Unanswered
<1>6. CASE Dial
  BY <1>6 DEF Dial
<1>7. CASE TunnelLost
  BY <1>7 DEF TunnelLost
<1>8. CASE ProbeBreaks
  <2>1. /\ Close({}) /\ casts' = {} /\ data_port' = data_port /\ responder' = responder
        /\ gpc' = "choose" /\ target' = target
    BY <1>8 DEF ProbeBreaks, Close
  <2>2. net' \subseteq Datagram /\ \A d \in net' : d.type = "offer" /\ ~d.mine
    BY <2>1, CloseForgets
  <2>. QED
    BY <1>8, <2>1, <2>2 DEF ProbeBreaks
<1>. QED
  BY <1>1, <1>2, <1>3, <1>4, <1>5, <1>6, <1>7, <1>8 DEF GuestStep

LEMMA AnswerKeeps == ASSUME ProbeInv, NEW d \in net, Answer(d) PROVE ProbeInv'
<1> DEFINE offer == [type |-> "offer", link |-> d.link, port |-> data_port, mine |-> TRUE]
<1>1. offer.type = "offer" /\ offer.port = data_port
  OBVIOUS
<1>2. gpc = "probing" /\ data_port \in heard
  BY DEF Answer, Hears, ProbeInv
<1>3. \A e \in net' : e \in net \/ e = offer
  BY DEF Answer
<1>4. offer \in Datagram
  <2>1. d \in Datagram /\ d.type = "probe" /\ data_port \in DataPorts
    BY DEF Answer, Hears, ProbeInv
  <2>2. d.link \in Cables
    BY <2>1 DEF Datagram
  <2>3. offer \in [type : {"offer"}, link : Cables, port : DataPorts, mine : BOOLEAN]
    BY <2>1, <2>2
  <2>. QED
    BY <2>3 DEF Datagram
<1>5. net' \subseteq Datagram
  BY <1>3, <1>4 DEF ProbeInv
<1>. QED
  BY <1>1, <1>2, <1>3, <1>5 DEF Answer, ProbeInv, gvars, hvars

LEMMA AcceptKeeps ==
  ASSUME ProbeInv, NEW d \in net, Accept(d)
  PROVE  ProbeInv' /\ target'.port \in heard
<1>1. d.port \in heard
  BY DEF Accept, Matches, ProbeInv
<1>2. net' \subseteq Datagram /\ \A e \in net' : e.type = "offer" /\ ~e.mine
  BY CloseForgets DEF Accept, ProbeInv
<1>3. casts' = {} /\ gpc' = "dialing" /\ target'.port = d.port
  BY DEF Accept, Close
<1>. QED
  BY <1>1, <1>2, <1>3 DEF Accept, ProbeInv, hvars

\* The invariant of the probes.
THEOREM ProbesAreKnown == Spec => []ProbeInv
<1>1. Init => ProbeInv
  BY DEF Init, ProbeInv, Idle
<1>2. ASSUME ProbeInv, [Next]_vars PROVE ProbeInv'
  <2>1. CASE UNCHANGED vars
    BY <1>2, <2>1 DEF ProbeInv, vars, gvars, hvars
  <2>. QED
    BY <1>2, <2>1, HostKeeps, LinkKeeps, GuestKeeps, AnswerKeeps, AcceptKeeps DEF Next
<1>. QED
  BY <1>1, <1>2, PTL DEF Spec

\* An offer the guest dials on names a port on which a host listened while
\* that very probe was under way: the nonce keeps out what is left of earlier
\* ones, however late it comes.
THEOREM OffersAreFresh == Spec => FreshOffer
<1>1. ASSUME ProbeInv, [Next]_vars, gpc = "probing", target'.by = "offer"
      PROVE  target'.port \in heard
  <2>1. CASE \E d \in net : Accept(d)
    BY <1>1, <2>1, AcceptKeeps
  <2>2. CASE Unanswered
    BY <1>1, <2>2 DEF Unanswered, ProbeInv, NeighbourTarget, NoTarget
  <2>3. ASSUME ~ \E d \in net : Accept(d), ~Unanswered PROVE target' = target
    BY <1>1, <2>3 DEF Next, HostStep, Poll, Refresh, ResponderStops, HostStarts, HostStops,
       LinkStep, Lose, Plug, ComesUp, Unplug, Learn, GuestStep, StartRound, EndRound, StartProbe,
       Resend, ProbeBreaks, Dial, TunnelLost, Answer, vars, gvars
  <2>4. target.by # "offer"
    BY <1>1 DEF ProbeInv, NoTarget
  <2>. QED
    BY <1>1, <2>1, <2>2, <2>3, <2>4
<1>. QED
  BY <1>1, ProbesAreKnown, PTL DEF Spec, FreshOffer

-----------------------------------------------------------------------------
(* Memberships *)

Responders == [running : BOOLEAN, joined : SUBSET Indices, member : SUBSET Indices]

\* No two interfaces share an index, and what the kernel holds is of an
\* interface that is there and in the books of the code.
MemberInv ==
  /\ index \in [Cables -> Indices \cup {Absent}]
  /\ \A k, l \in Cables : index[k] = index[l] /\ index[k] # Absent => k = l
  /\ responder \in Responders
  /\ responder.member \subseteq responder.joined
  /\ responder.member \subseteq Present

LEMMA MemberSame == ASSUME MemberInv, UNCHANGED <<index, responder>> PROVE MemberInv'
  BY DEF MemberInv, Present

LEMMA IdleKeeps == ASSUME MemberInv, responder' = Idle, UNCHANGED index PROVE MemberInv'
  BY DEF MemberInv, Present, Idle, Responders

LEMMA MemberStep == ASSUME MemberInv, [Next]_vars PROVE MemberInv'
<1>0. Present \subseteq Indices
  BY DEF MemberInv, Present
<1>1. CASE Poll
  <2>1. CASE responder' = Idle
    BY <1>1, <2>1, IdleKeeps DEF Poll
  <2>2. CASE responder' # Idle
    <3>1. PICK want \in SUBSET Present, failing \in SUBSET Present :
            responder' = Join([Idle EXCEPT !.running = TRUE], want, failing)
      <4>1. {index[l] : l \in HostCandidates} \ {Absent} \subseteq Present
        BY LinksAssumption DEF Present
      <4>. QED
        BY <1>1, <2>2, <4>1 DEF Poll
    <3>0. /\ [Idle EXCEPT !.running = TRUE] \in Responders
          /\ [Idle EXCEPT !.running = TRUE].joined = {} /\ [Idle EXCEPT !.running = TRUE].member = {}
      BY DEF Idle, Responders
    <3>2. PICK r \in Responders :
            r = [Idle EXCEPT !.running = TRUE] /\ r.joined = {} /\ r.member = {}
      BY <3>0, Zenon
    <3>3. /\ responder' \in Responders
          /\ responder'.joined = want \ failing /\ responder'.member = want \ failing
      <4>1. want \subseteq Indices /\ responder' = Join(r, want, failing)
        BY <1>0, <3>1, <3>2
      <4>2. /\ responder' \in Responders
            /\ responder'.joined = r.joined \cup (want \ failing)
            /\ responder'.member = r.member \cup ((want \ r.joined) \ failing)
        BY <3>2, <4>1 DEF Join, Responders
      <4>. QED
        BY <3>2, <4>2
    <3>4. index' = index /\ Present' = Present
      BY <1>1 DEF Poll, Present
    <3>. QED
      BY <3>1, <3>3, <3>4 DEF MemberInv
  <2>. QED
    BY <2>1, <2>2
<1>2. CASE Refresh
  <2>0. /\ [responder EXCEPT !.joined = Kept] \in Responders
        /\ [responder EXCEPT !.joined = Kept].joined = Kept
        /\ [responder EXCEPT !.joined = Kept].member = responder.member
    BY DEF MemberInv, Responders, Kept
  <2>2. PICK r \in Responders :
          r = [responder EXCEPT !.joined = Kept] /\ r.joined = Kept /\ r.member = responder.member
    BY <2>0, Zenon
  <2>1. PICK failing \in SUBSET (Present \ Kept) : responder' = Join(r, Present, failing)
    BY <1>2, <2>2 DEF Refresh
  <2>3. /\ responder' \in Responders
        /\ responder'.joined = Kept \cup (Present \ failing)
        /\ responder'.member = responder.member \cup ((Present \ Kept) \ failing)
    <3>1. /\ responder' \in Responders
          /\ responder'.joined = r.joined \cup (Present \ failing)
          /\ responder'.member = r.member \cup ((Present \ r.joined) \ failing)
      BY <1>0, <2>1, <2>2 DEF Join, Responders
    <3>. QED
      BY <2>2, <3>1
  <2>4. responder.member \subseteq Kept /\ Kept \subseteq Present
    BY DEF MemberInv, Kept
  <2>5. index' = index /\ Present' = Present
    BY <1>2 DEF Refresh, Present
  <2>. QED
    BY <2>1, <2>3, <2>4, <2>5 DEF MemberInv
<1>3. CASE ResponderStops \/ HostStops
  BY <1>3, IdleKeeps DEF ResponderStops, HostStops
<1>4. ASSUME NEW l \in Cables, Plug(l) PROVE MemberInv'
  <2>1. PICK i \in Indices \ Present : index' = [index EXCEPT ![l] = i]
    BY <1>4 DEF Plug
  <2>2. /\ index' \in [Cables -> Indices \cup {Absent}]
        /\ index'[l] = i /\ \A k \in Cables : k # l => index'[k] = index[k]
    BY <2>1 DEF MemberInv
  <2>3. \A k \in Cables : index[k] # i
    BY <2>1, LinksAssumption DEF Present
  <2>4. \A j, k \in Cables : index'[j] = index'[k] /\ index'[j] # Absent => j = k
    BY <2>2, <2>3 DEF MemberInv
  <2>5. Present \subseteq Present'
    BY <1>4, <2>2 DEF Plug, Present
  <2>. QED
    BY <1>4, <2>2, <2>4, <2>5 DEF Plug, MemberInv, hvars
<1>5. ASSUME NEW l \in Cables, Unplug(l) PROVE MemberInv'
  <2>1. /\ index' \in [Cables -> Indices \cup {Absent}]
        /\ index'[l] = Absent /\ \A k \in Cables : k # l => index'[k] = index[k]
    BY <1>5 DEF Unplug, MemberInv
  <2>2. /\ responder' \in Responders /\ responder'.joined = responder.joined
        /\ responder'.member = responder.member \ {index[l]}
    BY <1>5 DEF Unplug, MemberInv, Responders
  <2>3. \A j, k \in Cables : index'[j] = index'[k] /\ index'[j] # Absent => j = k
    BY <2>1 DEF MemberInv
  <2>4. Present \ {index[l]} \subseteq Present'
    <3>1. ASSUME NEW i \in Present, i # index[l] PROVE i \in Present'
      <4>1. PICK k \in Cables : i = index[k] /\ i # Absent
        BY <3>1 DEF Present
      <4>2. k # l /\ index'[k] = i
        BY <2>1, <3>1, <4>1
      <4>. QED
        BY <4>1, <4>2 DEF Present
    <3>. QED
      BY <3>1
  <2>. QED
    BY <2>1, <2>2, <2>3, <2>4 DEF MemberInv
<1>6. CASE HostStarts \/ Lose \/ GuestStep \/ UNCHANGED vars
  BY <1>6, MemberSame DEF HostStarts, Lose, GuestStep, StartRound, EndRound, StartProbe, Resend,
     Unanswered, ProbeBreaks, Dial, TunnelLost, vars, hvars
<1>7. ASSUME NEW l, ComesUp(l) \/ Learn(l) PROVE MemberInv'
  BY <1>7, MemberSame DEF ComesUp, Learn, hvars
<1>8. ASSUME NEW d, Answer(d) \/ Accept(d) PROVE MemberInv'
  BY <1>8, MemberSame DEF Answer, Accept, hvars
<1>. QED
  BY <1>1, <1>2, <1>3, <1>4, <1>5, <1>6, <1>7, <1>8 DEF Next, HostStep, LinkStep

\* The responder knows of every membership the kernel holds for it, and the
\* kernel holds none of an interface that is gone: forgetting what is gone
\* never makes it join again what is joined, which would fail.
THEOREM MembershipsAreKnown ==
  Spec => [](responder.member \subseteq responder.joined \cap Present)
<1>1. Init => MemberInv
  BY DEF Init, MemberInv, Idle, Responders, Present
<1>2. MemberInv => responder.member \subseteq responder.joined \cap Present
  BY DEF MemberInv
<1>. QED
  BY <1>1, <1>2, MemberStep, PTL DEF Spec
-----------------------------------------------------------------------------
(* The lists of a round *)

LEMMA BeforeIsStrict ==
  ASSUME NEW k \in Links, NEW l \in Links, NEW listed \in BOOLEAN, Before(k, l, listed)
  PROVE  k # l /\ ~Before(l, k, listed)
<1>1. /\ Classify(k, listed) \in Int /\ Classify(l, listed) \in Int
      /\ k \in Int /\ l \in Int
  BY LinksAssumption DEF Classify, LinkKind
<1>. QED
  BY <1>1 DEF Before

\* A list has every candidate, and in one place only.
LEMMA ListsAreComplete ==
  ASSUME ready \subseteq Links, NEW listed \in BOOLEAN, NEW s \in ReadyCandidates(listed)
  PROVE  /\ s \in Seq(Links)
         /\ \A i, j \in DOMAIN s : i < j => s[i] # s[j]
         /\ \A l \in ready : Candidate(l, listed) => \E i \in DOMAIN s : s[i] = l
<1> DEFINE S == {l \in ready : Candidate(l, listed)}
           n == Cardinality(S)
<1>1. IsFiniteSet(S) /\ n \in Nat
  <2>1. S \in SUBSET Links /\ IsFiniteSet(Links)
    BY LinksAssumption
  <2>2. IsFiniteSet(S)
    BY <2>1, FS_Subset, Zenon
  <2>. QED
    BY <2>2, FS_CardinalityType, Zenon
<1>2. s \in [1 .. n -> S] /\ \A i, j \in 1 .. n : i < j => Before(s[i], s[j], listed)
  BY DEF ReadyCandidates
<1> HIDE DEF n
<1>3. \A i, j \in 1 .. n : i < j => s[i] # s[j]
  <2>1. ASSUME NEW i \in 1 .. n, NEW j \in 1 .. n, i < j PROVE s[i] # s[j]
    <3>1. s[i] \in Links /\ s[j] \in Links /\ Before(s[i], s[j], listed)
      BY <1>2, <2>1
    <3>. QED
      BY <3>1, BeforeIsStrict
  <2>. QED
    BY <2>1
<1>4. s \in Seq(Links)
  <2>1. s \in [1 .. n -> Links]
    BY <1>2
  <2>. QED
    BY <1>1, <2>1
<1>5. \A l \in S : \E i \in 1 .. n : s[i] = l
  <2>1. s \in Injection(1 .. n, S)
    <3>1. \A i, j \in 1 .. n : s[i] = s[j] => i = j
      BY <1>1, <1>3
    <3>. QED
      BY <1>2, <3>1, Fun_IsInj
  <2>2. Cardinality(1 .. n) = Cardinality(S)
    <3>1. 1 \in Int /\ n \in Int
      BY <1>1
    <3>2. Cardinality(1 .. n) = IF 1 > n THEN 0 ELSE n - 1 + 1
      BY <3>1, FS_Interval
    <3>3. Cardinality(1 .. n) = n
      BY <1>1, <3>2
    <3>. QED
      BY <3>3 DEF n
  <2>3. s \in Surjection(1 .. n, S)
    <3> HIDE DEF S
    <3>. QED
      BY <1>1, <2>1, <2>2, FS_Injection
  <2>. QED
    BY <2>3 DEF Surjection
<1>6. DOMAIN s = 1 .. n
  BY <1>2
<1>. QED
  BY <1>3, <1>4, <1>5, <1>6

-----------------------------------------------------------------------------
(* Types *)

Targets == [by : {"nobody", "offer", "neighbour"},
            port : DataPorts \cup {NoPort, DATA_PORT}]

\* What TypeOK says beyond the invariants above, for each of the actors.
LinksOK == ready \subseteq Links /\ neigh \in [Links -> {"none", "v4", "v6"}]
BooksOK == bound \subseteq Indices /\ blinked \subseteq Indices
RoundOK ==
  /\ gpc \in {"idle", "choose", "probing", "dialing", "tunnel"}
  /\ todo \in Seq(Links) /\ cur \in Links \cup {NoLink}
  /\ target \in Targets /\ heard \subseteq DataPorts
FaultsOK == faults \in 0 .. MaxFaults

TInv == ProbeInv /\ MemberInv /\ LinksOK /\ BooksOK /\ RoundOK /\ FaultsOK

LEMMA FaultsKept == ASSUME FaultsOK, [Next]_vars PROVE FaultsOK'
<1>1. ASSUME NEW happens, Fault(happens) PROVE FaultsOK'
  BY <1>1, LinksAssumption DEF Fault, FaultsOK
<1>2. CASE UNCHANGED faults
  BY <1>2 DEF FaultsOK
<1>3. CASE HostStep
  BY <1>1, <1>2, <1>3 DEF HostStep, Poll, Refresh, ResponderStops, HostStarts, HostStops
<1>4. CASE LinkStep \/ \E l \in Links : Learn(l)
  BY <1>1, <1>2, <1>4 DEF LinkStep, Lose, Plug, ComesUp, Unplug, Learn
<1>5. CASE GuestStep
  BY <1>1, <1>2, <1>5 DEF GuestStep, StartRound, EndRound, StartProbe, Resend, Unanswered,
     ProbeBreaks, Dial, TunnelLost
<1>6. CASE \E d \in net : Answer(d) \/ Accept(d)
  BY <1>2, <1>6 DEF Answer, Accept
<1>7. CASE UNCHANGED vars
  BY <1>2, <1>7 DEF vars
<1>. QED
  BY <1>3, <1>4, <1>5, <1>6, <1>7 DEF Next

LEMMA LinksKept == ASSUME LinksOK, [Next]_vars PROVE LinksOK'
<1>1. CASE UNCHANGED <<ready, neigh>>
  BY <1>1 DEF LinksOK
<1>2. ASSUME NEW l \in Cables, Plug(l) \/ ComesUp(l) PROVE LinksOK'
  BY <1>2, LinksAssumption DEF Plug, ComesUp, LinksOK
<1>3. ASSUME NEW l \in Cables, Unplug(l) PROVE LinksOK'
  BY <1>3, LinksAssumption DEF Unplug, LinksOK
<1>4. ASSUME NEW l \in Links, Learn(l) PROVE LinksOK'
  BY <1>4 DEF Learn, LinksOK
<1>5. CASE HostStep \/ Lose
  BY <1>1, <1>5 DEF HostStep, Poll, Refresh, ResponderStops, HostStarts, HostStops, Lose
<1>6. CASE GuestStep
  BY <1>1, <1>6 DEF GuestStep, StartRound, EndRound, StartProbe, Resend, Unanswered,
     ProbeBreaks, Dial, TunnelLost
<1>7. CASE (\E d \in net : Answer(d) \/ Accept(d)) \/ UNCHANGED vars
  BY <1>1, <1>7 DEF Answer, Accept, vars
<1>. QED
  BY <1>2, <1>3, <1>4, <1>5, <1>6, <1>7 DEF Next, LinkStep

LEMMA BooksKept == ASSUME BooksOK, MemberInv, [Next]_vars PROVE BooksOK'
<1>0. Present \subseteq Indices /\ {index[l] : l \in HostCandidates} \ {Absent} \subseteq Indices
  BY LinksAssumption DEF MemberInv, Present
<1>1. CASE UNCHANGED <<bound, blinked>>
  BY <1>1 DEF BooksOK
<1>2. CASE Poll
  BY <1>0, <1>1, <1>2 DEF Poll, BooksOK
<1>3. CASE Refresh \/ ResponderStops \/ HostStarts \/ HostStops
  BY <1>3 DEF Refresh, ResponderStops, HostStarts, HostStops, BooksOK
<1>4. ASSUME NEW l \in Cables, Plug(l) \/ ComesUp(l) PROVE BooksOK'
  BY <1>1, <1>4 DEF Plug, ComesUp, hvars
<1>5. ASSUME NEW l \in Cables, Unplug(l) PROVE BooksOK'
  BY <1>5 DEF Unplug, BooksOK, MemberInv, Responders
<1>6. CASE Lose \/ \E l \in Links : Learn(l)
  BY <1>1, <1>6 DEF Lose, Learn, hvars
<1>7. CASE GuestStep
  BY <1>1, <1>7 DEF GuestStep, StartRound, EndRound, StartProbe, Resend, Unanswered,
     ProbeBreaks, Dial, TunnelLost, hvars
<1>8. CASE (\E d \in net : Answer(d) \/ Accept(d)) \/ UNCHANGED vars
  BY <1>1, <1>8 DEF Answer, Accept, vars, hvars
<1>. QED
  BY <1>2, <1>3, <1>4, <1>5, <1>6, <1>7, <1>8 DEF Next, HostStep, LinkStep

LEMMA RoundKept == ASSUME TInv, [Next]_vars PROVE RoundOK'
<1>. USE DEF TInv
<1>1. CASE UNCHANGED <<gpc, todo, cur, target, heard>>
  BY <1>1 DEF RoundOK
<1>2. CASE HostStep
  <2>1. CASE HostStarts
    BY <2>1 DEF HostStarts, RoundOK, gvars
  <2>. QED
    BY <1>1, <1>2, <2>1 DEF HostStep, Poll, Refresh, ResponderStops, HostStops, gvars
<1>3. CASE LinkStep \/ (\E l \in Links : Learn(l)) \/ (\E d \in net : Answer(d)) \/ UNCHANGED vars
  BY <1>1, <1>3 DEF LinkStep, Lose, Plug, ComesUp, Unplug, Learn, Answer, vars, gvars
<1>4. CASE StartRound
  <2>1. PICK listed \in BOOLEAN : todo' \in ReadyCandidates(listed)
    BY <1>4 DEF StartRound
  <2>2. todo' \in Seq(Links)
    BY <2>1, ListsAreComplete DEF LinksOK
  <2>. QED
    BY <1>4, <2>2 DEF StartRound, RoundOK
<1>5. CASE EndRound
  BY <1>5 DEF EndRound, RoundOK
<1>6. CASE StartProbe
  <2>1. cur' \in Links /\ todo' \in Seq(Links) /\ target' = target
    BY <1>6 DEF StartProbe, RoundOK
  <2>2. gpc' \in {gpc, "probing"} /\ (heard' = heard \/ heard' = {data_port} \ {NoPort})
    BY <1>6 DEF StartProbe
  <2>. QED
    BY <2>1, <2>2 DEF RoundOK, ProbeInv
<1>7. CASE Resend
  BY <1>1, <1>7 DEF Resend, gvars
<1>8. CASE Unanswered
  <2>1. NeighbourTarget \in Targets
    BY DEF NeighbourTarget, Targets
  <2>2. gpc' \in {"dialing", "choose"} /\ target' \in {target, NeighbourTarget}
    BY <1>8 DEF Unanswered
  <2>. QED
    BY <1>8, <2>1, <2>2 DEF Unanswered, Close, RoundOK
<1>9. CASE Dial \/ TunnelLost
  <2>1. NoTarget \in Targets
    BY DEF NoTarget, Targets
  <2>2. CASE Dial
    <3>1. gpc' \in {"idle", "tunnel"} /\ todo' \in Seq(Links) /\ heard' = heard
      BY <2>2 DEF Dial
    <3>2. cur' \in {cur, NoLink} /\ target' \in {target, NoTarget}
      BY <2>2 DEF Dial
    <3>. QED
      BY <2>1, <3>1, <3>2 DEF RoundOK
  <2>3. CASE TunnelLost
    BY <2>1, <2>3 DEF TunnelLost, RoundOK
  <2>. QED
    BY <1>9, <2>2, <2>3
<1>10. ASSUME NEW d \in net, Accept(d) PROVE RoundOK'
  <2>1. d \in [type : {"offer"}, link : Cables, port : DataPorts, mine : BOOLEAN]
    BY <1>10 DEF Accept, ProbeInv, Datagram
  <2>2. target' \in Targets
    BY <1>10, <2>1 DEF Accept, Targets
  <2>. QED
    BY <1>10, <2>2 DEF Accept, Close, RoundOK
<1>11. CASE ProbeBreaks
  BY <1>11 DEF ProbeBreaks, Close, RoundOK
<1>. QED
  BY <1>2, <1>3, <1>4, <1>5, <1>6, <1>7, <1>8, <1>9, <1>10, <1>11 DEF Next, GuestStep

LEMMA TInvAlways == Spec => []TInv
<1>1. Init => TInv
  <2>1. Init => ProbeInv /\ MemberInv
    BY DEF Init, ProbeInv, MemberInv, Idle, Responders, Present
  <2>2. Init => LinksOK /\ BooksOK /\ FaultsOK
    BY LinksAssumption DEF Init, LinksOK, BooksOK, FaultsOK
  <2>3. Init => RoundOK
    BY DEF Init, RoundOK, NoTarget, Targets
  <2>. QED
    BY <2>1, <2>2, <2>3 DEF TInv
<1>2. ASSUME TInv, [Next]_vars PROVE TInv'
  <2>1. ProbeInv'
    <3>1. CASE UNCHANGED vars
      BY <1>2, <3>1 DEF TInv, ProbeInv, vars, gvars, hvars
    <3>. QED
      BY <1>2, <3>1, HostKeeps, LinkKeeps, GuestKeeps, AnswerKeeps, AcceptKeeps DEF Next, TInv
  <2>. QED
    BY <1>2, <2>1, MemberStep, LinksKept, BooksKept, RoundKept, FaultsKept DEF TInv
<1>. QED
  BY <1>1, <1>2, PTL DEF Spec

\* Every state is of its type, and the responder's books have every
\* membership, for every set of links and whatever fails.
THEOREM TypeCorrect == Spec => []TypeOK
<1>1. TInv => TypeOK
  BY DEF TInv, TypeOK, ProbeInv, MemberInv, LinksOK, BooksOK, RoundOK, FaultsOK, Responders, Targets
<1>. QED
  BY <1>1, TInvAlways, PTL

\* Link l is in one place of the list, and no other.
ListedOnce(l, list) ==
  \E i \in DOMAIN list : list[i] = l /\ \A j \in DOMAIN list : list[j] = l => j = i

\* A round that starts has every ready candidate on its list, whichever kind
\* it takes it for: no earlier round, pulled cable or fault leaves one out.
\* What keeps a candidate from being probed is only what comes before it.
THEOREM RoundsListEveryCandidate ==
  Spec => [][StartRound =>
               \A l \in ready : Candidate(l, TRUE) => ListedOnce(l, todo')]_vars
<1>1. ASSUME TInv, StartRound, NEW l \in ready, Candidate(l, TRUE)
      PROVE  ListedOnce(l, todo')
  <2>1. PICK listed \in BOOLEAN : todo' \in ReadyCandidates(listed)
    BY <1>1 DEF StartRound
  <2>2. Candidate(l, listed)
    BY <1>1 DEF Candidate
  <2>3. /\ todo' \in Seq(Links)
        /\ \A i, j \in DOMAIN todo' : i < j => todo'[i] # todo'[j]
        /\ \E i \in DOMAIN todo' : todo'[i] = l
    BY <1>1, <2>1, <2>2, ListsAreComplete DEF TInv, LinksOK
  <2>4. DOMAIN todo' \subseteq Int
    BY <2>3
  <2>. QED
    BY <2>3, <2>4 DEF ListedOnce
<1>2. TInv /\ [Next]_vars =>
        [StartRound => \A l \in ready : Candidate(l, TRUE) => ListedOnce(l, todo')]_vars
  BY <1>1
<1>. QED
  BY <1>2, TInvAlways, PTL DEF Spec
=============================================================================
