--------------------------- MODULE TcpConnection ---------------------------
(***************************************************************************)
(* Two mega-net hosts, "cli" and "srv", with one TCP socket each, and the  *)
(* network between them.  Every step of a host is one call of its          *)
(* application into the stack: the calls of mn_tcp.h, and mn_api_poll,     *)
(* which pulls at most one frame, hands it to the socket and then runs the *)
(* socket's timers and transmitter.  Nothing of a host runs between polls. *)
(*                                                                         *)
(* The payload is the position of the byte in its stream, so what arrives  *)
(* says where it came from.                                                *)
(***************************************************************************)
EXTENDS MnTcp, FiniteSets, SequencesExt

CONSTANTS
  CliBytes, SrvBytes,  \* how much each application writes, at most
  CliIss, SrvIss,      \* initial_seq() of each host
  CliReads, SrvReads,  \* the capacities each application reads with
  Elapsed,             \* the ticks that may pass between two polls
  ChanCap,             \* frames under way to a host; more are lost
  Faults,              \* what may go wrong: a subset of FaultKinds
  MaxFaults,           \* bound on how much of it does
  OneWay,              \* the faults tried only while the server sends no data
  MaxTicks,            \* bound on polls that find time has passed
  Prompt               \* TRUE: time passes only while no frame is under way,
                       \* and MaxTicks does not count

(* A frame lost, repeated or overtaken; a driver that will not transmit or *)
(* a next hop that is not resolved; an application that aborts.            *)
FaultKinds == {"loss", "dup", "overtake", "refused", "abort"}

(* The streams are so short that an offset in one says which byte is       *)
(* meant: no sequence number comes round again.                            *)
ASSUME ConnectionAssumption ==
  /\ Faults \subseteq FaultKinds /\ OneWay \subseteq Faults
  /\ CliBytes \in Nat /\ SrvBytes \in Nat
  /\ CliIss \in SeqNo /\ SrvIss \in SeqNo
  /\ CliReads \subseteq Nat /\ SrvReads \subseteq Nat /\ Elapsed \subseteq Nat
  /\ ChanCap \in Nat /\ MaxFaults \in Nat /\ MaxTicks \in Nat
  /\ Prompt \in BOOLEAN
  /\ Byte = 1 .. (IF CliBytes > SrvBytes THEN CliBytes ELSE SrvBytes)
  /\ CliBytes + SrvBytes + RcvBuf + 4 < Half

Ends == {"cli", "srv"}
Peer == [e \in Ends |-> IF e = "cli" THEN "srv" ELSE "cli"]
Total == [e \in Ends |-> IF e = "cli" THEN CliBytes ELSE SrvBytes]
Iss == [e \in Ends |-> IF e = "cli" THEN CliIss ELSE SrvIss]
Reads == [e \in Ends |-> IF e = "cli" THEN CliReads ELSE SrvReads]

VARIABLES
  sock,     \* the socket of each host
  wire,     \* the frames under way to each host, oldest first
  sent,     \* how many bytes mn_tcp_send has taken from each application
  rcvd,     \* the bytes mn_tcp_recv has given to each application
  faults,   \* the kinds of faults that have happened, and their count
  ticks     \* how many polls have found that time had passed

vars == <<sock, wire, sent, rcvd, faults, ticks>>

Init ==
  /\ sock = [e \in Ends |-> FreshSocket]
  /\ wire = [e \in Ends |-> << >>]
  /\ sent = [e \in Ends |-> 0]
  /\ rcvd = [e \in Ends |-> << >>]
  /\ faults = [kinds |-> {}, count |-> 0]
  /\ ticks = 0

(* A step that needs the faults of F to happen. *)
Given(F) ==
  /\ F \subseteq Faults /\ faults.count + Cardinality(F) <= MaxFaults
  /\ faults' = [kinds |-> faults.kinds \cup F,
                count |-> faults.count + Cardinality(F)]
  /\ F \cap OneWay # {} => sent["srv"] = 0

(* The frames that fit behind those already under way. *)
Carry(q, segs) == SubSeq(q \o segs, 1, Lesser(Len(q) + Len(segs), ChanCap))

(* The link during one poll: willing throughout, or it stops after 0 or 1. *)
Willing == [takes |-> SndBuf + 1, then |-> "FAILED"]
Unwilling == [takes : {0, 1}, then : {"FAILED", "PENDING"}]

(* A poll d ticks after the last, with this link and the other faults F.  *)
Conditions(d, link, F) ==
  /\ Given(F \cup IF link \in Unwilling THEN {"refused"} ELSE {})
  /\ IF d > 0 /\ ~Prompt THEN ticks < MaxTicks /\ ticks' = ticks + 1
                         ELSE UNCHANGED ticks
  /\ d > 0 /\ Prompt => \A e \in Ends : wire[e] = << >>

----------------------------------------------------------------------------
(* The application. *)

Connect(e) ==
  /\ sock[e] = FreshSocket
  /\ \E r \in SendResult :
       LET c == mn_tcp_connect(sock[e], Iss[e], r)
       IN /\ Given(IF r = "OK" THEN {} ELSE {"refused"})
          /\ sock' = [sock EXCEPT ![e] = c.t]
          /\ wire' = [wire EXCEPT ![Peer[e]] = Carry(@, c.out)]
  /\ UNCHANGED <<sent, rcvd, ticks>>

Listen(e) ==
  /\ sock[e] = FreshSocket
  /\ sock' = [sock EXCEPT ![e] = mn_tcp_listen(@)]
  /\ UNCHANGED <<wire, sent, rcvd, faults, ticks>>

Write(e) ==
  /\ can_send(sock[e])
  /\ e = "srv" => faults.kinds \cap OneWay = {}
  /\ \E n \in 1 .. Total[e] - sent[e] :
       /\ sock' = [sock EXCEPT ![e] =
                     mn_tcp_send(@, [i \in 1 .. n |-> sent[e] + i])]
       /\ sent' = [sent EXCEPT ![e] = @ + SendTakes(sock[e], n)]
  /\ UNCHANGED <<wire, rcvd, faults, ticks>>

Read(e) ==
  /\ sock[e].rcvq # << >>
  /\ \E cap \in Reads[e] :
       /\ sock' = [sock EXCEPT ![e] = mn_tcp_recv(@, cap)]
       /\ rcvd' = [rcvd EXCEPT ![e] =
                     @ \o SubSeq(sock[e].rcvq, 1, RecvTakes(sock[e], cap))]
  /\ UNCHANGED <<wire, sent, faults, ticks>>

Close(e) ==
  /\ sock[e].state \notin {"CLOSED"} /\ ~sock[e].fin_queued
  /\ sock' = [sock EXCEPT ![e] = mn_tcp_close(@)]
  /\ UNCHANGED <<wire, sent, rcvd, faults, ticks>>

Abort(e) ==
  /\ sock[e].state # "CLOSED"
  /\ Given({"abort"})
  /\ LET a == mn_tcp_abort(sock[e], "OK")
     IN /\ sock' = [sock EXCEPT ![e] = a.t]
        /\ wire' = [wire EXCEPT ![Peer[e]] = Carry(@, a.out)]
  /\ UNCHANGED <<sent, rcvd, ticks>>

----------------------------------------------------------------------------
(* mn_api_poll. *)

(* The dispatcher of a host with one socket: its owner, else a listener    *)
(* for a SYN, else RST.                                                    *)
mn_tcp_input(e, s, r) ==
  LET t == sock[e]
  IN CASE t.state \notin {"CLOSED", "LISTEN"} -> Silent(segment_input(t, s))
       [] t.state = "LISTEN" /\ s.fl \cap {"SYN", "ACK", "RST"} = {"SYN"} ->
            passive_open(t, s, Iss[e], r)
       [] OTHER -> [t |-> t,
                    out |-> IF "RST" \in s.fl THEN << >> ELSE send_rst(s, r)]

(* No frame has arrived: only the timers and the transmitter run. *)
PollQuietAfter(e, D) ==
  \E d \in D, link \in {Willing} \cup Unwilling :
    /\ Conditions(d, link, {})
    /\ LET p == poll_one(sock[e], d, link)
       IN /\ link \in Unwilling =>
               Len(poll_one(sock[e], d, Willing).out) > link.takes
          /\ sock' = [sock EXCEPT ![e] = p.t]
          /\ wire' = [wire EXCEPT ![Peer[e]] = Carry(@, p.out)]
    /\ UNCHANGED <<sent, rcvd>>

PollQuiet(e) == PollQuietAfter(e, Elapsed)

(* The i-th frame under way has arrived and is the one pulled. *)
PollFrame(e) ==
  \E i \in 1 .. Len(wire[e]), d \in Elapsed,
     link \in {Willing} \cup Unwilling :
    /\ Conditions(d, link, IF i > 1 THEN {"overtake"} ELSE {})
    /\ LET in == mn_tcp_input(e, wire[e][i], FirstResult(link))
           p  == poll_one(in.t, d, link)
       IN /\ link \in Unwilling =>
               Len(mn_tcp_input(e, wire[e][i], "OK").out
                   \o poll_one(in.t, d, Willing).out) > link.takes
          /\ sock' = [sock EXCEPT ![e] = p.t]
          /\ wire' = [wire EXCEPT ![e] = RemoveAt(@, i),
                                  ![Peer[e]] = Carry(@, in.out \o p.out)]
    /\ UNCHANGED <<sent, rcvd>>

----------------------------------------------------------------------------
(* The network. *)

Lose(e) ==
  /\ Given({"loss"})
  /\ \E i \in 1 .. Len(wire[e]) :
       wire' = [wire EXCEPT ![e] = RemoveAt(@, i)]
  /\ UNCHANGED <<sock, sent, rcvd, ticks>>

Duplicate(e) ==
  /\ Given({"dup"})
  /\ \E i \in 1 .. Len(wire[e]) :
       wire' = [wire EXCEPT ![e] = Carry(@, <<wire[e][i]>>)]
  /\ UNCHANGED <<sock, sent, rcvd, ticks>>

Next ==
  \/ Connect("cli")
  \/ Listen("srv")
  \/ \E e \in Ends : Write(e)
  \/ \E e \in Ends : Read(e)
  \/ \E e \in Ends : Close(e)
  \/ \E e \in Ends : Abort(e)
  \/ \E e \in Ends : PollQuiet(e)
  \/ \E e \in Ends : PollFrame(e)
  \/ \E e \in Ends : Lose(e)
  \/ \E e \in Ends : Duplicate(e)

Spec == Init /\ [][Next]_vars

(* The client's loop calls mn_api_poll for ever: a frame under way is      *)
(* pulled, a poll without a frame runs the transmitter, and the clock of   *)
(* every host goes on.  The application reads what has arrived.  The first *)
(* two are weak fairness and the third strong, written with the condition  *)
(* under which the poll would change something in place of ENABLED.        *)
PollTimed(e) == PollQuietAfter(e, Elapsed \ {0})
Changes(e, D) == \E d \in D : poll_one(sock[e], d, Willing).t # sock[e]

Fairness ==
  \A e \in Ends :
    /\ []<>(wire[e] = << >>) \/ []<><<PollFrame(e)>>_vars
    /\ []<>~Changes(e, {0}) \/ []<><<PollQuiet(e)>>_vars
    /\ \/ <>[](wire # [x \in Ends |-> << >>] \/ ~Changes(e, Elapsed \ {0}))
       \/ []<><<PollTimed(e)>>_vars
    /\ WF_vars(Read(e))

FairSpec == Spec /\ Fairness

----------------------------------------------------------------------------
(* Properties. *)

Taken(e) == Len(rcvd[e]) + Len(sock[e].rcvq)

(* Every variable has its type, and every ring holds what it can.         *)
TypeOK ==
  /\ sock \in [Ends -> Socket] /\ \A e \in Ends : RingsHold(sock[e])
  /\ wire \in [Ends -> Seq(Segment)]
  /\ \A e \in Ends : Len(wire[e]) <= ChanCap
  /\ \A e \in Ends : sent[e] \in 0 .. Total[e]
  /\ rcvd \in [Ends -> Seq(Byte)]
  /\ faults \in [kinds : SUBSET Faults, count : 0 .. MaxFaults]
  /\ ticks \in 0 .. MaxTicks

(* What the receiver has taken lies between what the sender knows to be    *)
(* acknowledged and what it has sent: the two ends agree on the stream,    *)
(* whatever is lost, repeated or late.                                     *)
Linked(e) == Synced(sock[e]) /\ Synced(sock[Peer[e]])
Synchronised ==
  \A e \in Ends : Linked(e) =>
    /\ SEQ_LEQ(sock[e].snd_una, sock[Peer[e]].rcv_nxt)
    /\ SEQ_LEQ(sock[Peer[e]].rcv_nxt, sock[e].snd_nxt)

(* A byte leaves the send ring only once the peer's receive ring has it:   *)
(* handle_ack never retires what could still have to be sent again.        *)
RetiredIsTaken ==
  \A e \in Ends : sock[e].state # "CLOSED" =>
    sent[e] - Len(sock[e].sndq) <= Taken(Peer[e])

(* A FIN that was acknowledged means the whole stream was delivered: an    *)
(* application that sees its close complete has lost nothing.              *)
CloseIsComplete ==
  \A e \in Ends :
    sock[e].fin_sent /\ sock[e].snd_una = sock[e].snd_nxt =>
      /\ Taken(Peer[e]) = sent[e]
      /\ "EOF" \in sock[Peer[e]].flags

(* A window once advertised is kept: the right edge of every segment of    *)
(* ours still under way is no further than the room we have now.           *)
Room(t) == SeqAdd(t.rcv_nxt, rcv_free(t))
WindowIsKept ==
  \A e \in Ends : Synced(sock[e]) =>
    \A i \in 1 .. Len(wire[Peer[e]]) :
      LET s == wire[Peer[e]][i]
      IN s.fl \cap {"ACK", "RST"} = {"ACK"} =>
           SEQ_LEQ(SeqAdd(s.ack, s.wnd), Room(sock[e]))

(* Data under way fits: the sender never runs past the window its peer     *)
(* opened, so ring_put never has to cut a segment short.                   *)
DataFits ==
  \A e \in Ends : Synced(sock[e]) =>
    \A i \in 1 .. Len(wire[e]) :
      LET s == wire[e][i]
      IN s.data # << >> =>
           SEQ_LEQ(SeqAdd(s.seq, Len(s.data)), Edge(sock[e]))

(* poll_one on its retransmissions: "Retransmit if the peer has gone       *)
(* quiet: the oldest segment only".  A socket sends again only what its    *)
(* peer has not acknowledged.                                              *)
ResendsUnacknowledged ==
  [][\A e \in Ends : sock'[e].retries > sock[e].retries
       => sock[e].snd_una # sock[e].snd_nxt]_vars

(* The connection implements two byte streams. *)
Streams == INSTANCE ByteStreams WITH
  accepted <- sent,
  arrived  <- [e \in Ends |-> rcvd[e] \o sock[e].rcvq],
  given    <- [e \in Ends |-> Len(rcvd[e])],
  eof      <- [e \in Ends |-> "EOF" \in sock[e].flags]
ImplementsStreams == Streams!Spec

(* Liveness, while the network is prompter than the retransmission timer. *)

Failed(e) == sock[e].flags \cap {"RESET", "TIMEOUT", "REFUSED"} # {}
Broken == \E e \in Ends : Failed(e)

(* The sender waits for a window that its peer has said is open, or the    *)
(* peer is gone.  There is no persist timer (poll_one sends nothing at     *)
(* snd_wnd = 0), so a window update that is lost, or that arrives out of   *)
(* order, leaves the sender here.                                          *)
Unheard(e) ==
  LET p == sock[Peer[e]]
  IN /\ sock[e].snd_wnd = 0 /\ sock[e].inflight = 0
     /\ sock[e].sndq # << >>
     /\ p.state = "CLOSED" \/ p.adv_edge # p.rcv_nxt

(* Every byte mn_tcp_send took reaches the other application, or an end    *)
(* says that the connection broke, or the word that the window is open     *)
(* has not been heard.                                                     *)
NoSilentStall ==
  \A e \in Ends :
    \/ <>[]Unheard(e)
    \/ \A n \in 1 .. Total[e] :
         sent[e] >= n ~> Len(rcvd[Peer[e]]) >= n \/ Broken

(* If an end gave up, something was lost; or its peer sent data and may    *)
(* have withheld its acknowledgements (SlowReaderNeverStalls); or the FIN  *)
(* was acknowledged and sent again all the same (ResendsUnacknowledged).   *)
GaveUpRightly(e) ==
  "TIMEOUT" \in sock[e].flags =>
    \/ faults.count > 0
    \/ sent[Peer[e]] > 0
    \/ sock[e].fin_sent /\ sock[e].snd_una = sock[e].snd_nxt

(* A socket told to close is CLOSED in the end, whatever its peer does,    *)
(* with the same exception; and not by giving up a connection that lost    *)
(* nothing: every acknowledgement is understood, around the wrap of the    *)
(* sequence numbers too (mn_tcp.c:350, mn_tcp.c:627).                      *)
CloseEnds ==
  \A e \in Ends :
    \/ <>[]Unheard(e)
    \/ sock[e].fin_queued ~> sock[e].state = "CLOSED" /\ GaveUpRightly(e)

(* docs/ABI.md on the receive ring: "a slow reader never stalls the        *)
(* sender".  Every byte accepted is delivered, unless an end says that the *)
(* connection broke.                                                       *)
SlowReaderNeverStalls ==
  \A e \in Ends : \A n \in 1 .. Total[e] :
    sent[e] >= n ~> Len(rcvd[Peer[e]]) >= n \/ Broken

(* A handshake ends, one way or the other. *)
HandshakeEnds == \A e \in Ends :
  sock[e].state \in Opening ~> sock[e].state \notin Opening

============================================================================
