------------------------------- MODULE MnTcp -------------------------------
(***************************************************************************)
(* One TCP socket of mega-net (src/net/mn_tcp.c), as a record, and the     *)
(* functions of that file as operators from one record to the next.        *)
(*                                                                         *)
(* The operators that can transmit take the link's answer as an argument   *)
(* and return [t |-> the socket afterwards, out |-> the segments that left *)
(* the host, oldest first].  The others return the socket.                 *)
(*                                                                         *)
(* A ring in external memory is the sequence of its bytes, oldest first:   *)
(* modules Ring and RingProofs show that ring_read and ring_write keep     *)
(* exactly that.  A timestamp is its age, the ticks since it was taken,    *)
(* and stops growing once it is past every threshold the code compares it  *)
(* with.                                                                   *)
(***************************************************************************)
EXTENDS Integers, Sequences

CONSTANTS
  Byte,          \* the values of a byte of payload
  SeqSpace,      \* how many sequence numbers there are: 2^32
  RcvBuf,        \* MN_TCP_RCVBUF, bytes of the receive ring
  SndBuf,        \* MN_TCP_SNDBUF, bytes of the send ring
  WindowCap,     \* MN_TCP_WINDOW_CAP, the most we advertise
  Mss,           \* MN_TCP_MSS, the segment size we accept
  DefaultMss,    \* 536, the peer's when it offers none
  CwndMax,       \* CWND_MAX, segments in flight
  Grow,          \* WINUPDATE_GROW
  RtoInitial,    \* RTO_INITIAL, in ticks
  RtoMax,        \* RTO_MAX
  MaxRetries,    \* MAX_RETRIES
  TimeWaitTicks  \* TIME_WAIT_TICKS

(* What the code's own numbers satisfy; no proof needs more. *)
ASSUME TcpAssumption ==
  /\ \A c \in {RcvBuf, SndBuf, WindowCap, Mss, DefaultMss, CwndMax, Grow,
               RtoInitial, RtoMax, MaxRetries, TimeWaitTicks} : c \in Nat \ {0}
  /\ SeqSpace \in Nat
  /\ SeqSpace % 2 = 0
  /\ SndBuf + 2 < SeqSpace \div 2
  /\ RcvBuf + 2 < SeqSpace \div 2
  /\ RtoInitial <= RtoMax

Lesser(a, b) == IF a < b THEN a ELSE b

----------------------------------------------------------------------------
(* Sequence arithmetic, modulo SeqSpace: uint32_t + and -, SEQ_LT, SEQ_LEQ.*)

SeqNo == 0 .. SeqSpace - 1
Half == SeqSpace \div 2

SeqAdd(a, n) == IF a + n < SeqSpace THEN a + n ELSE a + n - SeqSpace
SeqSub(a, b) == IF b <= a THEN a - b ELSE a - b + SeqSpace

(* [mutant of SEQ_LT: compares without the wrap] *)
SEQ_LT_Unsigned(a, b) == a < b
SEQ_LT(a, b)  == SeqSub(a, b) >= Half
SEQ_LEQ(a, b) == SEQ_LT(a, b) \/ a = b

----------------------------------------------------------------------------
(* The socket. *)

States == {"CLOSED", "SYN_SENT", "ESTABLISHED", "FIN_WAIT_1", "FIN_WAIT_2",
           "CLOSE_WAIT", "CLOSING", "LAST_ACK", "TIME_WAIT", "LISTEN",
           "SYN_RCVD"}
Opening   == {"SYN_SENT", "SYN_RCVD"}
Receiving == {"ESTABLISHED", "FIN_WAIT_1", "FIN_WAIT_2"}
Synced(t) == t.state \notin Opening \cup {"CLOSED", "LISTEN"}
Flags     == {"EOF", "RESET", "TIMEOUT", "REFUSED"}
SendResult == {"OK", "FAILED", "PENDING"}

Socket ==
  [state : States, flags : SUBSET Flags,
   iss : SeqNo, snd_una : SeqNo, snd_nxt : SeqNo, rcv_nxt : SeqNo,
   adv_edge : SeqNo, snd_wnd : Nat, peer_mss : Nat \ {0}, cwnd : Nat,
   sndq : Seq(Byte),        \* send ring: snd_head and snd_len
   inflight : Nat,          \* how much of it is sent and unacknowledged
   rcvq : Seq(Byte),        \* receive ring: rcv_head and rcv_count
   fin_queued : BOOLEAN, fin_sent : BOOLEAN,
   ack_pending : BOOLEAN, syn_pending : BOOLEAN, tx_pending : BOOLEAN,
   sent_age : 0 .. 2 * RtoMax,             \* now - sent_at
   timewait_age : 0 .. TimeWaitTicks,      \* now - timewait_at
   rto : Nat \ {0}, retries : Nat]

(* mn_tcp_init, long enough after power-on for timewait_at to be past. *)
FreshSocket ==
  [state |-> "CLOSED", flags |-> {},
   iss |-> 0, snd_una |-> 0, snd_nxt |-> 0, rcv_nxt |-> 0,
   adv_edge |-> 0, snd_wnd |-> 0, peer_mss |-> DefaultMss, cwnd |-> 0,
   sndq |-> << >>, inflight |-> 0, rcvq |-> << >>,
   fin_queued |-> FALSE, fin_sent |-> FALSE,
   ack_pending |-> FALSE, syn_pending |-> FALSE, tx_pending |-> FALSE,
   sent_age |-> 0, timewait_age |-> TimeWaitTicks,
   rto |-> RtoInitial, retries |-> 0]

reset_counters(t) ==
  [t EXCEPT !.flags = {}, !.sndq = << >>, !.inflight = 0, !.cwnd = 0,
            !.rcvq = << >>, !.fin_queued = FALSE, !.fin_sent = FALSE,
            !.ack_pending = FALSE, !.syn_pending = FALSE,
            !.tx_pending = FALSE, !.adv_edge = 0, !.snd_wnd = 0,
            !.peer_mss = DefaultMss, !.rto = RtoInitial, !.retries = 0]

rcv_free(t) == RcvBuf - Len(t.rcvq)
(* [mutant of adv_window: offers the cap, whatever room there is] *)
adv_window_Cap(t) == WindowCap
(* [mutant of adv_window: offers nothing rather than less than a segment]  *)
adv_window_NoSilly(t) ==
  IF rcv_free(t) < Mss THEN 0 ELSE Lesser(rcv_free(t), WindowCap)
adv_window(t) == Lesser(rcv_free(t), WindowCap)

(* Each ring holds no more than its size, and what is in flight is queued. *)
RingsHold(t) ==
  /\ Len(t.rcvq) <= RcvBuf
  /\ Len(t.sndq) <= SndBuf
  /\ t.inflight <= Len(t.sndq)

(* The sequence number just past the window an ACK sent now would open. *)
Edge(t) == SeqAdd(t.rcv_nxt, adv_window(t))

Elapse(t, d) ==
  [t EXCEPT !.sent_age = Lesser(@ + d, 2 * RtoMax),
            !.timewait_age = Lesser(@ + d, TimeWaitTicks)]

----------------------------------------------------------------------------
(* Segments.  mss is the option of a SYN, 0 when there is none.            *)

SegFlags == {"SYN", "ACK", "FIN", "RST"}

Segment == [fl : SUBSET SegFlags, seq : SeqNo, ack : SeqNo, wnd : Nat,
            mss : Nat, data : Seq(Byte)]

Build(t, fl, seq, data) ==
  [fl |-> fl, seq |-> seq, ack |-> IF "ACK" \in fl THEN t.rcv_nxt ELSE 0,
   wnd |-> adv_window(t), mss |-> IF "SYN" \in fl THEN Mss ELSE 0,
   data |-> data]

(* emit(): with the next hop unresolved it returns before it touches the   *)
(* socket; a frame the driver refuses has moved adv_edge all the same.     *)
Announce(t, fl, r) ==
  IF r # "PENDING" /\ "ACK" \in fl THEN [t EXCEPT !.adv_edge = Edge(t)] ELSE t

emit(t, fl, seq, data, r) ==
  [t |-> Announce(t, fl, r),
   out |-> IF r = "OK" THEN <<Build(t, fl, seq, data)>> ELSE << >>]

Silent(t) == [t |-> t, out |-> << >>]

(* send_rst(): the answer to a segment nobody owns. *)
send_rst(s, r) ==
  IF r # "OK" THEN << >> ELSE
  <<IF "ACK" \in s.fl
    THEN [fl |-> {"RST"}, seq |-> s.ack, ack |-> 0, wnd |-> 0, mss |-> 0,
          data |-> << >>]
    ELSE [fl |-> {"RST", "ACK"}, seq |-> 0,
          ack |-> SeqAdd(s.seq, Len(s.data)
                    + (IF "SYN" \in s.fl THEN 1 ELSE 0)
                    + (IF "FIN" \in s.fl THEN 1 ELSE 0)),
          wnd |-> 0, mss |-> 0, data |-> << >>]>>

----------------------------------------------------------------------------
(* The calls of the application. *)

mn_tcp_connect(t, iss, r) ==
  IF t.state # "CLOSED" THEN Silent(t) ELSE
  LET u == [reset_counters(t) EXCEPT
              !.iss = iss, !.snd_una = iss, !.snd_nxt = SeqAdd(iss, 1),
              !.rcv_nxt = 0, !.state = "SYN_SENT", !.sent_age = 0,
              !.syn_pending = r # "OK"]
  IN emit(u, {"SYN"}, iss, << >>, r)

mn_tcp_listen(t) ==
  IF t.state # "CLOSED" THEN t
  ELSE [reset_counters(t) EXCEPT !.state = "LISTEN"]

can_send(t) == t.state \in {"ESTABLISHED", "CLOSE_WAIT"} /\ ~t.fin_queued

(* [mutant of SendTakes: forgets the room left in the ring] *)
SendTakes_NoRoom(t, n) == IF can_send(t) THEN n ELSE 0

(* How many of n bytes offered mn_tcp_send takes. *)
SendTakes(t, n) == IF can_send(t) THEN Lesser(n, SndBuf - Len(t.sndq)) ELSE 0

mn_tcp_send(t, data) ==
  LET n == SendTakes(t, Len(data))
  IN IF n = 0 THEN t
     ELSE [t EXCEPT !.sndq = @ \o SubSeq(data, 1, n), !.tx_pending = TRUE]

(* [mutant of WorthTelling: forgets the window that was closed] *)
WorthTelling_Grown(t) == SeqSub(Edge(t), t.adv_edge) >= Grow

(* after_recv: the right edge has moved, and once it has moved enough, or  *)
(* if the window had closed entirely, the peer is told.                    *)
WorthTelling(t) ==
  \/ SeqSub(Edge(t), t.adv_edge) >= Grow
  \/ t.adv_edge = t.rcv_nxt

after_recv(t, n) ==
  LET u == [t EXCEPT !.rcvq = SubSeq(@, n + 1, Len(@))]
  IN [u EXCEPT !.ack_pending =
        @ \/ (n > 0 /\ t.state \in Receiving /\ WorthTelling(u))]

(* mn_tcp_recv of at most cap bytes. *)
RecvTakes(t, cap) == Lesser(Len(t.rcvq), cap)
mn_tcp_recv(t, cap) == after_recv(t, RecvTakes(t, cap))

mn_tcp_close(t) ==
  IF t.state \in {"ESTABLISHED", "CLOSE_WAIT"}
  THEN [t EXCEPT !.fin_queued = TRUE, !.tx_pending = TRUE]
  ELSE IF t.state \in Opening \cup {"LISTEN"}
  THEN [t EXCEPT !.state = "CLOSED"]
  ELSE t

mn_tcp_abort(t, r) ==
  LET e == IF t.state \in {"CLOSED", "TIME_WAIT", "LISTEN"} THEN Silent(t)
           ELSE emit(t, {"RST", "ACK"}, t.snd_nxt, << >>, r)
  IN [t |-> [e.t EXCEPT !.state = "CLOSED", !.sndq = << >>, !.inflight = 0,
                        !.fin_queued = FALSE, !.fin_sent = FALSE,
                        !.ack_pending = FALSE, !.syn_pending = FALSE,
                        !.tx_pending = FALSE],
      out |-> e.out]

----------------------------------------------------------------------------
(* A segment for the socket that owns it. *)

(* The peer acknowledged up to ack: retire sent data.  The FIN takes a     *)
(* sequence number and no byte.                                            *)
(* [mutant of Acked: any acknowledgement retires all that is in flight]    *)
Acked_All(t, ack) == t.inflight
Acked(t, ack) ==
  LET span == SeqSub(ack, t.snd_una)
  IN Lesser(IF t.fin_sent /\ ack = t.snd_nxt THEN span - 1 ELSE span,
            t.inflight)

handle_ack(t, ack) ==
  IF SEQ_LEQ(ack, t.snd_una) \/ SEQ_LT(t.snd_nxt, ack) THEN t ELSE
  LET n == Acked(t, ack)
  IN [t EXCEPT !.sndq = SubSeq(@, n + 1, Len(@)),
               !.inflight = @ - n,
               !.snd_una = ack,
               !.retries = 0,
               !.rto = RtoInitial,
               !.sent_age = 0,
               !.cwnd = IF @ < t.peer_mss * CwndMax THEN @ + t.peer_mss ELSE @,
               !.tx_pending = @ \/ Len(t.sndq) > t.inflight]

take_mss(t, s) ==
  [t EXCEPT !.peer_mss = Lesser(IF s.mss = 0 THEN @ ELSE s.mss, Mss)]

(* The reset that answers our SYN, the one that ends a half-open passive   *)
(* connection, and the one inside the window of a connection.              *)
InputReset(t, s) ==
  CASE t.state = "SYN_SENT" ->
         IF "ACK" \in s.fl /\ s.ack = t.snd_nxt
         THEN [t EXCEPT !.flags = @ \cup {"REFUSED", "RESET"},
                        !.state = "CLOSED"]
         ELSE t
    [] t.state = "SYN_RCVD" -> [t EXCEPT !.state = "LISTEN", !.flags = {}]
    [] OTHER ->
         IF SEQ_LT(s.seq, t.rcv_nxt) \/ SEQ_LEQ(Edge(t), s.seq)
         THEN t
         ELSE [t EXCEPT !.flags = @ \cup {"RESET"}, !.state = "CLOSED"]

InputSynSent(t, s) ==
  IF ~({"SYN", "ACK"} \subseteq s.fl /\ s.ack = t.snd_nxt) THEN t ELSE
  LET u == take_mss(t, s)
  IN [u EXCEPT !.rcv_nxt = SeqAdd(s.seq, 1), !.snd_una = s.ack,
               !.snd_wnd = s.wnd, !.state = "ESTABLISHED",
               !.cwnd = u.peer_mss * 2, !.retries = 0, !.rto = RtoInitial,
               !.ack_pending = TRUE]

(* [mutant of AfterFin: two FINs that cross end the connection at once] *)
AfterFin_Crossed == [x \in States |->
  CASE x = "ESTABLISHED" -> "CLOSE_WAIT"
    [] x \in {"FIN_WAIT_1", "FIN_WAIT_2"} -> "TIME_WAIT"
    [] OTHER -> x]

(* ring_put of as much payload as fits, and the FIN if all of it did.      *)
AfterFin == [x \in States |->
  CASE x = "ESTABLISHED" -> "CLOSE_WAIT"
    [] x = "FIN_WAIT_1"  -> "CLOSING"
    [] x = "FIN_WAIT_2"  -> "TIME_WAIT"
    [] OTHER             -> x]

(* [mutant of RingPut: forgets the room left in the ring] *)
RingPut_NoRoom(t, s) == IF t.state \in Receiving THEN Len(s.data) ELSE 0
RingPut(t, s) ==
  IF t.state \in Receiving THEN Lesser(Len(s.data), rcv_free(t)) ELSE 0

FinReached(t, s) ==
  /\ "FIN" \in s.fl
  /\ t.state \in Receiving => RingPut(t, s) = Len(s.data)

Advance(t, s) == RingPut(t, s) + (IF FinReached(t, s) THEN 1 ELSE 0)

TakePayload(t, s) ==
  LET fin == FinReached(t, s)
  IN [t EXCEPT !.rcvq = @ \o SubSeq(s.data, 1, RingPut(t, s)),
               !.rcv_nxt = SeqAdd(@, Advance(t, s)),
               !.ack_pending = @ \/ s.data # << >> \/ fin,
               !.flags = IF fin THEN @ \cup {"EOF"} ELSE @,
               !.state = IF fin THEN AfterFin[@] ELSE @]

AfterOurFin == [x \in States |->
  CASE x = "FIN_WAIT_1" -> "FIN_WAIT_2"
    [] x = "CLOSING"    -> "TIME_WAIT"
    [] x = "LAST_ACK"   -> "CLOSED"
    [] OTHER            -> x]

OurFinAcked(t) ==
  IF t.fin_sent /\ t.snd_una = t.snd_nxt
  THEN [t EXCEPT !.state = AfterOurFin[@]] ELSE t

(* [mutant of InOrder: takes what comes after a gap as well] *)
InOrder_Gap(t, s) == SEQ_LEQ(t.rcv_nxt, s.seq)
InOrder(t, s) == s.seq = t.rcv_nxt

(* A synchronised socket: only in-order data is taken, anything else that  *)
(* occupies sequence space is answered with what we expect.                *)
InputSynchronised(t, s) ==
  IF "ACK" \notin s.fl THEN t
  ELSE IF ~InOrder(t, s)
  THEN LET u == handle_ack(t, s.ack)
       IN [u EXCEPT !.ack_pending = @ \/ s.data # << >> \/ "FIN" \in s.fl]
  ELSE OurFinAcked(TakePayload(
         [handle_ack(t, s.ack) EXCEPT !.snd_wnd = s.wnd], s))

(* The handshake's last ACK may carry data, so it goes on as above.        *)
InputSynRcvd(t, s) ==
  IF "SYN" \in s.fl
  THEN [t EXCEPT !.syn_pending = @ \/ SeqAdd(s.seq, 1) = t.rcv_nxt]
  ELSE IF ~("ACK" \in s.fl /\ s.ack = t.snd_nxt /\ s.seq = t.rcv_nxt) THEN t
  ELSE InputSynchronised(
         [t EXCEPT !.snd_una = s.ack, !.state = "ESTABLISHED",
                   !.cwnd = t.peer_mss * 2, !.retries = 0,
                   !.rto = RtoInitial], s)

segment_input(t, s) ==
  CASE "RST" \in s.fl         -> InputReset(t, s)
    [] "RST" \notin s.fl /\ t.state = "SYN_SENT" -> InputSynSent(t, s)
    [] "RST" \notin s.fl /\ t.state = "SYN_RCVD" -> InputSynRcvd(t, s)
    [] OTHER                  -> InputSynchronised(t, s)

(* A SYN for a listening socket. *)
passive_open(t, s, iss, r) ==
  LET u == [take_mss(reset_counters(t), s) EXCEPT
              !.rcv_nxt = SeqAdd(s.seq, 1), !.iss = iss, !.snd_una = iss,
              !.snd_nxt = SeqAdd(iss, 1), !.snd_wnd = s.wnd,
              !.state = "SYN_RCVD", !.sent_age = 0, !.syn_pending = r # "OK"]
  IN emit(u, {"SYN", "ACK"}, iss, << >>, r)

----------------------------------------------------------------------------
(* poll_one().  link says how many frames the driver will take during this *)
(* poll and what it answers after that.                                    *)

Link == [takes : Nat, then : SendResult \ {"OK"}]

FirstResult(link) == IF link.takes > 0 THEN "OK" ELSE link.then

Doubled(rto) == IF rto < RtoMax THEN rto * 2 ELSE rto
(* [mutant of GiveUp: closes without a word] *)
GiveUp_Silent(t) == [t EXCEPT !.retries = @ + 1, !.state = "CLOSED"]

GiveUp(t) == [t EXCEPT !.retries = @ + 1, !.flags = @ \cup {"TIMEOUT"},
                       !.state = "CLOSED"]
(* [mutant of Overdue: the timer runs once] *)
Overdue_Once(t) == t.sent_age >= t.rto /\ t.retries = 0

Overdue(t) == t.sent_age >= t.rto

PollOpening(t, link) ==
  LET r == FirstResult(link)
      fl == IF t.state = "SYN_SENT" THEN {"SYN"} ELSE {"SYN", "ACK"}
      again(u) == emit([u EXCEPT !.sent_age = 0, !.syn_pending = r # "OK"],
                       fl, t.iss, << >>, r)
  IN CASE t.syn_pending -> again(t)
       [] ~t.syn_pending /\ Overdue(t) ->
            IF t.retries + 1 <= MaxRetries
            THEN again([t EXCEPT !.retries = @ + 1, !.rto = Doubled(@)])
            ELSE Silent(IF t.state = "SYN_SENT" THEN GiveUp(t)
                        ELSE [t EXCEPT !.retries = @ + 1, !.flags = {},
                                       !.state = "LISTEN"])
       [] OTHER -> Silent(t)

(* [mutant of PollTimeWait: the timer is not started by the acknowledgement] *)
PollTimeWait_Kept(t, link) ==
  LET e == IF t.ack_pending
           THEN emit([t EXCEPT !.ack_pending = FALSE], {"ACK"}, t.snd_nxt,
                     << >>, FirstResult(link))
           ELSE Silent(t)
  IN [e EXCEPT !.t.state =
        IF e.t.timewait_age >= TimeWaitTicks THEN "CLOSED" ELSE @]

PollTimeWait(t, link) ==
  LET e == IF t.ack_pending
           THEN emit([t EXCEPT !.ack_pending = FALSE, !.timewait_age = 0],
                     {"ACK"}, t.snd_nxt, << >>, FirstResult(link))
           ELSE Silent(t)
  IN [e EXCEPT !.t.state =
        IF e.t.timewait_age >= TimeWaitTicks THEN "CLOSED" ELSE @]

(* The oldest segment only, and the window back to one segment. *)
Retransmit(t, link) ==
  IF t.retries + 1 > MaxRetries THEN Silent(GiveUp(t)) ELSE
  LET u == [t EXCEPT !.retries = @ + 1, !.rto = Doubled(@), !.sent_age = 0,
                     !.cwnd = t.peer_mss]
      r == FirstResult(link)
  IN IF t.inflight > 0
     THEN emit(u, {"ACK"}, t.snd_una,
               SubSeq(t.sndq, 1, Lesser(t.inflight, t.peer_mss)), r)
     ELSE emit(u, {"ACK", "FIN"}, SeqSub(t.snd_nxt, 1), << >>, r)

(* The send loop: segments of at most peer_mss from inflight to the limit, *)
(* until the link refuses one.                                             *)
SendLimit(t) == Lesser(t.snd_wnd, t.cwnd)
SendEnd(t) == Lesser(Len(t.sndq), SendLimit(t))

SentUpTo(t, link) ==
  IF SendEnd(t) <= t.inflight THEN t.inflight
  ELSE Lesser(SendEnd(t), t.inflight + link.takes * t.peer_mss)

SendQueued(t, link) ==
  LET end     == SentUpTo(t, link)
      stopped == end < SendEnd(t)
      some    == end > t.inflight
      count   == (end - t.inflight + t.peer_mss - 1) \div t.peer_mss
      off(i)  == t.inflight + (i - 1) * t.peer_mss
      u == [t EXCEPT
              !.inflight = end,
              !.snd_nxt = SeqAdd(@, end - t.inflight),
              !.sent_age = IF some /\ t.inflight = 0 THEN 0 ELSE @,
              !.ack_pending = @ /\ ~some,
              !.tx_pending = end < Len(t.sndq)
                             \/ (stopped /\ link.then = "PENDING")]
  IN [t |-> Announce(u, {"ACK"}, IF some \/ (stopped /\ link.then = "FAILED")
                                 THEN "OK" ELSE "PENDING"),
      out |-> [i \in 1 .. count |->
                 Build(t, {"ACK"}, SeqAdd(t.snd_nxt, (i - 1) * t.peer_mss),
                       SubSeq(t.sndq, off(i) + 1,
                              Lesser(off(i) + t.peer_mss, end)))]]

(* [mutant of FinSent: forgets that a FIN takes a sequence number] *)
FinSent_Unnumbered(t) ==
  [t EXCEPT !.fin_sent = TRUE, !.sent_age = 0, !.ack_pending = FALSE,
            !.state = IF @ = "CLOSE_WAIT" THEN "LAST_ACK" ELSE "FIN_WAIT_1"]
FinSent(t) ==
  [t EXCEPT !.fin_sent = TRUE, !.snd_nxt = SeqAdd(@, 1), !.sent_age = 0,
            !.ack_pending = FALSE,
            !.state = IF @ = "CLOSE_WAIT" THEN "LAST_ACK" ELSE "FIN_WAIT_1"]

SendFin(t, link) ==
  LET r == FirstResult(link)
      e == emit(t, {"ACK", "FIN"}, t.snd_nxt, << >>, r)
  IN [e EXCEPT !.t = IF r = "OK" THEN FinSent(@) ELSE @]

SendAck(t, link) ==
  LET r == FirstResult(link)
      e == emit(t, {"ACK"}, t.snd_nxt, << >>, r)
  IN [e EXCEPT !.t.ack_pending = r = "PENDING"]

Outstanding(t) == t.inflight > 0 \/ t.fin_sent
DataReady(t)   == t.tx_pending /\ Len(t.sndq) > t.inflight
(* [mutant of FinReady: the FIN does not wait for the data in the ring] *)
FinReady_Early(t) == t.fin_queued /\ ~t.fin_sent
(* [mutant of FinReady: only the end that closes first sends a FIN] *)
FinReady_First(t) ==
  /\ t.fin_queued /\ ~t.fin_sent /\ t.inflight = 0 /\ t.sndq = << >>
  /\ t.state = "ESTABLISHED"
FinReady(t) ==
  t.fin_queued /\ ~t.fin_sent /\ t.inflight = 0 /\ t.sndq = << >>

PollSynchronised(t, link) ==
  IF Outstanding(t) /\ Overdue(t) THEN Retransmit(t, link)
  ELSE IF DataReady(t) THEN SendQueued(t, link)
  ELSE IF FinReady(t) THEN SendFin(t, link)
  ELSE IF t.ack_pending THEN SendAck(t, link)
  ELSE Silent(t)

(* One poll of the socket, d ticks after the last. *)
poll_one(t0, d, link) ==
  LET t == Elapse(t0, d)
  IN CASE t.state \in {"CLOSED", "LISTEN"} -> Silent(t)
       [] t.state \in Opening              -> PollOpening(t, link)
       [] t.state = "TIME_WAIT"            -> PollTimeWait(t, link)
       [] OTHER                            -> PollSynchronised(t, link)

----------------------------------------------------------------------------
(* What holds of a socket between any two calls, whatever its peer does.   *)

PeerFinished == {"CLOSE_WAIT", "CLOSING", "LAST_ACK", "TIME_WAIT"}
WeFinished == {"FIN_WAIT_1", "FIN_WAIT_2", "CLOSING", "LAST_ACK", "TIME_WAIT"}

(* The sender's books balance: what is between snd_una and snd_nxt is the  *)
(* SYN, or the inflight part of the send ring, or the FIN after the last   *)
(* byte.  handle_ack and the retransmission in poll_one trust inflight to  *)
(* say which bytes snd_una .. snd_nxt are.                                 *)
Unopened(u) ==
  /\ u.sndq = << >> /\ u.inflight = 0
  /\ ~u.fin_queued /\ ~u.fin_sent
  /\ u.snd_nxt = SeqAdd(u.snd_una, 1)

Balanced(u) ==
  /\ ~u.fin_sent => SeqSub(u.snd_nxt, u.snd_una) = u.inflight
  /\ u.fin_sent  => SeqSub(u.snd_nxt, u.snd_una) <= 1 /\ u.sndq = << >>

Books(u) ==
  /\ u.state \in Opening => Unopened(u)
  /\ Synced(u) => Balanced(u)

(* The state says what has happened: whose FIN has been sent, seen and     *)
(* acknowledged.  The state and the booleans are set apart, in             *)
(* segment_input, poll_one and mn_tcp_close.                               *)
Agrees(u) ==
  /\ u.state \in PeerFinished => "EOF" \in u.flags
  /\ Synced(u) => (u.fin_sent <=> u.state \in WeFinished)
  /\ u.fin_sent => u.fin_queued
  /\ u.state \in {"FIN_WAIT_2", "TIME_WAIT"} => u.snd_una = u.snd_nxt

(* Why a connection that no call of the application ended is closed: a     *)
(* failure flag, or both FINs done.                                        *)
Reason(u) ==
  \/ u.flags \cap {"RESET", "TIMEOUT", "REFUSED"} # {}
  \/ "EOF" \in u.flags /\ u.fin_sent /\ u.snd_una = u.snd_nxt

============================================================================
