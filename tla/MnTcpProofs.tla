---------------------------- MODULE MnTcpProofs ----------------------------
(***************************************************************************)
(* Lemmas about the functions of mn_tcp.c (module MnTcp), for every value  *)
(* of the constants.                                                       *)
(*                                                                         *)
(* Good is what every socket satisfies, whatever its peer and the network  *)
(* do, a property of one socket record.  For each function of mn_tcp.c     *)
(* there is a lemma that it keeps Good; the proofs about one socket, about *)
(* a connection and about the set of sockets cite them.                    *)
(***************************************************************************)
EXTENDS MnTcp, TLAPS, SequenceTheorems

Good(u) == u \in Socket /\ RingsHold(u) /\ Books(u) /\ Agrees(u)

----------------------------------------------------------------------------
(* Constants, sequence numbers, sequences. *)

LEMMA Consts ==
  /\ RcvBuf \in Nat \ {0} /\ SndBuf \in Nat \ {0} /\ WindowCap \in Nat \ {0}
  /\ Mss \in Nat \ {0} /\ DefaultMss \in Nat \ {0} /\ CwndMax \in Nat \ {0}
  /\ Grow \in Nat \ {0} /\ RtoInitial \in Nat \ {0} /\ RtoMax \in Nat \ {0}
  /\ MaxRetries \in Nat \ {0} /\ TimeWaitTicks \in Nat \ {0}
  /\ SeqSpace \in Nat /\ Half \in Nat /\ SeqSpace = 2 * Half
  /\ SndBuf + 2 < Half /\ RcvBuf + 2 < Half
BY TcpAssumption DEF Half

LEMMA SeqAddType ==
  ASSUME NEW a \in SeqNo, NEW n \in 0 .. SeqSpace - 1
  PROVE  SeqAdd(a, n) \in SeqNo /\ SeqSub(SeqAdd(a, n), a) = n
BY Consts DEF SeqAdd, SeqSub, SeqNo

LEMMA SeqSubType ==
  ASSUME NEW a \in SeqNo, NEW b \in SeqNo
  PROVE  /\ SeqSub(a, b) \in SeqNo /\ SeqSub(a, b) \in Nat
         /\ SeqSub(a, b) = 0 <=> a = b
BY Consts DEF SeqSub, SeqNo

(* Moving on from a later sequence number adds up. *)
LEMMA SeqSubAdd ==
  ASSUME NEW a \in SeqNo, NEW b \in SeqNo, NEW n \in Nat,
         SeqSub(a, b) + n < SeqSpace
  PROVE  SeqAdd(a, n) \in SeqNo /\ SeqSub(SeqAdd(a, n), b) = SeqSub(a, b) + n
BY Consts DEF SeqAdd, SeqSub, SeqNo

(* What handle_ack's two comparisons mean: the acknowledgement is after    *)
(* snd_una and at most snd_nxt, so it retires part of the span, if there   *)
(* is a span.                                                              *)
LEMMA AckInSpan ==
  ASSUME NEW una \in SeqNo, NEW nxt \in SeqNo, NEW ack \in SeqNo,
         SeqSub(nxt, una) < Half,
         ~SEQ_LEQ(ack, una), ~SEQ_LT(nxt, ack)
  PROVE  /\ SeqSub(ack, una) \in 1 .. SeqSub(nxt, una)
         /\ SeqSub(nxt, ack) = SeqSub(nxt, una) - SeqSub(ack, una)
BY Consts DEF SEQ_LEQ, SEQ_LT, SeqSub, SeqNo

LEMMA Drop ==
  ASSUME NEW q \in Seq(Byte), NEW n \in 0 .. Len(q)
  PROVE  /\ SubSeq(q, n + 1, Len(q)) \in Seq(Byte)
         /\ Len(SubSeq(q, n + 1, Len(q))) = Len(q) - n
OBVIOUS

LEMMA Append1 ==
  ASSUME NEW q \in Seq(Byte), NEW d \in Seq(Byte), NEW n \in 0 .. Len(d)
  PROVE  /\ q \o SubSeq(d, 1, n) \in Seq(Byte)
         /\ Len(q \o SubSeq(d, 1, n)) = Len(q) + n
OBVIOUS

LEMMA Least ==
  ASSUME NEW a \in Nat, NEW b \in Nat
  PROVE  Lesser(a, b) \in Nat /\ Lesser(a, b) <= a /\ Lesser(a, b) <= b
BY DEF Lesser

LEMMA EmptyBytes == << >> \in Seq(Byte) /\ Len(<< >>) = 0
OBVIOUS

LEMMA LenNat == ASSUME NEW q \in Seq(Byte) PROVE Len(q) \in Nat
OBVIOUS

(* The types of the fields, for the steps that cannot look into Socket.    *)
LEMMA Fields ==
  ASSUME NEW u \in Socket
  PROVE  /\ u.state \in States /\ u.flags \in SUBSET Flags
         /\ u.iss \in SeqNo /\ u.snd_una \in SeqNo /\ u.snd_nxt \in SeqNo
         /\ u.rcv_nxt \in SeqNo /\ u.adv_edge \in SeqNo
         /\ u.snd_wnd \in Nat /\ u.peer_mss \in Nat \ {0} /\ u.cwnd \in Nat
         /\ u.sndq \in Seq(Byte) /\ u.inflight \in Nat /\ u.rcvq \in Seq(Byte)
         /\ u.fin_queued \in BOOLEAN /\ u.fin_sent \in BOOLEAN
         /\ u.ack_pending \in BOOLEAN /\ u.syn_pending \in BOOLEAN
         /\ u.tx_pending \in BOOLEAN
         /\ u.sent_age \in 0 .. 2 * RtoMax
         /\ u.timewait_age \in 0 .. TimeWaitTicks
         /\ u.rto \in Nat \ {0} /\ u.retries \in Nat
BY DEF Socket

LEMMA InSeqNo ==
  /\ 0 \in SeqNo
  /\ 1 \in 0 .. SeqSpace - 1
  /\ 0 \in 0 .. 2 * RtoMax
BY Consts DEF SeqNo

----------------------------------------------------------------------------
(* Good looks at nine fields; a function that keeps those and the type     *)
(* keeps Good.                                                             *)

SameCore(u, v) ==
  /\ v.state = u.state /\ v.flags = u.flags /\ v.iss = u.iss
  /\ v.snd_una = u.snd_una /\ v.snd_nxt = u.snd_nxt
  /\ v.sndq = u.sndq /\ v.inflight = u.inflight /\ v.rcvq = u.rcvq
  /\ v.fin_queued = u.fin_queued /\ v.fin_sent = u.fin_sent

LEMMA CoreGood ==
  ASSUME NEW u, Good(u), NEW v \in Socket, SameCore(u, v)
  PROVE  Good(v)
BY DEF Good, SameCore, RingsHold, Books, Unopened, Balanced, Agrees, Synced

LEMMA WindowType ==
  ASSUME NEW u \in Socket, RingsHold(u)
  PROVE  /\ rcv_free(u) \in 0 .. RcvBuf
         /\ adv_window(u) \in 0 .. RcvBuf
         /\ Edge(u) \in SeqNo
<1>1. Len(u.rcvq) \in Nat
  BY Fields, LenNat
<1>2. rcv_free(u) \in 0 .. RcvBuf
  BY <1>1, Consts DEF rcv_free, RingsHold
<1>3. adv_window(u) \in 0 .. RcvBuf
  BY <1>2, Consts DEF adv_window, Lesser
<1>4. adv_window(u) \in 0 .. SeqSpace - 1
  BY <1>3, Consts
<1>. QED BY <1>2, <1>3, <1>4, Fields, SeqAddType DEF Edge

(* emit() moves adv_edge at most. *)
LEMMA EmitGood ==
  ASSUME NEW u, Good(u), NEW fl, NEW seq, NEW data, NEW r
  PROVE  /\ Good(emit(u, fl, seq, data, r).t)
         /\ SameCore(u, emit(u, fl, seq, data, r).t)
         /\ emit(u, fl, seq, data, r).t.rcv_nxt = u.rcv_nxt
<1>. DEFINE v == [u EXCEPT !.adv_edge = Edge(u)]
<1>1. u \in Socket /\ Edge(u) \in SeqNo
  BY WindowType DEF Good
<1>2. v \in Socket /\ SameCore(u, v) /\ v.rcv_nxt = u.rcv_nxt
  BY <1>1 DEF Socket, SameCore
<1>3. Good(v)
  BY <1>2, CoreGood
<1>4. SameCore(u, u)
  BY DEF SameCore
<1>5. emit(u, fl, seq, data, r).t \in {u, v}
  BY DEF emit, Announce
<1>. QED BY <1>2, <1>3, <1>4, <1>5

----------------------------------------------------------------------------
(* The calls of the application. *)

(* A socket out of reset_counters, with its sequence numbers set and a     *)
(* state without a connection or before one.                               *)
LEMMA ResetSocket ==
  ASSUME NEW u \in Socket
  PROVE  LET v == reset_counters(u)
         IN /\ v \in Socket
            /\ v.flags = {} /\ v.sndq = << >> /\ v.inflight = 0
            /\ v.rcvq = << >> /\ ~v.fin_queued /\ ~v.fin_sent
            /\ v.state = u.state /\ v.iss = u.iss
            /\ v.snd_una = u.snd_una /\ v.snd_nxt = u.snd_nxt
BY InSeqNo, EmptyBytes, Consts DEF reset_counters, Socket

LEMMA BlankGood ==
  ASSUME NEW u \in Socket, u.state \in {"CLOSED", "LISTEN"} \cup Opening,
         u.sndq = << >>, u.inflight = 0, u.rcvq = << >>,
         ~u.fin_queued, ~u.fin_sent,
         u.state \in Opening => u.snd_nxt = SeqAdd(u.snd_una, 1)
  PROVE  Good(u)
BY EmptyBytes, Consts
DEF Good, RingsHold, Books, Unopened, Agrees, Synced, Opening, PeerFinished,
    WeFinished

LEMMA FreshGood == Good(FreshSocket)
<1>1. FreshSocket \in Socket
  BY InSeqNo, EmptyBytes, Consts DEF FreshSocket, Socket, States
<1>. QED BY <1>1, BlankGood DEF FreshSocket, Opening

(* A connection that has only just begun: its SYN is numbered, no more.    *)
Begun(v, iss) ==
  /\ v.flags = {} /\ v.iss = iss
  /\ v.snd_una = iss /\ v.snd_nxt = SeqAdd(iss, 1)
  /\ v.sndq = << >> /\ v.rcvq = << >> /\ ~v.fin_queued /\ ~v.fin_sent

LEMMA ConnectGood ==
  ASSUME NEW u, Good(u), NEW iss \in SeqNo, NEW r \in SendResult
  PROVE  /\ Good(mn_tcp_connect(u, iss, r).t)
         /\ u.state = "CLOSED" =>
              \E v : /\ Good(v) /\ v.state = "SYN_SENT" /\ Begun(v, iss)
                     /\ mn_tcp_connect(u, iss, r) =
                          emit(v, {"SYN"}, iss, << >>, r)
<1>1. CASE u.state # "CLOSED"
  BY <1>1 DEF mn_tcp_connect, Silent
<1>2. CASE u.state = "CLOSED"
  <2>. DEFINE w == reset_counters(u)
              pend == (r # "OK")
              nxt == SeqAdd(iss, 1)
              v == [w EXCEPT
                      !.iss = iss, !.snd_una = iss, !.snd_nxt = nxt,
                      !.rcv_nxt = 0, !.state = "SYN_SENT", !.sent_age = 0,
                      !.syn_pending = pend]
  <2>1. /\ w \in Socket /\ w.sndq = << >> /\ w.inflight = 0 /\ w.flags = {}
        /\ w.rcvq = << >> /\ ~w.fin_queued /\ ~w.fin_sent
    BY ResetSocket DEF Good
  <2>2. nxt \in SeqNo /\ pend \in BOOLEAN /\ "SYN_SENT" \in States
    BY SeqAddType, InSeqNo DEF States
  <2>3. mn_tcp_connect(u, iss, r) = emit(v, {"SYN"}, iss, << >>, r)
    BY <1>2 DEF mn_tcp_connect
  <2>4. /\ v \in Socket /\ v.state = "SYN_SENT"
        /\ v.sndq = << >> /\ v.inflight = 0 /\ v.rcvq = << >>
        /\ ~v.fin_queued /\ ~v.fin_sent /\ v.snd_una = iss /\ v.snd_nxt = nxt
        /\ v.iss = iss /\ v.flags = {}
    <3>. HIDE DEF w, pend, nxt
    <3>1. v \in Socket
      <4>1. w \in Socket /\ 0 \in SeqNo /\ 0 \in 0 .. 2 * RtoMax
        BY <2>1, InSeqNo
      <4>. QED BY <4>1, <2>2 DEF Socket
    <3>2. /\ v.state = "SYN_SENT"
          /\ v.sndq = w.sndq /\ v.inflight = w.inflight /\ v.rcvq = w.rcvq
          /\ v.fin_queued = w.fin_queued /\ v.fin_sent = w.fin_sent
          /\ v.snd_una = iss /\ v.snd_nxt = nxt
          /\ v.iss = iss /\ v.flags = w.flags
      BY <2>1 DEF Socket
    <3>. HIDE DEF v
    <3>. QED BY <2>1, <3>1, <3>2
  <2>5. Good(v)
    <3>1. v.snd_nxt = SeqAdd(v.snd_una, 1)
      BY <2>4
    <3>. HIDE DEF v
    <3>. QED BY <2>4, <3>1, BlankGood DEF Opening
  <2>6. Begun(v, iss) /\ v.state = "SYN_SENT"
    <3>. HIDE DEF v
    <3>. QED BY <2>4 DEF Begun
  <2>. QED
    <3>. HIDE DEF v
    <3>. QED BY <2>3, <2>5, <2>6, EmitGood
<1>. QED BY <1>1, <1>2

LEMMA ListenGood ==
  ASSUME NEW u, Good(u)
  PROVE  /\ Good(mn_tcp_listen(u))
         /\ u.state = "CLOSED" =>
              LET v == mn_tcp_listen(u)
              IN /\ v.state = "LISTEN" /\ v.flags = {} /\ v.rcvq = << >>
                 /\ ~v.fin_queued /\ ~v.fin_sent /\ v.iss = u.iss
                 /\ v.snd_una = u.snd_una /\ v.snd_nxt = u.snd_nxt
<1>1. CASE u.state # "CLOSED"
  BY <1>1 DEF mn_tcp_listen
<1>2. CASE u.state = "CLOSED"
  <2>. DEFINE w == reset_counters(u)
              v == [w EXCEPT !.state = "LISTEN"]
  <2>1. /\ w \in Socket /\ w.sndq = << >> /\ w.inflight = 0 /\ w.flags = {}
        /\ w.rcvq = << >> /\ ~w.fin_queued /\ ~w.fin_sent
        /\ w.iss = u.iss /\ w.snd_una = u.snd_una /\ w.snd_nxt = u.snd_nxt
    BY ResetSocket DEF Good
  <2>2. /\ v \in Socket /\ v.state = "LISTEN" /\ v.flags = {}
        /\ v.sndq = << >> /\ v.inflight = 0 /\ v.rcvq = << >>
        /\ ~v.fin_queued /\ ~v.fin_sent
        /\ v.iss = u.iss /\ v.snd_una = u.snd_una /\ v.snd_nxt = u.snd_nxt
    <3>. HIDE DEF w
    <3>. QED BY <2>1 DEF Socket, States
  <2>3. Good(v)
    <3>. HIDE DEF v
    <3>. QED BY <2>2, BlankGood DEF Opening
  <2>4. mn_tcp_listen(u) = v
    BY <1>2 DEF mn_tcp_listen
  <2>. HIDE DEF v
  <2>. QED BY <2>2, <2>3, <2>4
<1>. QED BY <1>1, <1>2

(* What the calls on an open connection leave alone.                       *)
SameLink(u, v) ==
  /\ v.state = u.state /\ v.flags = u.flags /\ v.iss = u.iss
  /\ v.snd_una = u.snd_una /\ v.snd_nxt = u.snd_nxt
  /\ v.fin_queued = u.fin_queued /\ v.fin_sent = u.fin_sent
  /\ v.rcv_nxt = u.rcv_nxt

LEMMA SendGood ==
  ASSUME NEW u, Good(u), NEW d \in Seq(Byte)
  PROVE  LET v == mn_tcp_send(u, d)
             n == SendTakes(u, Len(d))
         IN /\ Good(v)
            /\ n # 0 => /\ n \in 0 .. Len(d) /\ SameLink(u, v)
                        /\ v.sndq = u.sndq \o SubSeq(d, 1, n)
                        /\ v.rcvq = u.rcvq
            /\ n = 0 => v = u
<1>. DEFINE n == SendTakes(u, Len(d))
            q == u.sndq \o SubSeq(d, 1, n)
            v == [u EXCEPT !.sndq = q, !.tx_pending = TRUE]
<1>1. CASE n = 0
  BY <1>1 DEF mn_tcp_send
<1>2. CASE n # 0
  <2>1. u \in Socket /\ u.sndq \in Seq(Byte) /\ u.inflight \in Nat
    BY Fields DEF Good
  <2>2. Len(u.sndq) \in Nat /\ Len(d) \in Nat /\ Len(u.sndq) <= SndBuf
    BY <2>1, LenNat DEF Good, RingsHold
  <2>3. can_send(u) /\ n = Lesser(Len(d), SndBuf - Len(u.sndq))
    BY <1>2 DEF SendTakes
  <2>4. n \in 0 .. Len(d) /\ Len(u.sndq) + n <= SndBuf
    <3>. DEFINE room == SndBuf - Len(u.sndq)
    <3>1. room \in Nat /\ SndBuf \in Nat
      BY <2>2, Consts
    <3>2. n = Lesser(Len(d), room)
      BY <2>3
    <3>3. n \in Nat /\ n <= Len(d) /\ n <= room
      <4>. HIDE DEF n, room
      <4>. QED BY <3>1, <3>2, <2>2, Least
    <3>. HIDE DEF n
    <3>. QED BY <3>1, <3>3, <2>2
  <2>5. q \in Seq(Byte) /\ Len(q) = Len(u.sndq) + n
    BY <2>1, <2>4, Append1
  <2>6. /\ v \in Socket /\ v.sndq = q /\ v.state = u.state
        /\ v.flags = u.flags /\ v.snd_una = u.snd_una
        /\ v.snd_nxt = u.snd_nxt /\ v.inflight = u.inflight
        /\ v.rcvq = u.rcvq /\ v.fin_queued = u.fin_queued
        /\ v.fin_sent = u.fin_sent
        /\ SameLink(u, v)
    <3>. HIDE DEF q
    <3>. QED BY <2>1, <2>5 DEF Socket, SameLink
  <2>7. RingsHold(v)
    <3>. HIDE DEF v, q, n
    <3>. QED BY <2>1, <2>2, <2>4, <2>5, <2>6 DEF Good, RingsHold
  <2>8. ~u.fin_sent
    BY <2>3 DEF can_send, Good, Agrees
  <2>9. Books(v)
    <3>. HIDE DEF v, q, n
    <3>. QED BY <2>3, <2>6, <2>8
         DEF Good, Books, Balanced, Synced, can_send, Opening
  <2>10. Agrees(v)
    <3>. HIDE DEF v, q, n
    <3>. QED BY <2>6 DEF Good, Agrees, Synced
  <2>11. mn_tcp_send(u, d) = v
    BY <1>2 DEF mn_tcp_send
  <2>12. Good(v)
    BY <2>6, <2>7, <2>9, <2>10 DEF Good
  <2>. HIDE DEF v
  <2>13. /\ n \in 0 .. Len(d) /\ SameLink(u, v) /\ v.rcvq = u.rcvq
         /\ v.sndq = u.sndq \o SubSeq(d, 1, n)
    BY <2>4, <2>6
  <2>. HIDE DEF n, q
  <2>14. /\ Good(mn_tcp_send(u, d)) /\ SameLink(u, mn_tcp_send(u, d))
         /\ mn_tcp_send(u, d).rcvq = u.rcvq
         /\ mn_tcp_send(u, d).sndq = u.sndq \o SubSeq(d, 1, n)
    BY <2>11, <2>12, <2>13, Zenon
  <2>. QED BY <1>2, <2>13, <2>14, Zenon DEF n
<1>. QED BY <1>1, <1>2

LEMMA AfterRecvGood ==
  ASSUME NEW u, Good(u), NEW n \in 0 .. Len(u.rcvq)
  PROVE  /\ Good(after_recv(u, n))
         /\ after_recv(u, n).rcv_nxt = u.rcv_nxt
         /\ Len(after_recv(u, n).rcvq) = Len(u.rcvq) - n
         /\ after_recv(u, n).rcvq = SubSeq(u.rcvq, n + 1, Len(u.rcvq))
         /\ SameLink(u, after_recv(u, n))
         /\ after_recv(u, n).sndq = u.sndq
<1>. DEFINE q == SubSeq(u.rcvq, n + 1, Len(u.rcvq))
            w == [u EXCEPT !.rcvq = q]
            p == (u.ack_pending
                  \/ (n > 0 /\ u.state \in Receiving /\ WorthTelling(w)))
            v == [u EXCEPT !.rcvq = q, !.ack_pending = p]
<1>1. u \in Socket /\ u.rcvq \in Seq(Byte)
  BY Fields DEF Good
<1>2. q \in Seq(Byte) /\ Len(q) = Len(u.rcvq) - n
  BY <1>1, Drop
<1>3. p \in BOOLEAN
  BY Zenon
<1>4. after_recv(u, n) = v
  <2>1. w.ack_pending = u.ack_pending
    BY <1>1 DEF Socket
  <2>2. after_recv(u, n) = [w EXCEPT !.ack_pending = p]
    BY <2>1, Zenon DEF after_recv
  <2>. HIDE DEF p
  <2>. QED BY <2>2
<1>5. v \in Socket
  <2>. HIDE DEF q, p
  <2>. QED BY <1>1, <1>2, <1>3 DEF Socket
<1>6. /\ v.state = u.state /\ v.flags = u.flags
      /\ v.snd_una = u.snd_una /\ v.snd_nxt = u.snd_nxt
      /\ v.sndq = u.sndq /\ v.inflight = u.inflight
      /\ v.fin_queued = u.fin_queued /\ v.fin_sent = u.fin_sent
      /\ v.rcvq = q /\ v.rcv_nxt = u.rcv_nxt
      /\ SameLink(u, v)
  <2>. HIDE DEF q, p
  <2>. QED BY <1>1 DEF Socket, SameLink
<1>7. Good(v)
  <2>. HIDE DEF v, q, p
  <2>1. Len(q) <= RcvBuf
    <3>1. Len(u.rcvq) \in Nat /\ Len(u.rcvq) <= RcvBuf
      BY <1>1, LenNat DEF Good, RingsHold
    <3>. QED BY <3>1, <1>2, Consts
  <2>2. RingsHold(v)
    BY <1>6, <2>1 DEF Good, RingsHold
  <2>3. Books(v) /\ Agrees(v)
    BY <1>6 DEF Good, Books, Unopened, Balanced, Agrees, Synced
  <2>. QED BY <1>5, <2>2, <2>3 DEF Good
<1>8. after_recv(u, n).rcvq = SubSeq(u.rcvq, n + 1, Len(u.rcvq))
  BY <1>4, <1>6
<1>. QED
  <2>. HIDE DEF v, q
  <2>. QED BY <1>2, <1>4, <1>6, <1>7, <1>8

LEMMA RecvGood ==
  ASSUME NEW u, Good(u), NEW cap \in Nat
  PROVE  /\ Good(mn_tcp_recv(u, cap))
         /\ mn_tcp_recv(u, cap).rcv_nxt = u.rcv_nxt
         /\ Len(mn_tcp_recv(u, cap).rcvq) <= Len(u.rcvq)
<1>1. Len(u.rcvq) \in Nat
  BY Fields, LenNat DEF Good
<1>2. RecvTakes(u, cap) \in 0 .. Len(u.rcvq)
  BY <1>1 DEF RecvTakes, Lesser
<1>3. Len(u.rcvq) - RecvTakes(u, cap) <= Len(u.rcvq)
  BY <1>1, <1>2
<1>. QED BY <1>2, <1>3, AfterRecvGood DEF mn_tcp_recv

LEMMA CloseGood ==
  ASSUME NEW u, Good(u)
  PROVE  Good(mn_tcp_close(u))
<1>1. u \in Socket
  BY DEF Good
<1>2. CASE u.state \in {"ESTABLISHED", "CLOSE_WAIT"}
  <2>. DEFINE v == [u EXCEPT !.fin_queued = TRUE, !.tx_pending = TRUE]
  <2>1. /\ v \in Socket /\ v.state = u.state /\ v.flags = u.flags
        /\ v.snd_una = u.snd_una /\ v.snd_nxt = u.snd_nxt
        /\ v.sndq = u.sndq /\ v.inflight = u.inflight /\ v.rcvq = u.rcvq
        /\ v.fin_queued /\ v.fin_sent = u.fin_sent
    BY <1>1 DEF Socket
  <2>2. Good(v)
    <3>. HIDE DEF v
    <3>. QED BY <1>2, <2>1
         DEF Good, RingsHold, Books, Balanced, Agrees, Synced, Opening
  <2>. QED BY <1>2, <2>2 DEF mn_tcp_close
<1>3. CASE u.state \in Opening \cup {"LISTEN"}
  <2>. DEFINE v == [u EXCEPT !.state = "CLOSED"]
  <2>1. /\ v \in Socket /\ v.state = "CLOSED" /\ v.flags = u.flags
        /\ v.snd_una = u.snd_una /\ v.snd_nxt = u.snd_nxt
        /\ v.sndq = u.sndq /\ v.inflight = u.inflight /\ v.rcvq = u.rcvq
        /\ v.fin_queued = u.fin_queued /\ v.fin_sent = u.fin_sent
    BY <1>1 DEF Socket, States
  <2>2. Good(v)
    <3>. HIDE DEF v
    <3>. QED BY <2>1
         DEF Good, RingsHold, Books, Agrees, Synced, Opening, PeerFinished
  <2>. QED BY <1>3, <2>2 DEF mn_tcp_close, Opening
<1>4. CASE u.state \notin {"ESTABLISHED", "CLOSE_WAIT"} \cup Opening \cup {"LISTEN"}
  BY <1>4 DEF mn_tcp_close
<1>. QED BY <1>2, <1>3, <1>4

LEMMA AbortGood ==
  ASSUME NEW u, Good(u), NEW r \in SendResult
  PROVE  LET v == mn_tcp_abort(u, r).t
         IN /\ Good(v) /\ v.state = "CLOSED"
            /\ v.flags = u.flags /\ v.iss = u.iss /\ v.rcvq = u.rcvq
            /\ v.snd_una = u.snd_una /\ v.snd_nxt = u.snd_nxt
            /\ ~v.fin_queued /\ ~v.fin_sent
<1>. DEFINE e == IF u.state \in {"CLOSED", "TIME_WAIT", "LISTEN"}
                 THEN Silent(u)
                 ELSE emit(u, {"RST", "ACK"}, u.snd_nxt, << >>, r)
            w == e.t
            v == [w EXCEPT !.state = "CLOSED", !.sndq = << >>, !.inflight = 0,
                           !.fin_queued = FALSE, !.fin_sent = FALSE,
                           !.ack_pending = FALSE, !.syn_pending = FALSE,
                           !.tx_pending = FALSE]
<1>1. w \in Socket /\ RingsHold(w) /\ SameCore(u, w)
  <2>1. Good(w) /\ SameCore(u, w)
    BY EmitGood DEF Silent, SameCore
  <2>. QED BY <2>1 DEF Good
<1>2. v \in Socket
  <2>. HIDE DEF w
  <2>. QED BY <1>1, EmptyBytes DEF Socket, States
<1>3. /\ v.state = "CLOSED" /\ v.sndq = << >> /\ v.inflight = 0
      /\ v.fin_queued = FALSE /\ v.fin_sent = FALSE /\ v.rcvq = w.rcvq
      /\ v.flags = w.flags /\ v.iss = w.iss
      /\ v.snd_una = w.snd_una /\ v.snd_nxt = w.snd_nxt
  <2>. HIDE DEF w
  <2>. QED BY <1>1 DEF Socket
<1>4. Good(v)
  <2>. HIDE DEF v, w
  <2>. QED BY <1>1, <1>2, <1>3, EmptyBytes, Consts
       DEF Good, RingsHold, Books, Agrees, Synced, Opening, PeerFinished
<1>5. mn_tcp_abort(u, r).t = v
  BY DEF mn_tcp_abort
<1>. HIDE DEF v, w
<1>. QED BY <1>1, <1>3, <1>4, <1>5 DEF SameCore

----------------------------------------------------------------------------
(* A segment for the socket. *)

(* What handle_ack leaves alone. *)
SameReceiver(u, v) ==
  /\ v.state = u.state /\ v.flags = u.flags
  /\ v.rcvq = u.rcvq /\ v.rcv_nxt = u.rcv_nxt
  /\ v.fin_queued = u.fin_queued /\ v.fin_sent = u.fin_sent

(* What handle_ack does when the acknowledgement is new: it retires what   *)
(* lies between snd_una and it.                                            *)
Retired(u, ack, v) ==
  /\ SeqSub(ack, u.snd_una) \in 1 .. SeqSub(u.snd_nxt, u.snd_una)
  /\ v.iss = u.iss /\ v.snd_una = ack /\ v.snd_nxt = u.snd_nxt
  /\ u.fin_sent => v.sndq = << >>
  /\ ~u.fin_sent =>
       v.sndq = SubSeq(u.sndq, SeqSub(ack, u.snd_una) + 1, Len(u.sndq))

LEMMA HandleAckGood ==
  ASSUME NEW u, Good(u), Synced(u), NEW ack \in SeqNo
  PROVE  /\ Good(handle_ack(u, ack)) /\ SameReceiver(u, handle_ack(u, ack))
         /\ handle_ack(u, ack) = u \/ Retired(u, ack, handle_ack(u, ack))
<1>1. CASE SEQ_LEQ(ack, u.snd_una) \/ SEQ_LT(u.snd_nxt, ack)
  BY <1>1 DEF handle_ack, SameReceiver
<1>2. CASE ~(SEQ_LEQ(ack, u.snd_una) \/ SEQ_LT(u.snd_nxt, ack))
  <2>. DEFINE n == Acked(u, ack)
              q == SubSeq(u.sndq, n + 1, Len(u.sndq))
              k == u.inflight - n
              c == IF u.cwnd < u.peer_mss * CwndMax
                   THEN u.cwnd + u.peer_mss ELSE u.cwnd
              b == (u.tx_pending \/ Len(u.sndq) > u.inflight)
              v == [u EXCEPT !.sndq = q, !.inflight = k, !.snd_una = ack,
                             !.retries = 0, !.rto = RtoInitial,
                             !.sent_age = 0, !.cwnd = c, !.tx_pending = b]
  <2>1. /\ u \in Socket /\ u.snd_una \in SeqNo /\ u.snd_nxt \in SeqNo
        /\ u.inflight \in Nat /\ u.sndq \in Seq(Byte) /\ u.cwnd \in Nat
        /\ u.peer_mss \in Nat /\ u.fin_sent \in BOOLEAN
    BY Fields DEF Good
  <2>2. /\ Len(u.sndq) \in Nat /\ Len(u.sndq) <= SndBuf
        /\ u.inflight <= Len(u.sndq)
    BY <2>1, LenNat DEF Good, RingsHold
  <2>3. Balanced(u)
    BY DEF Good, Books
  <2>4. SeqSub(u.snd_nxt, u.snd_una) < Half
    <3>1. CASE u.fin_sent
      BY <2>3, <3>1, <2>1, SeqSubType, Consts DEF Balanced
    <3>2. CASE ~u.fin_sent
      <4>1. SeqSub(u.snd_nxt, u.snd_una) = u.inflight
        BY <2>3, <3>2 DEF Balanced
      <4>. QED BY <4>1, <2>1, <2>2, Consts
    <3>. QED BY <3>1, <3>2
  <2>5. /\ SeqSub(ack, u.snd_una) \in 1 .. SeqSub(u.snd_nxt, u.snd_una)
        /\ SeqSub(u.snd_nxt, ack)
             = SeqSub(u.snd_nxt, u.snd_una) - SeqSub(ack, u.snd_una)
    BY <1>2, <2>1, <2>4, AckInSpan
  <2>6. SeqSub(u.snd_nxt, u.snd_una) \in Nat /\ SeqSub(ack, u.snd_una) \in Nat
    BY <2>1, SeqSubType
  <2>7. n \in 0 .. u.inflight
    BY <2>1, <2>5, <2>6 DEF Acked, Lesser
  <2>8. q \in Seq(Byte) /\ Len(q) = Len(u.sndq) - n
    <3>1. n \in 0 .. Len(u.sndq)
      BY <2>1, <2>2, <2>7
    <3>. QED BY <2>1, <3>1, Drop
  <2>9. c \in Nat /\ k \in Nat /\ 0 \in 0 .. 2 * RtoMax
    <3>. HIDE DEF n
    <3>. QED BY <2>1, <2>7, InSeqNo
  <2>10. b \in BOOLEAN
    BY Zenon
  <2>11. handle_ack(u, ack) = v
    BY <1>2, Zenon DEF handle_ack
  <2>12. v \in Socket
    <3>. HIDE DEF q, k, c, b
    <3>. QED BY <2>1, <2>8, <2>9, <2>10, Consts DEF Socket
  <2>13. SameReceiver(u, v)
    <3>. HIDE DEF q, k, c, b
    <3>. QED BY <2>1 DEF Socket, SameReceiver
  <2>14. /\ v.snd_una = ack /\ v.snd_nxt = u.snd_nxt /\ v.sndq = q
         /\ v.inflight = k /\ v.iss = u.iss
    <3>. HIDE DEF q, k, c, b
    <3>. QED BY <2>1 DEF Socket
  <2>15. RingsHold(v)
    <3>1. Len(q) <= SndBuf /\ k <= Len(q)
      <4>. HIDE DEF q, n
      <4>. QED BY <2>1, <2>2, <2>7, <2>8, Consts
    <3>. HIDE DEF v, q, k
    <3>. QED BY <2>13, <2>14, <3>1 DEF Good, RingsHold, SameReceiver
  <2>19. ASSUME ~u.fin_sent
         PROVE  n = SeqSub(ack, u.snd_una) /\ SeqSub(u.snd_nxt, ack) = k
    <3>1. SeqSub(u.snd_nxt, u.snd_una) = u.inflight
      BY <2>3, <2>19 DEF Balanced
    <3>2. n = SeqSub(ack, u.snd_una)
      BY <2>1, <2>5, <2>6, <2>19, <3>1 DEF Acked, Lesser
    <3>. QED BY <2>5, <3>1, <3>2
  <2>20. ASSUME u.fin_sent
         PROVE  q = << >> /\ SeqSub(u.snd_nxt, ack) <= 1
    <3>1. u.sndq = << >> /\ SeqSub(u.snd_nxt, u.snd_una) <= 1
      BY <2>3, <2>20 DEF Balanced
    <3>2. SeqSub(u.snd_nxt, ack) <= 1
      BY <2>5, <2>6, <3>1
    <3>3. n = 0
      BY <2>1, <2>2, <2>7, <3>1, EmptyBytes
    <3>4. Len(q) = 0
      BY <2>8, <3>1, <3>3, EmptyBytes
    <3>. QED BY <2>8, <3>2, <3>4
  <2>16. Balanced(v)
    <3>. HIDE DEF v, q, k
    <3>. QED BY <2>13, <2>14, <2>19, <2>20 DEF Balanced, SameReceiver
  <2>21. Retired(u, ack, v)
    <3>1. ~u.fin_sent =>
            q = SubSeq(u.sndq, SeqSub(ack, u.snd_una) + 1, Len(u.sndq))
      BY <2>19
    <3>. HIDE DEF v, q, k, n
    <3>. QED BY <2>5, <2>14, <2>20, <3>1 DEF Retired
  <2>17. Books(v)
    <3>. HIDE DEF v
    <3>. QED BY <2>13, <2>16 DEF Books, Synced, SameReceiver
  <2>18. Agrees(v)
    <3>1. u.state \notin {"FIN_WAIT_2", "TIME_WAIT"}
      <4>1. u.snd_una # u.snd_nxt
        BY <2>1, <2>5, <2>6, SeqSubType
      <4>. QED BY <4>1 DEF Good, Agrees
    <3>. HIDE DEF v
    <3>. QED BY <2>13, <3>1 DEF Good, Agrees, Synced, SameReceiver
  <2>. QED BY <2>11, <2>12, <2>13, <2>15, <2>17, <2>18, <2>21 DEF Good
<1>. QED BY <1>1, <1>2

(* A step that keeps Good, does not move the right edge left, and closes   *)
(* the socket only for a reason.                                           *)
Kept(u, v) ==
  /\ Good(v)
  /\ Synced(u) /\ Synced(v) => SEQ_LEQ(Edge(u), Edge(v))
  /\ v.state = "CLOSED" => u.state = "CLOSED" \/ Reason(v)

(* The right edge is rcv_nxt + window: when rcv_nxt moves on by k and the  *)
(* window shrinks by no more than k, it moves right, and less than Half.   *)
LEMMA EdgeMoves ==
  ASSUME NEW a \in SeqNo, NEW w \in Nat, NEW k \in Nat, NEW w2 \in Nat,
         w <= k + w2, k + w2 <= RcvBuf + 1
  PROVE  SEQ_LEQ(SeqAdd(a, w), SeqAdd(SeqAdd(a, k), w2))
BY Consts DEF SEQ_LEQ, SEQ_LT, SeqAdd, SeqSub, SeqNo

LEMMA SameEdge ==
  ASSUME NEW u, Good(u), NEW v, v.rcv_nxt = u.rcv_nxt, v.rcvq = u.rcvq
  PROVE  SEQ_LEQ(Edge(u), Edge(v))
BY DEF Edge, adv_window, rcv_free, SEQ_LEQ

(* From one socket to another whose ring has n more bytes.                 *)
LEMMA EdgeGrows ==
  ASSUME NEW u, Good(u), NEW v, NEW n \in Nat, NEW k \in {n, n + 1},
         Len(v.rcvq) = Len(u.rcvq) + n, Len(v.rcvq) <= RcvBuf,
         v.rcv_nxt = SeqAdd(u.rcv_nxt, k)
  PROVE  SEQ_LEQ(Edge(u), Edge(v))
<1>1. u.rcv_nxt \in SeqNo /\ Len(u.rcvq) \in Nat
  BY Fields, LenNat DEF Good
<1>. DEFINE w == adv_window(u)
            w2 == adv_window(v)
<1>2. /\ w \in Nat /\ w2 \in Nat /\ w <= k + w2 /\ k + w2 <= RcvBuf + 1
  BY <1>1, Consts DEF adv_window, rcv_free, Lesser
<1>3. k \in Nat
  OBVIOUS
<1>4. Edge(u) = SeqAdd(u.rcv_nxt, w) /\ Edge(v) = SeqAdd(SeqAdd(u.rcv_nxt, k), w2)
  BY DEF Edge
<1>. HIDE DEF w, w2
<1>. QED BY <1>1, <1>2, <1>3, <1>4, EdgeMoves

LEMMA EdgeOpens ==
  ASSUME NEW u, Good(u), NEW v, Good(v), Len(v.rcvq) <= Len(u.rcvq),
         v.rcv_nxt = u.rcv_nxt
  PROVE  SEQ_LEQ(Edge(u), Edge(v))
<1>1. /\ u.rcv_nxt \in SeqNo /\ Len(u.rcvq) \in Nat /\ Len(v.rcvq) \in Nat
      /\ Len(u.rcvq) <= RcvBuf
  BY Fields, LenNat DEF Good, RingsHold
<1>. DEFINE w == adv_window(u)
            w2 == adv_window(v)
<1>2. w \in Nat /\ w2 \in Nat /\ w <= 0 + w2 /\ 0 + w2 <= RcvBuf + 1
  BY <1>1, Consts DEF adv_window, rcv_free, Lesser
<1>3. SeqAdd(u.rcv_nxt, 0) = u.rcv_nxt
  BY <1>1, Consts DEF SeqAdd, SeqNo
<1>4. Edge(u) = SeqAdd(u.rcv_nxt, w)
      /\ Edge(v) = SeqAdd(SeqAdd(u.rcv_nxt, 0), w2)
  BY <1>3 DEF Edge
<1>. HIDE DEF w, w2
<1>. QED BY <1>1, <1>2, <1>4, EdgeMoves

(* A segment as it arrives. *)
LEMMA SegmentFields ==
  ASSUME NEW s \in Segment
  PROVE  /\ s.fl \in SUBSET SegFlags /\ s.seq \in SeqNo /\ s.ack \in SeqNo
         /\ s.wnd \in Nat /\ s.mss \in Nat /\ s.data \in Seq(Byte)
BY DEF Segment

LEMMA TakeMss ==
  ASSUME NEW u \in Socket, NEW s \in Segment
  PROVE  LET v == take_mss(u, s)
         IN /\ v \in Socket /\ SameCore(u, v) /\ v.rcv_nxt = u.rcv_nxt
            /\ v.peer_mss \in Nat \ {0}
<1>. DEFINE m == Lesser(IF s.mss = 0 THEN u.peer_mss ELSE s.mss, Mss)
            v == [u EXCEPT !.peer_mss = m]
<1>1. m \in Nat \ {0}
  BY Fields, SegmentFields, Consts DEF Lesser
<1>2. v \in Socket /\ SameCore(u, v) /\ v.rcv_nxt = u.rcv_nxt /\ v.peer_mss = m
  <2>. HIDE DEF m
  <2>. QED BY <1>1 DEF Socket, SameCore
<1>3. take_mss(u, s) = v
  BY DEF take_mss
<1>. HIDE DEF v, m
<1>. QED BY <1>1, <1>2, <1>3

(* Only the state and the flags change. *)
Ended(u, f, x) == [u EXCEPT !.flags = f, !.state = x]

LEMMA EndedGood ==
  ASSUME NEW u, Good(u), NEW f \in SUBSET Flags, NEW x \in {"CLOSED", "LISTEN"}
  PROVE  /\ Good(Ended(u, f, x))
         /\ Ended(u, f, x).state = x /\ Ended(u, f, x).flags = f
<1>. DEFINE v == Ended(u, f, x)
<1>1. /\ v \in Socket /\ v.state = x /\ v.flags = f
      /\ v.snd_una = u.snd_una /\ v.snd_nxt = u.snd_nxt
      /\ v.sndq = u.sndq /\ v.inflight = u.inflight /\ v.rcvq = u.rcvq
      /\ v.fin_queued = u.fin_queued /\ v.fin_sent = u.fin_sent
  BY DEF Good, Socket, States, Ended
<1>2. Good(v)
  <2>. HIDE DEF v
  <2>. QED BY <1>1
       DEF Good, RingsHold, Books, Agrees, Synced, Opening, PeerFinished
<1>. QED BY <1>1, <1>2

LEMMA EndedKept ==
  ASSUME NEW u, Good(u), NEW f \in SUBSET Flags, NEW x \in {"CLOSED", "LISTEN"},
         x = "CLOSED" => f \cap {"RESET", "TIMEOUT", "REFUSED"} # {}
  PROVE  Kept(u, Ended(u, f, x))
<1>1. /\ Good(Ended(u, f, x))
      /\ Ended(u, f, x).state = x /\ Ended(u, f, x).flags = f
  BY EndedGood
<1>. QED BY <1>1 DEF Kept, Synced, Reason

LEMMA InputResetKept ==
  ASSUME NEW u, Good(u), NEW s \in Segment,
         u.state \notin {"CLOSED", "LISTEN"}
  PROVE  Kept(u, InputReset(u, s))
<1>. DEFINE f == u.flags \cup {"REFUSED", "RESET"}
            g == u.flags \cup {"RESET"}
<1>1. f \in SUBSET Flags /\ g \in SUBSET Flags /\ {} \in SUBSET Flags
  BY Fields DEF Good, Flags
<1>2. Kept(u, u)
  BY SameEdge DEF Kept
<1>3. Kept(u, Ended(u, f, "CLOSED"))
  <2>1. f \cap {"RESET", "TIMEOUT", "REFUSED"} # {}
    OBVIOUS
  <2>. HIDE DEF f
  <2>. QED BY <1>1, <2>1, EndedKept
<1>4. Kept(u, Ended(u, {}, "LISTEN"))
  BY <1>1, EndedKept
<1>5. Kept(u, Ended(u, g, "CLOSED"))
  <2>1. g \cap {"RESET", "TIMEOUT", "REFUSED"} # {}
    OBVIOUS
  <2>. HIDE DEF g
  <2>. QED BY <1>1, <2>1, EndedKept
<1>6. InputReset(u, s) \in {u, Ended(u, f, "CLOSED"), Ended(u, {}, "LISTEN"),
                            Ended(u, g, "CLOSED")}
  <2>1. [u EXCEPT !.state = "LISTEN", !.flags = {}] = Ended(u, {}, "LISTEN")
    BY DEF Good, Socket, Ended
  <2>2. CASE u.state = "SYN_SENT"
    BY <2>2 DEF InputReset, Ended
  <2>3. CASE u.state = "SYN_RCVD"
    BY <2>1, <2>3 DEF InputReset
  <2>4. CASE u.state \notin {"SYN_SENT", "SYN_RCVD"}
    BY <2>4 DEF InputReset, Ended
  <2>. QED BY <2>2, <2>3, <2>4
<1>. HIDE DEF f, g
<1>. QED BY <1>2, <1>3, <1>4, <1>5, <1>6

(* The handshake is done: an established socket with nothing sent yet.     *)
LEMMA OpenedGood ==
  ASSUME NEW u, Good(u), u.state \in Opening,
         NEW v \in Socket, v.state = "ESTABLISHED", v.flags = u.flags,
         v.snd_una = u.snd_nxt, v.snd_nxt = u.snd_nxt,
         v.sndq = u.sndq, v.inflight = u.inflight, v.rcvq = u.rcvq,
         v.fin_queued = u.fin_queued, v.fin_sent = u.fin_sent
  PROVE  Good(v)
<1>1. Unopened(u) /\ u \in Socket
  BY DEF Good, Books
<1>2. SeqSub(v.snd_nxt, v.snd_una) = v.inflight
  BY <1>1, Fields, SeqSubType DEF Unopened
<1>3. Balanced(v)
  BY <1>1, <1>2 DEF Balanced, Unopened
<1>. QED BY <1>1, <1>3
     DEF Good, RingsHold, Books, Agrees, Unopened, Synced, Opening,
         PeerFinished, WeFinished

LEMMA InputSynSentKept ==
  ASSUME NEW u, Good(u), NEW s \in Segment, u.state = "SYN_SENT"
  PROVE  Kept(u, InputSynSent(u, s))
<1>1. CASE ~({"SYN", "ACK"} \subseteq s.fl /\ s.ack = u.snd_nxt)
  BY <1>1, SameEdge DEF InputSynSent, Kept
<1>2. CASE {"SYN", "ACK"} \subseteq s.fl /\ s.ack = u.snd_nxt
  <2>. DEFINE w == take_mss(u, s)
              n == SeqAdd(s.seq, 1)
              c == w.peer_mss * 2
              v == [w EXCEPT !.rcv_nxt = n, !.snd_una = s.ack,
                             !.snd_wnd = s.wnd, !.state = "ESTABLISHED",
                             !.cwnd = c, !.retries = 0, !.rto = RtoInitial,
                             !.ack_pending = TRUE]
  <2>1. w \in Socket /\ SameCore(u, w) /\ w.peer_mss \in Nat \ {0}
    BY TakeMss DEF Good
  <2>2. n \in SeqNo /\ s.ack \in SeqNo /\ s.wnd \in Nat /\ c \in Nat
    <3>. HIDE DEF w
    <3>. QED BY <2>1, SegmentFields, SeqAddType, InSeqNo
  <2>3. v \in Socket
    <3>. HIDE DEF w, n, c
    <3>. QED BY <2>1, <2>2, Consts DEF Socket, States
  <2>4. /\ v.state = "ESTABLISHED" /\ v.flags = w.flags
        /\ v.snd_una = s.ack /\ v.snd_nxt = w.snd_nxt
        /\ v.sndq = w.sndq /\ v.inflight = w.inflight /\ v.rcvq = w.rcvq
        /\ v.fin_queued = w.fin_queued /\ v.fin_sent = w.fin_sent
    <3>. HIDE DEF w, n, c
    <3>. QED BY <2>1 DEF Socket
  <2>5. Good(v)
    <3>1. /\ v.state = "ESTABLISHED" /\ v.flags = u.flags
          /\ v.snd_una = u.snd_nxt /\ v.snd_nxt = u.snd_nxt
          /\ v.sndq = u.sndq /\ v.inflight = u.inflight /\ v.rcvq = u.rcvq
          /\ v.fin_queued = u.fin_queued /\ v.fin_sent = u.fin_sent
      <4>. HIDE DEF v, w
      <4>. QED BY <1>2, <2>1, <2>4 DEF SameCore
    <3>. HIDE DEF v
    <3>. QED BY <2>3, <3>1, OpenedGood DEF Opening
  <2>6. ~Synced(u)
    BY DEF Synced, Opening
  <2>7. InputSynSent(u, s) = v
    BY <1>2 DEF InputSynSent
  <2>. HIDE DEF v
  <2>. QED BY <2>4, <2>5, <2>6, <2>7 DEF Kept
<1>. QED BY <1>1, <1>2

LEMMA FinStates ==
  /\ AfterFin["ESTABLISHED"] = "CLOSE_WAIT"
  /\ AfterFin["FIN_WAIT_1"] = "CLOSING"
  /\ AfterFin["FIN_WAIT_2"] = "TIME_WAIT"
  /\ \A x \in States \ Receiving : AfterFin[x] = x
  /\ AfterOurFin["FIN_WAIT_1"] = "FIN_WAIT_2"
  /\ AfterOurFin["CLOSING"] = "TIME_WAIT"
  /\ AfterOurFin["LAST_ACK"] = "CLOSED"
  /\ \A x \in States \ {"FIN_WAIT_1", "CLOSING", "LAST_ACK"} : AfterOurFin[x] = x
BY DEF AfterFin, AfterOurFin, Receiving, States

LEMMA FinStatesType ==
  ASSUME NEW x \in States
  PROVE  AfterFin[x] \in States /\ AfterOurFin[x] \in States
BY DEF AfterFin, AfterOurFin, States

(* What TakePayload does: p bytes of payload are taken, and the FIN if fin *)
(* holds.                                                                  *)
TakesIn(u, s, v, p, fin) ==
  /\ v.iss = u.iss /\ v.snd_una = u.snd_una /\ v.snd_nxt = u.snd_nxt
  /\ v.sndq = u.sndq
  /\ v.fin_queued = u.fin_queued /\ v.fin_sent = u.fin_sent
  /\ v.rcvq = u.rcvq \o SubSeq(s.data, 1, p)
  /\ v.rcv_nxt = SeqAdd(u.rcv_nxt, p + (IF fin THEN 1 ELSE 0))
  /\ v.flags = IF fin THEN u.flags \cup {"EOF"} ELSE u.flags

LEMMA TakePayloadGood ==
  ASSUME NEW u, Good(u), Synced(u), NEW s \in Segment
  PROVE  LET v == TakePayload(u, s)
         IN /\ Good(v) /\ Synced(v) /\ SEQ_LEQ(Edge(u), Edge(v))
            /\ RingPut(u, s) \in 0 .. Len(s.data)
            /\ Len(u.rcvq) + RingPut(u, s) <= RcvBuf
            /\ TakesIn(u, s, v, RingPut(u, s), FinReached(u, s))
<1>. DEFINE n == RingPut(u, s)
            fin == FinReached(u, s)
            k == Advance(u, s)
            q == u.rcvq \o SubSeq(s.data, 1, n)
            nxt == SeqAdd(u.rcv_nxt, k)
            p == (u.ack_pending \/ s.data # << >> \/ fin)
            f == IF fin THEN u.flags \cup {"EOF"} ELSE u.flags
            x == IF fin THEN AfterFin[u.state] ELSE u.state
            v == [u EXCEPT !.rcvq = q, !.rcv_nxt = nxt, !.ack_pending = p,
                           !.flags = f, !.state = x]
<1>1. /\ u \in Socket /\ u.state \in States /\ u.flags \in SUBSET Flags
      /\ u.rcvq \in Seq(Byte) /\ u.rcv_nxt \in SeqNo /\ s.data \in Seq(Byte)
      /\ u.snd_una = u.snd_una
  BY Fields, SegmentFields DEF Good
<1>2. Len(u.rcvq) \in Nat /\ Len(u.rcvq) <= RcvBuf /\ Len(s.data) \in Nat
  BY <1>1, LenNat DEF Good, RingsHold
<1>3. n \in 0 .. Len(s.data) /\ Len(u.rcvq) + n <= RcvBuf
  <2>. DEFINE room == RcvBuf - Len(u.rcvq)
  <2>1. room \in Nat /\ RcvBuf \in Nat
    BY <1>2, Consts
  <2>2. n = 0 \/ n = Lesser(Len(s.data), room)
    BY DEF RingPut, rcv_free
  <2>3. /\ Lesser(Len(s.data), room) \in Nat
        /\ Lesser(Len(s.data), room) <= Len(s.data)
        /\ Lesser(Len(s.data), room) <= room
    <3>. HIDE DEF room
    <3>. QED BY <1>2, <2>1, Least
  <2>. HIDE DEF n
  <2>. QED BY <1>2, <2>1, <2>2, <2>3
<1>4. n \in Nat /\ k \in {n, n + 1}
  <2>1. n \in Nat
    <3>. HIDE DEF n
    <3>. QED BY <1>2, <1>3
  <2>2. k = n \/ k = n + 1
    <3>. HIDE DEF n
    <3>1. k = n + (IF fin THEN 1 ELSE 0)
      BY DEF Advance, n
    <3>. HIDE DEF k
    <3>. QED BY <2>1, <3>1
  <2>. QED BY <2>1, <2>2
<1>5. q \in Seq(Byte) /\ Len(q) = Len(u.rcvq) + n
  BY <1>1, <1>3, Append1
<1>6. nxt \in SeqNo
  <2>1. k \in 0 .. SeqSpace - 1
    <3>. HIDE DEF n, k
    <3>. QED BY <1>2, <1>3, <1>4, Consts
  <2>. HIDE DEF k
  <2>. QED BY <1>1, <2>1, SeqAddType
<1>7. p \in BOOLEAN
  BY Zenon
<1>8. f \in SUBSET Flags /\ x \in States
  BY <1>1, FinStatesType DEF Flags
<1>9. TakePayload(u, s) = v
  BY Zenon DEF TakePayload
<1>10. v \in Socket
  <2>. HIDE DEF q, nxt, p, f, x
  <2>. QED BY <1>1, <1>5, <1>6, <1>7, <1>8 DEF Socket
<1>11. /\ v.state = x /\ v.flags = f /\ v.rcvq = q /\ v.rcv_nxt = nxt
       /\ v.snd_una = u.snd_una /\ v.snd_nxt = u.snd_nxt
       /\ v.sndq = u.sndq /\ v.inflight = u.inflight
       /\ v.fin_queued = u.fin_queued /\ v.fin_sent = u.fin_sent
       /\ v.iss = u.iss
  <2>. HIDE DEF q, nxt, p, f, x
  <2>. QED BY <1>1 DEF Socket
<1>12. RingsHold(v)
  <2>1. Len(q) <= RcvBuf
    <3>. HIDE DEF q, n
    <3>. QED BY <1>3, <1>5
  <2>. HIDE DEF v, q
  <2>. QED BY <1>11, <2>1 DEF Good, RingsHold
<1>13. Synced(v) /\ Agrees(v)
  <2>. HIDE DEF v
  <2>1. CASE ~fin
    <3>1. v.state = u.state /\ v.flags = u.flags
      BY <1>11, <2>1
    <3>. QED BY <1>11, <3>1 DEF Good, Agrees, Synced
  <2>2. CASE fin
    <3>1. "EOF" \in v.flags /\ v.state = AfterFin[u.state]
      BY <1>11, <2>2
    <3>. HIDE DEF fin
    <3>. QED BY <1>1, <1>11, <3>1, FinStates
         DEF Good, Agrees, Synced, Opening, States, Receiving, PeerFinished,
             WeFinished
  <2>. QED BY <2>1, <2>2
<1>14. Books(v)
  <2>. HIDE DEF v
  <2>. QED BY <1>11, <1>13 DEF Good, Books, Balanced, Synced
<1>15. SEQ_LEQ(Edge(u), Edge(v))
  <2>1. Len(v.rcvq) = Len(u.rcvq) + n /\ v.rcv_nxt = SeqAdd(u.rcv_nxt, k)
    <3>. HIDE DEF v, n, k
    <3>. QED BY <1>5, <1>11
  <2>. HIDE DEF v, n, k
  <2>. QED BY <1>4, <1>12, <2>1, EdgeGrows DEF RingsHold
<1>16. TakesIn(u, s, v, n, fin)
  <2>1. nxt = SeqAdd(u.rcv_nxt, n + (IF fin THEN 1 ELSE 0))
    BY DEF Advance
  <2>. HIDE DEF v, n, fin, nxt
  <2>. QED BY <1>11, <2>1 DEF TakesIn
<1>. HIDE DEF v, q, nxt, p, f, x, k
<1>. QED BY <1>3, <1>9, <1>10, <1>12, <1>13, <1>14, <1>15, <1>16 DEF Good

LEMMA OurFinAckedKept ==
  ASSUME NEW u, Good(u), Synced(u)
  PROVE  /\ Good(OurFinAcked(u))
         /\ Edge(OurFinAcked(u)) = Edge(u)
         /\ OurFinAcked(u).state = "CLOSED" => Reason(OurFinAcked(u))
<1>1. CASE ~(u.fin_sent /\ u.snd_una = u.snd_nxt)
  BY <1>1 DEF OurFinAcked, Synced
<1>2. CASE u.fin_sent /\ u.snd_una = u.snd_nxt
  <2>. DEFINE x == AfterOurFin[u.state]
              v == [u EXCEPT !.state = x]
  <2>1. u \in Socket /\ x \in States /\ u.state \in States
    BY Fields, FinStatesType DEF Good
  <2>2. /\ v \in Socket /\ v.state = x /\ v.flags = u.flags
        /\ v.snd_una = u.snd_una /\ v.snd_nxt = u.snd_nxt
        /\ v.sndq = u.sndq /\ v.inflight = u.inflight /\ v.rcvq = u.rcvq
        /\ v.fin_queued = u.fin_queued /\ v.fin_sent = u.fin_sent
        /\ v.rcv_nxt = u.rcv_nxt
    <3>. HIDE DEF x
    <3>. QED BY <2>1 DEF Socket
  <2>3. u.state \in WeFinished
    BY <1>2 DEF Good, Agrees
  <2>. HIDE DEF v
  <2>4. Agrees(v) /\ (v.state = "CLOSED" => u.state = "LAST_ACK")
    BY <1>2, <2>1, <2>2, <2>3, FinStates
    DEF Good, Agrees, Synced, Opening, States, PeerFinished, WeFinished
  <2>5. v.state \notin Opening
    BY <2>1, <2>2, <2>3, FinStates DEF Opening, States, WeFinished
  <2>6. Good(v)
    BY <2>2, <2>4, <2>5 DEF Good, RingsHold, Books, Balanced
  <2>7. v.state = "CLOSED" => Reason(v)
    BY <1>2, <2>2, <2>4 DEF Good, Agrees, Reason, PeerFinished
  <2>8. Edge(v) = Edge(u)
    BY <2>2 DEF Edge, adv_window, rcv_free
  <2>9. OurFinAcked(u) = v
    BY <1>2 DEF OurFinAcked, v
  <2>. QED BY <2>6, <2>7, <2>8, <2>9
<1>. QED BY <1>1, <1>2

LEMMA InputSynchronisedKept ==
  ASSUME NEW u, Good(u), Synced(u), NEW s \in Segment
  PROVE  Kept(u, InputSynchronised(u, s))
<1>. DEFINE h == handle_ack(u, s.ack)
<1>1. Good(h) /\ SameReceiver(u, h) /\ h \in Socket
  BY SegmentFields, HandleAckGood DEF Good
<1>2. CASE "ACK" \notin s.fl
  BY <1>2, SameEdge DEF InputSynchronised, Kept
<1>3. CASE "ACK" \in s.fl /\ ~InOrder(u, s)
  <2>. DEFINE p == (h.ack_pending \/ s.data # << >> \/ "FIN" \in s.fl)
              v == [h EXCEPT !.ack_pending = p]
  <2>1. p \in BOOLEAN
    BY Zenon
  <2>2. v \in Socket /\ SameCore(h, v) /\ v.rcv_nxt = h.rcv_nxt
    <3>. HIDE DEF h, p
    <3>. QED BY <1>1, <2>1 DEF Socket, SameCore
  <2>3. InputSynchronised(u, s) = v
    BY <1>3, Zenon DEF InputSynchronised
  <2>. HIDE DEF v, h
  <2>4. Good(v)
    BY <1>1, <2>2, CoreGood
  <2>5. SEQ_LEQ(Edge(u), Edge(v)) /\ v.state = u.state
    BY <1>1, <2>2, SameEdge DEF SameReceiver, SameCore
  <2>. QED BY <2>3, <2>4, <2>5 DEF Kept
<1>4. CASE "ACK" \in s.fl /\ InOrder(u, s)
  <2>. DEFINE w == [h EXCEPT !.snd_wnd = s.wnd]
              x == TakePayload(w, s)
  <2>1. w \in Socket /\ SameCore(h, w) /\ w.rcv_nxt = h.rcv_nxt
    <3>1. s.wnd \in Nat
      BY SegmentFields
    <3>. HIDE DEF h
    <3>. QED BY <1>1, <3>1 DEF Socket, SameCore
  <2>2. InputSynchronised(u, s) = OurFinAcked(x)
    BY <1>4 DEF InputSynchronised
  <2>. HIDE DEF w, h
  <2>3. Good(w) /\ Synced(w)
    BY <1>1, <2>1, CoreGood DEF SameCore, SameReceiver, Synced
  <2>4. Good(x) /\ Synced(x) /\ SEQ_LEQ(Edge(w), Edge(x))
    BY <2>3, TakePayloadGood
  <2>5. Edge(w) = Edge(u)
    BY <1>1, <2>1 DEF SameCore, SameReceiver, Edge, adv_window, rcv_free
  <2>. HIDE DEF x
  <2>6. /\ Good(OurFinAcked(x)) /\ Edge(OurFinAcked(x)) = Edge(x)
        /\ OurFinAcked(x).state = "CLOSED" => Reason(OurFinAcked(x))
    BY <2>4, OurFinAckedKept
  <2>. QED BY <2>2, <2>4, <2>5, <2>6 DEF Kept
<1>. QED BY <1>2, <1>3, <1>4

LEMMA InputSynRcvdKept ==
  ASSUME NEW u, Good(u), u.state = "SYN_RCVD", NEW s \in Segment
  PROVE  Kept(u, InputSynRcvd(u, s))
<1>1. u \in Socket /\ ~Synced(u)
  BY DEF Good, Synced, Opening
<1>2. CASE "SYN" \in s.fl
  <2>. DEFINE p == (u.syn_pending \/ SeqAdd(s.seq, 1) = u.rcv_nxt)
              v == [u EXCEPT !.syn_pending = p]
  <2>1. p \in BOOLEAN
    BY Zenon
  <2>2. v \in Socket /\ SameCore(u, v)
    <3>. HIDE DEF p
    <3>. QED BY <1>1, <2>1 DEF Socket, SameCore
  <2>3. InputSynRcvd(u, s) = v
    BY <1>2, Zenon DEF InputSynRcvd
  <2>. HIDE DEF v
  <2>. QED BY <1>1, <2>2, <2>3, CoreGood DEF Kept, SameCore
<1>3. CASE /\ "SYN" \notin s.fl
           /\ ~("ACK" \in s.fl /\ s.ack = u.snd_nxt /\ s.seq = u.rcv_nxt)
  BY <1>1, <1>3 DEF InputSynRcvd, Kept
<1>4. CASE /\ "SYN" \notin s.fl
           /\ "ACK" \in s.fl /\ s.ack = u.snd_nxt /\ s.seq = u.rcv_nxt
  <2>. DEFINE c == u.peer_mss * 2
              w == [u EXCEPT !.snd_una = s.ack, !.state = "ESTABLISHED",
                             !.cwnd = c, !.retries = 0, !.rto = RtoInitial]
  <2>1. c \in Nat /\ s.ack \in SeqNo
    BY <1>1, Fields, SegmentFields
  <2>2. w \in Socket
    <3>. HIDE DEF c
    <3>. QED BY <1>1, <2>1, Consts DEF Socket, States
  <2>3. /\ w.state = "ESTABLISHED" /\ w.flags = u.flags
        /\ w.snd_una = u.snd_nxt /\ w.snd_nxt = u.snd_nxt
        /\ w.sndq = u.sndq /\ w.inflight = u.inflight /\ w.rcvq = u.rcvq
        /\ w.fin_queued = u.fin_queued /\ w.fin_sent = u.fin_sent
    <3>. HIDE DEF c
    <3>. QED BY <1>1, <1>4 DEF Socket
  <2>4. InputSynRcvd(u, s) = InputSynchronised(w, s)
    BY <1>4 DEF InputSynRcvd
  <2>. HIDE DEF w
  <2>5. Good(w) /\ Synced(w)
    BY <2>2, <2>3, OpenedGood DEF Opening, Synced
  <2>6. Kept(w, InputSynchronised(w, s))
    BY <2>5, InputSynchronisedKept
  <2>. QED BY <1>1, <2>3, <2>4, <2>6 DEF Kept
<1>. QED BY <1>2, <1>3, <1>4

LEMMA SegmentInputKept ==
  ASSUME NEW u, Good(u), u.state \notin {"CLOSED", "LISTEN"}, NEW s \in Segment
  PROVE  Kept(u, segment_input(u, s))
<1>1. CASE "RST" \in s.fl
  BY <1>1, InputResetKept DEF segment_input
<1>2. CASE "RST" \notin s.fl /\ u.state = "SYN_SENT"
  BY <1>2, InputSynSentKept DEF segment_input
<1>3. CASE "RST" \notin s.fl /\ u.state = "SYN_RCVD"
  BY <1>3, InputSynRcvdKept DEF segment_input
<1>4. CASE "RST" \notin s.fl /\ u.state \notin Opening
  <2>1. Synced(u)
    BY <1>4 DEF Synced
  <2>. QED BY <1>4, <2>1, InputSynchronisedKept DEF segment_input, Opening
<1>. QED BY <1>1, <1>2, <1>3, <1>4 DEF Opening

LEMMA PassiveOpenGood ==
  ASSUME NEW u, Good(u), NEW s \in Segment, NEW iss \in SeqNo,
         NEW r \in SendResult
  PROVE  /\ Good(passive_open(u, s, iss, r).t)
         /\ passive_open(u, s, iss, r).t.state = "SYN_RCVD"
         /\ \E v : /\ Good(v) /\ v.state = "SYN_RCVD" /\ Begun(v, iss)
                   /\ v.rcv_nxt = SeqAdd(s.seq, 1)
                   /\ passive_open(u, s, iss, r) =
                        emit(v, {"SYN", "ACK"}, iss, << >>, r)
<1>. DEFINE a == reset_counters(u)
            w == take_mss(a, s)
            n == SeqAdd(s.seq, 1)
            nxt == SeqAdd(iss, 1)
            pend == (r # "OK")
            v == [w EXCEPT !.rcv_nxt = n, !.iss = iss, !.snd_una = iss,
                           !.snd_nxt = nxt, !.snd_wnd = s.wnd,
                           !.state = "SYN_RCVD", !.sent_age = 0,
                           !.syn_pending = pend]
<1>1. /\ a \in Socket /\ a.sndq = << >> /\ a.inflight = 0 /\ a.flags = {}
      /\ a.rcvq = << >> /\ ~a.fin_queued /\ ~a.fin_sent
  BY ResetSocket DEF Good
<1>2. w \in Socket /\ SameCore(a, w)
  <2>. HIDE DEF a
  <2>. QED BY <1>1, TakeMss
<1>3. n \in SeqNo /\ nxt \in SeqNo /\ s.wnd \in Nat /\ pend \in BOOLEAN
  BY SegmentFields, SeqAddType, InSeqNo
<1>4. passive_open(u, s, iss, r) = emit(v, {"SYN", "ACK"}, iss, << >>, r)
  BY DEF passive_open
<1>5. v \in Socket
  <2>1. w \in Socket /\ 0 \in 0 .. 2 * RtoMax
    BY <1>2, InSeqNo
  <2>. HIDE DEF w, n, nxt, pend
  <2>. QED BY <1>3, <2>1 DEF Socket, States
<1>6. /\ v.state = "SYN_RCVD" /\ v.sndq = w.sndq /\ v.inflight = w.inflight
      /\ v.rcvq = w.rcvq /\ v.fin_queued = w.fin_queued
      /\ v.fin_sent = w.fin_sent /\ v.snd_una = iss /\ v.snd_nxt = nxt
      /\ v.iss = iss /\ v.flags = w.flags /\ v.rcv_nxt = n
  <2>. HIDE DEF w, n, nxt, pend
  <2>. QED BY <1>2 DEF Socket
<1>7. Good(v)
  <2>1. v.snd_nxt = SeqAdd(v.snd_una, 1)
    BY <1>6
  <2>. HIDE DEF v, w, a
  <2>. QED BY <1>1, <1>2, <1>5, <1>6, <2>1, BlankGood DEF Opening, SameCore
<1>8. Begun(v, iss)
  <2>. HIDE DEF v, w, a
  <2>. QED BY <1>1, <1>2, <1>6 DEF Begun, SameCore
<1>. HIDE DEF v
<1>. QED BY <1>4, <1>6, <1>7, <1>8, EmitGood DEF SameCore

----------------------------------------------------------------------------
(* poll_one(). *)

(* A poll never touches the receiving side. *)
PollKeeps(u, v) ==
  /\ Good(v)
  /\ v.rcvq = u.rcvq /\ v.rcv_nxt = u.rcv_nxt
  /\ v.state = "CLOSED" => u.state = "CLOSED" \/ Reason(v)

LEMMA PollKeepsKept ==
  ASSUME NEW u, Good(u), NEW v, PollKeeps(u, v)
  PROVE  Kept(u, v)
BY SameEdge DEF PollKeeps, Kept

(* Timers, counters and the congestion window have changed, and emit() may *)
(* have moved adv_edge.                                                    *)
LEMMA CoreKeeps ==
  ASSUME NEW u, Good(u), NEW w \in Socket, SameCore(u, w),
         w.rcv_nxt = u.rcv_nxt
  PROVE  /\ PollKeeps(u, w)
         /\ \A fl, seq, data, r : PollKeeps(u, emit(w, fl, seq, data, r).t)
<1>1. Good(w)
  BY CoreGood
<1>2. PollKeeps(u, w)
  BY <1>1 DEF PollKeeps, SameCore
<1>3. ASSUME NEW fl, NEW seq, NEW data, NEW r
      PROVE  PollKeeps(u, emit(w, fl, seq, data, r).t)
  <2>. DEFINE e == emit(w, fl, seq, data, r).t
  <2>1. Good(e) /\ SameCore(w, e) /\ e.rcv_nxt = w.rcv_nxt
    BY <1>1, EmitGood
  <2>2. PollKeeps(u, e)
    <3>. HIDE DEF e
    <3>. QED BY <2>1 DEF PollKeeps, SameCore
  <2>. QED BY <2>2
<1>. QED BY <1>2, <1>3

LEMMA ElapseKeeps ==
  ASSUME NEW u, Good(u), NEW d \in Nat
  PROVE  LET v == Elapse(u, d)
         IN Good(v) /\ SameCore(u, v) /\ v.rcv_nxt = u.rcv_nxt
<1>. DEFINE a == Lesser(u.sent_age + d, 2 * RtoMax)
            b == Lesser(u.timewait_age + d, TimeWaitTicks)
            v == [u EXCEPT !.sent_age = a, !.timewait_age = b]
<1>1. u \in Socket
  BY DEF Good
<1>2. a \in 0 .. 2 * RtoMax /\ b \in 0 .. TimeWaitTicks
  BY <1>1, Fields, Consts DEF Lesser
<1>3. v \in Socket /\ SameCore(u, v) /\ v.rcv_nxt = u.rcv_nxt
  <2>. HIDE DEF a, b
  <2>. QED BY <1>1, <1>2 DEF Socket, SameCore
<1>4. Elapse(u, d) = v
  BY DEF Elapse
<1>. HIDE DEF v
<1>. QED BY <1>3, <1>4, CoreGood

LEMMA GiveUpKeeps ==
  ASSUME NEW u, Good(u)
  PROVE  PollKeeps(u, GiveUp(u))
<1>. DEFINE f == u.flags \cup {"TIMEOUT"}
            k == u.retries + 1
            v == [u EXCEPT !.retries = k, !.flags = f, !.state = "CLOSED"]
<1>1. u \in Socket /\ f \in SUBSET Flags /\ k \in Nat
  BY Fields DEF Good, Flags
<1>2. "TIMEOUT" \in f
  OBVIOUS
<1>3. /\ v \in Socket /\ v.state = "CLOSED" /\ v.flags = f
      /\ v.rcvq = u.rcvq /\ v.rcv_nxt = u.rcv_nxt
      /\ v.sndq = u.sndq /\ v.inflight = u.inflight
      /\ v.fin_queued = u.fin_queued /\ v.fin_sent = u.fin_sent
  <2>. HIDE DEF f, k
  <2>. QED BY <1>1 DEF Socket, States
<1>4. GiveUp(u) = v
  BY DEF GiveUp
<1>. HIDE DEF v, f
<1>. QED BY <1>2, <1>3, <1>4
     DEF PollKeeps, Good, RingsHold, Books, Agrees, Synced, Opening,
         PeerFinished, Reason

LEMMA PollOpeningKeeps ==
  ASSUME NEW u, Good(u), NEW link \in Link, u.state \in Opening
  PROVE  PollKeeps(u, PollOpening(u, link).t)
<1>. DEFINE r == FirstResult(link)
            fl == IF u.state = "SYN_SENT" THEN {"SYN"} ELSE {"SYN", "ACK"}
            p == (r # "OK")
            k == u.retries + 1
            o == Doubled(u.rto)
            w1 == [u EXCEPT !.sent_age = 0, !.syn_pending = p]
            x == [u EXCEPT !.retries = k, !.rto = o]
            w2 == [x EXCEPT !.sent_age = 0, !.syn_pending = p]
            l == [u EXCEPT !.retries = k, !.flags = {}, !.state = "LISTEN"]
<1>1. u \in Socket /\ p \in BOOLEAN /\ k \in Nat /\ o \in Nat \ {0}
  BY Fields, Consts DEF Good, Doubled
<1>2. PollKeeps(u, u)
  BY DEF PollKeeps
<1>3. \A seq, data : PollKeeps(u, emit(w1, fl, seq, data, r).t)
  <2>1. w1 \in Socket /\ SameCore(u, w1) /\ w1.rcv_nxt = u.rcv_nxt
    <3>. HIDE DEF p
    <3>. QED BY <1>1, InSeqNo DEF Socket, SameCore
  <2>. HIDE DEF w1
  <2>. QED BY <2>1, CoreKeeps
<1>4. \A seq, data : PollKeeps(u, emit(w2, fl, seq, data, r).t)
  <2>1. x \in Socket /\ SameCore(u, x) /\ x.rcv_nxt = u.rcv_nxt
    <3>. HIDE DEF k, o
    <3>. QED BY <1>1 DEF Socket, SameCore
  <2>2. w2 \in Socket /\ SameCore(x, w2) /\ w2.rcv_nxt = x.rcv_nxt
    <3>. HIDE DEF p, x
    <3>. QED BY <1>1, <2>1, InSeqNo DEF Socket, SameCore
  <2>3. SameCore(u, w2) /\ w2.rcv_nxt = u.rcv_nxt
    <3>. HIDE DEF x, w2
    <3>. QED BY <2>1, <2>2 DEF SameCore
  <2>. HIDE DEF w2
  <2>. QED BY <2>2, <2>3, CoreKeeps
<1>5. PollKeeps(u, GiveUp(u))
  BY GiveUpKeeps
<1>6. PollKeeps(u, l)
  <2>1. /\ l \in Socket /\ l.state = "LISTEN" /\ l.flags = {}
        /\ l.rcvq = u.rcvq /\ l.rcv_nxt = u.rcv_nxt
        /\ l.sndq = u.sndq /\ l.inflight = u.inflight
        /\ l.fin_queued = u.fin_queued /\ l.fin_sent = u.fin_sent
    <3>. HIDE DEF k
    <3>. QED BY <1>1 DEF Socket, States
  <2>. HIDE DEF l
  <2>. QED BY <2>1
       DEF PollKeeps, Good, RingsHold, Books, Agrees, Synced, Opening,
           PeerFinished
<1>7. PollOpening(u, link).t \in
        {u, emit(w1, fl, u.iss, << >>, r).t, emit(w2, fl, u.iss, << >>, r).t,
         GiveUp(u), l}
  <2>1. x.iss = u.iss
    BY <1>1 DEF Socket
  <2>2. CASE u.syn_pending
    BY <2>2 DEF PollOpening
  <2>3. CASE ~u.syn_pending /\ Overdue(u) /\ u.retries + 1 <= MaxRetries
    BY <2>1, <2>3 DEF PollOpening
  <2>4. CASE ~u.syn_pending /\ Overdue(u) /\ ~(u.retries + 1 <= MaxRetries)
    BY <2>4 DEF PollOpening, Silent
  <2>5. CASE ~u.syn_pending /\ ~Overdue(u)
    BY <2>5 DEF PollOpening, Silent
  <2>. QED BY <2>2, <2>3, <2>4, <2>5
<1>. HIDE DEF w1, w2, l
<1>. QED BY <1>2, <1>3, <1>4, <1>5, <1>6, <1>7

LEMMA PollTimeWaitKeeps ==
  ASSUME NEW u, Good(u), NEW link \in Link, u.state = "TIME_WAIT"
  PROVE  PollKeeps(u, PollTimeWait(u, link).t)
<1>. DEFINE w == [u EXCEPT !.ack_pending = FALSE, !.timewait_age = 0]
            e == IF u.ack_pending
                 THEN emit(w, {"ACK"}, u.snd_nxt, << >>, FirstResult(link))
                 ELSE Silent(u)
            x == IF e.t.timewait_age >= TimeWaitTicks THEN "CLOSED" ELSE e.t.state
            y == e.t
            v == [y EXCEPT !.state = x]
<1>1. Good(y) /\ SameCore(u, y) /\ y.rcv_nxt = u.rcv_nxt
  <2>1. CASE u.ack_pending
    <3>1. 0 \in 0 .. TimeWaitTicks
      BY Consts
    <3>2. w \in Socket /\ SameCore(u, w) /\ w.rcv_nxt = u.rcv_nxt
      BY <3>1 DEF Good, Socket, SameCore
    <3>3. y = emit(w, {"ACK"}, u.snd_nxt, << >>, FirstResult(link)).t
      BY <2>1
    <3>. HIDE DEF w, y
    <3>4. Good(w)
      BY <3>2, CoreGood
    <3>5. Good(y) /\ SameCore(w, y) /\ y.rcv_nxt = w.rcv_nxt
      BY <3>3, <3>4, EmitGood
    <3>. QED BY <3>2, <3>5 DEF SameCore
  <2>2. CASE ~u.ack_pending
    BY <2>2 DEF Silent, SameCore
  <2>. QED BY <2>1, <2>2
<1>2. PollTimeWait(u, link).t = v
  BY DEF PollTimeWait, emit, Silent
<1>3. x \in {"CLOSED", "TIME_WAIT"}
  BY <1>1 DEF SameCore
<1>4. /\ v \in Socket /\ v.state = x /\ v.flags = y.flags
      /\ v.snd_una = y.snd_una /\ v.snd_nxt = y.snd_nxt
      /\ v.sndq = y.sndq /\ v.inflight = y.inflight /\ v.rcvq = y.rcvq
      /\ v.fin_queued = y.fin_queued /\ v.fin_sent = y.fin_sent
      /\ v.rcv_nxt = y.rcv_nxt
  <2>. HIDE DEF x, y
  <2>. QED BY <1>1, <1>3 DEF Good, Socket, States
<1>. HIDE DEF v, x, y
<1>5. /\ "EOF" \in v.flags /\ v.fin_sent /\ v.snd_una = v.snd_nxt
  BY <1>1, <1>4
  DEF Good, Agrees, SameCore, Synced, Opening, PeerFinished, WeFinished
<1>6. Good(v)
  BY <1>1, <1>3, <1>4
  DEF Good, RingsHold, Books, Balanced, Agrees, SameCore, Synced, Opening,
      PeerFinished, WeFinished
<1>. QED BY <1>1, <1>2, <1>4, <1>5, <1>6 DEF PollKeeps, Reason, SameCore

LEMMA RetransmitKeeps ==
  ASSUME NEW u, Good(u), NEW link \in Link
  PROVE  PollKeeps(u, Retransmit(u, link).t)
<1>. DEFINE k == u.retries + 1
            o == Doubled(u.rto)
            c == u.peer_mss
            w == [u EXCEPT !.retries = k, !.rto = o, !.sent_age = 0, !.cwnd = c]
            r == FirstResult(link)
            d == SubSeq(u.sndq, 1, Lesser(u.inflight, u.peer_mss))
<1>1. u \in Socket /\ k \in Nat /\ o \in Nat \ {0} /\ c \in Nat
  BY Fields, Consts DEF Good, Doubled
<1>2. w \in Socket /\ SameCore(u, w) /\ w.rcv_nxt = u.rcv_nxt
  <2>. HIDE DEF k, o, c
  <2>. QED BY <1>1, InSeqNo DEF Socket, SameCore
<1>3. CASE u.retries + 1 > MaxRetries
  BY <1>3, GiveUpKeeps DEF Retransmit, Silent
<1>4. CASE ~(u.retries + 1 > MaxRetries)
  <2>1. Retransmit(u, link) \in
          {emit(w, {"ACK"}, u.snd_una, d, r),
           emit(w, {"ACK", "FIN"}, SeqSub(u.snd_nxt, 1), << >>, r)}
    BY <1>4 DEF Retransmit
  <2>. HIDE DEF w, d, r
  <2>. QED BY <1>2, <2>1, CoreKeeps
<1>. QED BY <1>3, <1>4

LEMMA SentUpToBound ==
  ASSUME NEW u, Good(u), NEW link \in Link
  PROVE  SentUpTo(u, link) \in u.inflight .. Len(u.sndq)
<1>1. /\ u \in Socket /\ u.inflight \in Nat /\ u.snd_wnd \in Nat
      /\ u.cwnd \in Nat /\ u.peer_mss \in Nat /\ u.sndq \in Seq(Byte)
  BY Fields DEF Good
<1>2. Len(u.sndq) \in Nat /\ u.inflight <= Len(u.sndq)
  BY <1>1, LenNat DEF Good, RingsHold
<1>. DEFINE e == SendEnd(u)
            m == link.takes * u.peer_mss
<1>3. e \in Nat /\ e <= Len(u.sndq)
  BY <1>1, <1>2 DEF SendEnd, SendLimit, Lesser
<1>4. m \in Nat
  <2>1. link.takes \in Nat
    BY DEF Link
  <2>. QED BY <1>1, <2>1
<1>5. SentUpTo(u, link) = IF e <= u.inflight THEN u.inflight
                          ELSE Lesser(e, u.inflight + m)
  BY DEF SentUpTo
<1>. HIDE DEF e, m
<1>. QED BY <1>1, <1>2, <1>3, <1>4, <1>5 DEF Lesser

LEMMA SendQueuedKeeps ==
  ASSUME NEW u, Good(u), Synced(u), DataReady(u), NEW link \in Link
  PROVE  LET z == SendQueued(u, link).t
         IN /\ PollKeeps(u, z)
            /\ z.state = u.state /\ z.flags = u.flags /\ z.iss = u.iss
            /\ z.snd_una = u.snd_una /\ z.sndq = u.sndq
            /\ z.snd_nxt = SeqAdd(u.snd_nxt, SentUpTo(u, link) - u.inflight)
            /\ z.inflight = SentUpTo(u, link)
            /\ z.fin_queued = u.fin_queued /\ z.fin_sent = u.fin_sent
<1>. DEFINE end == SentUpTo(u, link)
            n == end - u.inflight
            nxt == SeqAdd(u.snd_nxt, n)
            some == end > u.inflight
            stopped == end < SendEnd(u)
            g == IF some /\ u.inflight = 0 THEN 0 ELSE u.sent_age
            a == (u.ack_pending /\ ~some)
            p == (end < Len(u.sndq) \/ (stopped /\ link.then = "PENDING"))
            v == [u EXCEPT !.inflight = end, !.snd_nxt = nxt, !.sent_age = g,
                           !.ack_pending = a, !.tx_pending = p]
            r == IF some \/ (stopped /\ link.then = "FAILED")
                 THEN "OK" ELSE "PENDING"
<1>1. /\ u \in Socket /\ u.inflight \in Nat /\ u.snd_nxt \in SeqNo
      /\ u.snd_una \in SeqNo /\ u.sndq \in Seq(Byte)
      /\ u.sent_age \in 0 .. 2 * RtoMax
  BY Fields DEF Good
<1>2. /\ Len(u.sndq) \in Nat /\ u.inflight <= Len(u.sndq)
      /\ Len(u.sndq) <= SndBuf
  BY <1>1, LenNat DEF Good, RingsHold
<1>3. end \in u.inflight .. Len(u.sndq)
  BY SentUpToBound
<1>4. end \in Nat /\ n \in Nat /\ u.inflight + n = end /\ end <= Len(u.sndq)
  <2>. HIDE DEF end
  <2>. QED BY <1>1, <1>2, <1>3
<1>5. ~u.fin_sent
  <2>1. Len(u.sndq) > 0
    BY <1>1, <1>2 DEF DataReady
  <2>2. u.sndq # << >>
    BY <2>1, EmptyBytes
  <2>. QED BY <2>2 DEF Good, Books, Balanced
<1>6. SeqSub(u.snd_nxt, u.snd_una) = u.inflight
  BY <1>5 DEF Good, Books, Balanced
<1>7. nxt \in SeqNo /\ SeqSub(nxt, u.snd_una) = end
  <2>1. SeqSub(u.snd_nxt, u.snd_una) + n < SeqSpace
    <3>. HIDE DEF n, end
    <3>. QED BY <1>1, <1>2, <1>4, <1>6, Consts
  <2>2. nxt \in SeqNo
        /\ SeqSub(nxt, u.snd_una) = SeqSub(u.snd_nxt, u.snd_una) + n
    <3>. HIDE DEF n, end
    <3>. QED BY <1>1, <1>4, <2>1, SeqSubAdd
  <2>. HIDE DEF n, end, nxt
  <2>. QED BY <1>4, <1>6, <2>2
<1>8. g \in 0 .. 2 * RtoMax /\ a \in BOOLEAN /\ p \in BOOLEAN
  <2>1. g \in 0 .. 2 * RtoMax
    BY <1>1, InSeqNo
  <2>2. a \in BOOLEAN /\ p \in BOOLEAN
    BY Zenon
  <2>. QED BY <2>1, <2>2
<1>9. v \in Socket
  <2>. HIDE DEF end, nxt, g, a, p
  <2>. QED BY <1>1, <1>4, <1>7, <1>8 DEF Socket
<1>10. /\ v.state = u.state /\ v.flags = u.flags /\ v.iss = u.iss
       /\ v.snd_una = u.snd_una /\ v.snd_nxt = nxt
       /\ v.sndq = u.sndq /\ v.inflight = end /\ v.rcvq = u.rcvq
       /\ v.fin_queued = u.fin_queued /\ v.fin_sent = u.fin_sent
       /\ v.rcv_nxt = u.rcv_nxt
  <2>. HIDE DEF end, nxt, g, a, p
  <2>. QED BY <1>1 DEF Socket
<1>11. Good(v)
  <2>. HIDE DEF v, end, nxt, n
  <2>1. RingsHold(v)
    BY <1>4, <1>10 DEF Good, RingsHold
  <2>2. Balanced(v)
    BY <1>5, <1>7, <1>10 DEF Balanced
  <2>3. Books(v)
    BY <1>10, <2>2 DEF Books, Synced
  <2>4. Agrees(v)
    <3>1. u.state \notin {"FIN_WAIT_2", "TIME_WAIT"}
      BY <1>5 DEF Good, Agrees, WeFinished, Synced
    <3>. QED BY <1>10, <3>1 DEF Good, Agrees, Synced
  <2>. QED BY <1>9, <2>1, <2>3, <2>4 DEF Good
<1>12. SendQueued(u, link).t = Announce(v, {"ACK"}, r)
  BY Zenon DEF SendQueued
<1>13. Announce(v, {"ACK"}, r) = emit(v, {"ACK"}, 0, << >>, r).t
  BY DEF emit
<1>14. PollKeeps(u, v)
  <2>. HIDE DEF v
  <2>. QED BY <1>10, <1>11 DEF PollKeeps
<1>15. /\ Good(emit(v, {"ACK"}, 0, << >>, r).t)
       /\ SameCore(v, emit(v, {"ACK"}, 0, << >>, r).t)
       /\ emit(v, {"ACK"}, 0, << >>, r).t.rcv_nxt = v.rcv_nxt
  <2>. HIDE DEF v, r
  <2>. QED BY <1>11, EmitGood
<1>16. PollKeeps(u, emit(v, {"ACK"}, 0, << >>, r).t)
  <2>. DEFINE e == emit(v, {"ACK"}, 0, << >>, r).t
  <2>1. PollKeeps(u, e)
    <3>1. Good(e) /\ SameCore(v, e) /\ e.rcv_nxt = v.rcv_nxt
      BY <1>15
    <3>. HIDE DEF v, e
    <3>. QED BY <1>14, <3>1, <1>10 DEF PollKeeps, SameCore
  <2>. QED BY <2>1
<1>17. /\ v.snd_nxt = SeqAdd(u.snd_nxt, SentUpTo(u, link) - u.inflight)
       /\ v.inflight = SentUpTo(u, link)
  <2>. HIDE DEF v
  <2>. QED BY <1>10
<1>. HIDE DEF v, r, end, nxt
<1>. QED BY <1>10, <1>12, <1>13, <1>15, <1>16, <1>17 DEF SameCore

LEMMA SendFinKeeps ==
  ASSUME NEW u, Good(u), Synced(u), u.state \notin {"TIME_WAIT"}, FinReady(u),
         NEW link \in Link
  PROVE  LET z == SendFin(u, link).t
         IN /\ PollKeeps(u, z)
            /\ IF FirstResult(link) # "OK" THEN SameCore(u, z)
               ELSE /\ z.flags = u.flags /\ z.iss = u.iss
                    /\ z.snd_una = u.snd_una /\ z.sndq = u.sndq
                    /\ z.snd_nxt = SeqAdd(u.snd_nxt, 1)
                    /\ z.fin_queued = u.fin_queued /\ z.fin_sent
                    /\ Synced(z)
<1>. DEFINE r == FirstResult(link)
            y == emit(u, {"ACK", "FIN"}, u.snd_nxt, << >>, r).t
            nxt == SeqAdd(y.snd_nxt, 1)
            x == IF y.state = "CLOSE_WAIT" THEN "LAST_ACK" ELSE "FIN_WAIT_1"
            v == [y EXCEPT !.fin_sent = TRUE, !.snd_nxt = nxt, !.sent_age = 0,
                           !.ack_pending = FALSE, !.state = x]
<1>1. Good(y) /\ SameCore(u, y) /\ y.rcv_nxt = u.rcv_nxt
  BY EmitGood
<1>2. PollKeeps(u, y)
  <2>. HIDE DEF y
  <2>. QED BY <1>1 DEF PollKeeps, SameCore
<1>3. /\ y \in Socket /\ y.snd_nxt \in SeqNo /\ y.snd_una \in SeqNo
      /\ y.inflight = 0 /\ y.sndq = << >> /\ y.fin_queued /\ ~y.fin_sent
      /\ Synced(y)
  <2>. HIDE DEF y
  <2>. QED BY <1>1, Fields DEF Good, SameCore, FinReady, Synced
<1>4. y.state \in {"ESTABLISHED", "CLOSE_WAIT"}
  <2>1. y.state \in States /\ y.state \notin WeFinished
    <3>. HIDE DEF y
    <3>. QED BY <1>1, <1>3, Fields DEF Good, Agrees
  <2>. HIDE DEF y
  <2>. QED BY <1>3, <2>1 DEF States, WeFinished, Synced, Opening
<1>5. nxt \in SeqNo /\ SeqSub(nxt, y.snd_una) <= 1
  <2>1. SeqSub(y.snd_nxt, y.snd_una) = 0
    <3>. HIDE DEF y
    <3>. QED BY <1>1, <1>3 DEF Good, Books, Balanced
  <2>2. SeqSub(y.snd_nxt, y.snd_una) + 1 < SeqSpace
    <3>. HIDE DEF y
    <3>. QED BY <2>1, Consts
  <2>3. nxt \in SeqNo /\ SeqSub(nxt, y.snd_una) = SeqSub(y.snd_nxt, y.snd_una) + 1
    <3>. HIDE DEF y
    <3>. QED BY <1>3, <2>2, SeqSubAdd
  <2>. HIDE DEF y, nxt
  <2>. QED BY <2>1, <2>3
<1>6. v \in Socket
  <2>1. x \in States
    BY DEF States
  <2>. HIDE DEF y, nxt, x
  <2>. QED BY <1>3, <1>5, <2>1, InSeqNo DEF Socket
<1>7. /\ v.state = x /\ v.flags = y.flags /\ v.iss = y.iss
      /\ v.snd_una = y.snd_una /\ v.snd_nxt = nxt
      /\ v.sndq = y.sndq /\ v.inflight = y.inflight /\ v.rcvq = y.rcvq
      /\ v.fin_queued = y.fin_queued /\ v.fin_sent = TRUE
      /\ v.rcv_nxt = y.rcv_nxt
  <2>. HIDE DEF y, nxt, x
  <2>. QED BY <1>3 DEF Socket
<1>8. Good(v)
  <2>. HIDE DEF y, nxt, v
  <2>1. RingsHold(v)
    BY <1>1, <1>7 DEF Good, RingsHold
  <2>2. Balanced(v)
    BY <1>3, <1>5, <1>7 DEF Balanced
  <2>3. Books(v)
    BY <1>7, <2>2 DEF Books, Opening
  <2>4. Agrees(v)
    BY <1>1, <1>3, <1>4, <1>7
    DEF Good, Agrees, PeerFinished, WeFinished, Synced, Opening
  <2>. QED BY <1>6, <2>1, <2>3, <2>4 DEF Good
<1>9. PollKeeps(u, v)
  <2>. HIDE DEF y, v
  <2>. QED BY <1>1, <1>7, <1>8 DEF PollKeeps, SameCore
<1>10. SendFin(u, link).t = IF r = "OK" THEN v ELSE y
  BY DEF SendFin, FinSent, emit
<1>11. Synced(v) /\ v.snd_nxt = SeqAdd(u.snd_nxt, 1)
  <2>1. x \in {"LAST_ACK", "FIN_WAIT_1"}
    OBVIOUS
  <2>2. y.snd_nxt = u.snd_nxt
    <3>. HIDE DEF y
    <3>. QED BY <1>1 DEF SameCore
  <2>. HIDE DEF v, x, y
  <2>. QED BY <1>7, <2>1, <2>2 DEF Synced, Opening, nxt
<1>. HIDE DEF v, y
<1>. QED BY <1>1, <1>2, <1>7, <1>9, <1>10, <1>11 DEF SameCore

LEMMA SendAckKeeps ==
  ASSUME NEW u, Good(u), NEW link \in Link
  PROVE  PollKeeps(u, SendAck(u, link).t)
<1>. DEFINE r == FirstResult(link)
            y == emit(u, {"ACK"}, u.snd_nxt, << >>, r).t
            p == (r = "PENDING")
            v == [y EXCEPT !.ack_pending = p]
<1>1. Good(y) /\ SameCore(u, y) /\ y.rcv_nxt = u.rcv_nxt
  BY EmitGood
<1>2. v \in Socket /\ SameCore(y, v) /\ v.rcv_nxt = y.rcv_nxt
  <2>1. y \in Socket /\ p \in BOOLEAN
    <3>. HIDE DEF y
    <3>. QED BY <1>1 DEF Good
  <2>. HIDE DEF y, p
  <2>. QED BY <2>1 DEF Socket, SameCore
<1>3. SendAck(u, link).t = v
  BY DEF SendAck, emit
<1>. HIDE DEF y, v
<1>4. Good(v)
  BY <1>1, <1>2, CoreGood
<1>. QED BY <1>1, <1>2, <1>3, <1>4 DEF PollKeeps, SameCore

LEMMA PollSynchronisedKeeps ==
  ASSUME NEW u, Good(u), Synced(u), u.state # "TIME_WAIT", NEW link \in Link
  PROVE  PollKeeps(u, PollSynchronised(u, link).t)
<1>1. CASE Outstanding(u) /\ Overdue(u)
  BY <1>1, RetransmitKeeps DEF PollSynchronised
<1>2. CASE ~(Outstanding(u) /\ Overdue(u)) /\ DataReady(u)
  BY <1>2, SendQueuedKeeps DEF PollSynchronised
<1>3. CASE /\ ~(Outstanding(u) /\ Overdue(u)) /\ ~DataReady(u)
           /\ FinReady(u)
  BY <1>3, SendFinKeeps DEF PollSynchronised
<1>4. CASE /\ ~(Outstanding(u) /\ Overdue(u)) /\ ~DataReady(u)
           /\ ~FinReady(u) /\ u.ack_pending
  BY <1>4, SendAckKeeps DEF PollSynchronised
<1>5. CASE /\ ~(Outstanding(u) /\ Overdue(u)) /\ ~DataReady(u)
           /\ ~FinReady(u) /\ ~u.ack_pending
  BY <1>5 DEF PollSynchronised, Silent, PollKeeps
<1>. QED BY <1>1, <1>2, <1>3, <1>4, <1>5

LEMMA PollOneKept ==
  ASSUME NEW u, Good(u), NEW d \in Nat, NEW link \in Link
  PROVE  Kept(u, poll_one(u, d, link).t)
<1>. DEFINE w == Elapse(u, d)
            x == w.state
<1>1. Good(w) /\ SameCore(u, w) /\ w.rcv_nxt = u.rcv_nxt
  BY ElapseKeeps
<1>2. poll_one(u, d, link) =
        CASE x \in {"CLOSED", "LISTEN"} -> Silent(w)
          [] x \in Opening              -> PollOpening(w, link)
          [] x = "TIME_WAIT"            -> PollTimeWait(w, link)
          [] OTHER                      -> PollSynchronised(w, link)
  BY DEF poll_one
<1>3. Synced(w) <=> x \notin Opening \cup {"CLOSED", "LISTEN"}
  BY DEF Synced
<1>4. w.state = x
  OBVIOUS
<1>. HIDE DEF w, x
<1>5. PollKeeps(w, poll_one(u, d, link).t)
  <2>1. CASE x \in {"CLOSED", "LISTEN"}
    <3>1. poll_one(u, d, link).t = w
      BY <1>2, <2>1 DEF Silent, Opening
    <3>. QED BY <1>1, <3>1 DEF PollKeeps
  <2>2. CASE x \in Opening
    <3>1. poll_one(u, d, link) = PollOpening(w, link)
      BY <1>2, <2>2 DEF Opening
    <3>. QED BY <1>1, <1>4, <2>2, <3>1, PollOpeningKeeps
  <2>3. CASE x = "TIME_WAIT"
    <3>1. poll_one(u, d, link) = PollTimeWait(w, link)
      BY <1>2, <2>3 DEF Opening
    <3>. QED BY <1>1, <1>4, <2>3, <3>1, PollTimeWaitKeeps
  <2>4. CASE Synced(w) /\ x # "TIME_WAIT"
    <3>1. poll_one(u, d, link) = PollSynchronised(w, link)
      BY <1>2, <1>3, <2>4 DEF Opening
    <3>. QED BY <1>1, <1>4, <2>4, <3>1, PollSynchronisedKeeps
  <2>. QED BY <1>3, <2>1, <2>2, <2>3, <2>4
<1>6. PollKeeps(u, poll_one(u, d, link).t)
  BY <1>1, <1>5 DEF PollKeeps, SameCore
<1>. QED BY <1>6, PollKeepsKept

============================================================================
