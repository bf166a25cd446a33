---------------------------- MODULE TcpSetProofs ----------------------------
(***************************************************************************)
(* What holds of the set of sockets and of the clock of src/abi/api.c, for *)
(* any number of sockets, any ports, and a frame counter and a clock of    *)
(* any width, however many frames pass between two calls of the client.    *)
(***************************************************************************)
EXTENDS TcpSet, MnTcpProofs, WellFoundedInduction

----------------------------------------------------------------------------
(* What a segment or a poll makes of a socket's state, and of the timer    *)
(* and the counter it depends on.  MnTcpProofs shows they keep Good.       *)

(* The age of TIME_WAIT's stamp is kept, and a counter of retries at zero. *)
Untimed(u, v) ==
  v.timewait_age = u.timewait_age /\ (u.retries = 0 => v.retries = 0)

LEMMA HandleAckUntimed ==
  ASSUME NEW u \in Socket, NEW ack
  PROVE  Untimed(u, handle_ack(u, ack))
<1>. DEFINE n == Acked(u, ack)
            q == SubSeq(u.sndq, n + 1, Len(u.sndq))
            k == u.inflight - n
            c == IF u.cwnd < u.peer_mss * CwndMax
                 THEN u.cwnd + u.peer_mss ELSE u.cwnd
            b == (u.tx_pending \/ Len(u.sndq) > u.inflight)
            v == [u EXCEPT !.sndq = q, !.inflight = k, !.snd_una = ack,
                           !.retries = 0, !.rto = RtoInitial,
                           !.sent_age = 0, !.cwnd = c, !.tx_pending = b]
<1>1. handle_ack(u, ack) = u \/ handle_ack(u, ack) = v
  BY Zenon DEF handle_ack
<1>2. Untimed(u, v)
  <2>. HIDE DEF q, k, c, b
  <2>. QED BY DEF Socket, Untimed
<1>. HIDE DEF v
<1>. QED BY <1>1, <1>2 DEF Untimed

LEMMA TakePayloadState ==
  ASSUME NEW u \in Socket, NEW s
  PROVE  /\ Untimed(u, TakePayload(u, s))
         /\ TakePayload(u, s).state \in {u.state, AfterFin[u.state]}
<1>. DEFINE q == u.rcvq \o SubSeq(s.data, 1, RingPut(u, s))
            nxt == SeqAdd(u.rcv_nxt, Advance(u, s))
            fin == FinReached(u, s)
            p == (u.ack_pending \/ s.data # << >> \/ fin)
            f == IF fin THEN u.flags \cup {"EOF"} ELSE u.flags
            x == IF fin THEN AfterFin[u.state] ELSE u.state
            v == [u EXCEPT !.rcvq = q, !.rcv_nxt = nxt, !.ack_pending = p,
                           !.flags = f, !.state = x]
<1>1. TakePayload(u, s) = v
  BY Zenon DEF TakePayload
<1>2. x \in {u.state, AfterFin[u.state]}
  OBVIOUS
<1>3. Untimed(u, v) /\ v.state = x
  <2>. HIDE DEF q, nxt, p, f, x
  <2>. QED BY DEF Socket, Untimed
<1>. HIDE DEF v, x
<1>. QED BY <1>1, <1>2, <1>3

LEMMA OurFinAckedState ==
  ASSUME NEW u \in Socket
  PROVE  /\ Untimed(u, OurFinAcked(u))
         /\ OurFinAcked(u).state \in {u.state, AfterOurFin[u.state]}
<1>. DEFINE x == AfterOurFin[u.state]
            v == [u EXCEPT !.state = x]
<1>1. OurFinAcked(u) = u \/ OurFinAcked(u) = v
  BY DEF OurFinAcked
<1>2. Untimed(u, v) /\ v.state = x
  <2>. HIDE DEF x
  <2>. QED BY DEF Socket, Untimed
<1>. HIDE DEF v
<1>. QED BY <1>1, <1>2 DEF Untimed

LEMMA InputSynchronisedState ==
  ASSUME NEW u, Good(u), Synced(u), NEW s \in Segment
  PROVE  LET v == InputSynchronised(u, s)
         IN /\ Untimed(u, v)
            /\ v.state \notin Opening \cup {"LISTEN"}
            /\ u.state = "ESTABLISHED" => v.state \in {"ESTABLISHED", "CLOSE_WAIT"}
<1>. DEFINE h == handle_ack(u, s.ack)
<1>1. /\ Good(h) /\ h \in Socket /\ h.state = u.state /\ Untimed(u, h)
      /\ u.state \in States
  BY SegmentFields, HandleAckGood, HandleAckUntimed, Fields
  DEF Good, SameReceiver
<1>2. CASE "ACK" \notin s.fl
  BY <1>2 DEF InputSynchronised, Untimed, Synced
<1>3. CASE "ACK" \in s.fl /\ ~InOrder(u, s)
  <2>. DEFINE p == (h.ack_pending \/ s.data # << >> \/ "FIN" \in s.fl)
              v == [h EXCEPT !.ack_pending = p]
  <2>1. v.state = h.state /\ Untimed(h, v)
    <3>. HIDE DEF h, p
    <3>. QED BY <1>1 DEF Socket, Untimed
  <2>2. InputSynchronised(u, s) = v
    BY <1>3, Zenon DEF InputSynchronised
  <2>. HIDE DEF v, h
  <2>. QED BY <1>1, <2>1, <2>2 DEF Untimed, Synced
<1>4. CASE "ACK" \in s.fl /\ InOrder(u, s)
  <2>. DEFINE w == [h EXCEPT !.snd_wnd = s.wnd]
              x == TakePayload(w, s)
              y == OurFinAcked(x)
  <2>1. /\ w \in Socket /\ w.state = u.state /\ Untimed(h, w)
        /\ SameCore(h, w)
    <3>1. s.wnd \in Nat
      BY SegmentFields
    <3>. HIDE DEF h
    <3>. QED BY <1>1, <3>1 DEF Socket, Untimed, SameCore
  <2>2. InputSynchronised(u, s) = y
    BY <1>4 DEF InputSynchronised
  <2>. HIDE DEF w, h
  <2>3. Good(w) /\ Synced(w)
    BY <1>1, <2>1, CoreGood DEF Synced
  <2>4. /\ x \in Socket /\ Untimed(w, x)
        /\ x.state \in {u.state, AfterFin[u.state]}
    BY <2>1, <2>3, TakePayloadGood, TakePayloadState DEF Good
  <2>. HIDE DEF x
  <2>5. Untimed(x, y) /\ y.state \in {x.state, AfterOurFin[x.state]}
    BY <2>4, OurFinAckedState
  <2>. HIDE DEF y
  <2>6. Untimed(u, y)
    BY <1>1, <2>1, <2>4, <2>5 DEF Untimed
  <2>7. x.state \in States /\ x.state \notin Opening \cup {"CLOSED", "LISTEN"}
    BY <1>1, <2>4, FinStates DEF States, Opening, Receiving, Synced
  <2>8. y.state \notin Opening \cup {"LISTEN"}
    BY <2>5, <2>7, FinStates DEF States, Opening
  <2>9. u.state = "ESTABLISHED" => y.state \in {"ESTABLISHED", "CLOSE_WAIT"}
    BY <2>4, <2>5, FinStates DEF States
  <2>. QED BY <2>2, <2>6, <2>8, <2>9
<1>. QED BY <1>2, <1>3, <1>4

(* What a segment makes of a socket that owns it: the handshake's other    *)
(* end cannot close the line.                                              *)
Answered(u, v) ==
  /\ Good(v) /\ v.timewait_age = u.timewait_age
  /\ v.state = "SYN_SENT" => u.state = "SYN_SENT"
  /\ v.state \in {"LISTEN", "SYN_RCVD"} => u.state = "SYN_RCVD"
  /\ v.state = "TIME_WAIT" => u.state \notin Opening
  /\ u.state = "SYN_RCVD" =>
       \/ v.state \in {"LISTEN", "SYN_RCVD"}
       \/ v.state \in {"ESTABLISHED", "CLOSE_WAIT"} /\ v.retries = 0

LEMMA InputResetState ==
  ASSUME NEW u \in Socket, NEW s
  PROVE  LET v == InputReset(u, s)
         IN /\ v = u \/ (v.state = "CLOSED" /\ u.state # "SYN_RCVD")
                     \/ (v.state = "LISTEN" /\ u.state = "SYN_RCVD")
            /\ v.timewait_age = u.timewait_age
<1>. DEFINE f == u.flags \cup {"REFUSED", "RESET"}
            g == u.flags \cup {"RESET"}
<1>1. InputReset(u, s) \in
        {u} \cup (IF u.state = "SYN_RCVD" THEN {Ended(u, {}, "LISTEN")}
                  ELSE {Ended(u, f, "CLOSED"), Ended(u, g, "CLOSED")})
  <2>1. [u EXCEPT !.state = "LISTEN", !.flags = {}] = Ended(u, {}, "LISTEN")
    BY DEF Socket, Ended
  <2>2. CASE u.state = "SYN_SENT"
    BY <2>2 DEF InputReset, Ended
  <2>3. CASE u.state = "SYN_RCVD"
    BY <2>1, <2>3 DEF InputReset
  <2>4. CASE u.state \notin {"SYN_SENT", "SYN_RCVD"}
    BY <2>4 DEF InputReset, Ended
  <2>. QED BY <2>2, <2>3, <2>4
<1>2. \A e, x : Ended(u, e, x).state = x
                /\ Ended(u, e, x).timewait_age = u.timewait_age
  BY DEF Socket, Ended
<1>. HIDE DEF f, g
<1>. QED BY <1>1, <1>2

LEMMA InputSynSentState ==
  ASSUME NEW u \in Socket, NEW s \in Segment
  PROVE  LET v == InputSynSent(u, s)
         IN v = u \/ (v.state = "ESTABLISHED" /\ v.timewait_age = u.timewait_age)
<1>. DEFINE m == Lesser(IF s.mss = 0 THEN u.peer_mss ELSE s.mss, Mss)
            w == [u EXCEPT !.peer_mss = m]
            n == SeqAdd(s.seq, 1)
            c == w.peer_mss * 2
            v == [w EXCEPT !.rcv_nxt = n, !.snd_una = s.ack,
                           !.snd_wnd = s.wnd, !.state = "ESTABLISHED",
                           !.cwnd = c, !.retries = 0, !.rto = RtoInitial,
                           !.ack_pending = TRUE]
<1>1. InputSynSent(u, s) = u \/ InputSynSent(u, s) = v
  BY DEF InputSynSent, take_mss
<1>2. w \in Socket /\ w.timewait_age = u.timewait_age
  <2>1. w.timewait_age = u.timewait_age
    <3>. HIDE DEF m
    <3>. QED BY DEF Socket
  <2>2. w \in Socket
    BY TakeMss DEF take_mss
  <2>. QED BY <2>1, <2>2
<1>3. v.state = "ESTABLISHED" /\ v.timewait_age = w.timewait_age
  <2>. HIDE DEF w, n, c
  <2>. QED BY <1>2 DEF Socket
<1>. HIDE DEF v
<1>. QED BY <1>1, <1>2, <1>3

LEMMA InputSynRcvdState ==
  ASSUME NEW u, Good(u), u.state = "SYN_RCVD", NEW s \in Segment
  PROVE  LET v == InputSynRcvd(u, s)
         IN /\ v.timewait_age = u.timewait_age
            /\ \/ v.state = "SYN_RCVD"
               \/ v.state \in {"ESTABLISHED", "CLOSE_WAIT"} /\ v.retries = 0
<1>1. u \in Socket
  BY DEF Good
<1>2. CASE "SYN" \in s.fl
  <2>. DEFINE p == (u.syn_pending \/ SeqAdd(s.seq, 1) = u.rcv_nxt)
              v == [u EXCEPT !.syn_pending = p]
  <2>1. v.state = u.state /\ v.timewait_age = u.timewait_age
    <3>. HIDE DEF p
    <3>. QED BY <1>1 DEF Socket
  <2>2. InputSynRcvd(u, s) = v
    BY <1>2, Zenon DEF InputSynRcvd
  <2>. HIDE DEF v
  <2>. QED BY <2>1, <2>2
<1>3. CASE /\ "SYN" \notin s.fl
           /\ ~("ACK" \in s.fl /\ s.ack = u.snd_nxt /\ s.seq = u.rcv_nxt)
  BY <1>3 DEF InputSynRcvd
<1>4. CASE /\ "SYN" \notin s.fl
           /\ "ACK" \in s.fl /\ s.ack = u.snd_nxt /\ s.seq = u.rcv_nxt
  <2>. DEFINE c == u.peer_mss * 2
              w == [u EXCEPT !.snd_una = s.ack, !.state = "ESTABLISHED",
                             !.cwnd = c, !.retries = 0, !.rto = RtoInitial]
  <2>1. c \in Nat /\ s.ack \in SeqNo
    BY <1>1, Fields, SegmentFields
  <2>2. w \in Socket
    <3>. HIDE DEF c
    <3>. QED BY <1>1, <2>1, Consts DEF Socket, States
  <2>3. /\ w.state = "ESTABLISHED" /\ w.flags = u.flags
        /\ w.snd_una = u.snd_nxt /\ w.snd_nxt = u.snd_nxt
        /\ w.sndq = u.sndq /\ w.inflight = u.inflight /\ w.rcvq = u.rcvq
        /\ w.fin_queued = u.fin_queued /\ w.fin_sent = u.fin_sent
        /\ w.retries = 0 /\ w.timewait_age = u.timewait_age
    <3>. HIDE DEF c
    <3>. QED BY <1>1, <1>4 DEF Socket
  <2>4. InputSynRcvd(u, s) = InputSynchronised(w, s)
    BY <1>4 DEF InputSynRcvd
  <2>. HIDE DEF w
  <2>5. Good(w) /\ Synced(w)
    BY <2>2, <2>3, OpenedGood DEF Opening, Synced
  <2>. QED BY <2>3, <2>4, <2>5, InputSynchronisedState DEF Untimed
<1>. QED BY <1>2, <1>3, <1>4

LEMMA SegmentAnswered ==
  ASSUME NEW u, Good(u), Live(u), NEW s \in Segment
  PROVE  Answered(u, segment_input(u, s))
<1>. DEFINE v == segment_input(u, s)
<1>. SUFFICES Answered(u, v)
  OBVIOUS
<1>1. u \in Socket /\ u.state \notin {"CLOSED", "LISTEN"} /\ Good(v)
  BY SegmentInputKept DEF Good, Live, Kept
<1>2. CASE "RST" \in s.fl
  <2>1. v = InputReset(u, s)
    BY <1>2 DEF segment_input
  <2>. HIDE DEF v
  <2>. QED BY <1>1, <2>1, InputResetState DEF Answered, Opening
<1>3. CASE "RST" \notin s.fl /\ u.state = "SYN_SENT"
  <2>1. v = InputSynSent(u, s)
    BY <1>3 DEF segment_input
  <2>. HIDE DEF v
  <2>. QED BY <1>1, <1>3, <2>1, InputSynSentState DEF Answered, Opening
<1>4. CASE "RST" \notin s.fl /\ u.state = "SYN_RCVD"
  <2>1. v = InputSynRcvd(u, s)
    BY <1>4 DEF segment_input
  <2>. HIDE DEF v
  <2>. QED BY <1>1, <1>4, <2>1, InputSynRcvdState DEF Answered, Opening
<1>5. CASE "RST" \notin s.fl /\ u.state \notin Opening
  <2>1. v = InputSynchronised(u, s) /\ Synced(u)
    BY <1>1, <1>5 DEF segment_input, Opening, Synced
  <2>. HIDE DEF v
  <2>. QED BY <1>1, <1>5, <2>1, InputSynchronisedState
       DEF Answered, Opening, Untimed
<1>. QED BY <1>2, <1>3, <1>4, <1>5 DEF Opening

(* What a poll makes of it. *)
Moved(u, v) ==
  /\ Good(v)
  /\ u.state = "CLOSED" => v.state = "CLOSED"
  /\ u.state = "LISTEN" => v.state = "LISTEN"
  /\ u.state = "SYN_SENT" => v.state \in {"SYN_SENT", "CLOSED"}
  /\ u.state = "SYN_RCVD" => v.state \in {"SYN_RCVD", "LISTEN"}
  /\ Synced(u) => v.state \notin Opening \cup {"LISTEN"}
  /\ Synced(u) /\ u.state # "TIME_WAIT" /\ u.retries = 0 => Synced(v)

LEMMA PollOpeningState ==
  ASSUME NEW u, Good(u), NEW link \in Link, u.state \in Opening
  PROVE  LET v == PollOpening(u, link).t
         IN \/ v.state = u.state
            \/ v.state = IF u.state = "SYN_SENT" THEN "CLOSED" ELSE "LISTEN"
<1>. DEFINE r == FirstResult(link)
            fl == IF u.state = "SYN_SENT" THEN {"SYN"} ELSE {"SYN", "ACK"}
            p == (r # "OK")
            k == u.retries + 1
            o == Doubled(u.rto)
            f == u.flags \cup {"TIMEOUT"}
            w1 == [u EXCEPT !.sent_age = 0, !.syn_pending = p]
            x == [u EXCEPT !.retries = k, !.rto = o]
            w2 == [x EXCEPT !.sent_age = 0, !.syn_pending = p]
            e1 == emit(w1, fl, u.iss, << >>, r).t
            e2 == emit(w2, fl, u.iss, << >>, r).t
            l == [u EXCEPT !.retries = k, !.flags = {}, !.state = "LISTEN"]
            g == [u EXCEPT !.retries = k, !.flags = f, !.state = "CLOSED"]
<1>1. u \in Socket /\ p \in BOOLEAN /\ k \in Nat /\ o \in Nat \ {0}
  BY Fields, Consts DEF Good, Doubled
<1>2. w1 \in Socket /\ SameCore(u, w1)
  <2>. HIDE DEF p
  <2>. QED BY <1>1, InSeqNo DEF Socket, SameCore
<1>3. x \in Socket /\ SameCore(u, x)
  <2>. HIDE DEF k, o
  <2>. QED BY <1>1 DEF Socket, SameCore
<1>4. w2 \in Socket /\ SameCore(x, w2)
  <2>. HIDE DEF p, x
  <2>. QED BY <1>1, <1>3, InSeqNo DEF Socket, SameCore
<1>5. e1.state = u.state
  <2>. HIDE DEF w1
  <2>1. Good(w1)
    BY <1>2, CoreGood
  <2>2. SameCore(w1, e1)
    BY <2>1, EmitGood
  <2>. HIDE DEF e1
  <2>. QED BY <1>2, <2>2 DEF SameCore
<1>6. e2.state = u.state
  <2>. HIDE DEF w2, x
  <2>1. Good(x)
    BY <1>3, CoreGood
  <2>2. Good(w2)
    BY <1>4, <2>1, CoreGood
  <2>3. SameCore(w2, e2)
    BY <2>2, EmitGood
  <2>. HIDE DEF e2
  <2>. QED BY <1>3, <1>4, <2>3 DEF SameCore
<1>7. l.state = "LISTEN" /\ g.state = "CLOSED"
  <2>. HIDE DEF k, f
  <2>. QED BY <1>1 DEF Socket
<1>8. \/ PollOpening(u, link).t \in {u, e1, e2}
      \/ u.state = "SYN_SENT" /\ PollOpening(u, link).t = g
      \/ u.state # "SYN_SENT" /\ PollOpening(u, link).t = l
  <2>1. x.iss = u.iss
    BY <1>1 DEF Socket
  <2>2. CASE u.syn_pending
    BY <2>2 DEF PollOpening
  <2>3. CASE ~u.syn_pending /\ Overdue(u) /\ u.retries + 1 <= MaxRetries
    BY <2>1, <2>3 DEF PollOpening
  <2>4. CASE ~u.syn_pending /\ Overdue(u) /\ ~(u.retries + 1 <= MaxRetries)
    BY <2>4 DEF PollOpening, Silent, GiveUp
  <2>5. CASE ~u.syn_pending /\ ~Overdue(u)
    BY <2>5 DEF PollOpening, Silent
  <2>. QED BY <2>2, <2>3, <2>4, <2>5
<1>. HIDE DEF e1, e2, l, g
<1>. QED BY <1>5, <1>6, <1>7, <1>8

LEMMA RetransmitState ==
  ASSUME NEW u, Good(u), NEW link \in Link
  PROVE  LET v == Retransmit(u, link).t
         IN v.state \in {u.state, "CLOSED"} /\ (u.retries = 0 => v.state = u.state)
<1>. DEFINE k == u.retries + 1
            f == u.flags \cup {"TIMEOUT"}
            o == Doubled(u.rto)
            c == u.peer_mss
            w == [u EXCEPT !.retries = k, !.rto = o, !.sent_age = 0, !.cwnd = c]
            g == [u EXCEPT !.retries = k, !.flags = f, !.state = "CLOSED"]
            r == FirstResult(link)
            d == SubSeq(u.sndq, 1, Lesser(u.inflight, u.peer_mss))
            e1 == emit(w, {"ACK"}, u.snd_una, d, r).t
            e2 == emit(w, {"ACK", "FIN"}, SeqSub(u.snd_nxt, 1), << >>, r).t
<1>1. u \in Socket /\ k \in Nat /\ o \in Nat \ {0} /\ c \in Nat
  BY Fields, Consts DEF Good, Doubled
<1>2. w \in Socket /\ SameCore(u, w)
  <2>. HIDE DEF k, o, c
  <2>. QED BY <1>1, InSeqNo DEF Socket, SameCore
<1>3. g.state = "CLOSED"
  <2>. HIDE DEF k, f
  <2>. QED BY <1>1 DEF Socket
<1>4. e1.state = u.state /\ e2.state = u.state
  <2>. HIDE DEF w, d, r
  <2>1. Good(w)
    BY <1>2, CoreGood
  <2>2. SameCore(w, e1) /\ SameCore(w, e2)
    BY <2>1, EmitGood
  <2>. HIDE DEF e1, e2
  <2>. QED BY <1>2, <2>2 DEF SameCore
<1>5. Retransmit(u, link).t \in {g, e1, e2}
  BY DEF Retransmit, Silent, GiveUp
<1>6. u.retries = 0 => Retransmit(u, link).t \in {e1, e2}
  BY Consts DEF Retransmit
<1>. HIDE DEF e1, e2, g
<1>. QED BY <1>3, <1>4, <1>5, <1>6

LEMMA PollSynchronisedState ==
  ASSUME NEW u, Good(u), Synced(u), u.state # "TIME_WAIT", NEW link \in Link
  PROVE  LET v == PollSynchronised(u, link).t
         IN /\ v.state \notin Opening \cup {"LISTEN"}
            /\ u.retries = 0 => Synced(v)
<1>. DEFINE v == PollSynchronised(u, link).t
<1>. SUFFICES (v.state = "CLOSED" \/ Synced(v)) /\ (u.retries = 0 => Synced(v))
  BY DEF Synced, Opening
<1>1. CASE Outstanding(u) /\ Overdue(u)
  <2>1. v = Retransmit(u, link).t
    BY <1>1 DEF PollSynchronised
  <2>. HIDE DEF v
  <2>. QED BY <2>1, RetransmitState DEF Synced
<1>2. CASE ~(Outstanding(u) /\ Overdue(u)) /\ DataReady(u)
  <2>1. v = SendQueued(u, link).t
    BY <1>2 DEF PollSynchronised
  <2>2. SendQueued(u, link).t.state = u.state
    BY <1>2, SendQueuedKeeps
  <2>. HIDE DEF v
  <2>. QED BY <2>1, <2>2 DEF Synced
<1>3. CASE /\ ~(Outstanding(u) /\ Overdue(u)) /\ ~DataReady(u)
           /\ FinReady(u)
  <2>1. v = SendFin(u, link).t
    BY <1>3 DEF PollSynchronised
  <2>2. \/ SameCore(u, SendFin(u, link).t)
        \/ Synced(SendFin(u, link).t)
    BY <1>3, SendFinKeeps
  <2>. HIDE DEF v
  <2>. QED BY <2>1, <2>2 DEF Synced, SameCore
<1>4. CASE /\ ~(Outstanding(u) /\ Overdue(u)) /\ ~DataReady(u)
           /\ ~FinReady(u) /\ u.ack_pending
  <2>. DEFINE r == FirstResult(link)
              y == emit(u, {"ACK"}, u.snd_nxt, << >>, r).t
              p == (r = "PENDING")
  <2>1. v = [y EXCEPT !.ack_pending = p]
    BY <1>4 DEF PollSynchronised, SendAck, emit
  <2>2. y \in Socket /\ y.state = u.state
    BY EmitGood DEF Good, SameCore
  <2>3. v.state = u.state
    <3>. HIDE DEF v, y, p
    <3>. QED BY <2>1, <2>2 DEF Socket
  <2>. HIDE DEF v
  <2>. QED BY <2>3 DEF Synced
<1>5. CASE /\ ~(Outstanding(u) /\ Overdue(u)) /\ ~DataReady(u)
           /\ ~FinReady(u) /\ ~u.ack_pending
  BY <1>5 DEF PollSynchronised, Silent
<1>. QED BY <1>1, <1>2, <1>3, <1>4, <1>5

(* TIME_WAIT ends only when its timer, d ticks older, has run; a segment   *)
(* to be acknowledged starts it again.                                     *)
Waited(u, d, v) ==
  LET a == Lesser(u.timewait_age + d, TimeWaitTicks)
  IN IF u.ack_pending THEN v.state = "TIME_WAIT" /\ v.timewait_age = 0
     ELSE /\ v.timewait_age = a
          /\ v.state = IF a >= TimeWaitTicks THEN "CLOSED" ELSE "TIME_WAIT"

LEMMA PollTimeWaitState ==
  ASSUME NEW u, Good(u), u.state = "TIME_WAIT", NEW link \in Link
  PROVE  LET v == PollTimeWait(u, link).t
         IN IF u.ack_pending THEN v.state = "TIME_WAIT" /\ v.timewait_age = 0
            ELSE /\ v.timewait_age = u.timewait_age
                 /\ v.state = IF u.timewait_age >= TimeWaitTicks
                              THEN "CLOSED" ELSE "TIME_WAIT"
<1>. DEFINE w == [u EXCEPT !.ack_pending = FALSE, !.timewait_age = 0]
            g == Edge(w)
            z == [w EXCEPT !.adv_edge = g]
            e == IF u.ack_pending
                 THEN emit(w, {"ACK"}, u.snd_nxt, << >>, FirstResult(link))
                 ELSE Silent(u)
            y == e.t
            x == IF y.timewait_age >= TimeWaitTicks THEN "CLOSED" ELSE y.state
            v == [y EXCEPT !.state = x]
<1>1. u \in Socket /\ ~(0 >= TimeWaitTicks)
  BY Consts DEF Good
<1>2. w \in Socket /\ w.state = u.state /\ w.timewait_age = 0
  <2>1. 0 \in 0 .. TimeWaitTicks
    BY Consts
  <2>. QED BY <1>1, <2>1 DEF Socket
<1>3. z.state = w.state /\ z.timewait_age = w.timewait_age
  <2>. HIDE DEF w, g
  <2>. QED BY <1>2 DEF Socket
<1>4. y = IF u.ack_pending THEN Announce(w, {"ACK"}, FirstResult(link)) ELSE u
  BY DEF emit, Silent
<1>5. Announce(w, {"ACK"}, FirstResult(link)) \in {w, z}
  BY DEF Announce
<1>6. PollTimeWait(u, link).t = v
  BY DEF PollTimeWait, emit, Silent
<1>7. y \in Socket
  <2>1. CASE u.ack_pending
    <3>1. SameCore(u, w)
      BY <1>1 DEF Socket, SameCore
    <3>2. Good(w)
      <4>. HIDE DEF w
      <4>. QED BY <1>2, <3>1, CoreGood
    <3>3. y = emit(w, {"ACK"}, u.snd_nxt, << >>, FirstResult(link)).t
      BY <2>1
    <3>. HIDE DEF w, y
    <3>. QED BY <3>2, <3>3, EmitGood DEF Good
  <2>. QED BY <1>1, <2>1 DEF Silent
<1>8. v.state = x /\ v.timewait_age = y.timewait_age
  <2>. HIDE DEF x, y
  <2>. QED BY <1>7 DEF Socket
<1>9. IF u.ack_pending THEN y.state = "TIME_WAIT" /\ y.timewait_age = 0
      ELSE y = u
  <2>. HIDE DEF w, z, y
  <2>. QED BY <1>2, <1>3, <1>4, <1>5
<1>. HIDE DEF v, y
<1>. QED BY <1>1, <1>6, <1>8, <1>9

LEMMA PollMoved ==
  ASSUME NEW u, Good(u), NEW d \in Nat, NEW link \in Link
  PROVE  LET v == poll_one(u, d, link).t
         IN Moved(u, v) /\ (u.state = "TIME_WAIT" => Waited(u, d, v))
<1>. DEFINE a == Lesser(u.sent_age + d, 2 * RtoMax)
            b == Lesser(u.timewait_age + d, TimeWaitTicks)
            w == [u EXCEPT !.sent_age = a, !.timewait_age = b]
            v == poll_one(u, d, link).t
<1>. SUFFICES Moved(u, v) /\ (u.state = "TIME_WAIT" => Waited(u, d, v))
  OBVIOUS
<1>1. Good(w) /\ w = Elapse(u, d)
  BY ElapseKeeps DEF Elapse
<1>2. /\ w.state = u.state /\ w.retries = u.retries
      /\ w.ack_pending = u.ack_pending /\ w.timewait_age = b
  <2>. HIDE DEF a, b
  <2>. QED BY DEF Good, Socket
<1>3. Good(v)
  BY PollOneKept DEF Kept
<1>4. Synced(w) <=> Synced(u)
  <2>. HIDE DEF w
  <2>. QED BY <1>2 DEF Synced
<1>5. /\ u.state \in {"CLOSED", "LISTEN"} => v = w
      /\ u.state \in Opening => v = PollOpening(w, link).t
      /\ u.state = "TIME_WAIT" => v = PollTimeWait(w, link).t
      /\ Synced(u) /\ u.state # "TIME_WAIT" => v = PollSynchronised(w, link).t
  <2>. HIDE DEF w
  <2>. QED BY <1>1, <1>2 DEF poll_one, Silent, Opening, Synced
<1>. HIDE DEF v, w
<1>6. CASE u.state \in {"CLOSED", "LISTEN"}
  BY <1>2, <1>3, <1>5, <1>6 DEF Moved, Synced
<1>7. CASE u.state \in Opening
  <2>1. \/ v.state = u.state
        \/ v.state = IF u.state = "SYN_SENT" THEN "CLOSED" ELSE "LISTEN"
    BY <1>1, <1>2, <1>5, <1>7, PollOpeningState
  <2>. QED BY <1>3, <1>7, <2>1 DEF Moved, Synced, Opening
<1>8. CASE u.state = "TIME_WAIT"
  <2>1. IF u.ack_pending THEN v.state = "TIME_WAIT" /\ v.timewait_age = 0
        ELSE /\ v.timewait_age = b
             /\ v.state = IF b >= TimeWaitTicks THEN "CLOSED" ELSE "TIME_WAIT"
    BY <1>1, <1>2, <1>5, <1>8, PollTimeWaitState
  <2>2. Waited(u, d, v)
    <3>. HIDE DEF b
    <3>. QED BY <2>1 DEF Waited, b
  <2>3. Moved(u, v)
    BY <1>3, <1>8, <2>1 DEF Moved, Opening
  <2>. QED BY <2>2, <2>3
<1>9. CASE Synced(u) /\ u.state # "TIME_WAIT"
  <2>1. /\ v.state \notin Opening \cup {"LISTEN"}
        /\ w.retries = 0 => Synced(v)
    BY <1>1, <1>2, <1>4, <1>5, <1>9, PollSynchronisedState
  <2>. QED BY <1>2, <1>3, <1>9, <2>1 DEF Moved, Synced, Opening
<1>. QED BY <1>6, <1>7, <1>8, <1>9 DEF Synced

----------------------------------------------------------------------------
(* Remainders, of negative numbers too. *)

LEMMA Remainder ==
  ASSUME NEW x \in Int, NEW n \in Nat \ {0}
  PROVE  /\ x % n \in 0 .. n - 1 /\ x \div n \in Int
         /\ x = n * (x \div n) + (x % n)
OBVIOUS

(* Two multiples of n are apart by n or are the same.                      *)
LEMMA Multiples ==
  ASSUME NEW n \in Nat \ {0}, NEW a \in Int, NEW b \in Int,
         n * a - n * b < n, n * b - n * a < n
  PROVE  a = b
<1>. DEFINE k == b - a
<1>1. k \in Int /\ n * b - n * a = n * k
  OBVIOUS
<1>. HIDE DEF k
<1>2. CASE k >= 1
  <2>1. n * k >= n
    BY <1>1, <1>2
  <2>. QED BY <1>1, <2>1
<1>3. CASE k <= -1
  <2>1. n * k <= -n
    BY <1>1, <1>3
  <2>. QED BY <1>1, <2>1
<1>4. k = 0
  BY <1>1, <1>2, <1>3
<1>. QED BY <1>4 DEF k

LEMMA SameRemainder ==
  ASSUME NEW x \in Nat, NEW y \in Nat, NEW n \in Nat \ {0},
         x < y, y - x < n
  PROVE  x % n # y % n
<1>. DEFINE a == x \div n
            b == y \div n
<1>. SUFFICES ASSUME x % n = y % n PROVE FALSE
  OBVIOUS
<1>1. /\ a \in Int /\ b \in Int /\ x % n \in Int
      /\ x = n * a + (x % n) /\ y = n * b + (y % n)
  BY Remainder
<1>. HIDE DEF a, b
<1>2. n * a - n * b < n /\ n * b - n * a < n
  BY <1>1
<1>3. a = b
  BY <1>1, <1>2, Multiples
<1>. QED BY <1>1, <1>3

(* A sum may be reduced before what is added, or after.                    *)
LEMMA SumRemainder ==
  ASSUME NEW x \in Int, NEW y \in Int, NEW n \in Nat \ {0}
  PROVE  ((x % n) + y) % n = (x + y) % n
<1>. DEFINE r == x % n
            p == r % n
            a == x \div n
            w == r + y
            b == w \div n
            z == x + y
            c == z \div n
            d == a + b
<1>1. /\ a \in Int /\ r \in Int /\ x = n * a + r
  BY Remainder
<1>. HIDE DEF a, r
<1>2. /\ b \in Int /\ w % n \in 0 .. n - 1 /\ w = n * b + (w % n)
  BY <1>1, Remainder
<1>3. /\ c \in Int /\ z % n \in 0 .. n - 1 /\ z = n * c + (z % n)
  BY Remainder
<1>4. z = n * a + w /\ z \in Int /\ w \in Int
  BY <1>1
<1>. HIDE DEF b, c, w, z
<1>5. d \in Int /\ n * d = n * a + n * b
  BY <1>1, <1>2
<1>. HIDE DEF d
<1>6. n * d - n * c = (z % n) - (w % n)
  <2>1. /\ n * a \in Int /\ n * b \in Int /\ n * c \in Int /\ n * d \in Int
        /\ z % n \in Int /\ w % n \in Int
    BY <1>1, <1>2, <1>3, <1>5
  <2>. QED BY <1>2, <1>3, <1>4, <1>5, <2>1
<1>7. n * d - n * c < n /\ n * c - n * d < n
  BY <1>2, <1>3, <1>5, <1>6
<1>8. d = c
  BY <1>3, <1>5, <1>7, Multiples
<1>9. z % n = w % n
  BY <1>2, <1>3, <1>6, <1>8
<1>. QED BY <1>9 DEF z, w, r

LEMMA SumReduced ==
  ASSUME NEW n \in Nat \ {0}
  PROVE  \A x, y, z :
           x \in Int /\ y \in Int /\ z = x + y => ((x % n) + y) % n = z % n
<1>. SUFFICES ASSUME NEW x \in Int, NEW y \in Int, NEW z, z = x + y
              PROVE  ((x % n) + y) % n = z % n
  BY Zenon
<1>1. ((x % n) + y) % n = (x + y) % n
  BY SumRemainder
<1>. QED BY <1>1, Zenon

LEMMA RemainderAtMost ==
  ASSUME NEW x \in Nat, NEW n \in Nat \ {0}
  PROVE  x % n <= x
<1>. DEFINE a == x \div n
<1>1. a \in Int /\ x % n \in 0 .. n - 1 /\ x = n * a + (x % n)
  BY Remainder
<1>. HIDE DEF a
<1>2. CASE a >= 0
  <2>1. n * a >= 0
    BY <1>1, <1>2
  <2>. QED BY <1>1, <2>1
<1>3. CASE a <= -1
  <2>1. n * a <= -n
    BY <1>1, <1>3
  <2>. QED BY <1>1, <2>1
<1>. QED BY <1>1, <1>2, <1>3

----------------------------------------------------------------------------
(* The clock. *)

Count == 0 .. FrameSpace - 1
ClockT == [ticks : Tick, last_frame : Count, now : Tick]

(* The frames that the next call of tick() will find.                      *)
Behind == (frame - clock.last_frame) % FrameSpace

(* What it will find is what has passed since the last but for the turns   *)
(* of the counter, and the clock is, in its 16 bits, what had passed then  *)
(* but for the turns before.                                               *)
ClockInv ==
  /\ frame \in Count /\ clock \in ClockT
  /\ passed \in Nat /\ idle \in Nat /\ missed \in Nat
  /\ missed + idle <= passed
  /\ Behind = idle % FrameSpace
  /\ clock.ticks = (passed - idle - missed) % TickSpace

(* The counter between two readings.                                       *)
LEMMA Around ==
  ASSUME NEW a \in Count, NEW b \in Count
  PROVE  LET d == (a - b) % FrameSpace
             n == (a + 1) % FrameSpace
         IN /\ d \in Count /\ n \in Count /\ (a - a) % FrameSpace = 0
            /\ (n - b) % FrameSpace = (d + 1) % FrameSpace
<1>1. FrameSpace \in Nat \ {0} /\ a \in Int /\ b \in Int
  BY SetAssumption DEF Count
<1>. DEFINE s == a - b
            m == a + 1
            c == 1 - b
            t == m - b
<1>2. s \in Int /\ m \in Int /\ c \in Int /\ t = s + 1 /\ t = m + (0 - b)
  BY <1>1
<1>3. ((s % FrameSpace) + 1) % FrameSpace = t % FrameSpace
  <2>1. s \in Int /\ 1 \in Int /\ t = s + 1 /\ FrameSpace \in Nat \ {0}
    BY <1>1, <1>2
  <2>. HIDE DEF s, t
  <2>. QED BY <2>1, SumReduced, Zenon
<1>4. ((m % FrameSpace) + (0 - b)) % FrameSpace = t % FrameSpace
  <2>. DEFINE v == 0 - b
  <2>1. m \in Int /\ v \in Int /\ t = m + v /\ FrameSpace \in Nat \ {0}
    BY <1>1, <1>2
  <2>. HIDE DEF m, v, t
  <2>2. ((m % FrameSpace) + v) % FrameSpace = t % FrameSpace
    BY <2>1, SumReduced, Zenon
  <2>. QED BY <2>2 DEF v
<1>5. (m % FrameSpace) + (0 - b) = (m % FrameSpace) - b
  <2>1. m % FrameSpace \in Int
    <3>. HIDE DEF m
    <3>. QED BY <1>1, <1>2, Remainder
  <2>. HIDE DEF m
  <2>. QED BY <1>1, <2>1
<1>6. s % FrameSpace \in Count /\ m % FrameSpace \in Count
  <2>. HIDE DEF s, m
  <2>. QED BY <1>1, <1>2, Remainder DEF Count
<1>7. (a - a) % FrameSpace = 0
  BY <1>1 DEF Count
<1>. QED BY <1>3, <1>4, <1>5, <1>6, <1>7

LEMMA TickNat ==
  /\ TickSpace \in Nat \ {0} /\ Tick \subseteq Nat
  /\ \A x \in Int : x % TickSpace \in Tick
BY SetAssumption, Remainder DEF Tick

(* A time b ticks later, seen from another: the time between them grows by *)
(* b at most.                                                              *)
LEMMA Later ==
  ASSUME NEW t \in Tick, NEW w \in Tick, NEW b \in Nat
  PROVE  LET n == (t + b) % TickSpace
         IN /\ n \in Tick /\ (n - w) % TickSpace \in Tick
            /\ (n - w) % TickSpace <= ((t - w) % TickSpace) + b
<1>. DEFINE n == (t + b) % TickSpace
            s == t - w
            k == t + b
            y == (s % TickSpace) + b
            v == 0 - w
            z == t + b - w
<1>1. /\ TickSpace \in Nat \ {0} /\ t \in Nat /\ w \in Nat
      /\ s \in Int /\ k \in Int /\ v \in Int /\ z = s + b /\ z = k + v
  BY TickNat
<1>2. n \in Tick /\ s % TickSpace \in Tick
  <2>. HIDE DEF s
  <2>. QED BY <1>1, TickNat
<1>3. y \in Nat /\ y % TickSpace <= y
  <2>1. s % TickSpace \in Nat
    BY <1>2, TickNat
  <2>2. y \in Nat
    <3>. HIDE DEF s
    <3>. QED BY <2>1
  <2>. HIDE DEF y
  <2>. QED BY <1>1, <2>2, RemainderAtMost
<1>4. y % TickSpace = z % TickSpace
  <2>1. b \in Int
    OBVIOUS
  <2>. HIDE DEF s, z
  <2>. QED BY <1>1, <2>1, SumReduced, Zenon
<1>5. ((k % TickSpace) + v) % TickSpace = z % TickSpace
  <2>. HIDE DEF k, v, z
  <2>. QED BY <1>1, SumReduced, Zenon
<1>6. n - w = n + v /\ n - w \in Int
  <2>1. n \in Int
    BY <1>2, TickNat
  <2>. HIDE DEF n
  <2>. QED BY <1>1, <2>1
<1>7. (n - w) % TickSpace = y % TickSpace
  BY <1>4, <1>5, <1>6
<1>8. (n - w) % TickSpace \in Tick
  BY <1>6, TickNat
<1>. QED BY <1>2, <1>3, <1>7, <1>8

(* A call of tick(), whatever becomes of now.                              *)
LEMMA TickKeeps ==
  ASSUME ClockInv, TickCalled, UNCHANGED <<frame, passed>>,
         clock' \in ClockT, clock'.ticks = ticked(clock).ticks,
         clock'.last_frame = frame
  PROVE  ClockInv'
<1>. DEFINE b == idle % FrameSpace
            x == passed - idle - missed
<1>1. /\ FrameSpace \in Nat \ {0} /\ TickSpace \in Nat \ {0}
      /\ passed \in Nat /\ idle \in Nat /\ missed \in Nat
      /\ missed + idle <= passed /\ Behind = b
      /\ clock.ticks = x % TickSpace
  BY SetAssumption DEF ClockInv
<1>2. b \in Nat /\ b <= idle
  <2>1. b \in 0 .. FrameSpace - 1
    BY <1>1, Remainder
  <2>2. b <= idle
    BY <1>1, RemainderAtMost
  <2>. HIDE DEF b
  <2>. QED BY <1>1, <2>1, <2>2
<1>3. clock'.ticks = (clock.ticks + b) % TickSpace
  <2>1. ticked(clock).ticks = (clock.ticks + Behind) % TickSpace
    BY DEF ticked, Behind, ClockInv, ClockT
  <2>. QED BY <1>1, <2>1
<1>4. idle' = 0 /\ missed' = missed + (idle - b) /\ frame' = frame /\ passed' = passed
  BY DEF TickCalled, Turns
<1>. HIDE DEF b
<1>5. x \in Int /\ x + b = passed' - idle' - missed'
  BY <1>1, <1>2, <1>4
<1>6. clock'.ticks = (passed' - idle' - missed') % TickSpace
  <2>1. b \in Int
    BY <1>2
  <2>. DEFINE z == passed' - idle' - missed'
  <2>2. z = x + b
    BY <1>5
  <2>. HIDE DEF x, z
  <2>3. ((x % TickSpace) + b) % TickSpace = z % TickSpace
    BY <1>1, <1>5, <2>1, <2>2, SumReduced, Zenon
  <2>4. clock'.ticks = z % TickSpace
    BY <1>1, <1>3, <2>3
  <2>. QED BY <2>4 DEF z
<1>7. Behind' = idle' % FrameSpace
  <2>1. Behind' = 0
    BY <1>4, Around DEF Behind, ClockInv
  <2>2. 0 % FrameSpace = 0
    BY <1>1
  <2>. QED BY <1>4, <2>1, <2>2
<1>8. /\ frame' \in Count /\ passed' \in Nat /\ idle' \in Nat /\ missed' \in Nat
      /\ missed' + idle' <= passed'
  BY <1>1, <1>2, <1>4 DEF ClockInv
<1> QED BY <1>6, <1>7, <1>8 DEF ClockInv

LEMMA ClockTicked ==
  ASSUME ClockInv
  PROVE  /\ ticked(clock) \in ClockT /\ ticked(clock).last_frame = frame
         /\ ticked(clock).now = clock.now /\ ticked(clock).ticks \in Tick
         /\ ticked(clock).ticks = (clock.ticks + Behind) % TickSpace
<1>1. clock \in ClockT /\ frame \in Count /\ Behind \in Nat
      /\ clock.ticks \in Tick
  BY Around DEF ClockInv, ClockT, Behind, Count
<1>2. (clock.ticks + Behind) % TickSpace \in Tick
  BY <1>1, Later
<1> QED BY <1>1, <1>2 DEF ticked, ClockT, Behind

LEMMA PollClocked ==
  ASSUME ClockInv, NEW s, NEW r, PollWith(s, r)
  PROVE  ClockInv'
<1>1. /\ clock' = [ticked(clock) EXCEPT !.now = ticked(clock).ticks]
      /\ TickCalled /\ UNCHANGED <<frame, passed>>
  BY DEF PollWith
<1>2. /\ clock' \in ClockT /\ clock'.ticks = ticked(clock).ticks
      /\ clock'.last_frame = frame
  BY <1>1, ClockTicked DEF ClockT
<1> QED BY <1>1, <1>2, TickKeeps

LEMMA FrameClocked ==
  ASSUME ClockInv, Frame
  PROVE  ClockInv' /\ clock' = clock /\ Behind' <= Behind + 1
<1>1. /\ passed' = passed + 1 /\ frame' = (frame + 1) % FrameSpace
      /\ idle' = idle + 1 /\ UNCHANGED <<clock, missed>>
  BY DEF Frame
<1>2. /\ FrameSpace \in Nat \ {0} /\ passed \in Nat /\ idle \in Nat
      /\ missed \in Nat /\ missed + idle <= passed
  BY SetAssumption DEF ClockInv
<1>3. Behind \in Count /\ frame' \in Count /\ Behind' = (Behind + 1) % FrameSpace
  BY <1>1, Around DEF Behind, ClockInv, ClockT
<1>4. Behind + 1 \in Nat /\ Behind' <= Behind + 1
  <2>1. Behind + 1 \in Nat
    BY <1>3, <1>2 DEF Count
  <2>2. (Behind + 1) % FrameSpace <= Behind + 1
    BY <1>2, <2>1, RemainderAtMost
  <2>. QED BY <1>3, <2>1, <2>2
<1>5. Behind' = idle' % FrameSpace
  <2>1. Behind = idle % FrameSpace
    BY DEF ClockInv
  <2>2. ((idle % FrameSpace) + 1) % FrameSpace = (idle + 1) % FrameSpace
    <3>1. idle \in Int /\ 1 \in Int
      BY <1>2
    <3>. QED BY <1>2, <3>1, SumRemainder, Zenon
  <2>. QED BY <1>1, <1>3, <2>1, <2>2
<1>6. passed' - idle' - missed' = passed - idle - missed
  BY <1>1, <1>2
<1>7. clock'.ticks = (passed' - idle' - missed') % TickSpace
  BY <1>1, <1>6 DEF ClockInv
<1>8. passed' \in Nat /\ idle' \in Nat /\ missed' \in Nat
      /\ missed' + idle' <= passed' /\ clock' \in ClockT
  BY <1>1, <1>2 DEF ClockInv
<1> QED BY <1>1, <1>3, <1>4, <1>5, <1>7, <1>8 DEF ClockInv

LEMMA ClockStep == ClockInv /\ [Next]_vars => ClockInv'
<1> SUFFICES ASSUME ClockInv, [Next]_vars PROVE ClockInv'
  OBVIOUS
<1>1. ASSUME NEW s, NEW r, PollWith(s, r) PROVE ClockInv'
  BY <1>1, PollClocked
<1>2. CASE PollQuiet
  BY <1>1, <1>2 DEF PollQuiet
<1>3. CASE PollSegment
  BY <1>1, <1>3 DEF PollSegment
<1>4. CASE Frame
  BY <1>4, FrameClocked
<1>5. ASSUME NEW i \in Index, Connect(i) PROVE ClockInv'
  <2>1. clock' = ticked(clock) /\ TickCalled /\ UNCHANGED <<frame, passed>>
    BY <1>5 DEF Connect
  <2> QED BY <2>1, ClockTicked, TickKeeps
<1>6. CASE UNCHANGED <<frame, clock, passed, idle, missed>>
  BY <1>6 DEF ClockInv, Behind
<1>7. ASSUME NEW i \in Index, Listen(i) \/ Close(i) \/ Abort(i)
      PROVE  UNCHANGED <<frame, clock, passed, idle, missed>>
  BY <1>7 DEF Listen, Close, Abort
<1>8. CASE UNCHANGED vars
  BY <1>6, <1>8 DEF vars
<1> QED BY <1>2, <1>3, <1>4, <1>5, <1>6, <1>7, <1>8 DEF Next

LEMMA ClockStarts == Init => ClockInv
<1> SUFFICES ASSUME Init PROVE ClockInv
  OBVIOUS
<1>1. /\ FrameSpace \in Nat \ {0} /\ 0 \in Count /\ 0 % FrameSpace = 0
      /\ StartTick \in Tick /\ StartTick \in Nat
  BY SetAssumption DEF Count, Tick
<1>2. (0 - 0) % FrameSpace = 0
  BY <1>1, Around
<1>3. /\ frame = 0 /\ passed = StartTick /\ idle = 0 /\ missed = 0
      /\ clock = [ticks |-> StartTick, last_frame |-> 0, now |-> StartTick]
  BY DEF Init
<1>4. clock \in ClockT /\ clock.ticks = StartTick /\ Behind = 0
  BY <1>1, <1>2, <1>3 DEF ClockT, Behind
<1>5. StartTick % TickSpace = StartTick /\ StartTick - 0 - 0 = StartTick
  BY <1>1, SetAssumption DEF Tick
<1>6. /\ frame \in Count /\ passed \in Nat /\ idle \in Nat /\ missed \in Nat
      /\ missed + idle <= passed
  BY <1>1, <1>3
<1>7. clock.ticks = (passed - idle - missed) % TickSpace
  BY <1>3, <1>4, <1>5
<1> QED BY <1>1, <1>3, <1>4, <1>6, <1>7 DEF ClockInv

----------------------------------------------------------------------------
(* The inductive invariant. *)

InUse(i) == sock[i].state # "CLOSED"

Place == [port : Port \cup {0}, end : Ends \cup {None}]
Origin == [how : {None, "connect", "listen"}, tick : Tick,
           nth : 0 .. MaxOpens]

(* Every socket keeps the invariant of one socket, and the bounds hold.    *)
Typed ==
  /\ sock \in [Index -> Socket] /\ \A i \in Index : Good(sock[i])
  /\ addr \in [Index -> Place]
  /\ opened \in [Index -> Origin]
  /\ fin_at \in [Index -> Nat \cup {None}]
  /\ lead \in [Index -> Tick]
  /\ passed <= MaxFrames
  /\ opens \in 0 .. MaxOpens /\ segs \in 0 .. MaxSegs

(* What the address of a socket says, and how it came by it: a listener    *)
(* and who called it have a port of the application's, a connect one of    *)
(* its tick.                                                               *)
Placed(i) ==
  /\ sock[i].state \in {"LISTEN", "SYN_RCVD"} =>
       opened[i].how = "listen" /\ addr[i].port \in ListenPorts
  /\ InUse(i) => opened[i].how \in {"connect", "listen"} /\ opened[i].nth < opens
  /\ Live(sock[i]) => addr[i].port \in Port /\ addr[i].end \in Ends
  /\ InUse(i) /\ opened[i].how = "connect" =>
       addr[i].port = local_port(opened[i].tick, i)

(* No two were opened at once, and of two that own the same segments the   *)
(* newer connected.                                                        *)
Apart(i, j) ==
  /\ opened[i].nth # opened[j].nth
  /\ Live(sock[i]) /\ Live(sock[j]) /\ addr[i] = addr[j]
       /\ opened[i].nth > opened[j].nth
     => opened[i].how = "connect"

(* The most that the next poll will find to have passed since the last.    *)
Ahead == (clock.ticks - clock.now) % TickSpace
Due == Ahead + Behind

(* The timer of TIME_WAIT, and what the next poll will add to it, are no   *)
(* older than the last FIN acknowledged.                                   *)
Waits(i) ==
  fin_at[i] # None =>
    /\ fin_at[i] \in Nat /\ sock[i].state \in {"TIME_WAIT", "CLOSED"}
    /\ sock[i].state = "TIME_WAIT" =>
         sock[i].timewait_age + Due <= passed - fin_at[i]
    /\ sock[i].state = "CLOSED" => passed - fin_at[i] >= TimeWaitTicks

SetInv ==
  /\ ClockInv /\ Typed
  /\ \A i \in Index : Placed(i) /\ Waits(i)
  /\ \A i, j \in Index : i # j /\ InUse(i) /\ InUse(j) => Apart(i, j)

LEMMA DueNat ==
  ASSUME NEW c \in ClockT, NEW f \in Count
  PROVE  /\ (c.ticks - c.now) % TickSpace \in Nat
         /\ (f - c.last_frame) % FrameSpace \in Nat
         /\ c.ticks \in Tick /\ c.now \in Tick
<1>1. /\ c.ticks \in Tick /\ c.now \in Tick
      /\ (f - c.last_frame) % FrameSpace \in Count
  BY Around DEF ClockT
<1>2. c.ticks \in Nat /\ c.now \in Nat
  BY <1>1, TickNat
<1>3. c.ticks - c.now \in Int
  BY <1>2
<1>. QED BY <1>1, <1>3, TickNat DEF Count

LEMMA DueNow ==
  ASSUME ClockInv
  PROVE  /\ Ahead \in Nat /\ Behind \in Nat /\ Due \in Nat
         /\ clock.ticks \in Tick /\ clock.now \in Tick
BY DueNat DEF ClockInv, Ahead, Behind, Due

LEMMA DueNext ==
  ASSUME ClockInv'
  PROVE  Ahead' \in Nat /\ Behind' \in Nat /\ Due' \in Nat
BY DueNat DEF ClockInv, Ahead, Behind, Due

(* tick() finds no more than was due. *)
LEMMA DueTicked ==
  ASSUME ClockInv
  PROVE  LET d == (ticked(clock).ticks - clock.now) % TickSpace
         IN d \in Tick /\ d \in Nat /\ d <= Due
<1>1. /\ clock.ticks \in Tick /\ clock.now \in Tick /\ Behind \in Nat
      /\ ticked(clock).ticks = (clock.ticks + Behind) % TickSpace
  BY ClockTicked, DueNow
<1>. QED BY <1>1, Later, TickNat DEF Due, Ahead

LEMMA DueAfterTick ==
  ASSUME ClockInv, clock' = ticked(clock), frame' = frame
  PROVE  Due' <= Due
<1>. DEFINE c == ticked(clock)
<1>1. c.last_frame = frame /\ c.now = clock.now /\ frame \in Count
      /\ (c.ticks - clock.now) % TickSpace \in Nat
      /\ (c.ticks - clock.now) % TickSpace <= Due
  BY ClockTicked, DueTicked DEF ClockInv
<1>. HIDE DEF c
<1>2. Behind' = 0
  BY <1>1, Around DEF Behind, c
<1>3. Ahead' = (c.ticks - clock.now) % TickSpace
  BY <1>1 DEF Ahead, c
<1>. QED BY <1>1, <1>2, <1>3 DEF Due

(* What a timer waits for is not reached sooner if no more is due.         *)
LEMMA StillWaits ==
  ASSUME NEW a \in Nat, NEW f \in Nat, NEW d \in Nat, NEW e \in Nat,
         NEW p \in Nat, NEW q \in Nat, p <= q, e - q <= d - p
  PROVE  /\ a + d <= p - f => a + e <= q - f
         /\ \A n \in Nat : p - f >= n => q - f >= n
OBVIOUS

(* Nothing is opened, closed or polled: the sockets are as they were.      *)
LEMMA SetSame ==
  ASSUME SetInv, ClockInv', passed' <= MaxFrames, passed <= passed',
         Due' - passed' <= Due - passed, segs' = segs,
         UNCHANGED <<sock, addr, lead, opened, fin_at, opens>>
  PROVE  SetInv'
<1>1. /\ passed \in Nat /\ passed' \in Nat /\ Due \in Nat /\ Due' \in Nat
      /\ TimeWaitTicks \in Nat
  BY DueNow, DueNext, Consts DEF SetInv, ClockInv
<1>2. Typed'
  BY <1>1 DEF SetInv, Typed
<1>3. ASSUME NEW i \in Index PROVE Placed(i)' /\ Waits(i)'
  <2>1. Placed(i) /\ Waits(i)
    BY DEF SetInv
  <2>2. Placed(i)'
    BY <2>1 DEF Placed, InUse, Live
  <2>3. sock[i].timewait_age \in Nat
    BY Fields DEF SetInv, Typed
  <2>4. ASSUME fin_at[i] # None
        PROVE  /\ fin_at[i] \in Nat /\ sock[i].state \in {"TIME_WAIT", "CLOSED"}
               /\ sock[i].state = "TIME_WAIT" =>
                    sock[i].timewait_age + Due' <= passed' - fin_at[i]
               /\ sock[i].state = "CLOSED" => passed' - fin_at[i] >= TimeWaitTicks
    <3>1. /\ fin_at[i] \in Nat /\ sock[i].state \in {"TIME_WAIT", "CLOSED"}
          /\ sock[i].state = "TIME_WAIT" =>
               sock[i].timewait_age + Due <= passed - fin_at[i]
          /\ sock[i].state = "CLOSED" => passed - fin_at[i] >= TimeWaitTicks
      BY <2>1, <2>4 DEF Waits
    <3>. QED BY <1>1, <2>3, <3>1, StillWaits
  <2>5. Waits(i)'
    BY <2>4 DEF Waits
  <2>. QED BY <2>2, <2>5
<1>4. ASSUME NEW i \in Index, NEW j \in Index, i # j, InUse(i)', InUse(j)'
      PROVE  Apart(i, j)'
  BY <1>4 DEF SetInv, Apart, InUse
<1>. QED BY <1>2, <1>3, <1>4 DEF SetInv

LEMMA SetStarts == Init => SetInv
<1>. SUFFICES ASSUME Init PROVE SetInv
  OBVIOUS
<1>1. ClockInv
  BY ClockStarts
<1>2. \A i \in Index : sock[i] = FreshSocket /\ fin_at[i] = None
  BY DEF Init
<1>3. Good(FreshSocket) /\ FreshSocket.state = "CLOSED"
  BY FreshGood DEF FreshSocket
<1>4. \A i \in Index : Good(sock[i]) /\ ~InUse(i)
  BY <1>2, <1>3 DEF InUse
<1>5. sock \in [Index -> Socket]
  BY <1>3, Zenon DEF Init, Good
<1>6. /\ addr \in [Index -> Place] /\ opened \in [Index -> Origin]
      /\ fin_at \in [Index -> Nat \cup {None}] /\ lead \in [Index -> Tick]
  <2>1. 0 \in Tick
    BY SetAssumption DEF Tick
  <2>. QED BY <2>1, SetAssumption DEF Init, Place, Origin
<1>7. /\ passed <= MaxFrames
      /\ opens \in 0 .. MaxOpens /\ segs \in 0 .. MaxSegs
  BY SetAssumption DEF Init
<1>8. Typed
  BY <1>4, <1>5, <1>6, <1>7 DEF Typed
<1>9. ASSUME NEW i \in Index PROVE Placed(i) /\ Waits(i)
  <2>1. sock[i].state = "CLOSED"
    BY <1>4 DEF InUse
  <2>. QED BY <1>2, <1>4, <2>1 DEF Placed, Waits, Live
<1>. QED BY <1>1, <1>4, <1>8, <1>9 DEF SetInv

----------------------------------------------------------------------------
(* Ports, sequence numbers, and the first of a set of sockets. *)

LEMMA IndexNat ==
  /\ Index \subseteq Nat
  /\ \A i \in Index : i <= NSockets - 1
BY SetAssumption DEF Index

(* initial_seq gives a sequence number, and local_port an ephemeral port.  *)
LEMMA Numbered ==
  ASSUME NEW now \in Nat, NEW i \in Index
  PROVE  initial_seq(now, i) \in SeqNo /\ local_port(now, i) \in Port
<1>. DEFINE x == NSockets * now + i
            y == now * 3 + i * PortStride
<1>1. x \in Nat /\ y \in Nat
  BY IndexNat, SetAssumption
<1>2. SeqSpace \in Nat \ {0}
  BY Consts
<1>3. x % SeqSpace \in 0 .. SeqSpace - 1 /\ y % PortRange \in 0 .. PortRange - 1
  <2>. HIDE DEF x, y
  <2>. QED BY <1>1, <1>2, SetAssumption, Remainder
<1>4. initial_seq(now, i) = x % SeqSpace
      /\ local_port(now, i) = PortBase + (y % PortRange)
  BY DEF initial_seq, local_port
<1>. HIDE DEF x, y
<1>. QED BY <1>3, <1>4, SetAssumption DEF SeqNo, Port

(* Two sockets that connect in one tick take different ports.              *)
LEMMA PortsOfOneTick ==
  ASSUME NEW now \in Nat, NEW i \in Index, NEW j \in Index, i < j
  PROVE  local_port(now, i) # local_port(now, j)
<1>. DEFINE x == now * 3 + i * PortStride
            y == now * 3 + j * PortStride
            n == j - i
<1>1. /\ i \in Nat /\ j \in Nat /\ n \in Nat \ {0} /\ n <= NSockets - 1
      /\ PortStride \in Nat \ {0} /\ NSockets - 1 \in Nat
  BY IndexNat, SetAssumption
<1>2. x \in Nat /\ y \in Nat /\ y - x = n * PortStride
  BY <1>1
<1>3. n * PortStride >= 1 /\ n * PortStride <= (NSockets - 1) * PortStride
  <2>. HIDE DEF n
  <2>. QED BY <1>1
<1>4. x < y /\ y - x < PortRange
  <2>1. n * PortStride < PortRange
    <3>. DEFINE p == n * PortStride
                m == (NSockets - 1) * PortStride
    <3>1. p \in Int /\ m \in Int /\ p <= m /\ m < PortRange /\ PortRange \in Int
      BY <1>1, <1>3, SetAssumption
    <3>. HIDE DEF p, m
    <3>2. p < PortRange
      BY <3>1
    <3>. QED BY <3>2 DEF p
  <2>. HIDE DEF x, y
  <2>. QED BY <1>2, <1>3, <2>1
<1>5. x % PortRange \in Nat /\ y % PortRange \in Nat
      /\ x % PortRange # y % PortRange
  <2>. HIDE DEF x, y
  <2>1. PortRange \in Nat \ {0} /\ x \in Nat /\ y \in Nat
    BY <1>2, SetAssumption
  <2>2. x % PortRange \in 0 .. PortRange - 1 /\ y % PortRange \in 0 .. PortRange - 1
    BY <2>1, Remainder
  <2>3. x % PortRange # y % PortRange
    BY <1>4, <2>1, SameRemainder
  <2>. QED BY <2>1, <2>2, <2>3
<1>6. /\ local_port(now, i) = PortBase + (x % PortRange)
      /\ local_port(now, j) = PortBase + (y % PortRange)
  BY DEF local_port
<1>. HIDE DEF x, y
<1>. QED BY <1>5, <1>6, SetAssumption

LEMMA LeastNat ==
  ASSUME NEW T, T \subseteq Nat, T # {}
  PROVE  \E x \in T : \A y \in T : x <= y
<1>. DEFINE R == OpToRel(<, Nat)
<1>1. IsWellFoundedOn(R, Nat)
  BY NatLessThanWellFounded, Zenon
<1>2. \A x, y \in Nat : x <= y \/ <<y, x>> \in R
  BY DEF OpToRel
<1>. HIDE DEF R
<1>3. PICK x \in T : \A y \in T : ~ (<<y, x>> \in R)
  BY <1>1, WFMin
<1>. QED BY <1>2, <1>3

LEMMA FirstIn ==
  ASSUME NEW S, S \subseteq Index, S # {}
  PROVE  First(S) \in S
<1>1. \E i \in S : \A j \in S : i <= j
  BY IndexNat, LeastNat
<1>. QED BY <1>1 DEF First

----------------------------------------------------------------------------
(* mn_api_poll. *)

Arrival(s) == s # None => s.seg \in Segment /\ s.end \in Ends

(* The socket that passive_open gives the segment to. *)
Chosen(s, i) == Accepts(s) # {} /\ i = First(Accepts(s))

(* What the dispatcher makes of socket i. *)
Got(s, i, u) ==
  IF Chosen(s, i)
  THEN /\ sock[i].state = "LISTEN" /\ addr[i].port = s.port
       /\ Owners(s) = {} /\ s # None
       /\ Good(u) /\ u.state = "SYN_RCVD"
  ELSE u = sock[i] \/ (Live(sock[i]) /\ Answered(sock[i], u))

LEMMA Dispatch ==
  ASSUME SetInv, NEW s, Arrival(s), NEW r \in SendResult, NEW i \in Index
  PROVE  Got(s, i, Dispatched(s, r)[i])
<1>. DEFINE g == Dispatched(s, r)
<1>. SUFFICES Got(s, i, g[i])
  OBVIOUS
<1>1. /\ sock \in [Index -> Socket] /\ Good(sock[i])
      /\ clock.now \in Nat
  BY TickNat DEF SetInv, Typed, ClockInv, ClockT
<1>2. CASE s = None
  BY <1>2 DEF Dispatched, Accepts, Chosen, Got
<1>3. CASE s # None /\ Owner(s) # {}
  <2>. DEFINE o == First(Owner(s))
  <2>1. ~Chosen(s, i)
    BY <1>3 DEF Chosen, Accepts
  <2>2. o \in Index /\ Live(sock[o])
    <3>1. Owner(s) \subseteq Index
      BY DEF Owner, Owners
    <3>2. o \in Owner(s)
      BY <1>3, <3>1, FirstIn
    <3>. QED BY <3>2 DEF Owner, Owners
  <2>3. g = [sock EXCEPT ![o] = segment_input(sock[o], s.seg)]
    BY <1>3 DEF Dispatched
  <2>4. CASE i = o
    <3>1. g[i] = segment_input(sock[i], s.seg)
      BY <1>1, <2>3, <2>4
    <3>2. s.seg \in Segment
      BY <1>3 DEF Arrival
    <3>3. Answered(sock[i], segment_input(sock[i], s.seg))
      BY <1>1, <2>2, <2>4, <3>2, SegmentAnswered
    <3>. HIDE DEF g
    <3>. QED BY <2>1, <2>2, <2>4, <3>1, <3>3 DEF Got
  <2>5. CASE i # o
    <3>1. g[i] = sock[i]
      BY <1>1, <2>3, <2>5
    <3>. HIDE DEF g
    <3>. QED BY <2>1, <3>1 DEF Got
  <2>. QED BY <2>4, <2>5
<1>4. CASE s # None /\ Owner(s) = {} /\ Listeners(s) # {}
  <2>. DEFINE o == First(Listeners(s))
              p == passive_open(sock[o], s.seg, initial_seq(clock.now, o), r).t
  <2>1. /\ o \in Index /\ sock[o].state = "LISTEN" /\ addr[o].port = s.port
    <3>1. Listeners(s) \subseteq Index
      BY DEF Listeners
    <3>2. o \in Listeners(s)
      BY <1>4, <3>1, FirstIn
    <3>. QED BY <3>2 DEF Listeners
  <2>2. Chosen(s, i) <=> i = o
    BY <1>4 DEF Chosen, Accepts
  <2>3. g = [sock EXCEPT ![o] = p]
    BY <1>4 DEF Dispatched
  <2>4. CASE i = o
    <3>1. g[i] = p
      BY <1>1, <2>3, <2>4
    <3>2. Good(p) /\ p.state = "SYN_RCVD"
      <4>1. s.seg \in Segment /\ initial_seq(clock.now, o) \in SeqNo
        BY <1>1, <1>4, <2>1, Numbered DEF Arrival
      <4>. QED BY <1>1, <2>4, <4>1, PassiveOpenGood
    <3>. HIDE DEF g, p
    <3>. QED BY <1>4, <2>1, <2>2, <2>4, <3>1, <3>2 DEF Got, Owner
  <2>5. CASE i # o
    <3>1. g[i] = sock[i]
      BY <1>1, <2>3, <2>5
    <3>. HIDE DEF g
    <3>. QED BY <2>2, <2>5, <3>1 DEF Got
  <2>. QED BY <2>4, <2>5
<1>5. CASE s # None /\ Owner(s) = {} /\ Listeners(s) = {}
  BY <1>5 DEF Dispatched, Accepts, Chosen, Got
<1>. QED BY <1>2, <1>3, <1>4, <1>5

LEMMA LinkType ==
  ASSUME NEW r \in SendResult
  PROVE  LinkOf(r) \in Link
BY DEF LinkOf, Link, SendResult

LEMMA LeadBound ==
  ASSUME SetInv, NEW i \in Index
  PROVE  /\ Lead(i) \in Tick /\ Lead(i) \in Nat
         /\ sock[i].state # "SYN_SENT" => Lead(i) = 0
<1>1. lead[i] \in Tick /\ 0 \in Tick
  BY TickNat, SetAssumption DEF SetInv, Typed, Tick
<1>. QED BY <1>1, TickNat DEF Lead

LEMMA PolledMoved ==
  ASSUME SetInv, NEW i \in Index, NEW u, Good(u), NEW r \in SendResult,
         NEW d \in Tick
  PROVE  LET v == Polled(u, i, d, r)
         IN /\ Moved(u, v)
            /\ u.state = "TIME_WAIT" /\ sock[i].state # "SYN_SENT" =>
                 Waited(u, d, v)
<1>. DEFINE l == Lead(i)
            e == (d - l) % TickSpace
            a == Lesser(u.timewait_age + l, TimeWaitTicks)
            w == [u EXCEPT !.timewait_age = a]
            v == Polled(u, i, d, r)
<1>. SUFFICES /\ Moved(u, v)
              /\ u.state = "TIME_WAIT" /\ sock[i].state # "SYN_SENT" =>
                   Waited(u, d, v)
  OBVIOUS
<1>1. /\ l \in Nat /\ e \in Nat /\ (l = 0 => e = d)
      /\ sock[i].state # "SYN_SENT" => l = 0
  <2>1. /\ l \in Nat /\ d \in Nat /\ d - l \in Int
        /\ sock[i].state # "SYN_SENT" => l = 0
    BY LeadBound, TickNat
  <2>. HIDE DEF l
  <2>2. e \in Nat
    BY <2>1, TickNat
  <2>3. l = 0 => e = d
    BY <2>1, TickNat DEF Tick
  <2>. QED BY <2>1, <2>2, <2>3
<1>2. u \in Socket /\ u.timewait_age \in 0 .. TimeWaitTicks
  BY Fields DEF Good
<1>3. a \in 0 .. TimeWaitTicks /\ (l = 0 => a = u.timewait_age)
  <2>. HIDE DEF l
  <2>. QED BY <1>1, <1>2, Consts DEF Lesser
<1>4. /\ w \in Socket /\ SameCore(u, w) /\ w.retries = u.retries
      /\ w.ack_pending = u.ack_pending /\ w.timewait_age = a
  <2>. HIDE DEF a
  <2>. QED BY <1>2, <1>3 DEF Socket, SameCore
<1>5. v = poll_one(w, e, LinkOf(r)).t
  BY DEF Polled
<1>. HIDE DEF v, w, a, e
<1>6. Good(w)
  BY <1>4, CoreGood
<1>7. Moved(w, v) /\ (w.state = "TIME_WAIT" => Waited(w, e, v))
  <2>. HIDE DEF l
  <2>. QED BY <1>1, <1>5, <1>6, LinkType, PollMoved
<1>8. Moved(u, v)
  BY <1>4, <1>7 DEF Moved, SameCore, Synced
<1>9. u.state = "TIME_WAIT" /\ l = 0 => Waited(u, d, v)
  <2>. HIDE DEF l
  <2>. QED BY <1>1, <1>3, <1>4, <1>7 DEF Waited, SameCore
<1>. QED BY <1>1, <1>8, <1>9

(* What one poll does to socket i, whoever the segment was for. *)
PollStep(s, i) ==
  /\ Good(sock'[i]) /\ addr'[i].port = addr[i].port
  /\ InUse(i)' => InUse(i)
  /\ sock'[i].state \in {"LISTEN", "SYN_RCVD"} =>
       sock[i].state \in {"LISTEN", "SYN_RCVD"}
  /\ sock[i].state \in {"LISTEN", "SYN_RCVD"} =>
       \/ sock'[i].state \in {"LISTEN", "SYN_RCVD"}
       \/ Synced(sock'[i]) /\ sock[i].state = "SYN_RCVD"
  /\ IF Chosen(s, i)
     THEN /\ sock[i].state = "LISTEN" /\ addr[i].port = s.port
          /\ Owners(s) = {} /\ s # None /\ addr'[i].end = s.end
     ELSE addr'[i] = addr[i] /\ (Live(sock'[i]) => Live(sock[i]))
  /\ Waits(i)'

(* What a poll leaves as it is, and the time it finds to have passed.      *)
PollTime ==
  UNCHANGED <<passed, opened, opens>> /\ lead' = [i \in Index |-> 0]

LEMMA PollClock ==
  ASSUME SetInv, NEW s, NEW r, PollWith(s, r)
  PROVE  LET d == (ticked(clock).ticks - clock.now) % TickSpace
         IN /\ ClockInv' /\ PollTime
            /\ d \in Tick /\ d \in Nat /\ d <= Due /\ Due \in Nat /\ Due' = 0
            /\ passed \in Nat
<1>. DEFINE c == ticked(clock)
<1>1. ClockInv' /\ ClockInv
  BY PollClocked DEF SetInv
<1>2. /\ clock' = [c EXCEPT !.now = c.ticks] /\ PollTime
      /\ frame' = frame
  BY DEF PollWith, PollTime
<1>3. c \in ClockT /\ c.last_frame = frame /\ frame \in Count
  BY <1>1, ClockTicked DEF ClockInv
<1>. HIDE DEF c
<1>4. clock'.ticks = clock'.now /\ clock'.last_frame = frame'
  BY <1>2, <1>3 DEF ClockT
<1>5. Behind' = 0
  BY <1>2, <1>3, <1>4, Around DEF Behind
<1>6. Ahead' = 0
  <2>1. clock'.ticks \in Nat
    BY <1>1, DueNow, TickNat DEF ClockInv, ClockT
  <2>2. (clock'.ticks - clock'.ticks) % TickSpace = 0
    BY <2>1, SetAssumption
  <2>. QED BY <1>4, <2>2 DEF Ahead
<1>7. Due' = 0
  BY <1>5, <1>6 DEF Due
<1>. QED BY <1>1, <1>2, <1>7, DueTicked, DueNow DEF ClockInv

LEMMA PollOfOne ==
  ASSUME SetInv, NEW s, Arrival(s), NEW r \in SendResult, PollWith(s, r),
         NEW i \in Index
  PROVE  PollStep(s, i)
<1>. DEFINE u == Dispatched(s, r)[i]
            d == (ticked(clock).ticks - clock.now) % TickSpace
            v == Polled(u, i, d, r)
<1>1. /\ PollTime /\ d \in Tick /\ d \in Nat /\ d <= Due /\ Due \in Nat
      /\ Due' = 0 /\ passed \in Nat
  BY PollClock
<1>2. /\ sock' = [j \in Index |->
                    Polled(Dispatched(s, r)[j], j,
                           (ticked(clock).ticks - clock.now) % TickSpace, r)]
      /\ addr' = IF Accepts(s) = {} THEN addr
                 ELSE [addr EXCEPT ![First(Accepts(s))].end = s.end]
      /\ fin_at' = [j \in Index |->
                      IF FinAnswered(Dispatched(s, r)[j], j) THEN passed
                      ELSE IF Dispatched(s, r)[j].state = "TIME_WAIT"
                           THEN fin_at[j] ELSE None]
  BY Zenon DEF PollWith
<1>3. /\ sock'[i] = v
      /\ fin_at'[i] = IF FinAnswered(u, i) THEN passed
                      ELSE IF u.state = "TIME_WAIT" THEN fin_at[i] ELSE None
  BY <1>2
<1>4. /\ addr \in [Index -> Place] /\ Good(sock[i])
      /\ Placed(i) /\ Waits(i)
  BY DEF SetInv, Typed
<1>5. Got(s, i, u) /\ Good(u)
  <2>1. Got(s, i, u)
    BY Dispatch
  <2>. HIDE DEF u
  <2>. QED BY <1>4, <2>1 DEF Got, Answered
<1>6. passed' = passed
  BY <1>1 DEF PollTime
<1>7. Moved(u, v)
      /\ (u.state = "TIME_WAIT" /\ sock[i].state # "SYN_SENT" => Waited(u, d, v))
  <2>. HIDE DEF u, d
  <2>. QED BY <1>1, <1>5, PolledMoved
<1>8. /\ addr'[i].port = addr[i].port
      /\ IF Chosen(s, i) THEN addr'[i].end = s.end ELSE addr'[i] = addr[i]
  <2>1. CASE Accepts(s) = {}
    BY <1>2, <2>1 DEF Chosen
  <2>2. CASE Accepts(s) # {}
    BY <1>2, <1>4, <2>2 DEF Chosen, Place
  <2>. QED BY <2>1, <2>2
<1>9. FinAnswered(u, i) <=>
        sock[i] # u /\ u.state = "TIME_WAIT" /\ u.ack_pending
  BY DEF FinAnswered
<1>. HIDE DEF u, v, d
<1>10. /\ InUse(i)' => InUse(i)
       /\ sock'[i].state \in {"LISTEN", "SYN_RCVD"} =>
            sock[i].state \in {"LISTEN", "SYN_RCVD"}
       /\ ~Chosen(s, i) /\ Live(sock'[i]) => Live(sock[i])
  <2>1. u.state \in States
    BY <1>5, Fields DEF Good
  <2>2. /\ v.state # "CLOSED" => u.state # "CLOSED"
        /\ v.state \in {"LISTEN", "SYN_RCVD"} => u.state \in {"LISTEN", "SYN_RCVD"}
        /\ v.state \notin {"CLOSED", "LISTEN"} =>
             u.state \notin {"CLOSED", "LISTEN"}
    BY <1>7, <2>1 DEF Moved, Synced, Opening, States
  <2>. QED BY <1>3, <1>5, <2>2 DEF InUse, Live, Got, Answered
<1>11. ASSUME sock[i].state \in {"LISTEN", "SYN_RCVD"}
       PROVE  \/ sock'[i].state \in {"LISTEN", "SYN_RCVD"}
              \/ Synced(sock'[i]) /\ sock[i].state = "SYN_RCVD"
  <2>1. \/ u.state \in {"LISTEN", "SYN_RCVD"}
        \/ /\ u.state \in {"ESTABLISHED", "CLOSE_WAIT"} /\ u.retries = 0
           /\ sock[i].state = "SYN_RCVD"
    BY <1>5, <1>11 DEF Got, Answered, Live
  <2>. QED BY <1>3, <1>7, <2>1 DEF Moved, Synced, Opening
<1>12. Waits(i)'
  <2>. SUFFICES ASSUME fin_at'[i] # None
       PROVE  /\ fin_at'[i] \in Nat /\ v.state \in {"TIME_WAIT", "CLOSED"}
              /\ v.state = "TIME_WAIT" =>
                   v.timewait_age <= passed - fin_at'[i]
              /\ v.state = "CLOSED" => passed - fin_at'[i] >= TimeWaitTicks
    <3>1. v.state = "TIME_WAIT" => v.timewait_age \in Nat
      BY <1>7, Fields DEF Moved, Good
    <3>2. v.state = "TIME_WAIT" => v.timewait_age + 0 = v.timewait_age
      BY <3>1
    <3>. QED BY <1>1, <1>3, <1>6, <3>2 DEF Waits
  <2>1. u.state = "TIME_WAIT"
    BY <1>3, <1>9
  <2>2. Live(sock[i]) /\ sock[i].state \notin Opening
    BY <1>5, <2>1 DEF Got, Answered, Live, Opening
  <2>3. Waited(u, d, v)
    BY <1>7, <2>1, <2>2 DEF Opening
  <2>4. CASE FinAnswered(u, i)
    <3>1. v.state = "TIME_WAIT" /\ v.timewait_age = 0 /\ fin_at'[i] = passed
      BY <1>3, <1>9, <2>3, <2>4 DEF Waited
    <3>. QED BY <1>1, <3>1
  <2>5. CASE ~FinAnswered(u, i)
    <3>1. fin_at'[i] = fin_at[i]
      BY <1>3, <2>1, <2>5
    <3>2. /\ fin_at[i] \in Nat /\ sock[i].state = "TIME_WAIT"
          /\ sock[i].timewait_age + Due <= passed - fin_at[i]
      BY <1>4, <2>2, <3>1 DEF Waits, Live
    <3>3. ~Chosen(s, i) /\ u.timewait_age = sock[i].timewait_age
      BY <1>5, <3>2 DEF Got, Answered
    <3>4. u.timewait_age \in Nat /\ TimeWaitTicks \in Nat \ {0}
      BY <1>5, Fields, Consts DEF Good
    <3>. DEFINE a == Lesser(u.timewait_age + d, TimeWaitTicks)
    <3>5. /\ a \in Nat /\ a <= passed - fin_at[i]
          /\ a >= TimeWaitTicks => passed - fin_at[i] >= TimeWaitTicks
          /\ 0 <= passed - fin_at[i]
      BY <1>1, <3>2, <3>3, <3>4 DEF Lesser
    <3>6. \/ v.state = "TIME_WAIT" /\ v.timewait_age \in {0, a}
          \/ v.state = "CLOSED" /\ a >= TimeWaitTicks
      BY <2>3 DEF Waited
    <3>. HIDE DEF a
    <3>. QED BY <3>1, <3>2, <3>5, <3>6
  <2>. QED BY <2>4, <2>5
<1>13. Good(sock'[i])
  BY <1>3, <1>7 DEF Moved
<1>14. Chosen(s, i) => /\ sock[i].state = "LISTEN" /\ addr[i].port = s.port
                       /\ Owners(s) = {} /\ s # None
  BY <1>5 DEF Got
<1>. QED BY <1>8, <1>10, <1>11, <1>12, <1>13, <1>14 DEF PollStep

LEMMA PollKeepsSet ==
  ASSUME SetInv, NEW s, Arrival(s), NEW r \in SendResult, PollWith(s, r),
         segs' \in 0 .. MaxSegs
  PROVE  SetInv'
<1>1. \A i \in Index : PollStep(s, i)
  BY PollOfOne
<1>2. ClockInv' /\ PollTime /\ passed \in Nat
  BY PollClock
<1>3. /\ opened' = opened /\ opens' = opens /\ passed' = passed
      /\ lead' = [i \in Index |-> 0]
  BY <1>2 DEF PollTime
<1>4. Typed'
  <2>1. \A i \in Index : Good(sock'[i])
    BY <1>1 DEF PollStep
  <2>2. sock' \in [Index -> Socket]
    <3>1. sock' = [i \in Index |-> sock'[i]]
      BY DEF PollWith
    <3>. QED BY <2>1, <3>1 DEF Good
  <2>3. addr' \in [Index -> Place]
    <3>1. CASE Accepts(s) = {}
      BY <3>1 DEF PollWith, SetInv, Typed
    <3>2. CASE Accepts(s) # {}
      <4>. DEFINE o == First(Accepts(s))
      <4>1. s # None /\ s.end \in Ends
        BY <3>2 DEF Accepts, Arrival
      <4>2. addr' = [addr EXCEPT ![o].end = s.end] /\ addr \in [Index -> Place]
        BY <3>2 DEF PollWith, SetInv, Typed
      <4>. HIDE DEF o
      <4>. QED BY <4>1, <4>2 DEF Place
    <3>. QED BY <3>1, <3>2
  <2>4. fin_at' \in [Index -> Nat \cup {None}]
    <3>. DEFINE f == [i \in Index |->
                        IF FinAnswered(Dispatched(s, r)[i], i)
                        THEN passed
                        ELSE IF Dispatched(s, r)[i].state = "TIME_WAIT"
                             THEN fin_at[i] ELSE None]
    <3>1. fin_at' = f
      BY Zenon DEF PollWith
    <3>2. passed \in Nat /\ fin_at \in [Index -> Nat \cup {None}]
      BY <1>2 DEF SetInv, Typed
    <3>3. f \in [Index -> Nat \cup {None}]
      BY <3>2
    <3>. HIDE DEF f
    <3>. QED BY <3>1, <3>3
  <2>5. /\ passed' <= MaxFrames /\ lead' \in [Index -> Tick]
        /\ opened' \in [Index -> Origin] /\ opens' \in 0 .. MaxOpens
    <3>1. 0 \in Tick
      BY SetAssumption DEF Tick
    <3>. QED BY <1>3, <3>1 DEF SetInv, Typed
  <2>. QED BY <2>1, <2>2, <2>3, <2>4, <2>5 DEF Typed
<1>5. ASSUME NEW i \in Index PROVE Placed(i)' /\ Waits(i)'
  <2>1. PollStep(s, i) /\ Placed(i)
    BY <1>1 DEF SetInv
  <2>3. Live(sock'[i]) => addr'[i].port \in Port /\ addr'[i].end \in Ends
    <3>1. CASE Chosen(s, i)
      <4>1. addr[i].port \in ListenPorts /\ ListenPorts \subseteq Port
        BY <2>1, <3>1 DEF PollStep, Placed, Port
      <4>2. s.end \in Ends
        BY <2>1, <3>1 DEF PollStep, Arrival
      <4>. QED BY <2>1, <3>1, <4>1, <4>2 DEF PollStep
    <3>2. CASE ~Chosen(s, i)
      BY <2>1, <3>2 DEF PollStep, Placed
    <3>. QED BY <3>1, <3>2
  <2>4. /\ InUse(i)' => InUse(i)
        /\ sock'[i].state \in {"LISTEN", "SYN_RCVD"} =>
             sock[i].state \in {"LISTEN", "SYN_RCVD"}
        /\ addr'[i].port = addr[i].port /\ Waits(i)'
    BY <2>1 DEF PollStep
  <2>5. /\ (InUse(i)' => InUse(i)) /\ (Live(sock[i])' <=> Live(sock'[i]))
    BY <2>4 DEF Live
  <2>6. /\ sock'[i].state \in {"LISTEN", "SYN_RCVD"} =>
             opened'[i].how = "listen" /\ addr'[i].port \in ListenPorts
    BY <1>3, <2>1, <2>4 DEF Placed
  <2>7. InUse(i)' =>
          opened'[i].how \in {"connect", "listen"} /\ opened'[i].nth < opens'
    BY <1>3, <2>1, <2>4 DEF Placed
  <2>8. InUse(i)' /\ opened'[i].how = "connect" =>
          addr'[i].port = local_port(opened'[i].tick, i)
    BY <1>3, <2>1, <2>4 DEF Placed
  <2>9. Placed(i)'
    BY <1>3, <2>3, <2>6, <2>7, <2>8 DEF Placed, Live
  <2>. QED BY <2>4, <2>9
<1>6. ASSUME NEW i \in Index, NEW j \in Index, i # j, InUse(i)', InUse(j)'
      PROVE  Apart(i, j)'
  <2>1. PollStep(s, i) /\ PollStep(s, j)
    BY <1>1
  <2>2. Apart(i, j)
    BY <1>6, <2>1 DEF SetInv, PollStep
  <2>3. ~(Chosen(s, i) /\ Chosen(s, j))
    BY <1>6 DEF Chosen
  <2>4. CASE ~Chosen(s, i) /\ ~Chosen(s, j)
    BY <1>3, <2>1, <2>2, <2>4 DEF PollStep, Apart, Live
  <2>5. ASSUME NEW k \in Index, NEW o \in Index, Chosen(s, k), ~Chosen(s, o),
               PollStep(s, k), PollStep(s, o), Live(sock'[o]), addr'[k] = addr'[o]
        PROVE  FALSE
    <3>1. /\ addr'[k].port = s.port /\ addr'[k].end = s.end
          /\ Live(sock[o]) /\ addr'[o] = addr[o] /\ Owners(s) = {}
      BY <2>5 DEF PollStep
    <3>2. addr[o] \in Place
      BY DEF SetInv, Typed
    <3>3. addr[o] = [port |-> s.port, end |-> s.end]
      BY <2>5, <3>1, <3>2 DEF Place
    <3>. QED BY <3>1, <3>3 DEF Owners
  <2>6. CASE Chosen(s, i) \/ Chosen(s, j)
    <3>1. ~(Live(sock'[i]) /\ Live(sock'[j]) /\ addr'[i] = addr'[j])
      BY <2>1, <2>3, <2>5, <2>6
    <3>. QED BY <1>3, <2>2, <3>1 DEF Apart, Live
  <2>. QED BY <2>4, <2>6
<1>. QED BY <1>2, <1>4, <1>5, <1>6 DEF SetInv

----------------------------------------------------------------------------
(* The calls of the application: one socket changes. *)

LEMMA OneChanges ==
  ASSUME SetInv, NEW i \in Index, NEW v, Good(v),
         sock' = [sock EXCEPT ![i] = v],
         ClockInv', passed' = passed, Due' <= Due, segs' = segs,
         lead' \in [Index -> Tick],
         opens' \in 0 .. MaxOpens, opens' >= opens,
         addr' \in [Index -> Place], opened' \in [Index -> Origin],
         fin_at' \in [Index -> Nat \cup {None}],
         \A j \in Index \ {i} : /\ addr'[j] = addr[j] /\ opened'[j] = opened[j]
                                /\ fin_at'[j] = fin_at[j],
         Placed(i)', Waits(i)',
         \A j \in Index \ {i} :
           InUse(i)' /\ InUse(j) => Apart(i, j)' /\ Apart(j, i)'
  PROVE  SetInv'
<1>1. /\ passed \in Nat /\ passed <= MaxFrames /\ Due \in Nat /\ Due' \in Nat
      /\ opens \in Nat /\ segs \in 0 .. MaxSegs
      /\ sock \in [Index -> Socket] /\ \A j \in Index : Good(sock[j])
  BY DueNow, DueNext DEF SetInv, Typed, ClockInv
<1>2. \A j \in Index \ {i} : sock'[j] = sock[j]
  BY <1>1
<1>3. sock'[i] = v
  BY <1>1
<1>4. \A j \in Index : Good(sock'[j])
  BY <1>1, <1>2, <1>3
<1>5. sock' \in [Index -> Socket]
  BY <1>1 DEF Good
<1>6. Typed'
  BY <1>1, <1>4, <1>5 DEF Typed
<1>7. ASSUME NEW j \in Index \ {i} PROVE Placed(j)' /\ Waits(j)'
  <2>1. /\ sock'[j] = sock[j] /\ addr'[j] = addr[j] /\ opened'[j] = opened[j]
        /\ fin_at'[j] = fin_at[j]
    BY <1>2
  <2>2. Placed(j) /\ Waits(j) /\ opened[j].nth \in Nat
    BY DEF SetInv, Typed, Origin
  <2>3. sock[j].timewait_age \in Nat
    BY Fields DEF SetInv, Typed
  <2>4. opened[j].nth < opens => opened[j].nth < opens'
    BY <1>1, <2>2
  <2>5. Placed(j)'
    BY <2>1, <2>2, <2>4 DEF Placed, InUse, Live
  <2>6. Waits(j)'
    BY <1>1, <2>1, <2>2, <2>3 DEF Waits
  <2>. QED BY <2>5, <2>6
<1>8. ASSUME NEW j \in Index, NEW k \in Index, j # k, InUse(j)', InUse(k)'
      PROVE  Apart(j, k)'
  <2>1. CASE j = i
    BY <1>2, <1>8, <2>1 DEF InUse
  <2>2. CASE k = i
    BY <1>2, <1>8, <2>2 DEF InUse
  <2>3. CASE j # i /\ k # i
    <3>1. /\ sock'[j] = sock[j] /\ addr'[j] = addr[j] /\ opened'[j] = opened[j]
          /\ sock'[k] = sock[k] /\ addr'[k] = addr[k] /\ opened'[k] = opened[k]
      BY <1>2, <2>3
    <3>2. Apart(j, k)
      BY <1>8, <3>1 DEF SetInv, InUse
    <3>. QED BY <3>1, <3>2 DEF Apart, Live
  <2>. QED BY <2>1, <2>2, <2>3
<1>. QED BY <1>6, <1>7, <1>8 DEF SetInv


LEMMA ConnectKeepsSet ==
  ASSUME SetInv, NEW i \in Index, Connect(i), ClockInv'
  PROVE  /\ SetInv'
         /\ sock[i].state = "CLOSED"
         /\ \A j \in Index \ {i} : sock'[j] = sock[j] /\ addr'[j] = addr[j]
<1>. DEFINE c == ticked(clock)
<1>1. /\ sock[i].state = "CLOSED" /\ clock' = c /\ TickCalled
      /\ Opened(i, "connect", c.ticks)
      /\ UNCHANGED <<frame, passed, segs>>
  BY DEF Connect
<1>2. PICK e \in Ends, r \in Results :
        /\ sock' = [sock EXCEPT ![i] =
                      mn_tcp_connect(sock[i], initial_seq(c.ticks, i), r).t]
        /\ addr' = [addr EXCEPT ![i] = [port |-> local_port(c.ticks, i), end |-> e]]
  BY DEF Connect
<1>. DEFINE v == mn_tcp_connect(sock[i], initial_seq(c.ticks, i), r).t
            p == local_port(c.ticks, i)
<1>3. /\ sock \in [Index -> Socket] /\ Good(sock[i]) /\ addr \in [Index -> Place]
      /\ opened \in [Index -> Origin] /\ fin_at \in [Index -> Nat \cup {None}]
      /\ opens \in 0 .. MaxOpens /\ opens \in Nat /\ MaxOpens \in Nat
  BY SetAssumption DEF SetInv, Typed
<1>4. /\ c.ticks \in Tick /\ c.ticks \in Nat
      /\ (c.ticks - clock.now) % TickSpace \in Tick
  BY ClockTicked, DueTicked, TickNat DEF SetInv
<1>. HIDE DEF c
<1>5. initial_seq(c.ticks, i) \in SeqNo /\ p \in Port
  BY <1>4, Numbered
<1>6. r \in SendResult
  BY SetAssumption
<1>7. Good(v) /\ v.state = "SYN_SENT"
  <2>1. Good(v)
    BY <1>3, <1>5, <1>6, ConnectGood
  <2>2. PICK w : /\ Good(w) /\ w.state = "SYN_SENT"
                 /\ mn_tcp_connect(sock[i], initial_seq(c.ticks, i), r)
                      = emit(w, {"SYN"}, initial_seq(c.ticks, i), << >>, r)
    BY <1>1, <1>3, <1>5, <1>6, ConnectGood
  <2>3. SameCore(w, emit(w, {"SYN"}, initial_seq(c.ticks, i), << >>, r).t)
    BY <2>2, EmitGood
  <2>. QED BY <2>1, <2>2, <2>3 DEF SameCore
<1>8. sock' = [sock EXCEPT ![i] = v] /\ sock'[i] = v
  BY <1>2, <1>3
<1>. HIDE DEF v
<1>9. /\ addr'[i].port = p /\ addr'[i].end = e /\ addr' \in [Index -> Place]
      /\ \A j \in Index \ {i} : addr'[j] = addr[j]
  <2>. DEFINE x == [port |-> p, end |-> e]
  <2>. HIDE DEF p
  <2>1. x \in Place /\ x.port = p /\ x.end = e
    BY <1>5 DEF Place
  <2>2. addr' = [addr EXCEPT ![i] = x]
    BY <1>2 DEF p
  <2>. HIDE DEF x
  <2>3. addr'[i] = x /\ addr' \in [Index -> Place]
        /\ \A j \in Index \ {i} : addr'[j] = addr[j]
    BY <1>3, <2>1, <2>2
  <2>. QED BY <2>1, <2>3
<1>10. /\ opens < MaxOpens /\ opens' = opens + 1 /\ fin_at'[i] = None
       /\ opened'[i] = [how |-> "connect", tick |-> c.ticks, nth |-> opens]
       /\ \A j \in Index \ {i} : opened'[j] = opened[j] /\ fin_at'[j] = fin_at[j]
       /\ fin_at' \in [Index -> Nat \cup {None}]
  BY <1>1, <1>3 DEF Opened
<1>11. opened' \in [Index -> Origin]
  <2>1. [how |-> "connect", tick |-> c.ticks, nth |-> opens] \in Origin
    BY <1>3, <1>4 DEF Origin
  <2>. QED BY <1>1, <1>3, <2>1 DEF Opened
<1>12. Placed(i)'
  BY <1>3, <1>4, <1>1, <1>7, <1>8, <1>9, <1>10, <1>5 DEF Placed
<1>13. Waits(i)'
  BY <1>10 DEF Waits
<1>14. ASSUME NEW j \in Index \ {i}, InUse(j)
       PROVE  Apart(i, j)' /\ Apart(j, i)'
  <2>1. opened[j].nth < opens /\ opened[j].nth \in Nat
    BY <1>3, <1>14 DEF SetInv, Placed, Origin
  <2>2. opened'[j].nth < opened'[i].nth /\ opened'[i].how = "connect"
        /\ opened'[j].nth \in Nat /\ opened'[i].nth \in Nat
    BY <1>3, <1>10, <2>1
  <2>. QED BY <2>2 DEF Apart
<1>15. /\ passed' = passed /\ segs' = segs
       /\ opens' \in 0 .. MaxOpens /\ opens' >= opens
  BY <1>1, <1>3, <1>10
<1>16. Due' <= Due
  BY <1>1, DueAfterTick DEF SetInv, c
<1>17. lead' \in [Index -> Tick]
  <2>. DEFINE n == (c.ticks - clock.now) % TickSpace
  <2>1. lead' = [lead EXCEPT ![i] = n]
    BY DEF Connect, c
  <2>2. n \in Tick /\ lead \in [Index -> Tick]
    BY <1>4 DEF SetInv, Typed
  <2>. HIDE DEF n
  <2>. QED BY <2>1, <2>2
<1>18. SetInv'
  BY <1>3, <1>7, <1>8, <1>9, <1>10, <1>11, <1>12, <1>13, <1>14, <1>15, <1>16,
     <1>17, OneChanges
<1>19. \A j \in Index \ {i} : sock'[j] = sock[j]
  BY <1>3, <1>8
<1>. QED BY <1>1, <1>9, <1>18, <1>19

LEMMA ListenKeepsSet ==
  ASSUME SetInv, NEW i \in Index, Listen(i), ClockInv'
  PROVE  /\ SetInv'
         /\ sock[i].state = "CLOSED"
         /\ \A j \in Index \ {i} : sock'[j] = sock[j] /\ addr'[j] = addr[j]
<1>1. /\ sock[i].state = "CLOSED"
      /\ Opened(i, "listen", clock.ticks)
      /\ sock' = [sock EXCEPT ![i] = mn_tcp_listen(sock[i])]
      /\ UNCHANGED <<frame, clock, passed, idle, missed, lead, segs>>
  BY DEF Listen
<1>2. PICK p \in ListenPorts : addr' = [addr EXCEPT ![i].port = p]
  BY DEF Listen
<1>. DEFINE v == mn_tcp_listen(sock[i])
<1>3. /\ sock \in [Index -> Socket] /\ Good(sock[i]) /\ addr \in [Index -> Place]
      /\ opened \in [Index -> Origin] /\ fin_at \in [Index -> Nat \cup {None}]
      /\ opens \in 0 .. MaxOpens /\ opens \in Nat /\ MaxOpens \in Nat
      /\ clock.ticks \in Tick /\ lead \in [Index -> Tick]
  BY SetAssumption DEF SetInv, Typed, ClockInv, ClockT
<1>4. Good(v) /\ v.state = "LISTEN"
  BY <1>1, <1>3, ListenGood
<1>5. sock'[i] = v
  BY <1>1, <1>3
<1>. HIDE DEF v
<1>6. /\ addr'[i].port = p /\ addr' \in [Index -> Place]
      /\ \A j \in Index \ {i} : addr'[j] = addr[j]
  BY <1>2, <1>3 DEF Place, Port
<1>7. /\ opens < MaxOpens /\ opens' = opens + 1 /\ fin_at'[i] = None
      /\ opened'[i] = [how |-> "listen", tick |-> clock.ticks, nth |-> opens]
      /\ \A j \in Index \ {i} : opened'[j] = opened[j] /\ fin_at'[j] = fin_at[j]
      /\ fin_at' \in [Index -> Nat \cup {None}]
  BY <1>1, <1>3 DEF Opened
<1>8. opened' \in [Index -> Origin]
  <2>1. [how |-> "listen", tick |-> clock.ticks, nth |-> opens] \in Origin
    BY <1>3 DEF Origin
  <2>. QED BY <1>1, <1>3, <2>1 DEF Opened
<1>9. Placed(i)'
  BY <1>1, <1>3, <1>4, <1>5, <1>6, <1>7 DEF Placed, Live
<1>10. Waits(i)'
  BY <1>7 DEF Waits
<1>11. ASSUME NEW j \in Index \ {i}, InUse(j)
       PROVE  Apart(i, j)' /\ Apart(j, i)'
  <2>1. opened[j].nth < opens /\ opened[j].nth \in Nat
    BY <1>3, <1>11 DEF SetInv, Placed, Origin
  <2>2. opened'[j].nth < opened'[i].nth
        /\ opened'[j].nth \in Nat /\ opened'[i].nth \in Nat
    BY <1>3, <1>7, <2>1
  <2>3. ~Live(sock'[i])
    BY <1>4, <1>5 DEF Live
  <2>. QED BY <2>2, <2>3 DEF Apart, Live
<1>12. /\ passed' = passed /\ segs' = segs /\ lead' \in [Index -> Tick]
       /\ opens' \in 0 .. MaxOpens /\ opens' >= opens
       /\ clock' = clock /\ frame' = frame
  BY <1>1, <1>3, <1>7
<1>13. Due' <= Due
  BY <1>12, DueNow DEF SetInv, Due, Ahead, Behind
<1>14. sock' = [sock EXCEPT ![i] = v]
  BY <1>1 DEF v
<1>15. SetInv'
  BY <1>3, <1>4, <1>6, <1>7, <1>8, <1>9, <1>10, <1>11, <1>12, <1>14, <1>13,
     OneChanges
<1>16. \A j \in Index \ {i} : sock'[j] = sock[j]
  BY <1>3, <1>14
<1>. QED BY <1>1, <1>6, <1>15, <1>16

(* What becomes of the state of a socket the application closes. *)
LEMMA CloseState ==
  ASSUME NEW u \in Socket
  PROVE  LET v == mn_tcp_close(u)
         IN v = u \/ (/\ u.state # "TIME_WAIT"
                      /\ v.state = u.state \/ v.state = "CLOSED"
                      /\ u.state # "CLOSED")
<1>1. CASE u.state \in {"ESTABLISHED", "CLOSE_WAIT"}
  <2>. DEFINE v == [u EXCEPT !.fin_queued = TRUE, !.tx_pending = TRUE]
  <2>1. v.state = u.state
    BY DEF Socket
  <2>2. mn_tcp_close(u) = v
    BY <1>1 DEF mn_tcp_close
  <2>. HIDE DEF v
  <2>. QED BY <1>1, <2>1, <2>2
<1>2. CASE u.state \in Opening \cup {"LISTEN"}
  <2>. DEFINE v == [u EXCEPT !.state = "CLOSED"]
  <2>1. v.state = "CLOSED"
    BY DEF Socket
  <2>2. mn_tcp_close(u) = v
    BY <1>2, Zenon DEF mn_tcp_close, Opening
  <2>. HIDE DEF v
  <2>. QED BY <1>2, <2>1, <2>2 DEF Opening
<1>3. CASE u.state \notin Opening \cup {"LISTEN", "ESTABLISHED", "CLOSE_WAIT"}
  BY <1>3 DEF mn_tcp_close
<1>. QED BY <1>1, <1>2, <1>3

(* The application closes or aborts: the socket is as it was or closed,    *)
(* and one in TIME_WAIT is only closed with its timer forgotten.           *)
LEMMA EndKeepsSet ==
  ASSUME SetInv, NEW i \in Index, ClockInv', Close(i) \/ Abort(i)
  PROVE  /\ SetInv'
         /\ \A j \in Index \ {i} : sock'[j] = sock[j] /\ addr'[j] = addr[j]
<1>1. /\ sock \in [Index -> Socket] /\ Good(sock[i]) /\ addr \in [Index -> Place]
      /\ opened \in [Index -> Origin] /\ fin_at \in [Index -> Nat \cup {None}]
      /\ opens \in 0 .. MaxOpens /\ lead \in [Index -> Tick]
      /\ sock[i] \in Socket /\ opens \in Nat
  BY DEF SetInv, Typed
<1>2. UNCHANGED <<addr, frame, clock, passed, lead, opened, opens, segs>>
  BY DEF Close, Abort
<1>3. \E v : /\ Good(v) /\ sock' = [sock EXCEPT ![i] = v]
             /\ v = sock[i] \/ v.state = sock[i].state \/ v.state = "CLOSED"
             /\ \/ fin_at' = [fin_at EXCEPT ![i] = None]
                \/ /\ fin_at' = fin_at
                   /\ \/ v = sock[i]
                      \/ sock[i].state \notin {"TIME_WAIT", "CLOSED"}
  <2>1. CASE Close(i)
    <3>. DEFINE v == mn_tcp_close(sock[i])
    <3>1. Good(v)
      BY <1>1, CloseGood
    <3>2. \/ v = sock[i]
          \/ /\ sock[i].state \notin {"TIME_WAIT", "CLOSED"}
             /\ v.state = sock[i].state \/ v.state = "CLOSED"
      BY <1>1, CloseState
    <3>3. sock' = [sock EXCEPT ![i] = v] /\ fin_at' = fin_at
      BY <2>1 DEF Close
    <3>. HIDE DEF v
    <3>. QED BY <3>1, <3>2, <3>3
  <2>2. CASE Abort(i)
    <3>1. PICK r \in Results : sock' = [sock EXCEPT ![i] = mn_tcp_abort(sock[i], r).t]
      BY <2>2 DEF Abort
    <3>. DEFINE v == mn_tcp_abort(sock[i], r).t
    <3>2. Good(v) /\ v.state = "CLOSED"
      BY <1>1, AbortGood, SetAssumption
    <3>3. fin_at' = [fin_at EXCEPT ![i] = None]
      BY <2>2 DEF Abort
    <3>4. sock' = [sock EXCEPT ![i] = v]
      BY <3>1
    <3>. HIDE DEF v
    <3>. QED BY <3>2, <3>3, <3>4
  <2>. QED BY <2>1, <2>2
<1>4. PICK v : /\ Good(v) /\ sock' = [sock EXCEPT ![i] = v]
               /\ v = sock[i] \/ v.state = sock[i].state \/ v.state = "CLOSED"
               /\ \/ fin_at' = [fin_at EXCEPT ![i] = None]
                  \/ /\ fin_at' = fin_at
                   /\ \/ v = sock[i]
                      \/ sock[i].state \notin {"TIME_WAIT", "CLOSED"}
  BY <1>3
<1>5. sock'[i] = v /\ (v.state = sock[i].state \/ v.state = "CLOSED")
  BY <1>1, <1>4
<1>6. /\ fin_at' \in [Index -> Nat \cup {None}]
      /\ \A j \in Index \ {i} : fin_at'[j] = fin_at[j]
  BY <1>1, <1>4
<1>7. Placed(i)'
  <2>1. Placed(i)
    BY DEF SetInv
  <2>. QED BY <1>2, <1>5, <2>1 DEF Placed, InUse, Live
<1>8. Waits(i)'
  <2>1. Waits(i)
    BY DEF SetInv
  <2>2. \/ fin_at'[i] = None
        \/ fin_at'[i] = fin_at[i]
           /\ (sock'[i] = sock[i] \/ sock[i].state \notin {"TIME_WAIT", "CLOSED"})
    BY <1>1, <1>4, <1>5
  <2>3. Due' = Due
    BY <1>2 DEF Due, Ahead, Behind
  <2>. QED BY <1>2, <2>1, <2>2, <2>3 DEF Waits
<1>9. ASSUME NEW j \in Index \ {i}, InUse(i)', InUse(j)
      PROVE  Apart(i, j)' /\ Apart(j, i)'
  <2>1. sock'[i].state = sock[i].state /\ sock'[j] = sock[j]
    BY <1>1, <1>4, <1>5, <1>9 DEF InUse
  <2>2. InUse(i)
    BY <1>9, <2>1 DEF InUse
  <2>3. Apart(i, j) /\ Apart(j, i)
    BY <1>9, <2>2 DEF SetInv
  <2>. QED BY <1>2, <2>1, <2>3 DEF Apart, Live
<1>10. /\ passed' = passed /\ segs' = segs /\ Due' <= Due
       /\ lead' \in [Index -> Tick]
       /\ opens' \in 0 .. MaxOpens /\ opens' >= opens
       /\ addr' \in [Index -> Place] /\ opened' \in [Index -> Origin]
       /\ \A j \in Index \ {i} : addr'[j] = addr[j] /\ opened'[j] = opened[j]
  BY <1>1, <1>2, DueNow DEF SetInv, Due, Ahead, Behind
<1>11. SetInv'
  BY <1>4, <1>6, <1>7, <1>8, <1>9, <1>10, OneChanges
<1>12. \A j \in Index \ {i} : sock'[j] = sock[j]
  BY <1>1, <1>4
<1>. QED BY <1>10, <1>11, <1>12

(* What arrives is a segment, from one of the other ends. *)
LEMMA ArrivalsArrive ==
  ASSUME SetInv, NEW e \in Ends, NEW p, NEW s \in Arrivals(e, p)
  PROVE  Arrival(s)
<1>1. /\ RemoteIss \in SeqNo /\ InFlags \subseteq SUBSET SegFlags
      /\ 0 \in SeqNo /\ \A i \in Index : sock[i] \in Socket
  BY SetAssumption, InSeqNo, Consts DEF SetInv, Typed, SeqNo
<1>2. ASSUME NEW fl \in InFlags, NEW seq \in SeqNo, NEW ack \in SeqNo
      PROVE  Arrival(Arriving(e, p, fl, seq, ack))
  <2>. DEFINE a == IF "ACK" \in fl THEN ack ELSE 0
              g == [fl |-> fl, seq |-> seq, ack |-> a, wnd |-> 1, mss |-> 0,
                    data |-> << >>]
  <2>1. a \in SeqNo /\ << >> \in Seq(Byte)
    BY <1>1
  <2>2. g \in Segment
    <3>. HIDE DEF a
    <3>. QED BY <1>1, <2>1 DEF Segment
  <2>3. Arriving(e, p, fl, seq, ack) = [port |-> p, end |-> e, seg |-> g]
    BY DEF Arriving
  <2>. HIDE DEF g
  <2>. QED BY <2>2, <2>3 DEF Arrival
<1>3. \E fl \in InFlags, seq \in SeqNo, ack \in SeqNo :
        s = Arriving(e, p, fl, seq, ack)
  <2>. DEFINE O == {i \in Index : Live(sock[i]) /\ addr[i] = [port |-> p, end |-> e]}
  <2>1. CASE O = {}
    BY <1>1, <2>1 DEF Arrivals
  <2>2. CASE O # {}
    <3>1. \E i \in O : \E fl \in InFlags,
                         a \in {sock[i].snd_una, sock[i].snd_nxt} :
            s = Arriving(e, p, fl, IF "SYN" \in fl THEN RemoteIss
                                   ELSE sock[i].rcv_nxt, a)
      BY <2>2 DEF Arrivals
    <3>2. \A i \in O : /\ sock[i].snd_una \in SeqNo
                        /\ sock[i].snd_nxt \in SeqNo
                        /\ sock[i].rcv_nxt \in SeqNo
      BY <1>1, Fields
    <3>. QED BY <1>1, <3>1, <3>2
  <2>. QED BY <2>1, <2>2
<1>. QED BY <1>2, <1>3

LEMMA PollsKeepSet ==
  ASSUME SetInv, PollQuiet \/ PollSegment
  PROVE  /\ SetInv'
         /\ \A i \in Index : \E s : PollStep(s, i)
<1>. SUFFICES \E s, r : /\ Arrival(s) /\ r \in SendResult /\ PollWith(s, r)
                        /\ segs' \in 0 .. MaxSegs
  BY PollKeepsSet, PollOfOne
<1>1. Results \subseteq SendResult /\ MaxSegs \in Nat /\ segs \in 0 .. MaxSegs
  BY SetAssumption DEF SetInv, Typed
<1>2. CASE PollQuiet
  <2>1. PICK r \in Results : PollWith(None, r) /\ segs' = segs
    BY <1>2 DEF PollQuiet
  <2>. QED BY <1>1, <2>1 DEF Arrival
<1>3. CASE PollSegment
  <2>1. /\ segs' \in 0 .. MaxSegs
        /\ \E e \in Ends, p \in {addr[i].port : i \in Index} \ {0} :
             \E s \in Arrivals(e, p), r \in Results : PollWith(s, r)
    BY <1>1, <1>3 DEF PollSegment
  <2>2. PICK e \in Ends, p \in {addr[i].port : i \in Index} \ {0} :
             \E s \in Arrivals(e, p), r \in Results : PollWith(s, r)
    BY <2>1
  <2>3. PICK s \in Arrivals(e, p), r \in Results : PollWith(s, r)
    BY <2>2
  <2>4. Arrival(s)
    BY ArrivalsArrive
  <2>. QED BY <1>1, <2>1, <2>3, <2>4
<1>. QED BY <1>2, <1>3

LEMMA OneMore ==
  ASSUME NEW a \in Nat, NEW b \in Nat, NEW c \in Nat, NEW p \in Nat,
         c <= b + 1
  PROVE  (a + c) - (p + 1) <= (a + b) - p
OBVIOUS

LEMMA SetStep == SetInv /\ [Next]_vars => SetInv'
<1>. SUFFICES ASSUME SetInv, [Next]_vars PROVE SetInv'
  OBVIOUS
<1>1. ClockInv'
  BY ClockStep DEF SetInv
<1>2. /\ passed \in Nat /\ passed <= MaxFrames /\ MaxFrames \in Nat
      /\ Ahead \in Nat /\ Behind \in Nat /\ Due = Ahead + Behind
  BY SetAssumption, DueNow DEF SetInv, Typed, ClockInv, Due
<1>3. CASE PollQuiet \/ PollSegment
  BY <1>3, PollsKeepSet
<1>4. CASE Frame
  <2>1. /\ passed < MaxFrames /\ passed' = passed + 1
        /\ UNCHANGED <<sock, addr, lead, opened, fin_at, opens, segs>>
    BY <1>4 DEF Frame
  <2>2. clock' = clock /\ Behind' <= Behind + 1 /\ Behind' \in Nat
    BY <1>1, <1>4, FrameClocked, DueNext DEF SetInv
  <2>3. Ahead' = Ahead /\ Due' = Ahead' + Behind'
    BY <2>2 DEF Ahead, Due
  <2>4. passed <= passed' /\ passed' <= MaxFrames
    BY <1>2, <2>1
  <2>5. Due' - passed' <= Due - passed
    <3>1. Due' = Ahead + Behind' /\ Due = Ahead + Behind /\ passed' = passed + 1
          /\ Behind' \in Nat /\ Behind' <= Behind + 1
      BY <1>2, <2>1, <2>2, <2>3
    <3>2. Ahead \in Nat /\ Behind \in Nat /\ passed \in Nat
      BY <1>2
    <3>3. (Ahead + Behind') - (passed + 1) <= (Ahead + Behind) - passed
      BY <3>1, <3>2, OneMore
    <3>. QED BY <3>1, <3>3, Zenon
  <2>. QED BY <1>1, <2>1, <2>4, <2>5, SetSame
<1>5. ASSUME NEW i \in Index, Connect(i) PROVE SetInv'
  BY <1>1, <1>5, ConnectKeepsSet
<1>6. ASSUME NEW i \in Index, Listen(i) PROVE SetInv'
  BY <1>1, <1>6, ListenKeepsSet
<1>7. ASSUME NEW i \in Index, Close(i) \/ Abort(i) PROVE SetInv'
  BY <1>1, <1>7, EndKeepsSet
<1>8. CASE UNCHANGED vars
  <2>1. UNCHANGED <<sock, addr, frame, clock, passed, lead, opened, fin_at,
                    opens, segs>>
    BY <1>8 DEF vars
  <2>2. Due' = Due
    BY <2>1 DEF Due, Ahead, Behind
  <2>3. /\ passed <= passed' /\ passed' <= MaxFrames
        /\ Due' - passed' <= Due - passed
    BY <1>2, <2>1, <2>2
  <2>. QED BY <1>1, <2>1, <2>3, SetSame
<1>. QED BY <1>3, <1>4, <1>5, <1>6, <1>7, <1>8 DEF Next

----------------------------------------------------------------------------
(* What holds of every behaviour. *)

(* The invariant of the set: the clock's, each socket's, and what the      *)
(* address, the origin and the timer of a socket say of one another.       *)
THEOREM InvariantHolds == Spec => []SetInv
<1>. QED BY SetStarts, SetStep, PTL DEF Spec

(* Every variable has its type: the books of every socket balance whatever *)
(* segments come for it, a socket that is connected has a port of the      *)
(* table and an end, and every time stays within its 16 bits.              *)
THEOREM TypeCorrect == Spec => []TypeOK
<1>1. SetInv => TypeOK
  <2>. SUFFICES ASSUME SetInv PROVE TypeOK
    OBVIOUS
  <2>1. /\ clock \in ClockT /\ frame \in Count
        /\ passed \in Nat /\ idle \in Nat /\ missed \in Nat
        /\ missed + idle <= passed /\ Due \in Nat
    BY DueNow DEF SetInv, ClockInv
  <2>2. /\ passed <= MaxFrames /\ MaxFrames \in Nat /\ lead \in [Index -> Tick]
        /\ opens \in 0 .. MaxOpens /\ segs \in 0 .. MaxSegs
    BY SetAssumption DEF SetInv, Typed
  <2>3. /\ passed \in 0 .. MaxFrames /\ idle \in 0 .. passed
        /\ missed \in 0 .. passed - idle
    BY <2>1, <2>2
  <2>4. /\ clock \in [ticks : Tick, last_frame : 0 .. FrameSpace - 1, now : Tick]
        /\ frame \in 0 .. FrameSpace - 1
    BY <2>1 DEF ClockT, Count
  <2>5. ASSUME NEW i \in Index
        PROVE  /\ sock[i] \in Socket
               /\ Live(sock[i]) => addr[i].port \in Port /\ addr[i].end \in Ends
               /\ sock[i].state = "LISTEN" => addr[i].port \in ListenPorts
               /\ fin_at[i] \in 0 .. MaxFrames \cup {None}
    <3>1. /\ sock[i] \in Socket /\ Placed(i) /\ Waits(i)
          /\ sock[i].timewait_age \in 0 .. TimeWaitTicks
          /\ fin_at[i] \in Nat \cup {None}
      BY Fields DEF SetInv, Typed
    <3>2. fin_at[i] # None => fin_at[i] \in Nat /\ fin_at[i] <= passed
      BY <2>1, <3>1, Consts DEF Waits
    <3>3. fin_at[i] \in 0 .. MaxFrames \cup {None}
      BY <2>1, <2>2, <3>2
    <3>. QED BY <3>1, <3>3 DEF Placed
  <2>6. opened \in [Index -> [how : {None, "connect", "listen"},
                              tick : Tick, nth : 0 .. MaxOpens]]
    BY DEF SetInv, Typed, Origin
  <2>7. fin_at \in [Index -> 0 .. MaxFrames \cup {None}]
    BY <2>5 DEF SetInv, Typed
  <2>. QED BY <2>2, <2>3, <2>4, <2>5, <2>6, <2>7 DEF TypeOK
<1>. QED BY <1>1, InvariantHolds, PTL

(* A segment has one owner, however many sockets listen on one port and    *)
(* whichever of their callers come twice: only a connect in another tick   *)
(* can take the port and the end of a connection that is open              *)
(* (mn_tcp.c:208).                                                         *)
THEOREM OwnersStayUnique == Spec => []OwnersUnique
<1>1. SetInv => OwnersUnique
  <2>. SUFFICES ASSUME SetInv, NEW i \in Index, NEW j \in Index, i # j,
                       Live(sock[i]), Live(sock[j]), addr[i] = addr[j],
                       opened[i].nth > opened[j].nth
                PROVE  /\ opened[i].how = "connect"
                       /\ opened[j].how = "connect" =>
                            opened[i].tick # opened[j].tick
    BY DEF OwnersUnique
  <2>1. InUse(i) /\ InUse(j)
    BY DEF InUse, Live
  <2>2. Apart(i, j) /\ Placed(i) /\ Placed(j)
    BY <2>1 DEF SetInv
  <2>3. opened[i].how = "connect"
    BY <2>2 DEF Apart
  <2>4. ASSUME opened[j].how = "connect", opened[i].tick = opened[j].tick
        PROVE  FALSE
    <3>1. /\ addr[i].port = local_port(opened[i].tick, i)
          /\ addr[j].port = local_port(opened[i].tick, j)
      BY <2>1, <2>2, <2>3, <2>4 DEF Placed
    <3>2. opened[i].tick \in Nat /\ i \in Nat /\ j \in Nat
      BY IndexNat, TickNat DEF SetInv, Typed, Origin
    <3>3. CASE i < j
      BY <3>1, <3>2, <3>3, PortsOfOneTick
    <3>4. CASE j < i
      BY <3>1, <3>2, <3>4, PortsOfOneTick
    <3>. QED BY <3>2, <3>3, <3>4
  <2>. QED BY <2>3, <2>4
<1>. QED BY <1>1, InvariantHolds, PTL

(* A socket in TIME_WAIT is kept for TIME_WAIT_TICKS frames after the last *)
(* FIN it acknowledged there (mn_tcp.c:611), however late the polls come,  *)
(* whatever arrives, and wherever the clock comes round.                   *)
THEOREM TimeWaitIsKept == Spec => []TimeWaitLasts
<1>1. SetInv => TimeWaitLasts
  BY DEF SetInv, Waits, TimeWaitLasts
<1>. QED BY <1>1, InvariantHolds, PTL

(* LineKept of one socket. *)
StaysOnLine(i) ==
  sock[i].state \in {"LISTEN", "SYN_RCVD"} =>
    \/ sock'[i].state \in {"LISTEN", "SYN_RCVD"} /\ addr'[i].port = addr[i].port
    \/ Synced(sock'[i]) /\ sock[i].state = "SYN_RCVD"
    \/ Close(i) \/ Abort(i)

(* Who listens goes on listening until a caller has completed the          *)
(* handshake: no caller that gives up, is reset or never answers, and no   *)
(* other socket of the set, takes the line away (REQUIREMENTS.md 5.11).    *)
THEOREM LinesAreKept == Spec => LineKept
<1>1. ASSUME SetInv, [Next]_vars, NEW i \in Index PROVE StaysOnLine(i)
  <2>1. ClockInv'
    BY <1>1, ClockStep DEF SetInv
  <2>2. CASE PollQuiet \/ PollSegment
    <3>1. PICK s : PollStep(s, i)
      BY <1>1, <2>2, PollsKeepSet
    <3>. QED BY <3>1 DEF PollStep, StaysOnLine
  <2>3. CASE sock'[i] = sock[i] /\ addr'[i] = addr[i]
    BY <2>3 DEF StaysOnLine
  <2>4. CASE Frame \/ UNCHANGED vars
    BY <2>3, <2>4 DEF Frame, vars
  <2>5. ASSUME NEW j \in Index, Connect(j) \/ Listen(j) PROVE StaysOnLine(i)
    <3>1. sock[j].state = "CLOSED"
          /\ (i # j => sock'[i] = sock[i] /\ addr'[i] = addr[i])
      BY <1>1, <2>1, <2>5, ConnectKeepsSet, ListenKeepsSet
    <3>. QED BY <2>3, <3>1 DEF StaysOnLine
  <2>6. ASSUME NEW j \in Index, Close(j) \/ Abort(j) PROVE StaysOnLine(i)
    <3>1. i # j => sock'[i] = sock[i] /\ addr'[i] = addr[i]
      BY <1>1, <2>1, <2>6, EndKeepsSet
    <3>. QED BY <2>3, <2>6, <3>1 DEF StaysOnLine
  <2>. QED BY <1>1, <2>2, <2>4, <2>5, <2>6 DEF Next
<1>2. SetInv /\ [Next]_vars => [\A i \in Index : StaysOnLine(i)]_vars
  BY <1>1
<1>. QED BY <1>2, InvariantHolds, PTL DEF Spec, LineKept, StaysOnLine

(* In its TickSpace values the clock is the number of frames that have     *)
(* passed but for whole turns of the frame counter between two calls of    *)
(* tick() (api.c:59-71): whichever calls those are, and however often the  *)
(* clock itself comes round, no other frame is lost and none counted       *)
(* twice.                                                                  *)
THEOREM ClockLosesNothing == Spec => []ClockExact
<1>1. ClockInv => ClockExact
  BY DEF ClockInv, ClockExact
<1> QED BY <1>1, ClockStarts, ClockStep, PTL DEF Spec

=============================================================================
