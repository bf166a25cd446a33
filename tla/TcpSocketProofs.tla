-------------------------- MODULE TcpSocketProofs --------------------------
(***************************************************************************)
(* Proofs about one TCP socket in an open environment (module TcpSocket),  *)
(* and about its rings (module TcpRings), for every value of the           *)
(* constants.  The inductive invariant is Good of MnTcpProofs; there is    *)
(* one step per action, each by the lemma about the function it calls.     *)
(***************************************************************************)
EXTENDS TcpRings, MnTcpProofs

IInv == Good(t) /\ inputs \in 0 .. MaxInputs

(* The segments of the open environment are segments. *)
LEMMA ArrivingType ==
  ASSUME Good(t), NEW i \in SeqNo, NEW j \in SeqNo, NEW fl \in FlagSets,
         NEW wnd \in Windows, NEW mss \in MssOptions, NEW data \in Seq(Byte)
  PROVE  Arriving(i, j, fl, wnd, mss, data) \in Segment
<1>1. t.rcv_nxt \in SeqNo /\ t.snd_una \in SeqNo
  BY Fields DEF Good
<1>2. i \in 0 .. SeqSpace - 1 /\ j \in 0 .. SeqSpace - 1
  BY DEF SeqNo
<1>3. SeqAdd(t.rcv_nxt, i) \in SeqNo /\ SeqAdd(t.snd_una, j) \in SeqNo
  BY <1>1, <1>2, SeqAddType
<1>4. fl \in SUBSET SegFlags /\ wnd \in Nat /\ mss \in Nat
  BY SocketAssumption
<1>. DEFINE m == IF "SYN" \in fl THEN mss ELSE 0
<1>5. m \in Nat
  BY <1>4
<1>. HIDE DEF m
<1>. QED BY <1>3, <1>4, <1>5 DEF Arriving, Segment, m

(* What one step does, for the invariant and the action properties alike.  *)
LEMMA InputKept ==
  ASSUME IInv, Input
  PROVE  Kept(t, t') /\ inputs' \in 0 .. MaxInputs
<1>1. Good(t) /\ t.state \notin {"CLOSED", "LISTEN"}
  BY DEF IInv, Input
<1>2. PICK i \in SeqNear, j \in AckNear, fl \in FlagSets, wnd \in Windows,
           mss \in MssOptions, data \in Payloads :
             t' = segment_input(t, Arriving(i, j, fl, wnd, mss, data))
  BY DEF Input
<1>3. Arriving(i, j, fl, wnd, mss, data) \in Segment
  BY <1>1, SocketAssumption, ArrivingType
<1>4. Kept(t, t')
  BY <1>1, <1>2, <1>3, SegmentInputKept
<1>5. inputs' \in 0 .. MaxInputs
  BY SocketAssumption DEF IInv, Input
<1>. QED BY <1>4, <1>5

LEMMA PollKept ==
  ASSUME IInv, Poll
  PROVE  Kept(t, t')
<1>1. PICK d \in Ticks, link \in Links : t' = poll_one(t, d, link).t
  BY DEF Poll
<1>. QED BY <1>1, PollOneKept, SocketAssumption DEF IInv

LEMMA IInvInit == Init => IInv
BY FreshGood, SocketAssumption DEF Init, IInv

LEMMA IInvStep == IInv /\ [Next]_vars => IInv'
<1>. SUFFICES ASSUME IInv, [Next]_vars
              PROVE  Good(t') /\ inputs' \in 0 .. MaxInputs
  BY DEF IInv, Good, RingsHold, Books, Unopened, Balanced, Agrees, Synced
<1>. USE DEF IInv
<1>1. CASE Connect
  <2>1. PICK iss \in Isses, r \in SendResult : t' = mn_tcp_connect(t, iss, r).t
    BY <1>1 DEF Connect
  <2>. QED BY <1>1, <2>1, ConnectGood, SocketAssumption DEF Connect
<1>2. CASE Listen
  BY <1>2, ListenGood DEF Listen
<1>3. CASE Write
  BY <1>3, SendGood, SocketAssumption DEF Write
<1>4. CASE Read
  BY <1>4, RecvGood, SocketAssumption DEF Read
<1>5. CASE Close
  BY <1>5, CloseGood DEF Close
<1>6. CASE Abort
  BY <1>6, AbortGood DEF Abort
<1>7. CASE Input
  BY <1>7, InputKept DEF Kept
<1>8. CASE Accept
  <2>1. PICK i \in SeqNear, fl \in FlagSets, wnd \in Windows,
             mss \in MssOptions, iss \in Isses, r \in SendResult :
               t' = passive_open(t, Arriving(i, 0, fl, wnd, mss, << >>), iss, r).t
    BY <1>8 DEF Accept
  <2>2. inputs' \in 0 .. MaxInputs
    BY <1>8, SocketAssumption DEF Accept
  <2>3. 0 \in SeqNo /\ << >> \in Seq(Byte)
    BY InSeqNo, EmptyBytes
  <2>4. Arriving(i, 0, fl, wnd, mss, << >>) \in Segment
    BY <2>3, SocketAssumption, ArrivingType
  <2>. QED BY <1>8, <2>1, <2>2, <2>4, PassiveOpenGood, SocketAssumption DEF Accept
<1>9. CASE Poll
  BY <1>9, PollKept DEF Kept, Poll
<1>10. CASE UNCHANGED vars
  BY <1>10 DEF vars
<1>. QED
  BY <1>1, <1>2, <1>3, <1>4, <1>5, <1>6, <1>7, <1>8, <1>9, <1>10 DEF Next


THEOREM InvariantHolds == Spec => []IInv
<1>1. Init => IInv
  BY IInvInit
<1>2. IInv /\ [Next]_vars => IInv'
  BY IInvStep
<1>. QED BY <1>1, <1>2, PTL DEF Spec

(* The socket keeps its type in every environment: no ring ever holds more *)
(* than its size, nothing is in flight that is not queued, and the timers  *)
(* stay in range.                                                          *)
THEOREM TypeCorrect == Spec => []TypeOK
<1>1. IInv => TypeOK
  BY DEF IInv, Good, TypeOK
<1>. QED BY <1>1, InvariantHolds, PTL

(* snd_una .. snd_nxt is exactly what inflight, or the FIN, says it is, so *)
(* handle_ack never retires a byte that was not sent.                      *)
THEOREM BooksAlwaysBalance == Spec => []BooksBalance
<1>1. IInv => BooksBalance
  BY DEF IInv, Good, BooksBalance
<1>. QED BY <1>1, InvariantHolds, PTL

(* The state of the connection agrees with whose FIN was sent, seen and    *)
(* acknowledged.                                                           *)
THEOREM StateAlwaysAgrees == Spec => []StateAgrees
<1>1. IInv => StateAgrees
  BY DEF IInv, Good, StateAgrees
<1>. QED BY <1>1, InvariantHolds, PTL

(* No segment and no timer closes a connection without a flag that tells   *)
(* the application why, unless both ends have finished.                    *)
THEOREM ClosesForAReason == Spec => ClosedForAReason
<1>. DEFINE G == (Input \/ Poll) /\ t.state # "CLOSED" /\ t'.state = "CLOSED"
                   => Reason(t')
<1>1. IInv /\ [Next]_vars => [G]_vars
  BY InputKept, PollKept DEF Kept
<1>2. Spec => [][G]_vars
  BY <1>1, InvariantHolds, PTL DEF Spec
<1>. QED BY <1>2 DEF ClosedForAReason

(* mn_tcp_send and mn_tcp_close leave the receiving side alone. *)
LEMMA SendingSide ==
  ASSUME NEW u, Good(u), NEW d \in Seq(Byte)
  PROVE  /\ mn_tcp_send(u, d).rcvq = u.rcvq
         /\ mn_tcp_send(u, d).rcv_nxt = u.rcv_nxt
         /\ mn_tcp_close(u).rcvq = u.rcvq
         /\ mn_tcp_close(u).rcv_nxt = u.rcv_nxt
BY DEF Good, Socket, mn_tcp_send, mn_tcp_close

(* One step of the socket never moves the right edge of the window left.   *)
LEMMA EdgeStep ==
  ASSUME IInv, [Next]_vars, Synced(t), Synced(t')
  PROVE  SEQ_LEQ(Edge(t), Edge(t'))
<1>1. Good(t) /\ Good(t')
  BY IInvStep DEF IInv
<1>2. SEQ_LEQ(Edge(t), Edge(t))
  BY DEF SEQ_LEQ
<1>3. t.state \notin {"CLOSED", "LISTEN"} /\ t'.state # "CLOSED"
  BY DEF Synced
<1>4. CASE Connect
  BY <1>2, <1>3, <1>4 DEF Connect, mn_tcp_connect, Silent
<1>5. CASE Listen
  BY <1>2, <1>3, <1>5 DEF Listen, mn_tcp_listen
<1>6. CASE Write
  <2>1. t'.rcvq = t.rcvq /\ t'.rcv_nxt = t.rcv_nxt
    BY <1>1, <1>6, SendingSide, SocketAssumption DEF Write
  <2>. QED BY <1>1, <2>1, SameEdge
<1>7. CASE Read
  <2>1. Len(t'.rcvq) <= Len(t.rcvq) /\ t'.rcv_nxt = t.rcv_nxt
    BY <1>1, <1>7, RecvGood, SocketAssumption DEF Read
  <2>. QED BY <1>1, <2>1, EdgeOpens
<1>8. CASE Close
  <2>1. t'.rcvq = t.rcvq /\ t'.rcv_nxt = t.rcv_nxt
    BY <1>1, <1>8, SendingSide, EmptyBytes DEF Close
  <2>. QED BY <1>1, <2>1, SameEdge
<1>9. CASE Abort
  BY <1>1, <1>3, <1>9, AbortGood DEF Abort
<1>10. CASE Input
  BY <1>10, InputKept DEF Kept
<1>11. CASE Accept
  BY <1>3, <1>11 DEF Accept
<1>12. CASE Poll
  BY <1>12, PollKept DEF Kept
<1>13. CASE UNCHANGED vars
  BY <1>2, <1>13 DEF vars
<1>. QED
  BY <1>4, <1>5, <1>6, <1>7, <1>8, <1>9, <1>10, <1>11, <1>12, <1>13 DEF Next

(* Whatever arrives and whatever is read, the peer is never told that      *)
(* sequence space it was offered is no longer there.                       *)
THEOREM EdgeStaysOpen == Spec => EdgeNeverRetreats
<1>. DEFINE G == Synced(t) /\ Synced(t') => SEQ_LEQ(Edge(t), Edge(t'))
<1>1. IInv /\ [Next]_vars => [G]_vars
  BY EdgeStep
<1>2. Spec => [][G]_vars
  BY <1>1, InvariantHolds, PTL DEF Spec
<1>. QED BY <1>2 DEF EdgeNeverRetreats

----------------------------------------------------------------------------
(* The rings: the type invariant says that the queues fit them. *)

SndProofs == INSTANCE RingProofs WITH Size <- SndBuf, Datum <- Byte
RcvProofs == INSTANCE RingProofs WITH Size <- RcvBuf, Datum <- Byte

(* In any number of steps, whatever the peer sends and the application     *)
(* writes, what the socket has queued is served by its rings.              *)
THEOREM RingsAlwaysServe == Spec => []RingsServe
<1>1. TypeOK => RingsServe
  <2> SUFFICES ASSUME TypeOK PROVE RingsServe
    OBVIOUS
  <2>1. /\ t.sndq \in Seq(Byte) /\ Len(t.sndq) <= SndBuf
        /\ t.rcvq \in Seq(Byte) /\ Len(t.rcvq) <= RcvBuf
    BY DEF TypeOK, RingsHold, Socket
  <2>2. SndBuf \in Nat \ {0} /\ RcvBuf \in Nat \ {0}
    BY TcpAssumption
  <2>3. t.sndq \in SndProofs!Served
    BY <2>1, <2>2, ByteAssumption, SndProofs!QueuesServed DEF SndProofs!Sized
  <2>4. t.rcvq \in RcvProofs!Served
    BY <2>1, <2>2, ByteAssumption, RcvProofs!QueuesServed DEF RcvProofs!Sized
  <2>5. SndRing!Served = SndProofs!Served
    BY DEF SndRing!Served, SndProofs!Served, SndRing!Held, SndProofs!Held,
      SndRing!Failed, SndProofs!Failed, SndRing!Rings, SndProofs!Rings,
      SndRing!Contents, SndProofs!Contents, SndRing!Serves,
      SndProofs!Serves, SndRing!Appends, SndProofs!Appends, SndRing!Reads,
      SndProofs!Reads, SndRing!Retires, SndProofs!Retires, SndRing!Put,
      SndProofs!Put, SndRing!Peek, SndProofs!Peek, SndRing!Retire,
      SndProofs!Retire, SndRing!ring_read, SndProofs!ring_read,
      SndRing!ring_write, SndProofs!ring_write, SndRing!Wrap,
      SndProofs!Wrap, SndRing!UpToEnd, SndProofs!UpToEnd, SndRing!Room,
      SndProofs!Room, SndRing!Pos, SndProofs!Pos
  <2>6. RcvRing!Served = RcvProofs!Served
    BY DEF RcvRing!Served, RcvProofs!Served, RcvRing!Held, RcvProofs!Held,
      RcvRing!Failed, RcvProofs!Failed, RcvRing!Rings, RcvProofs!Rings,
      RcvRing!Contents, RcvProofs!Contents, RcvRing!Serves,
      RcvProofs!Serves, RcvRing!Appends, RcvProofs!Appends, RcvRing!Reads,
      RcvProofs!Reads, RcvRing!Retires, RcvProofs!Retires, RcvRing!Put,
      RcvProofs!Put, RcvRing!Peek, RcvProofs!Peek, RcvRing!Retire,
      RcvProofs!Retire, RcvRing!ring_read, RcvProofs!ring_read,
      RcvRing!ring_write, RcvProofs!ring_write, RcvRing!Wrap,
      RcvProofs!Wrap, RcvRing!UpToEnd, RcvProofs!UpToEnd, RcvRing!Room,
      RcvProofs!Room, RcvRing!Pos, RcvProofs!Pos
  <2>7. QED BY <2>3, <2>4, <2>5, <2>6 DEF RingsServe
<1>2. QED BY <1>1, TypeCorrect, PTL

============================================================================
