----------------------------- MODULE TcpSocket -----------------------------
(***************************************************************************)
(* One socket of mn_tcp.c in an open environment: the application makes    *)
(* any call of mn_tcp.h at any time, any segment of the four-tuple may     *)
(* arrive, in any state, and the link takes or refuses each frame.  What   *)
(* holds here holds whatever the peer is and whatever the network does.    *)
(*                                                                         *)
(* The constants that choose the inputs bound the model checker's work.    *)
(* The proofs use no more of them than their types, so they cover every    *)
(* segment, every link and any number of steps.                            *)
(***************************************************************************)
EXTENDS MnTcp

CONSTANTS
  Isses,       \* the values of initial_seq()
  Caps,        \* capacities the application reads with
  Writes,      \* what the application offers to mn_tcp_send
  FlagSets,    \* flag bytes of a segment that arrives
  SeqNear,     \* its sequence number less rcv_nxt
  AckNear,     \* its acknowledgement less snd_una
  Windows,     \* its window
  MssOptions,  \* the MSS option if it is a SYN, 0 for none
  Payloads,    \* its payload
  Links,       \* what the link may do during one poll
  Ticks,       \* ticks that may pass between two polls
  MaxInputs    \* bound on the segments that arrive

ASSUME SocketAssumption ==
  /\ Isses \subseteq SeqNo /\ SeqNear \subseteq SeqNo /\ AckNear \subseteq SeqNo
  /\ Caps \subseteq Nat /\ Windows \subseteq Nat /\ Ticks \subseteq Nat
  /\ MssOptions \subseteq Nat
  /\ Writes \subseteq Seq(Byte) /\ Payloads \subseteq Seq(Byte)
  /\ FlagSets \subseteq SUBSET SegFlags
  /\ Links \subseteq Link
  /\ MaxInputs \in Nat

VARIABLES
  t,       \* the socket
  inputs   \* how many segments have arrived

vars == <<t, inputs>>

Init == t = FreshSocket /\ inputs = 0

Connect ==
  /\ \E iss \in Isses, r \in SendResult : t' = mn_tcp_connect(t, iss, r).t
  /\ UNCHANGED inputs

Listen == t' = mn_tcp_listen(t) /\ UNCHANGED inputs

Write == (\E data \in Writes : t' = mn_tcp_send(t, data)) /\ UNCHANGED inputs

Read == (\E cap \in Caps : t' = mn_tcp_recv(t, cap)) /\ UNCHANGED inputs

Close == t' = mn_tcp_close(t) /\ UNCHANGED inputs

Abort == (\E r \in SendResult : t' = mn_tcp_abort(t, r).t) /\ UNCHANGED inputs

(* mn_tcp_input: a segment for the socket that owns its four-tuple, ...   *)
Arriving(i, j, fl, wnd, mss, data) ==
  [fl |-> fl, seq |-> SeqAdd(t.rcv_nxt, i), ack |-> SeqAdd(t.snd_una, j),
   wnd |-> wnd, mss |-> IF "SYN" \in fl THEN mss ELSE 0, data |-> data]

Input ==
  /\ inputs < MaxInputs /\ inputs' = inputs + 1
  /\ t.state \notin {"CLOSED", "LISTEN"}
  /\ \E i \in SeqNear, j \in AckNear, fl \in FlagSets, wnd \in Windows,
        mss \in MssOptions, data \in Payloads :
       t' = segment_input(t, Arriving(i, j, fl, wnd, mss, data))

(* ... and a SYN for a listener. *)
Accept ==
  /\ inputs < MaxInputs /\ inputs' = inputs + 1
  /\ t.state = "LISTEN"
  /\ \E i \in SeqNear, fl \in FlagSets, wnd \in Windows,
        mss \in MssOptions, iss \in Isses, r \in SendResult :
       /\ fl \cap {"SYN", "ACK", "RST"} = {"SYN"}
       /\ t' = passive_open(t, Arriving(i, 0, fl, wnd, mss, << >>), iss, r).t

(* mn_tcp_poll of this socket. *)
Poll ==
  /\ \E d \in Ticks, link \in Links : t' = poll_one(t, d, link).t
  /\ UNCHANGED inputs

Next ==
  \/ Connect \/ Listen \/ Write \/ Read \/ Close \/ Abort
  \/ Input \/ Accept \/ Poll

Spec == Init /\ [][Next]_vars

----------------------------------------------------------------------------
(* Properties. *)

(* The socket has its type, which bounds its timers, and its rings hold.   *)
TypeOK ==
  /\ t \in Socket
  /\ inputs \in 0 .. MaxInputs
  /\ RingsHold(t)

(* The sender's books balance: module MnTcp says what Books are.          *)
BooksBalance == Books(t)

(* The state says what has happened: whose FIN has been sent, seen and     *)
(* acknowledged.                                                           *)
StateAgrees == Agrees(t)

(* A connection that no call of the application ends is closed for a       *)
(* reason the application can see: a failure flag, or both FINs done.      *)
ClosedForAReason ==
  [][(Input \/ Poll) /\ t.state # "CLOSED" /\ t'.state = "CLOSED"
       => Reason(t')]_vars

(* The right edge of the receive window never moves left, whatever is      *)
(* received, read, retransmitted or refused (docs/ABI.md: "The window is   *)
(* advertised by its right edge").                                         *)
EdgeNeverRetreats ==
  [][Synced(t) /\ Synced(t') => SEQ_LEQ(Edge(t), Edge(t'))]_vars

============================================================================
