------------------------------ MODULE TcpRings ------------------------------
(***************************************************************************)
(* A socket and its two rings.  TcpSocket keeps the socket's queues as     *)
(* sequences; mn_tcp.c keeps each in a ring of its own, somewhere in the   *)
(* ring, over whatever bytes were there before.                            *)
(***************************************************************************)
EXTENDS TcpSocket

SndRing == INSTANCE Ring WITH Size <- SndBuf, Datum <- Byte
RcvRing == INSTANCE Ring WITH Size <- RcvBuf, Datum <- Byte

ASSUME ByteAssumption == Byte # {}

(* Whatever a socket has queued, to send or to be read, and wherever in    *)
(* its ring: what is then put, sent, sent again, read or retired is what   *)
(* the sequence says (mn_tcp.c:42-57, 246, 281, 344, 362).                 *)
RingsServe == t.sndq \in SndRing!Served /\ t.rcvq \in RcvRing!Served

=============================================================================
