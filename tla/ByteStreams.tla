---------------------------- MODULE ByteStreams ----------------------------
(***************************************************************************)
(* What a TCP connection promises its two applications, without segments,  *)
(* sequence numbers or timers: two byte streams, one each way.  An end     *)
(* accepts bytes from its application, they arrive at the other end in     *)
(* order and once, the other application is given what has arrived, and it *)
(* is told of the end of the stream only when everything accepted has      *)
(* arrived; after that no more is accepted.                                *)
(*                                                                         *)
(* Byte i of a stream is written as its position, i.                       *)
(***************************************************************************)
EXTENDS Naturals, Sequences

CONSTANTS
  Ends,     \* the two ends
  Peer      \* the other end of each

VARIABLES
  accepted, \* how many bytes each end has accepted
  arrived,  \* the bytes that have arrived at each end, from its peer
  given,    \* how many of those its application has been given
  eof       \* whether it has been told of the end of its peer's stream

vars == <<accepted, arrived, given, eof>>

Init ==
  /\ accepted = [e \in Ends |-> 0]
  /\ arrived = [e \in Ends |-> << >>]
  /\ given = [e \in Ends |-> 0]
  /\ eof = [e \in Ends |-> FALSE]

Accept(e) ==
  /\ ~eof[Peer[e]]
  /\ accepted'[e] > accepted[e] /\ accepted' = [accepted EXCEPT ![e] = accepted'[e]]
  /\ UNCHANGED <<arrived, given, eof>>

(* More of the stream arrives, or its end, or both. *)
Arrive(e) ==
  /\ ~eof[e]
  /\ \E n \in Len(arrived[e]) .. accepted[Peer[e]] :
       /\ arrived' = [arrived EXCEPT ![e] = [i \in 1 .. n |-> i]]
       /\ \E end \in BOOLEAN :
            /\ end => n = accepted[Peer[e]]
            /\ eof' = [eof EXCEPT ![e] = end]
  /\ UNCHANGED <<accepted, given>>

Give(e) ==
  /\ \E n \in given[e] + 1 .. Len(arrived[e]) :
       given' = [given EXCEPT ![e] = n]
  /\ UNCHANGED <<accepted, arrived, eof>>

Next == \E e \in Ends : Accept(e) \/ Arrive(e) \/ Give(e)

Spec == Init /\ [][Next]_vars

============================================================================
