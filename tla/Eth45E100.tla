----------------------------- MODULE Eth45E100 -----------------------------
(***************************************************************************)
(* The Ethernet driver src/hal/mn_eth45e100.c and the part of the          *)
(* controller it sees: one buffer the processor can read, and behind it    *)
(* the frames that have arrived since.  Writing $01 then $03 to CTRL2      *)
(* rotates: the oldest waiting frame comes into view.                      *)
(*                                                                         *)
(* A frame is a record with a field ok; one that is not ok has a bad CRC,  *)
(* or is no longer than its checksum.                                      *)
(***************************************************************************)
EXTENDS Integers, Sequences

CONSTANTS
  RxBufs,   \* the frames the controller keeps; more are lost
  NoFrame   \* what is in view before the first frame

(* mn_eth45e100_init *)
Idle == [view |-> NoFrame, waiting |-> << >>]

Room(eth) == Len(eth.waiting) < RxBufs
Arrive(eth, f) == [eth EXCEPT !.waiting = Append(@, f)]

Rotated(eth) == [view |-> Head(eth.waiting), waiting |-> Tail(eth.waiting)]

(* [mutant of eth_rx: reads the buffer, then rotates] *)
eth_rx_Late(eth) ==
  IF eth.waiting = << >> THEN [eth |-> eth, frame |-> NoFrame]
  ELSE [eth |-> Rotated(eth), frame |-> eth.view]

(* The frame pulled, NoFrame when there is none or it is not ok: a bad     *)
(* frame is consumed all the same.                                         *)
eth_rx(eth) ==
  IF eth.waiting = << >> THEN [eth |-> eth, frame |-> NoFrame]
  ELSE [eth |-> Rotated(eth),
        frame |-> IF Rotated(eth).view.ok THEN Rotated(eth).view ELSE NoFrame]

============================================================================
