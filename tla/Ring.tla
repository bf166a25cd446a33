-------------------------------- MODULE Ring --------------------------------
(***************************************************************************)
(* The rings in external memory of src/net/mn_tcp.c, byte by byte: an      *)
(* array, where its oldest byte is and how many it holds.  A copy to or    *)
(* from a ring is at most two copies of memory, up to the end of the array *)
(* and on from its start.  MnTcp takes a ring for the sequence of its      *)
(* bytes; RingProofs proves, for rings of any size, that it may.           *)
(*                                                                         *)
(* Positions are reduced % the size in the code, once in every sum of a    *)
(* position and a length, neither of them larger than the size: the        *)
(* subtraction of Wrap.                                                    *)
(***************************************************************************)
EXTENDS Integers, Sequences

CONSTANTS
  Size,   \* MN_TCP_RCVBUF, MN_TCP_SNDBUF: positive
  Datum   \* the values of a byte

Pos == 0 .. Size - 1
Rings == [mem : [Pos -> Datum], head : Pos, len : 0 .. Size]

Wrap(p) == IF p < Size THEN p ELSE p - Size

(* The bytes up to the end of the array, when len of them start at pos.    *)
UpToEnd(pos, len) == IF Size - pos > len THEN len ELSE Size - pos

ring_read(mem, pos, len) ==
  LET first == UpToEnd(pos, len)
  IN [k \in 1 .. len |-> IF k <= first THEN mem[pos + k - 1]
                         ELSE mem[k - first - 1]]

(* [mutant of ring_write: the second copy starts where the first did] *)
ring_write_Again(mem, pos, src) ==
  LET first == UpToEnd(pos, Len(src))
  IN [i \in Pos |-> IF pos <= i /\ i < pos + first THEN src[i - pos + 1]
                    ELSE IF i < Len(src) - first THEN src[i + 1]
                    ELSE mem[i]]

ring_write(mem, pos, src) ==
  LET first == UpToEnd(pos, Len(src))
  IN [i \in Pos |-> IF pos <= i /\ i < pos + first THEN src[i - pos + 1]
                    ELSE IF i < Len(src) - first THEN src[first + i + 1]
                    ELSE mem[i]]

Room(r) == Size - r.len

(* What mn_tcp_send and ring_put do with data there is room for. *)
Put(r, data) ==
  [mem |-> ring_write(r.mem, Wrap(r.head + r.len), data), head |-> r.head,
   len |-> r.len + Len(data)]

(* What emit and mn_tcp_recv read: n bytes, off bytes past the oldest.     *)
Peek(r, off, n) == ring_read(r.mem, Wrap(r.head + off), n)

(* What after_recv and handle_ack do: the n oldest are gone. *)
Retire(r, n) == [mem |-> r.mem, head |-> Wrap(r.head + n), len |-> r.len - n]

(* The sequence MnTcp takes it for. *)
Contents(r) == [k \in 1 .. r.len |-> r.mem[Wrap(r.head + k - 1)]]

----------------------------------------------------------------------------
(* A ring is a queue of bytes: what is put comes after what is there, what *)
(* is read is what was put, in order and wherever the array ends, and what *)
(* is dropped is the oldest (mn_tcp.c:42-73, 246-248, 281-282, 344-346).   *)
Appends(r, data) ==
  Put(r, data) \in Rings /\ Contents(Put(r, data)) = Contents(r) \o data
Reads(r, off, n) == Peek(r, off, n) = SubSeq(Contents(r), off + 1, off + n)
Retires(r, n) ==
  Retire(r, n) \in Rings /\ Contents(Retire(r, n)) = SubSeq(Contents(r), n + 1, r.len)

(* The queues that no ring fails. *)
Serves(r) ==
  /\ \A n \in 0 .. Room(r) : \A data \in [1 .. n -> Datum] : Appends(r, data)
  /\ \A off \in 0 .. r.len : \A n \in 0 .. r.len - off : Reads(r, off, n)
  /\ \A n \in 0 .. r.len : Retires(r, n)

Held == {Contents(r) : r \in Rings}
Failed == {Contents(r) : r \in {x \in Rings : ~Serves(x)}}
Served == Held \ Failed

=============================================================================
