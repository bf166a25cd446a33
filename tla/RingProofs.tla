----------------------------- MODULE RingProofs -----------------------------
(***************************************************************************)
(* Rings of any size and bytes of any values are queues.  Nothing here is  *)
(* a matter of steps: the theorems are about what the copies compute, each *)
(* by cases on the side of the array's end that a byte is on.              *)
(***************************************************************************)
EXTENDS Ring, TLAPS

(* What is asked of Size. *)
Sized == Size \in Nat \ {0}

(* A position stays in the array. *)
LEMMA WrapType == ASSUME Sized, NEW p \in Pos, NEW n \in 0 .. Size
                  PROVE  Wrap(p + n) \in Pos
  BY DEF Pos, Wrap, Sized

(* A ring's bytes are a sequence as long as it says. *)
LEMMA ContentsType == ASSUME Sized, NEW r \in Rings
                      PROVE  /\ Contents(r) \in Seq(Datum)
                             /\ Len(Contents(r)) = r.len
                             /\ DOMAIN Contents(r) = 1 .. r.len
<1>1. /\ r.head \in 0 .. Size - 1 /\ r.len \in 0 .. Size
      /\ r.mem \in [Pos -> Datum]
  BY DEF Rings, Pos
<1>2. ASSUME NEW k \in 1 .. r.len
      PROVE  r.mem[Wrap(r.head + k - 1)] \in Datum
  <2>1. Wrap(r.head + k - 1) \in Pos
    BY <1>1 DEF Pos, Wrap, Sized
  <2>2. QED BY <1>1, <2>1
<1>3. QED BY <1>1, <1>2 DEF Contents, Sized

(* Bytes put into a ring follow those it holds (mn_tcp.c:246, 344).        *)
THEOREM PutAppends ==
  ASSUME Sized, NEW r \in Rings, NEW data \in Seq(Datum), Len(data) <= Room(r)
  PROVE  Appends(r, data)
<1> DEFINE at == Wrap(r.head + r.len)
           n == Len(data)
           q == Put(r, data)
           head == r.head
           len == r.len
           first == UpToEnd(at, n)
<1>1. /\ head \in 0 .. Size - 1 /\ len \in 0 .. Size
      /\ r.mem \in [0 .. Size - 1 -> Datum] /\ n \in Nat /\ len + n <= Size
      /\ Size \in Nat /\ Size > 0
  BY DEF Rings, Pos, Room, Sized
<1>2. at \in 0 .. Size - 1 /\ at = IF head + len < Size THEN head + len
                                   ELSE head + len - Size
  BY <1>1 DEF Wrap
<1>3. \A k \in 1 .. n : data[k] \in Datum
  OBVIOUS
<1>4. first \in 0 .. n /\ first <= Size - at /\ (first = n \/ first = Size - at)
  BY <1>1, <1>2 DEF UpToEnd
<1>5. \A i \in 0 .. Size - 1 :
        q.mem[i] = IF at <= i /\ i < at + first THEN data[i - at + 1]
                   ELSE IF i < n - first THEN data[first + i + 1]
                   ELSE r.mem[i]
  BY <1>1 DEF Put, ring_write, Rings, Pos
<1>6. /\ q.head = head /\ q.len = len + n
      /\ q = [mem |-> q.mem, head |-> head, len |-> len + n]
      /\ DOMAIN q.mem = 0 .. Size - 1
      /\ q.mem = [i \in 0 .. Size - 1 |-> q.mem[i]]
  <2>1. q = [mem |-> ring_write(r.mem, at, data), head |-> head, len |-> len + n]
    BY DEF Put
  <2>2. /\ DOMAIN ring_write(r.mem, at, data) = 0 .. Size - 1
        /\ ring_write(r.mem, at, data)
             = [i \in 0 .. Size - 1 |-> ring_write(r.mem, at, data)[i]]
    BY DEF ring_write, Pos
  <2> HIDE DEF at, q, head, len, n
  <2>3. QED BY <2>1, <2>2
<1> HIDE DEF at, n, q, head, len, first
<1>7. ASSUME NEW i \in 0 .. Size - 1
      PROVE  /\ q.mem[i] \in Datum
             /\ \A k \in 1 .. n : i = Wrap(at + k - 1) => q.mem[i] = data[k]
             /\ (\A k \in 1 .. n : i # Wrap(at + k - 1)) => q.mem[i] = r.mem[i]
  <2>3. CASE at <= i /\ i < at + first
    <3>1. q.mem[i] = data[i - at + 1] /\ i - at + 1 \in 1 .. n
      BY <1>5, <1>4, <2>3, <1>2, <1>1
    <3>2. i = Wrap(at + (i - at + 1) - 1)
      BY <1>1, <1>2, <1>4, <2>3 DEF Wrap
    <3>3. \A k \in 1 .. n : i = Wrap(at + k - 1) => k = i - at + 1
      BY <1>1, <1>2, <1>4, <2>3 DEF Wrap
    <3>4. QED BY <1>3, <3>1, <3>2, <3>3
  <2>4. CASE ~(at <= i /\ i < at + first) /\ i < n - first
    <3>1. first + i + 1 \in 1 .. n /\ first = Size - at
      BY <1>4, <2>4, <1>2, <1>1
    <3>2. q.mem[i] = data[first + i + 1]
      BY <1>5, <2>4
    <3>3. i = Wrap(at + (first + i + 1) - 1)
      BY <1>1, <1>2, <3>1, <2>4 DEF Wrap
    <3>4. ASSUME NEW k \in 1 .. n, i = Wrap(at + k - 1)
          PROVE  k = first + i + 1
      BY <1>1, <1>2, <1>4, <2>4, <3>1, <3>4 DEF Wrap
    <3>5. QED BY <1>3, <3>1, <3>2, <3>3, <3>4
  <2>5. CASE ~(at <= i /\ i < at + first) /\ ~(i < n - first)
    <3>1. q.mem[i] = r.mem[i]
      BY <1>5, <2>5
    <3>2. \A k \in 1 .. n : i # Wrap(at + k - 1)
      BY <1>1, <1>2, <1>4, <2>5 DEF Wrap
    <3>3. QED BY <3>1, <3>2, <1>1
  <2>6. QED BY <2>3, <2>4, <2>5
<1>8. q \in Rings
  <2>1. q.mem \in [Pos -> Datum]
    BY <1>7, <1>6 DEF Pos
  <2>2. QED BY <1>1, <1>6, <2>1 DEF Rings, Pos
<1>9. /\ Contents(q) \in Seq(Datum) /\ Len(Contents(q)) = len + n
      /\ Contents(r) \in Seq(Datum) /\ Len(Contents(r)) = len
  BY <1>8, <1>6, ContentsType DEF len
<1>10. ASSUME NEW k \in 1 .. len + n
       PROVE  Contents(q)[k] = (Contents(r) \o data)[k]
  <2>1. /\ Contents(q)[k] = q.mem[Wrap(head + k - 1)]
        /\ Wrap(head + k - 1) \in 0 .. Size - 1
    BY <1>1, <1>6 DEF Contents, Wrap
  <2>2. CASE k <= len
    <3>1. \A j \in 1 .. n : Wrap(head + k - 1) # Wrap(at + j - 1)
      BY <1>1, <1>2, <2>2 DEF Wrap
    <3>2. q.mem[Wrap(head + k - 1)] = r.mem[Wrap(head + k - 1)]
      BY <1>7, <2>1, <3>1
    <3>3. (Contents(r) \o data)[k] = Contents(r)[k]
      BY <1>1, <2>2, <1>9
    <3>4. Contents(r)[k] = r.mem[Wrap(head + k - 1)]
      BY <1>1, <2>2 DEF Contents, head, len
    <3>5. QED BY <2>1, <3>2, <3>3, <3>4
  <2>3. CASE k > len
    <3>1. k - len \in 1 .. n
      BY <1>1, <2>3
    <3>2. Wrap(head + k - 1) = Wrap(at + (k - len) - 1)
      BY <1>1, <1>2, <2>3, <3>1 DEF Wrap
    <3>3. q.mem[Wrap(head + k - 1)] = data[k - len]
      BY <1>7, <2>1, <3>1, <3>2
    <3>4. (Contents(r) \o data)[k] = data[k - len]
      BY <1>1, <2>3, <1>9 DEF n
    <3>5. QED BY <2>1, <3>3, <3>4
  <2>4. k \in Int /\ len \in Int
    BY <1>1
  <2>5. k <= len \/ k > len
    BY <2>4
  <2>6. QED BY <2>2, <2>3, <2>5
<1>11. /\ (Contents(r) \o data) \in Seq(Datum)
       /\ Len(Contents(r) \o data) = len + n
  BY <1>9 DEF n
<1>12. Contents(q) = Contents(r) \o data
  BY <1>1, <1>9, <1>10, <1>11
<1>13. QED BY <1>8, <1>12 DEF Appends, q

(* Bytes read from a ring are those it holds, in order (mn_tcp.c:105, 297).*)
THEOREM PeekReads ==
  ASSUME Sized, NEW r \in Rings, NEW off \in 0 .. r.len, NEW n \in 0 .. r.len - off
  PROVE  Reads(r, off, n)
<1> DEFINE at == Wrap(r.head + off)
<1>1. /\ r.head \in 0 .. Size - 1 /\ r.len \in 0 .. Size
      /\ Size \in Nat \ {0} /\ off \in Nat /\ n \in Nat /\ off + n <= r.len
  BY DEF Rings, Pos, Sized
<1>2. at \in 0 .. Size - 1
  BY <1>1 DEF Wrap
<1>3. /\ Peek(r, off, n) = [k \in 1 .. n |-> r.mem[Wrap(r.head + off + k - 1)]]
  <2>1. ASSUME NEW k \in 1 .. n
        PROVE  (IF k <= UpToEnd(at, n) THEN r.mem[at + k - 1]
                ELSE r.mem[k - UpToEnd(at, n) - 1])
               = r.mem[Wrap(r.head + off + k - 1)]
    <3>1. CASE k <= UpToEnd(at, n)
      <4>1. at + k - 1 = Wrap(r.head + off + k - 1)
        BY <1>1, <1>2, <3>1 DEF UpToEnd, Wrap
      <4>2. QED BY <3>1, <4>1
    <3>2. CASE ~(k <= UpToEnd(at, n))
      <4>1. k - UpToEnd(at, n) - 1 = Wrap(r.head + off + k - 1)
        BY <1>1, <1>2, <3>2 DEF UpToEnd, Wrap
      <4>2. QED BY <3>2, <4>1
    <3>3. QED BY <3>1, <3>2
  <2>2. QED BY <2>1 DEF Peek, ring_read
<1>4. SubSeq(Contents(r), off + 1, off + n)
        = [k \in 1 .. n |-> Contents(r)[off + k]]
  <2>1. /\ SubSeq(Contents(r), off + 1, off + n) \in Seq(Datum)
        /\ Len(SubSeq(Contents(r), off + 1, off + n)) = n
        /\ \A k \in 1 .. n : SubSeq(Contents(r), off + 1, off + n)[k]
                              = Contents(r)[off + k]
    BY <1>1, ContentsType
  <2>2. QED BY <2>1
<1>5. \A k \in 1 .. n : Contents(r)[off + k] = r.mem[Wrap(r.head + off + k - 1)]
  BY <1>1 DEF Contents
<1>6. QED BY <1>3, <1>4, <1>5 DEF Reads

(* Bytes acknowledged or received leave the ring (mn_tcp.c:281, 362).      *)
THEOREM OldestRetires ==
  ASSUME Sized, NEW r \in Rings, NEW n \in 0 .. r.len
  PROVE  Retires(r, n)
<1> DEFINE q == Retire(r, n)
<1>1. /\ r.head \in 0 .. Size - 1 /\ r.len \in 0 .. Size
      /\ Size \in Nat \ {0} /\ n \in 0 .. Size
  BY DEF Rings, Pos, Sized
<1>2. q.mem = r.mem /\ q.head = Wrap(r.head + n) /\ q.len = r.len - n
  BY DEF Retire, Rings
<1>3. q \in Rings
  <2>1. q = [mem |-> r.mem, head |-> Wrap(r.head + n), len |-> r.len - n]
    BY DEF Retire
  <2>2. Wrap(r.head + n) \in Pos /\ r.len - n \in 0 .. Size
    BY <1>1 DEF Pos, Wrap
  <2>3. r.mem \in [Pos -> Datum]
    BY DEF Rings
  <2>4. QED BY <2>1, <2>2, <2>3 DEF Rings
<1>4. ASSUME NEW k \in 1 .. r.len - n
      PROVE  Contents(q)[k] = Contents(r)[n + k]
  <2>1. Wrap(Wrap(r.head + n) + k - 1) = Wrap(r.head + (n + k) - 1)
    BY <1>1 DEF Wrap
  <2>2. QED BY <1>1, <1>2, <2>1 DEF Contents
<1>5. /\ SubSeq(Contents(r), n + 1, r.len) \in Seq(Datum)
      /\ Len(SubSeq(Contents(r), n + 1, r.len)) = r.len - n
      /\ \A k \in 1 .. r.len - n : SubSeq(Contents(r), n + 1, r.len)[k]
                                     = Contents(r)[n + k]
  BY <1>1, ContentsType
<1>6. Contents(q) \in Seq(Datum) /\ Len(Contents(q)) = r.len - n
  BY <1>2, <1>3, ContentsType
<1>7. QED BY <1>3, <1>4, <1>5, <1>6 DEF Retires

(* No ring of any size fails: it is the queue that MnTcp takes it for.     *)
THEOREM RingIsQueue == ASSUME Sized PROVE \A r \in Rings : Serves(r)
<1> SUFFICES ASSUME NEW r \in Rings
             PROVE  Serves(r)
  OBVIOUS
<1>1. ASSUME NEW n \in 0 .. Room(r), NEW data \in [1 .. n -> Datum]
      PROVE  Appends(r, data)
  <2>1. Room(r) \in Nat /\ n \in Nat
    BY DEF Room, Rings, Sized
  <2>2. data \in Seq(Datum) /\ Len(data) = n
    BY <2>1
  <2>3. QED BY <2>1, <2>2, PutAppends
<1>2. QED BY <1>1, PeekReads, OldestRetires DEF Serves

(* Every queue that fits is served. *)
THEOREM QueuesServed ==
  ASSUME Sized, Datum # {}, NEW q \in Seq(Datum), Len(q) <= Size
  PROVE  q \in Served
<1>1. PICK d \in Datum : TRUE
  OBVIOUS
<1> DEFINE r == [mem |-> [i \in Pos |-> IF i < Len(q) THEN q[i + 1] ELSE d],
                 head |-> 0, len |-> Len(q)]
<1>2. r \in Rings
  <2>1. ASSUME NEW i \in Pos
        PROVE  (IF i < Len(q) THEN q[i + 1] ELSE d) \in Datum
    BY DEF Pos, Sized
  <2>2. 0 \in Pos /\ Len(q) \in 0 .. Size
    BY DEF Pos, Sized
  <2>3. [i \in Pos |-> IF i < Len(q) THEN q[i + 1] ELSE d] \in [Pos -> Datum]
    BY <2>1
  <2>4. QED BY <2>2, <2>3 DEF Rings
<1>3. Contents(r) = q
  <2>1. ASSUME NEW k \in 1 .. Len(q)
        PROVE  r.mem[Wrap(0 + k - 1)] = q[k]
    <3>1. k - 1 \in Pos /\ Wrap(0 + k - 1) = k - 1 /\ k - 1 < Len(q)
      BY DEF Pos, Wrap, Sized
    <3>2. r.mem[k - 1] = q[k - 1 + 1]
      BY <3>1
    <3>3. QED BY <3>1, <3>2
  <2>2. Contents(r) = [k \in 1 .. Len(q) |-> r.mem[Wrap(0 + k - 1)]]
    BY DEF Contents
  <2> HIDE DEF r
  <2>3. Contents(r) = [k \in 1 .. Len(q) |-> q[k]]
    BY <2>1, <2>2
  <2>4. QED BY <2>3
<1>4. \A x \in Rings : Serves(x)
  BY RingIsQueue
<1> HIDE DEF r
<1>5. QED BY <1>2, <1>3, <1>4 DEF Served, Held, Failed

=============================================================================
