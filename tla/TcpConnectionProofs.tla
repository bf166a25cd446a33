------------------------ MODULE TcpConnectionProofs ------------------------
(***************************************************************************)
(* Proofs about two connected sockets (module TcpConnection), for streams, *)
(* rings, windows and channels of any size, and any number of faults.      *)
(*                                                                         *)
(* A position in a stream is what a sequence number is ahead of the        *)
(* initial one: the SYN has position 0, byte k position k, and the FIN the *)
(* one after the last byte.  Every socket, every segment under way and     *)
(* every acknowledgement is described by its positions; the invariant says *)
(* how those of the two ends, and of what is between them, compare.        *)
(***************************************************************************)
EXTENDS TcpConnection, MnTcpProofs, FiniteSetTheorems

(* l bytes of a stream, after the first k. *)
Bytes(k, l) == [x \in 1 .. l |-> k + x]

(* A socket u that has taken n bytes from its application and given r to   *)
(* it; i is its own initial sequence number and j its peer's.              *)

Born(u) == u.snd_nxt # u.iss
Open(u) == Synced(u) \/ u.state = "SYN_RCVD"

(* The positions of snd_nxt and snd_una. *)
Nxt(u, i) == IF Born(u) THEN SeqSub(u.snd_nxt, i) ELSE 0
Una(u, i) == IF Born(u) THEN SeqSub(u.snd_una, i) ELSE 0

(* It will take no more from its application. *)
Over(u) == u.fin_queued \/ (u.state = "CLOSED" /\ Born(u))

(* How much it has of its peer's stream, the position it expects next, and *)
(* the position up to which it has room.                                   *)
Finished(u) == "EOF" \in u.flags
Has(u, r) == Len(r) + Len(u.rcvq)
Got(u, r) == 1 + Has(u, r) + (IF Finished(u) THEN 1 ELSE 0)
Limit(u, r) == Got(u, r) + rcv_free(u)

Short(x) == x \in Nat /\ x + RcvBuf + 4 < Half

(* What it has numbered is what it has taken from its application. *)
Sends(u, n, i) ==
  /\ ~Born(u) => u.state \in {"CLOSED", "LISTEN"} /\ ~u.fin_queued /\ n = 0
  /\ Born(u) => /\ u.iss = i /\ SeqSub(u.snd_nxt, i) \in 1 .. n + 2
                /\ SeqSub(u.snd_una, i) <= SeqSub(u.snd_nxt, i)
  /\ u.fin_sent => SeqSub(u.snd_nxt, i) = n + 2
  /\ u.state \in Opening \cup {"LISTEN"} =>
       n = 0 /\ ~u.fin_queued /\ Nxt(u, i) <= 1
  /\ u.state \in Opening => u.snd_una = i
  /\ Synced(u) => /\ Len(u.sndq) <= n
                  /\ u.sndq = Bytes(n - Len(u.sndq), Len(u.sndq))
                  /\ ~u.fin_sent => SeqSub(u.snd_una, i) = 1 + n - Len(u.sndq)

(* What it has taken is the beginning of its peer's stream. *)
Receives(u, r, j) ==
  /\ r \o u.rcvq = Bytes(0, Has(u, r))
  /\ ~Born(u) \/ u.state \in Opening \cup {"LISTEN"} =>
       r = << >> /\ u.rcvq = << >> /\ ~Finished(u)
  /\ Open(u) => u.rcv_nxt = SeqAdd(j, Got(u, r))

EndOK(u, r, n, i, j) ==
  /\ Good(u) /\ r \in Seq(Byte) /\ Short(n) /\ Short(Has(u, r))
  /\ Sends(u, n, i) /\ Receives(u, r, j)

(* Facing a peer v that has taken m bytes and given rv: u has no more than *)
(* v has sent, and v has what u knows to be acknowledged.                  *)
Faces(u, r, i, v, rv, m, j) ==
  /\ Has(u, r) <= m
  /\ Finished(u) => Has(u, r) = m /\ Over(v)
  /\ Open(u) => Got(u, r) <= Nxt(v, j)
  /\ Una(u, i) <= Got(v, rv)

(* A segment that u has sent. *)
SeqOK(s, u, n, i) ==
  /\ "SYN" \in s.fl => /\ s.seq = i /\ Born(u)
                       /\ s.data = << >> /\ "FIN" \notin s.fl
  /\ "SYN" \notin s.fl =>
       /\ "ACK" \in s.fl
       /\ SeqSub(s.seq, i) \in 1 .. Nxt(u, i)
       /\ SeqSub(s.seq, i) + Len(s.data) <= Nxt(u, i)
       /\ s.data = Bytes(SeqSub(s.seq, i) - 1, Len(s.data))
       /\ s.data # << >> => SeqSub(s.seq, i) + Len(s.data) <= n + 1
       /\ "FIN" \in s.fl => /\ s.data = << >> /\ SeqSub(s.seq, i) = n + 1
                            /\ n + 2 <= Nxt(u, i) /\ Over(u)

AckOK(s, u, r, j) ==
  /\ SeqSub(s.ack, j) \in 1 .. Got(u, r)
  /\ SeqSub(s.ack, j) + s.wnd <= Limit(u, r)

From(s, u, r, n, i, j) ==
  "RST" \notin s.fl => /\ SeqOK(s, u, n, i)
                       /\ "ACK" \in s.fl => AckOK(s, u, r, j)

Emitted(out, u, r, n, i, j) ==
  /\ out \in Seq(Segment)
  /\ \A k \in 1 .. Len(out) : From(out[k], u, r, n, i, j)

(* A step from u to v after which every segment that u has sent could have *)
(* been sent by v, and v has all that u had.                               *)
Forward(u, r, n, v, rv, nv, i) ==
  /\ Nxt(u, i) <= Nxt(v, i)
  /\ n <= nv
  /\ Over(u) => Over(v) /\ nv = n
  /\ Got(u, r) <= Got(v, rv)
  /\ Limit(u, r) <= Limit(v, rv)

Moves(u, v, r, n, i, j) ==
  EndOK(v, r, n, i, j) /\ Forward(u, r, n, v, r, n, i)

----------------------------------------------------------------------------
(* Positions. *)

(* Sequence numbers compare as their positions do. *)
LEMMA Positions ==
  ASSUME NEW i \in SeqNo, NEW a \in SeqNo, NEW b \in SeqNo,
         SeqSub(a, i) <= SeqSub(b, i)
  PROVE  /\ SeqSub(b, a) = SeqSub(b, i) - SeqSub(a, i)
         /\ a = b <=> SeqSub(a, i) = SeqSub(b, i)
         /\ a # b => SeqSub(a, b) = SeqSpace - SeqSub(b, a)
BY Consts DEF SeqSub, SeqNo

LEMMA Sums ==
  ASSUME NEW i \in SeqNo, NEW a \in SeqNo, NEW b \in SeqNo,
         SeqSub(a, i) + SeqSub(b, a) < SeqSpace
  PROVE  SeqSub(b, i) = SeqSub(a, i) + SeqSub(b, a)
BY Consts DEF SeqSub, SeqNo

LEMMA Ordered ==
  ASSUME NEW i \in SeqNo, NEW a \in SeqNo, NEW b \in SeqNo,
         SeqSub(a, i) <= SeqSub(b, i), SeqSub(b, i) < Half
  PROVE  /\ SEQ_LEQ(a, b) /\ ~SEQ_LT(b, a)
         /\ SEQ_LEQ(b, a) => a = b
BY Consts DEF SEQ_LEQ, SEQ_LT, SeqSub, SeqNo

LEMMA Ahead ==
  ASSUME NEW i \in SeqNo, NEW k \in Nat, k < SeqSpace
  PROVE  SeqAdd(i, k) \in SeqNo /\ SeqSub(SeqAdd(i, k), i) = k
BY Consts DEF SeqAdd, SeqSub, SeqNo

LEMMA AtStart == ASSUME NEW i \in SeqNo PROVE SeqSub(i, i) = 0
BY DEF SeqSub, SeqNo

(* The sequence number is the initial one and the position. *)
LEMMA Back ==
  ASSUME NEW i \in SeqNo, NEW a \in SeqNo
  PROVE  SeqAdd(i, SeqSub(a, i)) = a
BY Consts DEF SeqAdd, SeqSub, SeqNo

LEMMA OneBack ==
  ASSUME NEW i \in SeqNo, NEW a \in SeqNo, SeqSub(a, i) # 0
  PROVE  /\ SeqSub(a, 1) \in SeqNo
         /\ SeqSub(SeqSub(a, 1), i) = SeqSub(a, i) - 1
BY Consts DEF SeqSub, SeqNo

----------------------------------------------------------------------------
(* Bytes of a stream. *)

LEMMA BytesSeq ==
  ASSUME NEW k \in Nat, NEW l \in Nat
  PROVE  /\ Bytes(k, l) \in Seq(Nat) /\ Len(Bytes(k, l)) = l
         /\ DOMAIN Bytes(k, l) = 1 .. l
         /\ \A x \in 1 .. l : Bytes(k, l)[x] = k + x
BY DEF Bytes

LEMMA Concatenation ==
  ASSUME NEW a \in Seq(Byte), NEW b \in Seq(Byte)
  PROVE  /\ a \o b \in Seq(Byte) /\ Len(a \o b) = Len(a) + Len(b)
         /\ \A x \in 1 .. Len(a) + Len(b) :
              (a \o b)[x] = IF x <= Len(a) THEN a[x] ELSE b[x - Len(a)]
BY ConcatProperties, Zenon

LEMMA Regroup ==
  ASSUME NEW a \in Seq(Byte), NEW b \in Seq(Byte), NEW c \in Seq(Byte)
  PROVE  a \o (b \o c) = (a \o b) \o c
<1>. DEFINE d == b \o c  e == a \o b
<1>1. d \in Seq(Byte) /\ Len(d) = Len(b) + Len(c)
      /\ e \in Seq(Byte) /\ Len(e) = Len(a) + Len(b)
  OBVIOUS
<1>2. /\ \A x \in 1 .. Len(d) : d[x] = IF x <= Len(b) THEN b[x] ELSE c[x - Len(b)]
      /\ \A x \in 1 .. Len(e) : e[x] = IF x <= Len(a) THEN a[x] ELSE b[x - Len(a)]
  OBVIOUS
<1>3. Len(a) \in Nat /\ Len(b) \in Nat /\ Len(c) \in Nat
  OBVIOUS
<1>. HIDE DEF d, e
<1>. DEFINE f == a \o d  g == e \o c
<1>4. /\ f \in Seq(Byte) /\ Len(f) = Len(a) + Len(d)
      /\ \A x \in 1 .. Len(a) + Len(d) :
           f[x] = IF x <= Len(a) THEN a[x] ELSE d[x - Len(a)]
  BY <1>1, Concatenation, Zenon
<1>5. /\ g \in Seq(Byte) /\ Len(g) = Len(e) + Len(c)
      /\ \A x \in 1 .. Len(e) + Len(c) :
           g[x] = IF x <= Len(e) THEN e[x] ELSE c[x - Len(e)]
  BY <1>1, Concatenation, Zenon
<1>. HIDE DEF f, g
<1>6. ASSUME NEW x \in 1 .. Len(f)
      PROVE  f[x] = g[x]
  <2>1. /\ x \in Nat /\ x \in 1 .. Len(a) + Len(d) /\ x \in 1 .. Len(e) + Len(c)
        /\ Len(f) = Len(a) + Len(b) + Len(c)
    BY <1>1, <1>3, <1>4
  <2>2. CASE x <= Len(a)
    <3>1. x \in 1 .. Len(e)
      BY <1>1, <1>3, <2>1, <2>2
    <3>2. f[x] = a[x]
      BY <1>4, <2>1, <2>2
    <3>3. g[x] = e[x]
      BY <1>5, <2>1, <3>1
    <3>4. e[x] = a[x]
      BY <1>2, <2>2, <3>1
    <3>. QED BY <3>2, <3>3, <3>4
  <2>3. CASE ~(x <= Len(a)) /\ x <= Len(e)
    <3>1. x \in 1 .. Len(e) /\ x - Len(a) \in 1 .. Len(d) /\ x - Len(a) <= Len(b)
      BY <1>1, <1>3, <2>1, <2>3
    <3>2. f[x] = d[x - Len(a)]
      BY <1>4, <2>1, <2>3
    <3>3. d[x - Len(a)] = b[x - Len(a)]
      BY <1>2, <3>1
    <3>4. g[x] = e[x] /\ e[x] = b[x - Len(a)]
      BY <1>2, <1>5, <2>1, <2>3, <3>1
    <3>. QED BY <3>2, <3>3, <3>4
  <2>4. CASE ~(x <= Len(e))
    <3>1. /\ ~(x <= Len(a)) /\ x - Len(a) \in 1 .. Len(d)
          /\ ~(x - Len(a) <= Len(b)) /\ (x - Len(a)) - Len(b) = x - Len(e)
      BY <1>1, <1>3, <1>4, <2>1, <2>4
    <3>2. f[x] = d[x - Len(a)]
      BY <1>4, <2>1, <3>1
    <3>3. d[x - Len(a)] = c[x - Len(e)]
      BY <1>2, <3>1
    <3>4. g[x] = c[x - Len(e)]
      BY <1>5, <2>1, <2>4
    <3>. QED BY <3>2, <3>3, <3>4
  <2>. QED BY <2>2, <2>3, <2>4
<1>7. f = g
  <2>1. Len(f) = Len(g)
    BY <1>1, <1>3, <1>4, <1>5
  <2>. QED BY <1>4, <1>5, <1>6, <2>1, SeqEqual
<1>. QED BY <1>7 DEF d, e, f, g

LEMMA NoBytes ==
  ASSUME NEW k
  PROVE  Bytes(k, 0) = << >>
BY DEF Bytes

(* Bytes that follow one another join, ... *)
LEMMA Joined ==
  ASSUME NEW k \in Nat, NEW l \in Nat, NEW l2 \in Nat
  PROVE  Bytes(k, l) \o Bytes(k + l, l2) = Bytes(k, l + l2)
<1>. DEFINE a == Bytes(k, l)  b == Bytes(k + l, l2)  c == Bytes(k, l + l2)
<1>0. k + l \in Nat /\ l + l2 \in Nat
  OBVIOUS
<1>1. /\ a \in Seq(Nat) /\ Len(a) = l
      /\ b \in Seq(Nat) /\ Len(b) = l2
      /\ c \in Seq(Nat) /\ Len(c) = l + l2
  BY <1>0, BytesSeq
<1>2. \A x \in 1 .. l : a[x] = k + x
  BY BytesSeq
<1>3. \A x \in 1 .. l2 : b[x] = (k + l) + x
  BY <1>0, BytesSeq
<1>4. \A x \in 1 .. l + l2 : c[x] = k + x
  BY <1>0, BytesSeq
<1>. HIDE DEF a, b, c
<1>5. /\ a \o b \in Seq(Nat) /\ Len(a \o b) = l + l2
      /\ \A x \in 1 .. l + l2 :
           (a \o b)[x] = IF x <= l THEN a[x] ELSE b[x - l]
  BY <1>1, ConcatProperties, Zenon
<1>6. ASSUME NEW x \in 1 .. l + l2
      PROVE  (a \o b)[x] = c[x]
  <2>1. (a \o b)[x] = IF x <= l THEN a[x] ELSE b[x - l]
    BY <1>5
  <2>2. CASE x <= l
    <3>1. x \in 1 .. l
      BY <2>2
    <3>. QED BY <1>2, <1>4, <2>1, <2>2, <3>1
  <2>3. CASE ~(x <= l)
    <3>1. x - l \in 1 .. l2
      BY <2>3
    <3>2. b[x - l] = (k + l) + (x - l)
      BY <1>3, <3>1
    <3>. QED BY <1>4, <2>1, <2>3, <3>2
  <2>. QED BY <2>2, <2>3
<1>7. a \o b = c
  BY <1>1, <1>5, <1>6, SeqEqual
<1>. QED BY <1>7 DEF a, b, c

(* ... and a part of them are bytes too. *)
LEMMA Part ==
  ASSUME NEW k \in Nat, NEW l \in Nat, NEW x \in 1 .. l + 1, NEW y \in x - 1 .. l
  PROVE  SubSeq(Bytes(k, l), x, y) = Bytes(k + x - 1, y - x + 1)
<1>. DEFINE a == Bytes(k, l)  b == SubSeq(a, x, y)  c == Bytes(k + x - 1, y - x + 1)
<1>1. /\ a \in Seq(Nat) /\ Len(a) = l /\ \A z \in 1 .. l : a[z] = k + z
  BY BytesSeq
<1>2. /\ c \in Seq(Nat) /\ Len(c) = y - x + 1
      /\ \A z \in 1 .. y - x + 1 : c[z] = k + x - 1 + z
  <2>1. k + x - 1 \in Nat /\ y - x + 1 \in Nat
    OBVIOUS
  <2>. QED BY <2>1, BytesSeq
<1>. HIDE DEF a, c
<1>3. /\ b \in Seq(Nat) /\ Len(b) = y - x + 1
      /\ \A z \in 1 .. y - x + 1 : b[z] = a[x + z - 1]
  <2>1. x \in Nat /\ y \in Int /\ 1 <= x /\ y <= Len(a)
    BY <1>1
  <2>2. /\ b = [z \in 1 .. y - x + 1 |-> a[x + z - 1]]
    BY <1>1, <2>1
  <2>3. \A z \in 1 .. y - x + 1 : x + z - 1 \in 1 .. Len(a)
    BY <1>1, <2>1
  <2>. QED BY <1>1, <2>1, <2>2, <2>3
<1>4. \A z \in 1 .. y - x + 1 : b[z] = c[z]
  BY <1>1, <1>2, <1>3
<1>. HIDE DEF b
<1>5. b = c
  BY <1>2, <1>3, <1>4, SeqEqual
<1>. QED BY <1>5 DEF a, b, c

----------------------------------------------------------------------------
(* One end. *)

LEMMA EndTypes ==
  ASSUME NEW u, NEW r, NEW n, NEW i \in SeqNo, NEW j, EndOK(u, r, n, i, j)
  PROVE  /\ n \in Nat /\ Has(u, r) \in Nat /\ Len(r) \in Nat
         /\ Nxt(u, i) \in Nat /\ Nxt(u, i) <= n + 2
         /\ Una(u, i) \in Nat /\ Una(u, i) <= Nxt(u, i)
         /\ Born(u) <=> Nxt(u, i) # 0
         /\ Got(u, r) \in Nat
         /\ Got(u, r) = 1 + Has(u, r) \/ Got(u, r) = 2 + Has(u, r)
         /\ Finished(u) <=> Got(u, r) = 2 + Has(u, r)
         /\ rcv_free(u) \in Nat /\ Limit(u, r) \in Nat
         /\ Got(u, r) <= Limit(u, r) /\ Limit(u, r) <= Got(u, r) + RcvBuf
         /\ Got(u, r) + RcvBuf + 2 < Half
         /\ n + RcvBuf + 4 < Half
<1>1. /\ u \in Socket /\ RingsHold(u)
      /\ u.snd_nxt \in SeqNo /\ u.snd_una \in SeqNo /\ u.rcvq \in Seq(Byte)
  BY Fields DEF EndOK, Good
<1>2. rcv_free(u) \in 0 .. RcvBuf /\ Len(u.rcvq) \in Nat
  BY <1>1, WindowType, LenNat
<1>3. Len(r) \in Nat
  BY LenNat DEF EndOK
<1>4. /\ n \in Nat /\ Has(u, r) \in Nat /\ n + RcvBuf + 4 < Half
      /\ Has(u, r) + RcvBuf + 4 < Half
  BY DEF EndOK, Short
<1>5. SeqSub(u.snd_nxt, i) \in Nat /\ SeqSub(u.snd_una, i) \in Nat
  BY <1>1, SeqSubType
<1>6. /\ Nxt(u, i) \in Nat /\ Nxt(u, i) <= n + 2
      /\ Una(u, i) \in Nat /\ Una(u, i) <= Nxt(u, i)
  BY <1>4, <1>5 DEF EndOK, Sends, Nxt, Una
<1>7. Born(u) <=> Nxt(u, i) # 0
  BY <1>4, <1>5 DEF EndOK, Sends, Nxt
<1>8. /\ Got(u, r) \in Nat
      /\ Got(u, r) = 1 + Has(u, r) \/ Got(u, r) = 2 + Has(u, r)
      /\ Finished(u) <=> Got(u, r) = 2 + Has(u, r)
  BY <1>4 DEF Got
<1>9. /\ rcv_free(u) \in Nat /\ Limit(u, r) \in Nat
      /\ Got(u, r) <= Limit(u, r) /\ Limit(u, r) <= Got(u, r) + RcvBuf
      /\ Got(u, r) + RcvBuf + 2 < Half
  BY <1>2, <1>4, <1>8, Consts DEF Limit
<1>. QED BY <1>3, <1>4, <1>6, <1>7, <1>8, <1>9, Zenon

LEMMA ForwardSame ==
  ASSUME NEW u, NEW r, NEW n, NEW i \in SeqNo, NEW j, EndOK(u, r, n, i, j)
  PROVE  Forward(u, r, n, u, r, n, i)
<1>1. /\ n \in Nat /\ Nxt(u, i) \in Nat /\ Got(u, r) \in Nat
      /\ Limit(u, r) \in Nat
  BY EndTypes
<1>. QED BY <1>1 DEF Forward

LEMMA ForwardOn ==
  ASSUME NEW u, NEW v, NEW w, NEW r, NEW n, NEW i \in SeqNo, NEW j,
         EndOK(u, r, n, i, j), Moves(u, v, r, n, i, j), Moves(v, w, r, n, i, j)
  PROVE  Moves(u, w, r, n, i, j)
<1>1. EndOK(v, r, n, i, j) /\ EndOK(w, r, n, i, j)
  BY DEF Moves
<1>2. /\ Nxt(u, i) \in Nat /\ Got(u, r) \in Nat /\ Limit(u, r) \in Nat
      /\ Nxt(v, i) \in Nat /\ Got(v, r) \in Nat /\ Limit(v, r) \in Nat
      /\ Nxt(w, i) \in Nat /\ Got(w, r) \in Nat /\ Limit(w, r) \in Nat
  BY <1>1, EndTypes
<1>. QED BY <1>1, <1>2 DEF Moves, Forward

(* What has been sent stays what could have been sent. *)
LEMMA FromKeeps ==
  ASSUME NEW u, NEW r, NEW n, NEW v, NEW rv, NEW nv,
         NEW i \in SeqNo, NEW j \in SeqNo,
         EndOK(u, r, n, i, j), EndOK(v, rv, nv, i, j),
         Forward(u, r, n, v, rv, nv, i),
         NEW s \in Segment, From(s, u, r, n, i, j)
  PROVE  From(s, v, rv, nv, i, j)
<1>. SUFFICES ASSUME "RST" \notin s.fl
              PROVE  /\ SeqOK(s, v, nv, i)
                     /\ "ACK" \in s.fl => AckOK(s, v, rv, j)
  BY DEF From
<1>1. /\ SeqSub(s.seq, i) \in Nat /\ SeqSub(s.ack, j) \in Nat
      /\ s.wnd \in Nat /\ Len(s.data) \in Nat
  BY SegmentFields, SeqSubType, LenNat
<1>2. /\ n \in Nat /\ Nxt(u, i) \in Nat /\ Got(u, r) \in Nat
      /\ Limit(u, r) \in Nat /\ (Born(u) => Nxt(u, i) # 0)
  BY EndTypes
<1>3. /\ nv \in Nat /\ Nxt(v, i) \in Nat /\ Got(v, rv) \in Nat
      /\ Limit(v, rv) \in Nat /\ (Nxt(v, i) # 0 => Born(v))
  BY EndTypes
<1>4. SeqOK(s, u, n, i) /\ ("ACK" \in s.fl => AckOK(s, u, r, j))
  BY DEF From
<1>5. SeqOK(s, v, nv, i)
  <2>1. CASE "SYN" \in s.fl
    <3>1. Born(v)
      BY <1>2, <1>3, <1>4, <2>1 DEF SeqOK, Forward
    <3>. QED BY <1>4, <2>1, <3>1 DEF SeqOK
  <2>2. CASE "SYN" \notin s.fl
    <3>1. /\ SeqSub(s.seq, i) \in 1 .. Nxt(v, i)
          /\ SeqSub(s.seq, i) + Len(s.data) <= Nxt(v, i)
          /\ s.data # << >> => SeqSub(s.seq, i) + Len(s.data) <= nv + 1
      BY <1>1, <1>2, <1>3, <1>4, <2>2 DEF SeqOK, Forward
    <3>2. "FIN" \in s.fl => /\ s.data = << >> /\ SeqSub(s.seq, i) = nv + 1
                            /\ nv + 2 <= Nxt(v, i) /\ Over(v)
      BY <1>1, <1>2, <1>3, <1>4, <2>2 DEF SeqOK, Forward
    <3>. QED BY <1>4, <2>2, <3>1, <3>2 DEF SeqOK
  <2>. QED BY <2>1, <2>2
<1>6. ASSUME "ACK" \in s.fl PROVE AckOK(s, v, rv, j)
  BY <1>1, <1>2, <1>3, <1>4, <1>6 DEF AckOK, Forward
<1>. QED BY <1>5, <1>6

LEMMA EmittedKeeps ==
  ASSUME NEW u, NEW r, NEW n, NEW v, NEW i \in SeqNo, NEW j \in SeqNo,
         EndOK(u, r, n, i, j), Moves(u, v, r, n, i, j),
         NEW out, Emitted(out, u, r, n, i, j)
  PROVE  Emitted(out, v, r, n, i, j)
<1>1. ASSUME NEW k \in 1 .. Len(out)
      PROVE  From(out[k], v, r, n, i, j)
  <2>1. out[k] \in Segment
    BY DEF Emitted
  <2>. QED BY <2>1, FromKeeps DEF Emitted, Moves
<1>. QED BY <1>1 DEF Emitted

(* What a socket does to the stream it sends, and to the one it receives. *)
SameSender(u, v) ==
  /\ v.iss = u.iss /\ v.snd_una = u.snd_una /\ v.snd_nxt = u.snd_nxt
  /\ v.sndq = u.sndq
  /\ v.fin_queued = u.fin_queued /\ v.fin_sent = u.fin_sent

SameTaken(u, v) ==
  /\ v.rcvq = u.rcvq /\ v.rcv_nxt = u.rcv_nxt
  /\ Finished(v) <=> Finished(u)

(* The ways the state changes while nothing is taken or numbered. *)
Follows(u, v) ==
  \/ v.state = u.state
  \/ v.state = "CLOSED"
  \/ u.state = "SYN_RCVD" /\ v.state = "LISTEN"
  \/ Synced(u) /\ Synced(v)

LEMMA SameGot ==
  ASSUME NEW u, NEW v, NEW r, SameTaken(u, v)
  PROVE  Has(v, r) = Has(u, r) /\ Got(v, r) = Got(u, r) /\ Limit(v, r) = Limit(u, r)
BY DEF SameTaken, Has, Got, Limit, rcv_free

LEMMA SameReceives ==
  ASSUME NEW u, NEW v, NEW r, NEW j, Receives(u, r, j),
         SameTaken(u, v), Open(v) => Open(u), ~Born(v) => ~Born(u),
         v.state \in Opening \cup {"LISTEN"} =>
           u.state \in Opening \cup {"LISTEN"} \/ ~Born(u)
  PROVE  Receives(v, r, j)
<1>1. Has(v, r) = Has(u, r) /\ Got(v, r) = Got(u, r)
  BY SameGot
<1>2. r \o v.rcvq = Bytes(0, Has(v, r))
  BY <1>1 DEF Receives, SameTaken
<1>3. ~Born(v) \/ v.state \in Opening \cup {"LISTEN"} =>
        r = << >> /\ v.rcvq = << >> /\ ~Finished(v)
  BY DEF Receives, SameTaken
<1>4. Open(v) => v.rcv_nxt = SeqAdd(j, Got(v, r))
  BY <1>1 DEF Receives, SameTaken
<1>. QED BY <1>2, <1>3, <1>4 DEF Receives

LEMMA SameEnd ==
  ASSUME NEW u, NEW v, NEW r, NEW n, NEW i \in SeqNo, NEW j,
         EndOK(u, r, n, i, j), Good(v),
         SameSender(u, v), SameTaken(u, v), Follows(u, v)
  PROVE  /\ Moves(u, v, r, n, i, j)
         /\ Una(v, i) = Una(u, i) /\ (Open(v) => Open(u))
<1>1. Born(v) <=> Born(u)
  BY DEF Born, SameSender
<1>2. /\ Nxt(v, i) = Nxt(u, i) /\ Una(v, i) = Una(u, i)
  BY <1>1 DEF Nxt, Una, SameSender
<1>3. Open(v) => Open(u)
  BY DEF Open, Follows, Synced, Opening
<1>4. Synced(v) => Synced(u)
  BY DEF Follows, Synced, Opening
<1>5. Over(u) => Over(v)
  BY <1>1 DEF Over, Follows, SameSender, Synced, Opening
<1>6. Sends(v, n, i)
  <2>1. Sends(u, n, i)
    BY DEF EndOK
  <2>2. ~Born(v) => v.state \in {"CLOSED", "LISTEN"}
    BY <1>1, <2>1 DEF Sends, Follows, Synced, Opening
  <2>3. v.state \in Opening \cup {"LISTEN"} =>
          u.state \in Opening \cup {"LISTEN"}
    BY DEF Follows, Synced, Opening
  <2>4. v.state \in Opening => u.state \in Opening
    BY DEF Follows, Synced, Opening
  <2>. QED BY <1>1, <1>2, <1>4, <2>1, <2>2, <2>3, <2>4 DEF Sends, SameSender
<1>7. Receives(v, r, j)
  <2>1. v.state \in Opening \cup {"LISTEN"} =>
          u.state \in Opening \cup {"LISTEN"}
    BY DEF Follows, Synced, Opening
  <2>. QED BY <1>1, <1>3, <2>1, SameReceives DEF EndOK
<1>8. Has(v, r) = Has(u, r) /\ Got(v, r) = Got(u, r) /\ Limit(v, r) = Limit(u, r)
  BY SameGot
<1>9. EndOK(v, r, n, i, j)
  BY <1>6, <1>7, <1>8 DEF EndOK
<1>10. /\ n \in Nat /\ Nxt(u, i) \in Nat /\ Got(u, r) \in Nat
       /\ Limit(u, r) \in Nat
  BY EndTypes
<1>11. Forward(u, r, n, v, r, n, i)
  BY <1>2, <1>5, <1>8, <1>10 DEF Forward
<1>. QED BY <1>2, <1>3, <1>9, <1>11 DEF Moves

LEMMA SameFaces ==
  ASSUME NEW u, NEW w, NEW r, NEW i, NEW v, NEW rv, NEW m, NEW j,
         Faces(u, r, i, v, rv, m, j), SameTaken(u, w),
         Una(w, i) = Una(u, i), Open(w) => Open(u)
  PROVE  Faces(w, r, i, v, rv, m, j)
<1>1. Has(w, r) = Has(u, r) /\ Got(w, r) = Got(u, r)
  BY SameGot
<1>. QED BY <1>1 DEF Faces, SameTaken

----------------------------------------------------------------------------
(* What one end sends. *)

(* A function of mn_tcp.c that takes nothing, and the segments it sent. *)
Polls(u, e, r, n, i, j) ==
  /\ Moves(u, e.t, r, n, i, j) /\ SameTaken(u, e.t)
  /\ Una(e.t, i) = Una(u, i) /\ (Open(e.t) => Open(u))
  /\ Emitted(e.out, e.t, r, n, i, j)

LEMMA CoreSame ==
  ASSUME NEW u, NEW v, SameCore(u, v), v.rcv_nxt = u.rcv_nxt
  PROVE  SameSender(u, v) /\ SameTaken(u, v) /\ Follows(u, v)
BY DEF SameCore, SameSender, SameTaken, Follows, Finished

LEMMA SilentPolls ==
  ASSUME NEW u, NEW v, NEW r, NEW n, NEW i \in SeqNo, NEW j,
         EndOK(u, r, n, i, j), Good(v),
         SameSender(u, v), SameTaken(u, v), Follows(u, v)
  PROVE  Polls(u, Silent(v), r, n, i, j)
<1>1. Silent(v).t = v /\ Silent(v).out = << >>
  BY DEF Silent
<1>2. Emitted(<< >>, v, r, n, i, j)
  BY DEF Emitted
<1>. QED BY <1>1, <1>2, SameEnd DEF Polls

LEMMA PollsOn ==
  ASSUME NEW u, NEW v, NEW e, NEW r, NEW n, NEW i \in SeqNo, NEW j,
         EndOK(u, r, n, i, j), Moves(u, v, r, n, i, j), SameTaken(u, v),
         Una(v, i) = Una(u, i), Open(v) => Open(u),
         Polls(v, e, r, n, i, j)
  PROVE  Polls(u, e, r, n, i, j)
<1>1. Moves(u, e.t, r, n, i, j)
  BY ForwardOn DEF Polls
<1>2. SameTaken(u, e.t)
  BY DEF Polls, SameTaken
<1>. QED BY <1>1, <1>2 DEF Polls

LEMMA Acknowledges ==
  ASSUME NEW u, NEW r, NEW n, NEW i \in SeqNo, NEW j \in SeqNo,
         EndOK(u, r, n, i, j), Open(u),
         NEW s, s.ack = u.rcv_nxt, s.wnd = adv_window(u)
  PROVE  AckOK(s, u, r, j)
<1>1. /\ Got(u, r) \in Nat /\ Has(u, r) \in Nat
      /\ Got(u, r) = 1 + Has(u, r) \/ Got(u, r) = 2 + Has(u, r)
      /\ Got(u, r) + RcvBuf + 2 < Half /\ rcv_free(u) \in Nat
  BY EndTypes
<1>2. SeqSub(s.ack, j) = Got(u, r)
  <2>1. u.rcv_nxt = SeqAdd(j, Got(u, r))
    BY DEF EndOK, Receives
  <2>2. Got(u, r) < SeqSpace
    BY <1>1, Consts
  <2>. QED BY <1>1, <2>1, <2>2, Ahead
<1>3. adv_window(u) \in Nat /\ adv_window(u) <= rcv_free(u)
  BY <1>1, Consts, Least DEF adv_window
<1>. QED BY <1>1, <1>2, <1>3 DEF AckOK, Limit

LEMMA Built ==
  ASSUME NEW u \in Socket, RingsHold(u),
         NEW fl \in SUBSET SegFlags, NEW seq \in SeqNo, NEW data \in Seq(Byte),
         NEW s, s = Build(u, fl, seq, data)
  PROVE  /\ s \in Segment /\ s.fl = fl /\ s.seq = seq /\ s.data = data
         /\ "ACK" \in fl => s.ack = u.rcv_nxt
         /\ s.wnd = adv_window(u)
<1>. DEFINE a == IF "ACK" \in fl THEN u.rcv_nxt ELSE 0
            m == IF "SYN" \in fl THEN Mss ELSE 0
            w == adv_window(u)
<1>1. a \in SeqNo /\ m \in Nat /\ w \in Nat
  <2>1. u.rcv_nxt \in SeqNo /\ 0 \in SeqNo /\ Mss \in Nat
    BY Fields, InSeqNo, Consts
  <2>2. w \in 0 .. RcvBuf
    BY WindowType
  <2>. HIDE DEF w
  <2>. QED BY <2>1, <2>2, Consts
<1>2. s = [fl |-> fl, seq |-> seq, ack |-> a, wnd |-> w, mss |-> m,
           data |-> data]
  BY DEF Build
<1>3. "ACK" \in fl => a = u.rcv_nxt
  OBVIOUS
<1>. HIDE DEF a, m, w
<1>4. s \in Segment
  BY <1>1, <1>2 DEF Segment
<1>. QED BY <1>2, <1>3, <1>4 DEF w

(* What emit() sends is in order if its sequence number and payload are.   *)
LEMMA EmitSends ==
  ASSUME NEW u, NEW r, NEW n, NEW i \in SeqNo, NEW j \in SeqNo,
         EndOK(u, r, n, i, j),
         NEW fl \in SUBSET SegFlags, NEW seq \in SeqNo,
         NEW data \in Seq(Byte), NEW res,
         "ACK" \in fl /\ "RST" \notin fl => Open(u),
         "RST" \notin fl => SeqOK(Build(u, fl, seq, data), u, n, i)
  PROVE  /\ Polls(u, emit(u, fl, seq, data, res), r, n, i, j)
         /\ SameCore(u, emit(u, fl, seq, data, res).t)
         /\ Good(emit(u, fl, seq, data, res).t)
         /\ emit(u, fl, seq, data, res).t.rcv_nxt = u.rcv_nxt
<1>. DEFINE e == emit(u, fl, seq, data, res)
            s == Build(u, fl, seq, data)
<1>1. Good(u) /\ u \in Socket /\ RingsHold(u)
  BY DEF EndOK, Good
<1>2. Good(e.t) /\ SameCore(u, e.t) /\ e.t.rcv_nxt = u.rcv_nxt
  BY <1>1, EmitGood
<1>3. e.out = <<s>> \/ e.out = << >>
  BY DEF emit
<1>4. /\ s \in Segment /\ s.fl = fl
      /\ "ACK" \in fl => s.ack = u.rcv_nxt
      /\ s.wnd = adv_window(u)
  <2>1. s = Build(u, fl, seq, data)
    OBVIOUS
  <2>. HIDE DEF s
  <2>. QED BY <1>1, <2>1, Built
<1>5. From(s, u, r, n, i, j)
  <2>. HIDE DEF s
  <2>1. ASSUME "ACK" \in fl, "RST" \notin fl PROVE AckOK(s, u, r, j)
    BY <1>4, <2>1, Acknowledges
  <2>. QED BY <1>4, <2>1 DEF From, s
<1>. HIDE DEF e, s
<1>6. /\ Moves(u, e.t, r, n, i, j) /\ SameTaken(u, e.t)
      /\ Una(e.t, i) = Una(u, i) /\ (Open(e.t) => Open(u))
  BY <1>2, CoreSame, SameEnd
<1>7. From(s, e.t, r, n, i, j)
  BY <1>4, <1>5, <1>6, FromKeeps DEF Moves
<1>8. Emitted(e.out, e.t, r, n, i, j)
  <2>1. CASE e.out = << >>
    BY <2>1 DEF Emitted
  <2>2. CASE e.out = <<s>>
    <3>1. /\ e.out \in Seq(Segment) /\ Len(e.out) = 1 /\ e.out[1] = s
      BY <1>4, <2>2
    <3>2. \A k \in 1 .. Len(e.out) : k = 1
      BY <3>1
    <3>. QED BY <1>7, <3>1, <3>2 DEF Emitted
  <2>. QED BY <1>3, <2>1, <2>2
<1>9. Polls(u, e, r, n, i, j)
  BY <1>6, <1>8 DEF Polls
<1>. QED BY <1>2, <1>9 DEF e

(* An ACK without payload, at snd_nxt, is in order. *)
LEMMA PureAck ==
  ASSUME NEW u, NEW r, NEW n, NEW i \in SeqNo, NEW j \in SeqNo,
         EndOK(u, r, n, i, j), Synced(u)
  PROVE  SeqOK(Build(u, {"ACK"}, u.snd_nxt, << >>), u, n, i)
<1>. DEFINE s == Build(u, {"ACK"}, u.snd_nxt, << >>)
<1>1. u \in Socket /\ RingsHold(u) /\ u.snd_nxt \in SeqNo
  BY Fields DEF EndOK, Good
<1>2. s.fl = {"ACK"} /\ s.seq = u.snd_nxt /\ s.data = << >>
  <2>. DEFINE fl == {"ACK"}  data == << >>
  <2>1. fl \in SUBSET SegFlags /\ data \in Seq(Byte)
    BY EmptyBytes DEF SegFlags
  <2>2. s = Build(u, fl, u.snd_nxt, data)
    OBVIOUS
  <2>. HIDE DEF s, fl, data
  <2>3. s.fl = fl /\ s.seq = u.snd_nxt /\ s.data = data
    BY <1>1, <2>1, <2>2, Built
  <2>. QED BY <2>3 DEF fl, data
<1>3. Born(u)
  BY DEF EndOK, Sends, Synced
<1>4. Nxt(u, i) = SeqSub(u.snd_nxt, i) /\ Nxt(u, i) \in Nat /\ Nxt(u, i) # 0
  BY <1>3, EndTypes DEF Nxt
<1>5. Len(<< >>) = 0 /\ << >> = Bytes(SeqSub(u.snd_nxt, i) - 1, 0)
  BY NoBytes
<1>6. SeqOK(s, u, n, i)
  BY <1>2, <1>4, <1>5 DEF SeqOK
<1>. QED BY <1>6 DEF s

(* A change of timers and pending bits does not show. *)
LEMMA TimersSame ==
  ASSUME NEW u, NEW r, NEW n, NEW i \in SeqNo, NEW j, EndOK(u, r, n, i, j),
         NEW v \in Socket, SameCore(u, v), v.rcv_nxt = u.rcv_nxt
  PROVE  /\ EndOK(v, r, n, i, j) /\ Moves(u, v, r, n, i, j)
         /\ SameTaken(u, v) /\ Una(v, i) = Una(u, i) /\ (Open(v) => Open(u))
<1>1. Good(v)
  BY CoreGood DEF EndOK
<1>. QED BY <1>1, CoreSame, SameEnd DEF Moves

LEMMA TimersEmit ==
  ASSUME NEW u, NEW r, NEW n, NEW i \in SeqNo, NEW j \in SeqNo,
         EndOK(u, r, n, i, j),
         NEW v \in Socket, SameCore(u, v), v.rcv_nxt = u.rcv_nxt,
         NEW fl \in SUBSET SegFlags, NEW seq \in SeqNo,
         NEW data \in Seq(Byte), NEW res,
         "ACK" \in fl /\ "RST" \notin fl => Open(v),
         "RST" \notin fl => SeqOK(Build(v, fl, seq, data), v, n, i)
  PROVE  Polls(u, emit(v, fl, seq, data, res), r, n, i, j)
<1>1. /\ EndOK(v, r, n, i, j) /\ Moves(u, v, r, n, i, j)
      /\ SameTaken(u, v) /\ Una(v, i) = Una(u, i) /\ (Open(v) => Open(u))
  BY TimersSame
<1>2. Polls(v, emit(v, fl, seq, data, res), r, n, i, j)
  BY <1>1, EmitSends
<1>. QED BY <1>1, <1>2, PollsOn

LEMMA GiveUpPolls ==
  ASSUME NEW u, NEW r, NEW n, NEW i \in SeqNo, NEW j, EndOK(u, r, n, i, j)
  PROVE  Polls(u, Silent(GiveUp(u)), r, n, i, j)
<1>1. u \in Socket /\ Good(u)
  BY DEF EndOK, Good
<1>2. Good(GiveUp(u))
  BY <1>1, GiveUpKeeps DEF PollKeeps
<1>. DEFINE k == u.retries + 1  f == u.flags \cup {"TIMEOUT"}
            v == [u EXCEPT !.retries = k, !.flags = f, !.state = "CLOSED"]
<1>3. GiveUp(u) = v
  BY DEF GiveUp
<1>4. "EOF" \in f <=> "EOF" \in u.flags
  OBVIOUS
<1>5. SameSender(u, v) /\ SameTaken(u, v) /\ v.state = "CLOSED"
  <2>. HIDE DEF k, f
  <2>. QED BY <1>1, <1>4 DEF Socket, SameSender, SameTaken, Finished
<1>. QED BY <1>2, <1>3, <1>5, SilentPolls DEF Follows

LEMMA PollOpeningSends ==
  ASSUME NEW u, NEW r, NEW n, NEW i \in SeqNo, NEW j \in SeqNo,
         EndOK(u, r, n, i, j), u.state \in Opening, NEW link \in Link
  PROVE  Polls(u, PollOpening(u, link), r, n, i, j)
<1>. DEFINE res == FirstResult(link)
            fl == IF u.state = "SYN_SENT" THEN {"SYN"} ELSE {"SYN", "ACK"}
            p == (res # "OK")
            k == u.retries + 1
            o == Doubled(u.rto)
            x == [u EXCEPT !.retries = k, !.rto = o]
            again(y) == [y EXCEPT !.sent_age = 0, !.syn_pending = p]
            l == [u EXCEPT !.retries = k, !.flags = {}, !.state = "LISTEN"]
<1>1. /\ u \in Socket /\ RingsHold(u) /\ Good(u)
      /\ p \in BOOLEAN /\ k \in Nat /\ o \in Nat \ {0}
  BY Fields, Consts DEF EndOK, Good, Doubled
<1>2. u.iss = i /\ Born(u) /\ i \in SeqNo
  BY DEF EndOK, Sends, Opening
<1>3. ASSUME NEW y \in Socket, SameCore(u, y), y.rcv_nxt = u.rcv_nxt
      PROVE  Polls(u, emit(again(y), fl, u.iss, << >>, res), r, n, i, j)
  <2>. DEFINE v == again(y)  data == << >>
  <2>1. v \in Socket /\ SameCore(y, v) /\ v.rcv_nxt = y.rcv_nxt
    <3>. HIDE DEF p
    <3>. QED BY <1>1, <1>3, InSeqNo DEF Socket, SameCore
  <2>. HIDE DEF v
  <2>2. SameCore(u, v) /\ v.rcv_nxt = u.rcv_nxt
    BY <1>3, <2>1 DEF SameCore
  <2>3. /\ fl \in SUBSET SegFlags /\ "SYN" \in fl
        /\ "FIN" \notin fl /\ "RST" \notin fl
        /\ "ACK" \in fl => u.state = "SYN_RCVD"
    BY DEF SegFlags, Opening
  <2>4. data \in Seq(Byte)
    BY EmptyBytes
  <2>5. "ACK" \in fl => Open(v)
    BY <2>2, <2>3 DEF Open, SameCore
  <2>6. Born(v) /\ v.iss = i
    BY <1>2, <2>2 DEF Born, SameCore
  <2>7. EndOK(v, r, n, i, j)
    BY <2>1, <2>2, TimersSame
  <2>. HIDE DEF fl, data
  <2>8. SeqOK(Build(v, fl, i, data), v, n, i)
    <3>. DEFINE s == Build(v, fl, i, data)
    <3>0. s = Build(v, fl, i, data) /\ v \in Socket /\ RingsHold(v)
      BY <2>7 DEF EndOK, Good
    <3>. HIDE DEF s
    <3>1. s.fl = fl /\ s.seq = i /\ s.data = data
      BY <2>3, <2>4, <3>0, Built
    <3>. QED BY <2>3, <2>6, <3>1 DEF SeqOK, data, s
  <2>9. Polls(u, emit(v, fl, i, data, res), r, n, i, j)
    BY <2>1, <2>2, <2>3, <2>4, <2>5, <2>8, TimersEmit
  <2>. QED BY <1>2, <2>9 DEF v, data
<1>4. Good(PollOpening(u, link).t)
  BY <1>1, PollOpeningKeeps DEF PollKeeps
<1>5. CASE u.syn_pending
  <2>1. PollOpening(u, link) = emit(again(u), fl, u.iss, << >>, res)
    BY <1>5 DEF PollOpening
  <2>2. SameCore(u, u)
    BY DEF SameCore
  <2>. QED BY <1>1, <1>3, <2>1, <2>2
<1>6. CASE ~u.syn_pending /\ Overdue(u) /\ u.retries + 1 <= MaxRetries
  <2>1. PollOpening(u, link) = emit(again(x), fl, u.iss, << >>, res)
    BY <1>6 DEF PollOpening
  <2>2. x \in Socket /\ SameCore(u, x) /\ x.rcv_nxt = u.rcv_nxt
    <3>. HIDE DEF k, o
    <3>. QED BY <1>1 DEF Socket, SameCore
  <2>. HIDE DEF x
  <2>. QED BY <1>3, <2>1, <2>2
<1>7. CASE /\ ~u.syn_pending /\ Overdue(u) /\ ~(u.retries + 1 <= MaxRetries)
           /\ u.state = "SYN_SENT"
  <2>1. PollOpening(u, link) = Silent(GiveUp(u))
    BY <1>7 DEF PollOpening
  <2>. QED BY <2>1, GiveUpPolls
<1>8. CASE /\ ~u.syn_pending /\ Overdue(u) /\ ~(u.retries + 1 <= MaxRetries)
           /\ u.state = "SYN_RCVD"
  <2>1. PollOpening(u, link) = Silent(l)
    BY <1>8 DEF PollOpening
  <2>2. ~Finished(u)
    BY <1>8 DEF EndOK, Receives, Opening
  <2>3. l.state = "LISTEN" /\ SameSender(u, l) /\ SameTaken(u, l)
    <3>. HIDE DEF k
    <3>. QED BY <1>1, <2>2 DEF Socket, SameSender, SameTaken, Finished
  <2>. HIDE DEF l
  <2>4. Good(l)
    BY <1>4, <2>1 DEF Silent
  <2>. QED BY <1>8, <2>1, <2>3, <2>4, SilentPolls DEF Follows
<1>9. CASE ~u.syn_pending /\ ~Overdue(u)
  <2>1. PollOpening(u, link) = Silent(u)
    BY <1>9 DEF PollOpening
  <2>. QED BY <1>1, <2>1, SilentPolls DEF SameSender, SameTaken, Follows
<1>. QED BY <1>5, <1>6, <1>7, <1>8, <1>9 DEF Opening

(* Where the send ring is in the stream. *)
LEMMA SenderAt ==
  ASSUME NEW u, NEW r, NEW n, NEW i \in SeqNo, NEW j, EndOK(u, r, n, i, j),
         Synced(u)
  PROVE  /\ Born(u) /\ Nxt(u, i) = SeqSub(u.snd_nxt, i)
         /\ Len(u.sndq) \in Nat /\ Len(u.sndq) <= n
         /\ u.inflight \in Nat /\ u.inflight <= Len(u.sndq)
         /\ u.sndq = Bytes(n - Len(u.sndq), Len(u.sndq))
         /\ SeqSub(u.snd_una, i) \in Nat
         /\ SeqSub(u.snd_una, i) <= Nxt(u, i)
         /\ ~u.fin_sent => /\ SeqSub(u.snd_una, i) = 1 + n - Len(u.sndq)
                           /\ Nxt(u, i) = SeqSub(u.snd_una, i) + u.inflight
         /\ u.fin_sent => /\ u.sndq = << >> /\ Len(u.sndq) = 0
                          /\ Nxt(u, i) = n + 2
                          /\ SeqSub(u.snd_una, i) >= n + 1
<1>1. /\ u \in Socket /\ u.snd_nxt \in SeqNo /\ u.snd_una \in SeqNo
      /\ u.inflight \in Nat /\ u.sndq \in Seq(Byte) /\ n \in Nat
  BY Fields, EndTypes DEF EndOK, Good
<1>2. Len(u.sndq) \in Nat /\ u.inflight <= Len(u.sndq)
  BY <1>1, LenNat DEF EndOK, Good, RingsHold
<1>3. Born(u) /\ Nxt(u, i) = SeqSub(u.snd_nxt, i)
  BY DEF EndOK, Sends, Synced, Nxt
<1>4. /\ SeqSub(u.snd_una, i) \in Nat /\ SeqSub(u.snd_nxt, i) \in Nat
      /\ SeqSub(u.snd_una, i) <= SeqSub(u.snd_nxt, i)
  BY <1>1, <1>3, SeqSubType DEF EndOK, Sends
<1>5. SeqSub(u.snd_nxt, u.snd_una) = SeqSub(u.snd_nxt, i) - SeqSub(u.snd_una, i)
  BY <1>1, <1>4, Positions
<1>6. Balanced(u) /\ Sends(u, n, i)
  BY DEF EndOK, Good, Books
<1>7. /\ Len(u.sndq) <= n
      /\ u.sndq = Bytes(n - Len(u.sndq), Len(u.sndq))
  BY <1>6 DEF Sends
<1>8. ASSUME ~u.fin_sent
      PROVE  /\ SeqSub(u.snd_una, i) = 1 + n - Len(u.sndq)
             /\ Nxt(u, i) = SeqSub(u.snd_una, i) + u.inflight
  <2>1. SeqSub(u.snd_una, i) = 1 + n - Len(u.sndq)
    BY <1>6, <1>8 DEF Sends
  <2>2. SeqSub(u.snd_nxt, u.snd_una) = u.inflight
    BY <1>6, <1>8 DEF Balanced
  <2>3. SeqSub(u.snd_nxt, i) = SeqSub(u.snd_una, i) + u.inflight
    <3>. DEFINE a == SeqSub(u.snd_nxt, i)  b == SeqSub(u.snd_una, i)
    <3>1. a \in Nat /\ b \in Nat /\ u.inflight = a - b
      BY <1>4, <1>5, <2>2
    <3>. HIDE DEF a, b
    <3>2. a = b + u.inflight
      BY <3>1
    <3>. QED BY <3>2 DEF a, b
  <2>. QED BY <1>3, <2>1, <2>3
<1>9. ASSUME u.fin_sent
      PROVE  /\ u.sndq = << >> /\ Len(u.sndq) = 0
             /\ Nxt(u, i) = n + 2 /\ SeqSub(u.snd_una, i) >= n + 1
  <2>1. u.sndq = << >> /\ SeqSub(u.snd_nxt, u.snd_una) <= 1
    BY <1>6, <1>9 DEF Balanced
  <2>2. SeqSub(u.snd_nxt, i) = n + 2
    BY <1>6, <1>9 DEF Sends
  <2>. QED BY <1>1, <1>3, <1>4, <1>5, <2>1, <2>2, EmptyBytes
<1>. QED BY <1>1, <1>2, <1>3, <1>4, <1>7, <1>8, <1>9

(* A segment of data out of the send ring, from its byte o + 1 on, is in   *)
(* order if it ends within what is in flight.                              *)
LEMMA DataOK ==
  ASSUME NEW u, NEW r, NEW n, NEW i \in SeqNo, NEW j \in SeqNo,
         EndOK(u, r, n, i, j), Synced(u), ~u.fin_sent,
         NEW o \in Nat, NEW l \in Nat, o + l <= u.inflight,
         NEW s, s.fl = {"ACK"}, s.seq \in SeqNo,
         SeqSub(s.seq, i) = SeqSub(u.snd_una, i) + o,
         s.data = SubSeq(u.sndq, o + 1, o + l)
  PROVE  SeqOK(s, u, n, i)
<1>. DEFINE k == n - Len(u.sndq)
<1>1. /\ Len(u.sndq) \in Nat /\ Len(u.sndq) <= n /\ n \in Nat
      /\ u.inflight \in Nat /\ u.inflight <= Len(u.sndq)
      /\ u.sndq = Bytes(k, Len(u.sndq))
      /\ SeqSub(u.snd_una, i) = 1 + k
      /\ Nxt(u, i) = 1 + k + u.inflight
      /\ n + RcvBuf + 4 < Half
  <2>1. 1 + n - Len(u.sndq) = 1 + k
    BY SenderAt, EndTypes
  <2>. QED BY <2>1, SenderAt, EndTypes
<1>2. k \in Nat /\ k + u.inflight <= n
  BY <1>1
<1>. HIDE DEF k
<1>4. SeqSub(s.seq, i) = 1 + k + o
  BY <1>1
<1>5. s.data = Bytes(k + o, l)
  <2>. DEFINE x == o + 1  y == o + l  m == Len(u.sndq)
  <2>1. x \in 1 .. m + 1 /\ y \in x - 1 .. m /\ m \in Nat
    BY <1>1
  <2>2. k + x - 1 = k + o /\ y - x + 1 = l
    BY <1>2
  <2>3. s.data = SubSeq(Bytes(k, m), x, y)
    BY <1>1
  <2>. HIDE DEF x, y, m
  <2>4. SubSeq(Bytes(k, m), x, y) = Bytes(k + x - 1, y - x + 1)
    BY <1>2, <2>1, Part
  <2>. QED BY <2>2, <2>3, <2>4
<1>6. Len(s.data) = l
  BY <1>2, <1>5, BytesSeq
<1>8. /\ SeqSub(s.seq, i) \in 1 .. Nxt(u, i)
      /\ SeqSub(s.seq, i) + Len(s.data) <= Nxt(u, i)
      /\ SeqSub(s.seq, i) + Len(s.data) <= n + 1
      /\ SeqSub(s.seq, i) - 1 = k + o
  BY <1>1, <1>2, <1>4, <1>6
<1>9. s.data = Bytes(SeqSub(s.seq, i) - 1, Len(s.data))
  BY <1>5, <1>6, <1>8
<1>. QED BY <1>4, <1>6, <1>8, <1>9 DEF SeqOK

(* The FIN is in order once the socket has numbered it. *)
LEMMA FinOK ==
  ASSUME NEW u, NEW r, NEW n, NEW i \in SeqNo, NEW j,
         EndOK(u, r, n, i, j), Synced(u), u.fin_sent,
         NEW s, s.fl = {"ACK", "FIN"}, s.data = << >>,
         SeqSub(s.seq, i) = n + 1
  PROVE  SeqOK(s, u, n, i)
<1>1. Nxt(u, i) = n + 2 /\ n \in Nat
  <2>1. Nxt(u, i) = n + 2
    BY SenderAt
  <2>. QED BY <2>1, EndTypes
<1>2. Over(u)
  BY DEF Over, EndOK, Good, Agrees
<1>3. Len(s.data) = 0 /\ s.data = Bytes(SeqSub(s.seq, i) - 1, Len(s.data))
  BY NoBytes
<1>. QED BY <1>1, <1>2, <1>3 DEF SeqOK

(* What is changed after emit(). *)
LEMMA PollsThen ==
  ASSUME NEW u, NEW e, NEW r, NEW n, NEW i \in SeqNo, NEW j \in SeqNo,
         EndOK(u, r, n, i, j), Polls(u, e, r, n, i, j),
         NEW f, f.out = e.out, Good(f.t),
         SameSender(e.t, f.t), SameTaken(e.t, f.t), Follows(e.t, f.t)
  PROVE  Polls(u, f, r, n, i, j)
<1>1. EndOK(e.t, r, n, i, j)
  BY DEF Polls, Moves
<1>2. /\ Moves(e.t, f.t, r, n, i, j) /\ Una(f.t, i) = Una(e.t, i)
      /\ (Open(f.t) => Open(e.t))
  BY <1>1, SameEnd
<1>3. Emitted(f.out, f.t, r, n, i, j)
  BY <1>1, <1>2, EmittedKeeps DEF Polls
<1>4. Moves(u, f.t, r, n, i, j)
  BY <1>2, ForwardOn DEF Polls
<1>. QED BY <1>2, <1>3, <1>4 DEF Polls, SameTaken

LEMMA PollTimeWaitSends ==
  ASSUME NEW u, NEW r, NEW n, NEW i \in SeqNo, NEW j \in SeqNo,
         EndOK(u, r, n, i, j), u.state = "TIME_WAIT", NEW link \in Link
  PROVE  Polls(u, PollTimeWait(u, link), r, n, i, j)
<1>. DEFINE w == [u EXCEPT !.ack_pending = FALSE, !.timewait_age = 0]
            res == FirstResult(link)
            e == IF u.ack_pending
                 THEN emit(w, {"ACK"}, u.snd_nxt, << >>, res)
                 ELSE Silent(u)
            x == IF e.t.timewait_age >= TimeWaitTicks THEN "CLOSED" ELSE e.t.state
            v == [e.t EXCEPT !.state = x]
<1>1. u \in Socket /\ Good(u) /\ Synced(u) /\ u.snd_nxt \in SeqNo
  BY Fields DEF EndOK, Good, Synced, Opening
<1>2. Polls(u, e, r, n, i, j) /\ e.t \in Socket
  <2>1. CASE u.ack_pending
    <3>. DEFINE fl == {"ACK"}  data == << >>
    <3>1. 0 \in 0 .. TimeWaitTicks
      BY Consts
    <3>2. w \in Socket /\ SameCore(u, w) /\ w.rcv_nxt = u.rcv_nxt
      BY <1>1, <3>1 DEF Socket, SameCore
    <3>3. e = emit(w, fl, u.snd_nxt, data, res)
      BY <2>1
    <3>4. /\ fl \in SUBSET SegFlags /\ data \in Seq(Byte) /\ "RST" \notin fl
      BY EmptyBytes DEF SegFlags
    <3>. HIDE DEF w, e
    <3>5. EndOK(w, r, n, i, j)
      BY <3>2, TimersSame
    <3>6. Synced(w) /\ w.snd_nxt = u.snd_nxt
      BY <1>1, <3>2 DEF Synced, SameCore
    <3>7. Open(w) /\ SeqOK(Build(w, fl, u.snd_nxt, data), w, n, i)
      BY <3>5, <3>6, PureAck DEF Open
    <3>. HIDE DEF fl, data
    <3>8. Polls(u, e, r, n, i, j)
      BY <1>1, <3>2, <3>3, <3>4, <3>7, TimersEmit
    <3>. QED BY <3>8 DEF Polls, Moves, EndOK, Good
  <2>2. CASE ~u.ack_pending
    <3>1. e = Silent(u)
      BY <2>2
    <3>2. Polls(u, Silent(u), r, n, i, j)
      BY <1>1, SilentPolls DEF SameSender, SameTaken, Follows
    <3>. HIDE DEF e
    <3>. QED BY <1>1, <3>1, <3>2 DEF Silent
  <2>. QED BY <2>1, <2>2
<1>3. /\ PollTimeWait(u, link).t = v /\ PollTimeWait(u, link).out = e.out
  BY DEF PollTimeWait, emit, Silent
<1>4. Good(v)
  BY <1>1, <1>3, PollTimeWaitKeeps DEF PollKeeps
<1>5. x = "CLOSED" \/ x = e.t.state
  OBVIOUS
<1>6. SameSender(e.t, v) /\ SameTaken(e.t, v) /\ Follows(e.t, v)
  <2>. HIDE DEF x, e
  <2>. QED BY <1>2, <1>5 DEF Socket, SameSender, SameTaken, Finished, Follows
<1>. HIDE DEF v, e
<1>. QED BY <1>2, <1>3, <1>4, <1>6, PollsThen

LEMMA PollSameSilent ==
  ASSUME NEW u, NEW r, NEW n, NEW i \in SeqNo, NEW j, EndOK(u, r, n, i, j)
  PROVE  Polls(u, Silent(u), r, n, i, j)
BY SilentPolls DEF SameSender, SameTaken, Follows, EndOK

LEMMA RetransmitSends ==
  ASSUME NEW u, NEW r, NEW n, NEW i \in SeqNo, NEW j \in SeqNo,
         EndOK(u, r, n, i, j), Synced(u), Outstanding(u), NEW link \in Link
  PROVE  Polls(u, Retransmit(u, link), r, n, i, j)
<1>. DEFINE k == u.retries + 1
            o == Doubled(u.rto)
            c == u.peer_mss
            w == [u EXCEPT !.retries = k, !.rto = o, !.sent_age = 0, !.cwnd = c]
            res == FirstResult(link)
            l == Lesser(u.inflight, u.peer_mss)
            d == SubSeq(u.sndq, 1, l)
            x == SeqSub(u.snd_nxt, 1)
<1>1. /\ u \in Socket /\ k \in Nat /\ o \in Nat \ {0} /\ c \in Nat
      /\ u.snd_nxt \in SeqNo /\ u.snd_una \in SeqNo /\ u.sndq \in Seq(Byte)
      /\ u.inflight \in Nat /\ u.peer_mss \in Nat
  BY Fields, Consts DEF EndOK, Good, Doubled
<1>2. w \in Socket /\ SameCore(u, w) /\ w.rcv_nxt = u.rcv_nxt
  <2>. HIDE DEF k, o, c
  <2>. QED BY <1>1, InSeqNo DEF Socket, SameCore
<1>. HIDE DEF w
<1>3. EndOK(w, r, n, i, j) /\ Synced(w) /\ Open(w) /\ RingsHold(w)
  <2>1. Synced(w)
    BY <1>2 DEF Synced, SameCore
  <2>2. EndOK(w, r, n, i, j)
    BY <1>2, TimersSame
  <2>. QED BY <2>1, <2>2 DEF Open, EndOK, Good
<1>4. CASE u.retries + 1 > MaxRetries
  BY <1>4, GiveUpPolls DEF Retransmit
<1>5. CASE ~(u.retries + 1 > MaxRetries) /\ u.inflight > 0
  <2>. DEFINE fl == {"ACK"}
  <2>1. Retransmit(u, link) = emit(w, fl, u.snd_una, d, res)
    BY <1>5 DEF Retransmit, w
  <2>2. ~w.fin_sent /\ w.sndq = u.sndq /\ w.snd_una = u.snd_una
        /\ w.inflight = u.inflight
    BY <1>1, <1>2, <1>5, SenderAt DEF SameCore
  <2>3. l \in Nat /\ l <= u.inflight /\ u.inflight <= Len(u.sndq)
        /\ Len(u.sndq) \in Nat
    BY <1>1, Least, SenderAt
  <2>4. fl \in SUBSET SegFlags /\ d \in Seq(Byte) /\ "RST" \notin fl
    <3>. HIDE DEF l
    <3>1. d \in Seq(Byte)
      BY <1>1, <2>3, SubSeqProperties
    <3>. QED BY <3>1 DEF SegFlags
  <2>. HIDE DEF fl, d, l
  <2>5. SeqOK(Build(w, fl, u.snd_una, d), w, n, i)
    <3>. DEFINE s == Build(w, fl, u.snd_una, d)
    <3>0. s = Build(w, fl, u.snd_una, d)
      OBVIOUS
    <3>. HIDE DEF s
    <3>1. s.fl = fl /\ s.seq = u.snd_una /\ s.data = d
      BY <3>0 DEF Build
    <3>2. SeqSub(s.seq, i) = SeqSub(w.snd_una, i) + 0 /\ s.seq \in SeqNo
      <4>1. SeqSub(u.snd_una, i) \in Nat
        BY <1>1, SeqSubType
      <4>. QED BY <1>1, <2>2, <3>1, <4>1
    <3>3. s.data = SubSeq(w.sndq, 0 + 1, 0 + l) /\ 0 + l <= w.inflight
      BY <2>2, <2>3, <3>1 DEF d
    <3>4. s.fl = {"ACK"} /\ 0 \in Nat
      BY <3>1 DEF fl
    <3>. QED BY <1>3, <2>2, <2>3, <3>2, <3>3, <3>4, DataOK DEF s
  <2>. QED BY <1>1, <1>2, <1>3, <2>1, <2>4, <2>5, TimersEmit
<1>6. CASE ~(u.retries + 1 > MaxRetries) /\ ~(u.inflight > 0)
  <2>. DEFINE fl == {"ACK", "FIN"}  data == << >>
  <2>1. Retransmit(u, link) = emit(w, fl, x, data, res)
    BY <1>6 DEF Retransmit, w
  <2>2. w.fin_sent
    BY <1>2, <1>6 DEF Outstanding, SameCore
  <2>3. x \in SeqNo /\ SeqSub(x, i) = n + 1
    <3>1. SeqSub(u.snd_nxt, i) = n + 2 /\ n \in Nat
      <4>1. SeqSub(u.snd_nxt, i) = n + 2
        BY <1>2, <2>2 DEF EndOK, Sends, SameCore
      <4>. QED BY <4>1, EndTypes
    <3>2. SeqSub(u.snd_nxt, i) # 0
      BY <3>1
    <3>. QED BY <1>1, <3>1, <3>2, OneBack
  <2>4. fl \in SUBSET SegFlags /\ data \in Seq(Byte) /\ "RST" \notin fl
    BY EmptyBytes DEF SegFlags
  <2>. HIDE DEF fl, data, x
  <2>5. SeqOK(Build(w, fl, x, data), w, n, i)
    <3>. DEFINE s == Build(w, fl, x, data)
    <3>0. s = Build(w, fl, x, data)
      OBVIOUS
    <3>. HIDE DEF s
    <3>1. s.fl = fl /\ s.seq = x /\ s.data = data
      BY <3>0 DEF Build
    <3>2. s.fl = {"ACK", "FIN"} /\ s.data = << >>
      BY <3>1 DEF fl, data
    <3>. QED BY <1>3, <2>2, <2>3, <3>1, <3>2, FinOK DEF s
  <2>. QED BY <1>2, <1>3, <2>1, <2>3, <2>4, <2>5, TimersEmit
<1>. QED BY <1>4, <1>5, <1>6

(* The segments of the send loop start before its end. *)
LEMMA Chunks ==
  ASSUME NEW d \in Nat, NEW m \in Nat \ {0}, NEW k \in 1 .. (d + m - 1) \div m
  PROVE  (k - 1) * m \in Nat /\ (k - 1) * m < d
<1>. DEFINE x == d + m - 1  c == x \div m
<1>1. x \in Nat /\ c \in Nat /\ c * m <= x
  BY SMT
<1>2. k * m <= c * m
  <2>1. c - k \in Nat /\ k \in Nat
    BY <1>1
  <2>. HIDE DEF c
  <2>2. (c - k) * m \in Nat
    BY <2>1
  <2>3. (c - k) * m = c * m - k * m
    BY <1>1, <2>1
  <2>4. c * m \in Int /\ k * m \in Int
    BY <1>1, <2>1
  <2>. QED BY <2>2, <2>3, <2>4
<1>3. (k - 1) * m = k * m - m
  OBVIOUS
<1>4. k - 1 \in Nat /\ k * m \in Int /\ c * m \in Int
  BY <1>1
<1>5. (k - 1) * m \in Nat
  BY <1>4
<1>. HIDE DEF c
<1>. QED BY <1>1, <1>2, <1>3, <1>4, <1>5

(* The part of the send ring that SendQueued numbers.                      *)
LEMMA NumbersMore ==
  ASSUME NEW u, NEW r, NEW n, NEW i \in SeqNo, NEW j, EndOK(u, r, n, i, j),
         Synced(u), ~u.fin_sent,
         NEW z, Good(z), NEW e \in Nat, u.inflight <= e, e <= Len(u.sndq),
         z.state = u.state, z.flags = u.flags, z.iss = u.iss,
         z.snd_una = u.snd_una, z.sndq = u.sndq,
         z.snd_nxt = SeqAdd(u.snd_nxt, e - u.inflight),
         z.fin_queued = u.fin_queued, z.fin_sent = u.fin_sent,
         z.rcvq = u.rcvq, z.rcv_nxt = u.rcv_nxt
  PROVE  /\ Moves(u, z, r, n, i, j) /\ SameTaken(u, z)
         /\ Una(z, i) = Una(u, i) /\ Open(z) /\ Synced(z)
         /\ Nxt(z, i) = Nxt(u, i) + (e - u.inflight)
<1>. DEFINE N == SeqSub(u.snd_nxt, i)  U == SeqSub(u.snd_una, i)
            d == e - u.inflight  M == SeqSub(z.snd_nxt, i)
<1>0. Born(u) /\ u.sndq = Bytes(n - Len(u.sndq), Len(u.sndq))
  BY SenderAt
<1>1. /\ Nxt(u, i) = N /\ U = 1 + n - Len(u.sndq)
      /\ N = U + u.inflight /\ u.inflight \in Nat
      /\ Len(u.sndq) \in Nat /\ Len(u.sndq) <= n
  BY SenderAt
<1>2. n \in Nat /\ n + RcvBuf + 4 < Half
  BY EndTypes
<1>3. u.snd_nxt \in SeqNo /\ u.snd_una \in SeqNo
  BY Fields DEF EndOK, Good
<1>. HIDE DEF N, U
<1>4. d \in Nat /\ U \in Nat /\ N + d = U + e /\ U + e <= n + 1 /\ 1 <= N
      /\ N + d < SeqSpace
  <2>. DEFINE q == Len(u.sndq)  f == u.inflight
  <2>1. /\ U = 1 + n - q /\ N = U + f /\ f \in Nat /\ q \in Nat /\ q <= n
        /\ e \in Nat /\ f <= e /\ e <= q /\ d = e - f
    BY <1>1
  <2>. HIDE DEF q, f, d
  <2>. QED BY <1>2, <2>1, Consts
<1>5. M = N + d
  <2>1. SeqSub(u.snd_nxt, i) + d < SeqSpace
    BY <1>4 DEF N
  <2>. HIDE DEF d
  <2>2. SeqSub(SeqAdd(u.snd_nxt, d), i) = SeqSub(u.snd_nxt, i) + d
    BY <1>3, <1>4, <2>1, SeqSubAdd
  <2>. QED BY <2>2 DEF d, N
<1>. HIDE DEF d, M
<1>6. u.iss = i
  BY <1>0 DEF EndOK, Sends
<1>7. Born(z)
  <2>1. M # 0
    BY <1>1, <1>4, <1>5
  <2>. QED BY <1>6, <2>1, AtStart DEF Born, M
<1>8. Nxt(z, i) = M /\ Una(z, i) = U /\ Una(u, i) = U
  BY <1>0, <1>1, <1>7 DEF Nxt, Una, M, U
<1>9. Synced(z) /\ Open(z) /\ Open(u)
  BY DEF Synced, Open
<1>10. SameTaken(u, z)
  BY DEF SameTaken, Finished
<1>11. Sends(z, n, i)
  <2>1. M \in 1 .. n + 2 /\ U <= M
    <3>1. M = U + e /\ U \in Nat /\ U + e <= n + 1 /\ 1 <= U + e
      <4>1. 1 <= N + d
        BY <1>1, <1>4
      <4>. QED BY <1>4, <1>5, <4>1
    <3>. QED BY <1>2, <3>1
  <2>2. z.state \notin Opening \cup {"LISTEN"}
    BY <1>9 DEF Synced
  <2>. QED BY <1>0, <1>1, <1>6, <1>7, <1>9, <2>1, <2>2 DEF Sends, M, U
<1>12. Receives(z, r, j)
  <2>1. z.state \notin Opening \cup {"LISTEN"}
    BY <1>9 DEF Synced
  <2>. QED BY <1>7, <1>9, <1>10, <2>1, SameReceives DEF EndOK
<1>13. Has(z, r) = Has(u, r) /\ Got(z, r) = Got(u, r) /\ Limit(z, r) = Limit(u, r)
  BY <1>10, SameGot
<1>14. EndOK(z, r, n, i, j)
  BY <1>11, <1>12, <1>13 DEF EndOK
<1>15. Over(u) => Over(z)
  BY <1>0, <1>7 DEF Over
<1>16. Got(u, r) \in Nat /\ Limit(u, r) \in Nat
  BY EndTypes
<1>17. Forward(u, r, n, z, r, n, i)
  <2>1. Nxt(u, i) <= Nxt(z, i)
    BY <1>1, <1>4, <1>5, <1>8
  <2>. QED BY <1>2, <1>13, <1>15, <1>16, <2>1 DEF Forward
<1>18. Nxt(z, i) = Nxt(u, i) + (e - u.inflight)
  BY <1>1, <1>5, <1>8 DEF d
<1>. QED BY <1>8, <1>9, <1>10, <1>14, <1>17, <1>18 DEF Moves

LEMMA SendQueuedSends ==
  ASSUME NEW u, NEW r, NEW n, NEW i \in SeqNo, NEW j \in SeqNo,
         EndOK(u, r, n, i, j), Synced(u), DataReady(u), NEW link \in Link
  PROVE  Polls(u, SendQueued(u, link), r, n, i, j)
<1>. DEFINE z == SendQueued(u, link).t
            out == SendQueued(u, link).out
            m == u.peer_mss
            e == SentUpTo(u, link)
            d == e - u.inflight
            c == (d + m - 1) \div m
            off(k) == u.inflight + (k - 1) * m
            s(k) == Build(u, {"ACK"}, SeqAdd(u.snd_nxt, (k - 1) * m),
                          SubSeq(u.sndq, off(k) + 1, Lesser(off(k) + m, e)))
<1>1. /\ u \in Socket /\ RingsHold(u) /\ u.snd_nxt \in SeqNo /\ u.snd_una \in SeqNo
      /\ u.inflight \in Nat /\ m \in Nat \ {0} /\ u.sndq \in Seq(Byte)
      /\ Len(u.sndq) \in Nat /\ u.inflight <= Len(u.sndq)
  BY Fields, LenNat DEF EndOK, Good, RingsHold
<1>2. e \in Nat /\ u.inflight <= e /\ e <= Len(u.sndq)
  <2>1. e \in u.inflight .. Len(u.sndq)
    BY SentUpToBound DEF EndOK
  <2>. HIDE DEF e
  <2>. QED BY <1>1, <2>1
<1>3. /\ PollKeeps(u, z)
      /\ z.state = u.state /\ z.flags = u.flags /\ z.iss = u.iss
      /\ z.snd_una = u.snd_una /\ z.sndq = u.sndq
      /\ z.snd_nxt = SeqAdd(u.snd_nxt, e - u.inflight)
      /\ z.inflight = e
      /\ z.fin_queued = u.fin_queued /\ z.fin_sent = u.fin_sent
  BY SendQueuedKeeps DEF EndOK
<1>4. ~u.fin_sent
  <2>1. Len(u.sndq) # 0
    BY <1>1 DEF DataReady
  <2>. QED BY <2>1, SenderAt
<1>5. out = [k \in 1 .. c |-> s(k)]
  BY DEF SendQueued
<1>. HIDE DEF z, out, e
<1>6. /\ Moves(u, z, r, n, i, j) /\ SameTaken(u, z)
      /\ Una(z, i) = Una(u, i) /\ Open(z) /\ Synced(z)
      /\ Nxt(z, i) = Nxt(u, i) + (e - u.inflight)
  BY <1>2, <1>3, <1>4, NumbersMore DEF PollKeeps
<1>7. EndOK(z, r, n, i, j)
  BY <1>6 DEF Moves
<1>8. d \in Nat /\ c \in Nat
  <2>1. d \in Nat
    <3>. HIDE DEF m
    <3>. QED BY <1>1, <1>2
  <2>. HIDE DEF d
  <2>2. m \in Nat \ {0} /\ d + m - 1 \in Nat
    BY <1>1, <2>1
  <2>. HIDE DEF m
  <2>. QED BY <2>1, <2>2
<1>. HIDE DEF m, d
<1>9. ASSUME NEW k \in 1 .. c
      PROVE  s(k) \in Segment /\ From(s(k), z, r, n, i, j)
  <2>. DEFINE o1 == (k - 1) * m
              o == u.inflight + o1
              l == Lesser(o + m, e) - o
              x == SeqAdd(u.snd_nxt, o1)
              data == SubSeq(u.sndq, o + 1, Lesser(o + m, e))
              fl == {"ACK"}
              b == Build(u, fl, x, data)
  <2>1. o1 \in Nat /\ o1 < d
    BY <1>1, <1>8, Chunks
  <2>2. s(k) = b /\ b = Build(u, fl, x, data)
    OBVIOUS
  <2>. HIDE DEF o1
  <2>3. o \in Nat /\ l \in Nat /\ o + l = Lesser(o + m, e) /\ o + l <= e
    <3>1. u.inflight + o1 < e /\ u.inflight + o1 \in Nat /\ m \in Nat
      BY <1>1, <1>2, <2>1 DEF d
    <3>2. o \in Nat /\ o < e /\ e \in Nat
      BY <1>2, <3>1
    <3>. HIDE DEF o
    <3>. QED BY <3>1, <3>2 DEF Lesser
  <2>4. x \in SeqNo /\ SeqSub(x, i) = SeqSub(z.snd_una, i) + o
    <3>1. /\ Nxt(u, i) = SeqSub(u.snd_nxt, i) /\ SeqSub(u.snd_una, i) \in Nat
          /\ Nxt(u, i) = SeqSub(u.snd_una, i) + u.inflight
      BY <1>4, SenderAt
    <3>2. Nxt(u, i) + o1 < SeqSpace
      <4>1. Nxt(z, i) \in Nat /\ Nxt(z, i) <= n + 2 /\ n + RcvBuf + 4 < Half
            /\ n \in Nat
        BY <1>7, EndTypes
      <4>2. Nxt(u, i) \in Nat
        BY EndTypes
      <4>. QED BY <1>6, <1>8, <2>1, <4>1, <4>2, Consts DEF d
    <3>3. SeqSub(u.snd_nxt, i) + o1 < SeqSpace
      BY <3>1, <3>2
    <3>4. x \in SeqNo /\ SeqSub(x, i) = SeqSub(u.snd_nxt, i) + o1
      BY <1>1, <2>1, <3>3, SeqSubAdd
    <3>. HIDE DEF x
    <3>5. SeqSub(x, i) = (SeqSub(u.snd_una, i) + u.inflight) + o1
      BY <3>1, <3>4
    <3>6. (SeqSub(u.snd_una, i) + u.inflight) + o1 = SeqSub(u.snd_una, i) + o
      <4>. DEFINE a == SeqSub(u.snd_una, i)
      <4>1. a \in Nat
        BY <3>1
      <4>. HIDE DEF a
      <4>2. (a + u.inflight) + o1 = a + o
        BY <1>1, <2>1, <4>1
      <4>. QED BY <4>2 DEF a
    <3>. QED BY <1>3, <3>4, <3>5, <3>6
  <2>5. data = SubSeq(z.sndq, o + 1, o + l)
    BY <1>3, <2>3
  <2>6. data \in Seq(Byte)
    <3>1. o + 1 \in Nat /\ o + l \in Int /\ 1 <= o + 1 /\ o + l <= Len(u.sndq)
      BY <1>1, <1>2, <2>3
    <3>2. data = SubSeq(u.sndq, o + 1, o + l)
      BY <2>3
    <3>. HIDE DEF data, o, l
    <3>. QED BY <1>1, <3>1, <3>2, SubSeqProperties
  <2>7. fl \in SUBSET SegFlags /\ "RST" \notin fl /\ "ACK" \in fl
    BY DEF SegFlags
  <2>. HIDE DEF b, fl, x, data, o, l
  <2>8. /\ b \in Segment /\ b.fl = fl /\ b.seq = x /\ b.data = data
        /\ b.ack = u.rcv_nxt /\ b.wnd = adv_window(u)
    BY <1>1, <2>2, <2>4, <2>6, <2>7, Built
  <2>9. SeqOK(b, z, n, i)
    <3>1. b.fl = {"ACK"}
      BY <2>8 DEF fl
    <3>2. b.seq \in SeqNo /\ SeqSub(b.seq, i) = SeqSub(z.snd_una, i) + o
      BY <2>4, <2>8
    <3>3. b.data = SubSeq(z.sndq, o + 1, o + l)
      BY <2>5, <2>8
    <3>4. ~z.fin_sent /\ o + l <= z.inflight
      BY <1>3, <1>4, <2>3
    <3>. QED BY <1>6, <1>7, <2>3, <3>1, <3>2, <3>3, <3>4, DataOK
  <2>10. AckOK(b, z, r, j)
    <3>1. b.ack = z.rcv_nxt /\ b.wnd = adv_window(z)
      BY <1>6, <2>8 DEF SameTaken, adv_window, rcv_free
    <3>. QED BY <1>6, <1>7, <3>1, Acknowledges
  <2>. QED BY <2>2, <2>8, <2>9, <2>10 DEF From
<1>10. Emitted(out, z, r, n, i, j)
  <2>. HIDE DEF c, s
  <2>1. out \in Seq(Segment) /\ Len(out) = c
    BY <1>5, <1>8, <1>9
  <2>. QED BY <1>5, <1>9, <2>1 DEF Emitted
<1>. QED BY <1>6, <1>10 DEF Polls, z, out, Open

LEMMA SendFinSends ==
  ASSUME NEW u, NEW r, NEW n, NEW i \in SeqNo, NEW j \in SeqNo,
         EndOK(u, r, n, i, j), Synced(u), u.state # "TIME_WAIT", FinReady(u),
         NEW link \in Link
  PROVE  Polls(u, SendFin(u, link), r, n, i, j)
<1>. DEFINE res == FirstResult(link)
            fl == {"ACK", "FIN"}
            data == << >>
            e == emit(u, fl, u.snd_nxt, data, res)
            z == SendFin(u, link).t
            out == SendFin(u, link).out
            s == Build(u, fl, u.snd_nxt, data)
<1>1. /\ u \in Socket /\ RingsHold(u) /\ Good(u)
      /\ u.snd_nxt \in SeqNo /\ u.snd_una \in SeqNo
  BY Fields DEF EndOK, Good
<1>2. /\ PollKeeps(u, z)
      /\ IF res # "OK" THEN SameCore(u, z)
         ELSE /\ z.flags = u.flags /\ z.iss = u.iss
              /\ z.snd_una = u.snd_una /\ z.sndq = u.sndq
              /\ z.snd_nxt = SeqAdd(u.snd_nxt, 1)
              /\ z.fin_queued = u.fin_queued /\ z.fin_sent
              /\ Synced(z)
  <2>1. u.state \notin {"TIME_WAIT"}
    OBVIOUS
  <2>. QED BY <1>1, <2>1, SendFinKeeps
<1>3. out = IF res = "OK" THEN <<s>> ELSE << >>
  BY DEF SendFin, emit
<1>4. SendFin(u, link).t = z /\ SendFin(u, link).out = out
  OBVIOUS
<1>5. s = Build(u, fl, u.snd_nxt, data)
  OBVIOUS
<1>6. /\ fl \in SUBSET SegFlags /\ "RST" \notin fl /\ "ACK" \in fl
      /\ data \in Seq(Byte)
  BY EmptyBytes DEF SegFlags
<1>. HIDE DEF z, out, s, fl, data
<1>7. CASE res # "OK"
  <2>1. SameCore(u, z) /\ Good(z) /\ z.rcv_nxt = u.rcv_nxt
    BY <1>2, <1>7 DEF PollKeeps
  <2>2. SameSender(u, z) /\ SameTaken(u, z) /\ Follows(u, z)
    BY <2>1, CoreSame
  <2>3. /\ Moves(u, z, r, n, i, j)
        /\ Una(z, i) = Una(u, i) /\ (Open(z) => Open(u))
    BY <2>1, <2>2, SameEnd
  <2>4. Emitted(out, z, r, n, i, j)
    BY <1>3, <1>7 DEF Emitted
  <2>. QED BY <1>4, <2>2, <2>3, <2>4 DEF Polls
<1>8. CASE res = "OK"
  <2>. DEFINE N == SeqSub(u.snd_nxt, i)
  <2>1. /\ Good(z) /\ z.rcv_nxt = u.rcv_nxt /\ z.rcvq = u.rcvq
        /\ z.flags = u.flags /\ z.iss = u.iss
        /\ z.snd_una = u.snd_una /\ z.sndq = u.sndq
        /\ z.snd_nxt = SeqAdd(u.snd_nxt, 1)
        /\ z.fin_queued = u.fin_queued /\ z.fin_sent /\ Synced(z)
    BY <1>2, <1>8 DEF PollKeeps
  <2>2. /\ Born(u) /\ Nxt(u, i) = N /\ N = n + 1 /\ n \in Nat
        /\ SeqSub(u.snd_una, i) = n + 1 /\ Len(u.sndq) = 0
        /\ u.sndq = Bytes(n - Len(u.sndq), Len(u.sndq))
        /\ n + RcvBuf + 4 < Half
    <3>1. /\ Born(u) /\ Nxt(u, i) = N /\ Len(u.sndq) \in Nat
          /\ SeqSub(u.snd_una, i) = 1 + n - Len(u.sndq)
          /\ Nxt(u, i) = SeqSub(u.snd_una, i) + u.inflight
          /\ u.sndq = Bytes(n - Len(u.sndq), Len(u.sndq))
      BY SenderAt DEF FinReady
    <3>2. n \in Nat /\ n + RcvBuf + 4 < Half
      BY EndTypes
    <3>3. Len(u.sndq) = 0 /\ u.inflight = 0
      BY EmptyBytes DEF FinReady
    <3>. HIDE DEF N
    <3>. QED BY <3>1, <3>2, <3>3
  <2>3. SeqSub(z.snd_nxt, i) = n + 2
    <3>1. SeqSub(u.snd_nxt, i) + 1 < SeqSpace
      BY <2>2, Consts
    <3>2. SeqSub(SeqAdd(u.snd_nxt, 1), i) = SeqSub(u.snd_nxt, i) + 1
      BY <1>1, <3>1, SeqSubAdd
    <3>. QED BY <2>1, <2>2, <3>2
  <2>4. u.iss = i
    BY <2>2 DEF EndOK, Sends
  <2>5. Born(z)
    <3>1. SeqSub(z.snd_nxt, i) # 0
      BY <2>2, <2>3
    <3>. QED BY <2>1, <2>4, <3>1, AtStart DEF Born
  <2>6. Nxt(z, i) = n + 2 /\ Una(z, i) = n + 1 /\ Una(u, i) = n + 1
    BY <2>1, <2>2, <2>3, <2>5 DEF Nxt, Una
  <2>7. Open(u) /\ Open(z) /\ z.state \notin Opening \cup {"LISTEN"}
    BY <2>1 DEF Open, Synced
  <2>8. SameTaken(u, z)
    BY <2>1 DEF SameTaken, Finished
  <2>9. Sends(z, n, i)
    <3>1. SeqSub(z.snd_nxt, i) \in 1 .. n + 2
          /\ SeqSub(z.snd_una, i) <= SeqSub(z.snd_nxt, i)
      BY <2>1, <2>2, <2>3
    <3>. QED BY <2>1, <2>2, <2>3, <2>4, <2>5, <2>7, <3>1 DEF Sends
  <2>10. Receives(z, r, j)
    BY <2>5, <2>7, <2>8, SameReceives DEF EndOK
  <2>11. Has(z, r) = Has(u, r) /\ Got(z, r) = Got(u, r) /\ Limit(z, r) = Limit(u, r)
    BY <2>8, SameGot
  <2>12. EndOK(z, r, n, i, j)
    BY <2>1, <2>9, <2>10, <2>11 DEF EndOK
  <2>13. Forward(u, r, n, z, r, n, i)
    <3>1. Over(u) => Over(z)
      BY <2>1 DEF Over, FinReady
    <3>2. Got(u, r) \in Nat /\ Limit(u, r) \in Nat
      BY EndTypes
    <3>. HIDE DEF N
    <3>. QED BY <2>2, <2>6, <2>11, <3>1, <3>2 DEF Forward
  <2>14. /\ s \in Segment /\ s.fl = fl /\ s.seq = u.snd_nxt /\ s.data = data
         /\ s.ack = u.rcv_nxt /\ s.wnd = adv_window(u)
    BY <1>1, <1>5, <1>6, Built
  <2>15. SeqOK(s, z, n, i)
    <3>1. s.fl = {"ACK", "FIN"} /\ s.data = << >> /\ SeqSub(s.seq, i) = n + 1
      BY <2>2, <2>14 DEF fl, data
    <3>. QED BY <2>1, <2>12, <3>1, FinOK
  <2>16. AckOK(s, z, r, j)
    <3>1. s.ack = z.rcv_nxt /\ s.wnd = adv_window(z)
      BY <2>8, <2>14 DEF SameTaken, adv_window, rcv_free
    <3>. QED BY <2>7, <2>12, <3>1, Acknowledges
  <2>17. From(s, z, r, n, i, j)
    BY <2>15, <2>16 DEF From
  <2>18. Emitted(out, z, r, n, i, j)
    <3>1. out \in Seq(Segment) /\ Len(out) = 1 /\ out[1] = s
      BY <1>3, <1>8, <2>14
    <3>2. \A k \in 1 .. Len(out) : k = 1
      BY <3>1
    <3>. QED BY <2>17, <3>1, <3>2 DEF Emitted
  <2>. QED BY <1>4, <2>6, <2>7, <2>8, <2>12, <2>13, <2>18 DEF Polls, Moves
<1>. QED BY <1>7, <1>8

LEMMA SendAckSends ==
  ASSUME NEW u, NEW r, NEW n, NEW i \in SeqNo, NEW j \in SeqNo,
         EndOK(u, r, n, i, j), Synced(u), NEW link \in Link
  PROVE  Polls(u, SendAck(u, link), r, n, i, j)
<1>. DEFINE res == FirstResult(link)
            fl == {"ACK"}
            data == << >>
            e == emit(u, fl, u.snd_nxt, data, res)
            z == SendAck(u, link).t
            y == e.t
            p == (res = "PENDING")
            v == [y EXCEPT !.ack_pending = p]
<1>1. /\ u.snd_nxt \in SeqNo /\ Good(u) /\ Open(u)
      /\ fl \in SUBSET SegFlags /\ data \in Seq(Byte) /\ "RST" \notin fl
  BY Fields, EmptyBytes DEF SegFlags, EndOK, Good, Open
<1>2. SeqOK(Build(u, fl, u.snd_nxt, data), u, n, i)
  BY PureAck
<1>3. SendAck(u, link).t = v /\ SendAck(u, link).out = e.out
  BY DEF SendAck, emit
<1>4. y = e.t
  OBVIOUS
<1>. HIDE DEF fl, data, e, y
<1>5. Polls(u, e, r, n, i, j) /\ Good(y)
  <2>1. Polls(u, emit(u, fl, u.snd_nxt, data, res), r, n, i, j)
    BY <1>1, <1>2, EmitSends
  <2>. QED BY <1>4, <2>1 DEF e, Polls, Moves, EndOK
<1>6. v \in Socket /\ SameCore(y, v) /\ v.rcv_nxt = y.rcv_nxt
  <2>1. y \in Socket /\ p \in BOOLEAN
    BY <1>5 DEF Good
  <2>. HIDE DEF p
  <2>. QED BY <2>1 DEF Socket, SameCore
<1>. HIDE DEF v
<1>7. Good(v)
  BY <1>5, <1>6, CoreGood
<1>8. SameSender(y, v) /\ SameTaken(y, v) /\ Follows(y, v)
  BY <1>6, CoreSame
<1>. QED BY <1>3, <1>4, <1>5, <1>7, <1>8, PollsThen

LEMMA PollSynchronisedSends ==
  ASSUME NEW u, NEW r, NEW n, NEW i \in SeqNo, NEW j \in SeqNo,
         EndOK(u, r, n, i, j), Synced(u), u.state # "TIME_WAIT",
         NEW link \in Link
  PROVE  Polls(u, PollSynchronised(u, link), r, n, i, j)
<1>1. CASE Outstanding(u) /\ Overdue(u)
  BY <1>1, RetransmitSends DEF PollSynchronised
<1>2. CASE ~(Outstanding(u) /\ Overdue(u)) /\ DataReady(u)
  BY <1>2, SendQueuedSends DEF PollSynchronised
<1>3. CASE ~(Outstanding(u) /\ Overdue(u)) /\ ~DataReady(u) /\ FinReady(u)
  BY <1>3, SendFinSends DEF PollSynchronised
<1>4. CASE /\ ~(Outstanding(u) /\ Overdue(u)) /\ ~DataReady(u)
           /\ ~FinReady(u) /\ u.ack_pending
  BY <1>4, SendAckSends DEF PollSynchronised
<1>5. CASE /\ ~(Outstanding(u) /\ Overdue(u)) /\ ~DataReady(u)
           /\ ~FinReady(u) /\ ~u.ack_pending
  BY <1>5, PollSameSilent DEF PollSynchronised
<1>. QED BY <1>1, <1>2, <1>3, <1>4, <1>5

(* poll_one: it sends what is in order and takes nothing. *)
LEMMA PollOneSends ==
  ASSUME NEW u, NEW r, NEW n, NEW i \in SeqNo, NEW j \in SeqNo,
         EndOK(u, r, n, i, j), NEW d \in Nat, NEW link \in Link
  PROVE  Polls(u, poll_one(u, d, link), r, n, i, j)
<1>. DEFINE w == Elapse(u, d)
            x == w.state
<1>1. Good(w) /\ SameCore(u, w) /\ w.rcv_nxt = u.rcv_nxt
  BY ElapseKeeps DEF EndOK
<1>2. poll_one(u, d, link) =
        CASE x \in {"CLOSED", "LISTEN"} -> Silent(w)
          [] x \in Opening              -> PollOpening(w, link)
          [] x = "TIME_WAIT"            -> PollTimeWait(w, link)
          [] OTHER                      -> PollSynchronised(w, link)
  BY DEF poll_one
<1>3. x = w.state
  OBVIOUS
<1>. HIDE DEF w, x
<1>4. Synced(w) <=> x \notin Opening \cup {"CLOSED", "LISTEN"}
  BY <1>3 DEF Synced
<1>5. /\ EndOK(w, r, n, i, j) /\ Moves(u, w, r, n, i, j)
      /\ SameTaken(u, w) /\ Una(w, i) = Una(u, i) /\ (Open(w) => Open(u))
  BY <1>1, TimersSame DEF Good
<1>6. Polls(w, poll_one(u, d, link), r, n, i, j)
  <2>1. CASE x \in {"CLOSED", "LISTEN"}
    <3>1. poll_one(u, d, link) = Silent(w)
      BY <1>2, <2>1 DEF Opening
    <3>. QED BY <1>5, <3>1, PollSameSilent
  <2>2. CASE x \in Opening
    <3>1. poll_one(u, d, link) = PollOpening(w, link)
      BY <1>2, <2>2 DEF Opening
    <3>. QED BY <1>3, <1>5, <2>2, <3>1, PollOpeningSends
  <2>3. CASE x = "TIME_WAIT"
    <3>1. poll_one(u, d, link) = PollTimeWait(w, link)
      BY <1>2, <2>3 DEF Opening
    <3>. QED BY <1>3, <1>5, <2>3, <3>1, PollTimeWaitSends
  <2>4. CASE Synced(w) /\ x # "TIME_WAIT"
    <3>1. poll_one(u, d, link) = PollSynchronised(w, link)
      BY <1>2, <1>4, <2>4 DEF Opening
    <3>. QED BY <1>3, <1>5, <2>4, <3>1, PollSynchronisedSends
  <2>. QED BY <1>4, <2>1, <2>2, <2>3, <2>4
<1>. QED BY <1>5, <1>6, PollsOn

----------------------------------------------------------------------------
(* What one end receives. *)

(* An acknowledgement retires bytes from the beginning of the send ring.   *)
LEMMA HandleAckMoves ==
  ASSUME NEW u, NEW r, NEW n, NEW i \in SeqNo, NEW j,
         EndOK(u, r, n, i, j), Synced(u), NEW ack \in SeqNo,
         NEW h, h = handle_ack(u, ack)
  PROVE  /\ Moves(u, h, r, n, i, j) /\ SameTaken(u, h)
         /\ Synced(h) /\ h.state = u.state
         /\ Una(h, i) = Una(u, i) \/ Una(h, i) = SeqSub(ack, i)
<1>1. /\ Good(h) /\ SameReceiver(u, h)
      /\ h = u \/ Retired(u, ack, h)
  BY HandleAckGood DEF EndOK
<1>2. SameTaken(u, h) /\ Synced(h) /\ h.state = u.state
  BY <1>1 DEF SameTaken, SameReceiver, Finished, Synced
<1>3. CASE h = u
  <2>1. Forward(u, r, n, h, r, n, i)
    BY <1>3, ForwardSame
  <2>. QED BY <1>2, <1>3, <2>1 DEF Moves
<1>4. CASE Retired(u, ack, h)
  <2>. DEFINE N == SeqSub(u.snd_nxt, i)  U == SeqSub(u.snd_una, i)
              d == SeqSub(ack, u.snd_una)  q == Len(u.sndq)
              k == n - q
  <2>1. /\ u \in Socket /\ u.snd_nxt \in SeqNo /\ u.snd_una \in SeqNo
        /\ u.inflight \in Nat
    BY Fields DEF EndOK, Good
  <2>2. /\ Born(u) /\ Nxt(u, i) = N
        /\ q \in Nat /\ q <= n /\ u.inflight <= q
        /\ U \in Nat /\ U <= N /\ N <= n + 2 /\ n \in Nat
        /\ n + RcvBuf + 4 < Half
    <3>1. Nxt(u, i) <= n + 2 /\ n \in Nat /\ n + RcvBuf + 4 < Half
      BY EndTypes
    <3>. QED BY <3>1, SenderAt
  <2>3. u.iss = i /\ h.iss = i /\ h.snd_una = ack /\ h.snd_nxt = u.snd_nxt
    BY <1>4, <2>2 DEF EndOK, Sends, Retired
  <2>4. N \in Nat /\ d \in Nat
    BY <2>1, SeqSubType
  <2>5. SeqSub(u.snd_nxt, u.snd_una) = N - U
    BY <2>1, <2>2, Positions
  <2>6. d \in 1 .. N - U
    BY <1>4, <2>5 DEF Retired
  <2>7. SeqSub(ack, i) = U + d
    <3>1. U + d < SeqSpace
      <4>. HIDE DEF U, d, N, q
      <4>. QED BY <2>2, <2>4, <2>6, Consts
    <3>. QED BY <2>1, <3>1, Sums
  <2>. HIDE DEF U, d, N, q, k
  <2>8. Born(h) /\ Nxt(h, i) = N /\ Una(h, i) = U + d
    <3>1. Born(h)
      BY <2>2, <2>3 DEF Born
    <3>. QED BY <2>2, <2>3, <2>7, <3>1 DEF Nxt, Una, N
  <2>9. h.fin_queued = u.fin_queued /\ h.fin_sent = u.fin_sent
    BY <1>1 DEF SameReceiver
  <2>10. Synced(h) => /\ Len(h.sndq) <= n
                      /\ h.sndq = Bytes(n - Len(h.sndq), Len(h.sndq))
                      /\ ~h.fin_sent => SeqSub(h.snd_una, i) = 1 + n - Len(h.sndq)
    <3>1. CASE u.fin_sent
      <4>1. h.sndq = << >> /\ Len(<< >>) = 0
        BY <1>4, <3>1, EmptyBytes DEF Retired
      <4>. QED BY <2>2, <2>9, <3>1, <4>1, NoBytes
    <3>2. CASE ~u.fin_sent
      <4>1. /\ U = 1 + n - q /\ N = U + u.inflight
            /\ u.sndq = Bytes(n - q, q)
        BY <2>2, <3>2, SenderAt DEF U, N, q
      <4>2. h.sndq = SubSeq(Bytes(k, q), d + 1, q)
        BY <1>4, <3>2, <4>1 DEF Retired, d, q, k
      <4>3. k \in Nat /\ d <= q /\ q - d \in Nat /\ k + d \in Nat
        BY <2>1, <2>2, <2>4, <2>6, <4>1 DEF k
      <4>4. h.sndq = Bytes(k + d, q - d)
        <5>. DEFINE x == d + 1
        <5>1. x \in 1 .. q + 1 /\ q \in x - 1 .. q
          BY <2>2, <2>4, <4>3
        <5>2. k + x - 1 = k + d /\ q - x + 1 = q - d
          BY <2>2, <2>4, <4>3
        <5>3. h.sndq = SubSeq(Bytes(k, q), x, q)
          BY <4>2
        <5>. HIDE DEF x
        <5>4. SubSeq(Bytes(k, q), x, q) = Bytes(k + x - 1, q - x + 1)
          BY <2>2, <4>3, <5>1, Part
        <5>. QED BY <5>2, <5>3, <5>4
      <4>5. Len(h.sndq) = q - d
        BY <4>3, <4>4, BytesSeq
      <4>6. n - Len(h.sndq) = k + d /\ Len(h.sndq) <= n
            /\ 1 + n - Len(h.sndq) = U + d
        BY <2>2, <2>4, <4>1, <4>3, <4>5 DEF k
      <4>. QED BY <2>3, <2>7, <4>4, <4>5, <4>6
    <3>. QED BY <3>1, <3>2
  <2>11. Sends(h, n, i)
    <3>1. Sends(u, n, i)
      BY DEF EndOK
    <3>2. SeqSub(h.snd_una, i) <= SeqSub(h.snd_nxt, i)
      BY <2>2, <2>3, <2>4, <2>6, <2>7 DEF N
    <3>3. h.state \notin Opening \cup {"LISTEN"}
      BY <1>2 DEF Synced
    <3>. QED BY <1>2, <2>2, <2>3, <2>8, <2>9, <2>10, <3>1, <3>2, <3>3 DEF Sends
  <2>12. Receives(h, r, j)
    <3>1. Open(h) => Open(u)
      BY <1>2 DEF Open
    <3>2. h.state \notin Opening \cup {"LISTEN"}
      BY <1>2 DEF Synced
    <3>. QED BY <1>2, <2>8, <3>1, <3>2, SameReceives DEF EndOK
  <2>13. Has(h, r) = Has(u, r) /\ Got(h, r) = Got(u, r) /\ Limit(h, r) = Limit(u, r)
    BY <1>2, SameGot
  <2>14. EndOK(h, r, n, i, j)
    BY <1>1, <2>11, <2>12, <2>13 DEF EndOK
  <2>15. Forward(u, r, n, h, r, n, i)
    <3>1. Over(u) => Over(h)
      BY <1>2, <2>2, <2>8, <2>9 DEF Over
    <3>2. Got(u, r) \in Nat /\ Limit(u, r) \in Nat
      BY EndTypes
    <3>. QED BY <2>2, <2>4, <2>8, <2>13, <3>1, <3>2 DEF Forward
  <2>. QED BY <1>2, <2>7, <2>8, <2>14, <2>15 DEF Moves
<1>. QED BY <1>1, <1>3, <1>4

(* A segment of the peer that is in order continues what has been taken.   *)
LEMMA TakePayloadMoves ==
  ASSUME NEW u, NEW r, NEW n, NEW i \in SeqNo, NEW v, NEW rv, NEW m,
         NEW j \in SeqNo,
         EndOK(u, r, n, i, j), EndOK(v, rv, m, j, i), Synced(u),
         Faces(u, r, i, v, rv, m, j),
         NEW s \in Segment, SeqOK(s, v, m, j), InOrder(u, s),
         NEW x, x = TakePayload(u, s)
  PROVE  /\ Moves(u, x, r, n, i, j) /\ Synced(x)
         /\ Faces(x, r, i, v, rv, m, j)
<1>. DEFINE p == RingPut(u, s)
            fin == FinReached(u, s)
            one == IF fin THEN 1 ELSE 0
            g == Got(u, r)
            l == Len(s.data)
            H == Has(u, r)
            q == Len(u.rcvq)
<1>1. /\ Good(x) /\ Synced(x)
      /\ p \in 0 .. l /\ q + p <= RcvBuf
      /\ TakesIn(u, s, x, p, fin)
  BY TakePayloadGood DEF EndOK
<1>2. /\ u \in Socket /\ u.rcvq \in Seq(Byte) /\ q \in Nat /\ u.rcv_nxt \in SeqNo
      /\ s.data \in Seq(Byte) /\ l \in Nat /\ r \in Seq(Byte) /\ Len(r) \in Nat
  BY Fields, SegmentFields, LenNat DEF EndOK, Good
<1>3. /\ H \in Nat /\ g \in Nat
      /\ Finished(u) => g = 2 + H
      /\ ~Finished(u) => g = 1 + H
      /\ g + RcvBuf + 2 < Half
  BY EndTypes DEF Got
<1>0. /\ Limit(u, r) = g + (RcvBuf - q)
      /\ n \in Nat /\ Nxt(u, i) \in Nat /\ Una(u, i) \in Nat
  BY EndTypes DEF Limit, rcv_free
<1>4. m \in Nat /\ Nxt(v, j) \in Nat /\ m + RcvBuf + 4 < Half /\ Nxt(v, j) <= m + 2
  BY EndTypes
<1>5. Born(u) /\ Open(u) /\ u.rcv_nxt = SeqAdd(j, g)
      /\ r \o u.rcvq = Bytes(0, H)
  BY DEF EndOK, Sends, Receives, Synced, Open
<1>6. SeqSub(s.seq, j) = g
  <2>1. g < SeqSpace
    BY <1>3, Consts
  <2>. QED BY <1>3, <1>5, <2>1, Ahead DEF InOrder
<1>7. "SYN" \notin s.fl
  <2>1. s.seq # j
    BY <1>3, <1>6, AtStart
  <2>. QED BY <2>1 DEF SeqOK
<1>8. /\ g + l <= Nxt(v, j) /\ s.data = Bytes(g - 1, l)
      /\ s.data # << >> => g + l <= m + 1
      /\ "FIN" \in s.fl => s.data = << >> /\ g = m + 1 /\ m + 2 <= Nxt(v, j)
                           /\ Over(v)
  BY <1>6, <1>7 DEF SeqOK
<1>9. H <= m /\ (Finished(u) => H = m /\ Over(v)) /\ g <= Nxt(v, j)
      /\ Una(u, i) <= Got(v, rv)
  BY <1>5 DEF Faces
<1>10. fin => "FIN" \in s.fl
  BY DEF FinReached
<1>11. l = 0 <=> s.data = << >>
  BY <1>2
<1>. HIDE DEF p, fin, g, l, H, q
<1>12. p \in Nat /\ p <= l /\ one \in Nat
  BY <1>1, <1>2
(* After the peer's FIN there is nothing more to take. *)
<1>13. Finished(u) => p = 0 /\ ~fin
  BY <1>2, <1>3, <1>4, <1>8, <1>9, <1>10, <1>11, <1>12
<1>14. fin => p = 0
  BY <1>2, <1>8, <1>10, <1>11, <1>12
<1>15. H + p <= m
  <2>1. CASE p = 0
    BY <1>3, <1>9, <2>1
  <2>2. CASE p # 0
    BY <1>2, <1>3, <1>4, <1>8, <1>11, <1>12, <1>13, <2>2
  <2>. QED BY <2>1, <2>2
<1>16. /\ x.iss = u.iss /\ x.snd_una = u.snd_una /\ x.snd_nxt = u.snd_nxt
       /\ x.sndq = u.sndq
       /\ x.fin_queued = u.fin_queued /\ x.fin_sent = u.fin_sent
       /\ x.rcvq = u.rcvq \o SubSeq(s.data, 1, p)
       /\ x.rcv_nxt = SeqAdd(u.rcv_nxt, p + one)
       /\ x.flags = IF fin THEN u.flags \cup {"EOF"} ELSE u.flags
  BY <1>1 DEF TakesIn
<1>17. Finished(x) <=> Finished(u) \/ fin
  BY <1>16 DEF Finished
<1>18. Len(x.rcvq) = q + p
  <2>1. p \in 0 .. Len(s.data)
    BY <1>1 DEF l
  <2>2. Len(u.rcvq \o SubSeq(s.data, 1, p)) = Len(u.rcvq) + p
    BY <1>2, <2>1, Append1
  <2>. QED BY <1>16, <2>2 DEF q
<1>19. Has(x, r) = H + p
  BY <1>2, <1>12, <1>18 DEF Has, H, q
<1>20. Got(x, r) = g + p + one
  <2>1. Got(x, r) = 1 + (H + p) + (IF Finished(x) THEN 1 ELSE 0)
    BY <1>19 DEF Got
  <2>2. CASE Finished(u)
    BY <1>3, <1>12, <1>13, <1>17, <2>1, <2>2
  <2>3. CASE ~Finished(u)
    BY <1>3, <1>12, <1>17, <2>1, <2>3
  <2>. QED BY <2>2, <2>3
<1>21. Limit(x, r) = Limit(u, r) + one
  <2>1. Limit(x, r) = Got(x, r) + (RcvBuf - Len(x.rcvq))
    BY DEF Limit, rcv_free
  <2>2. RcvBuf \in Nat
    BY Consts
  <2>. QED BY <1>0, <1>2, <1>3, <1>12, <1>18, <1>20, <2>1, <2>2
<1>22. Short(H + p)
  BY <1>3, <1>4, <1>12, <1>15, Consts DEF Short
<1>23. Born(x) /\ Nxt(x, i) = Nxt(u, i) /\ Una(x, i) = Una(u, i)
  BY <1>5, <1>16 DEF Born, Nxt, Una
<1>24. x.state \notin Opening \cup {"LISTEN"}
  BY <1>1 DEF Synced
<1>25. Sends(x, n, i)
  <2>1. Sends(u, n, i)
    BY DEF EndOK
  <2>. QED BY <1>1, <1>5, <1>16, <1>23, <1>24, <2>1 DEF Sends
<1>26. r \o x.rcvq = Bytes(0, H + p)
  <2>. DEFINE d == SubSeq(s.data, 1, p)
  <2>1. CASE p = 0
    <3>1. d = << >>
      BY <1>2, <2>1
    <3>2. x.rcvq = u.rcvq
      <4>. HIDE DEF d
      <4>1. x.rcvq = u.rcvq \o d
        BY <1>16 DEF d
      <4>. QED BY <1>2, <3>1, <4>1
    <3>3. H + p = H
      BY <1>3, <2>1
    <3>. QED BY <1>5, <3>2, <3>3
  <2>2. CASE p # 0
    <3>1. g = 1 + H
      BY <1>3, <1>13, <2>2
    <3>2. s.data = Bytes(H, l)
      BY <1>3, <1>8, <3>1
    <3>3. d = Bytes(H, p)
      <4>. DEFINE y == 1
      <4>1. y \in 1 .. l + 1 /\ p \in y - 1 .. l
        BY <1>2, <1>12
      <4>2. H + y - 1 = H /\ p - y + 1 = p
        BY <1>3, <1>12
      <4>3. d = SubSeq(Bytes(H, l), y, p)
        BY <3>2
      <4>. HIDE DEF y, d
      <4>4. SubSeq(Bytes(H, l), y, p) = Bytes(H + y - 1, p - y + 1)
        BY <1>2, <1>3, <4>1, Part
      <4>. QED BY <4>2, <4>3, <4>4
    <3>4. d \in Seq(Byte)
      BY <1>1, <1>2 DEF l
    <3>. HIDE DEF d
    <3>5. r \o (u.rcvq \o d) = (r \o u.rcvq) \o d
      BY <1>2, <3>4, Regroup
    <3>6. Bytes(0, H) \o Bytes(0 + H, p) = Bytes(0, H + p)
      BY <1>3, <1>12, Joined
    <3>7. 0 + H = H
      BY <1>3
    <3>. QED BY <1>5, <1>16, <3>3, <3>5, <3>6, <3>7 DEF d
  <2>. QED BY <2>1, <2>2
<1>27. Receives(x, r, j)
  <2>1. x.rcv_nxt = SeqAdd(j, Got(x, r))
    <3>. DEFINE k == p + one
    <3>1. k \in Nat /\ g + k < SeqSpace /\ g + k = Got(x, r)
      BY <1>3, <1>4, <1>12, <1>13, <1>14, <1>15, <1>20, Consts
    <3>2. x.rcv_nxt = SeqAdd(SeqAdd(j, g), k)
      BY <1>5, <1>16
    <3>. HIDE DEF k
    <3>3. SeqAdd(SeqAdd(j, g), k) = SeqAdd(j, g + k)
      BY <1>3, <3>1, Consts DEF SeqAdd, SeqNo
    <3>. QED BY <3>1, <3>2, <3>3
  <2>. QED BY <1>19, <1>23, <1>24, <1>26, <2>1 DEF Receives
<1>28. EndOK(x, r, n, i, j)
  BY <1>1, <1>19, <1>22, <1>25, <1>27 DEF EndOK
<1>29. Forward(u, r, n, x, r, n, i)
  <2>1. Over(u) => Over(x)
    BY <1>16, <1>23 DEF Over, Synced
  <2>2. Limit(u, r) \in Nat
    BY EndTypes
  <2>. QED BY <1>3, <1>12, <1>20, <1>21, <1>23, <1>0, <2>1, <2>2 DEF Forward, g
<1>30. Faces(x, r, i, v, rv, m, j)
  <2>1. Finished(x) => Has(x, r) = m /\ Over(v)
    BY <1>3, <1>4, <1>8, <1>9, <1>10, <1>13, <1>14, <1>17, <1>19
  <2>2. Got(x, r) <= Nxt(v, j)
    <3>1. CASE fin
      BY <1>3, <1>4, <1>8, <1>10, <1>14, <1>20, <3>1
    <3>2. CASE ~fin
      BY <1>2, <1>3, <1>4, <1>8, <1>12, <1>20, <3>2
    <3>. QED BY <3>1, <3>2
  <2>. QED BY <1>9, <1>15, <1>19, <1>23, <2>1, <2>2 DEF Faces
<1>. QED BY <1>1, <1>28, <1>29, <1>30 DEF Moves

(* Two ends, and what u knows of v. *)
Pair(u, r, n, i, v, rv, m, j) ==
  EndOK(u, r, n, i, j) /\ EndOK(v, rv, m, j, i) /\ Faces(u, r, i, v, rv, m, j)

(* A step of u on what v has sent. *)
Hears(u, x, r, n, i, v, rv, m, j) ==
  Moves(u, x, r, n, i, j) /\ Faces(x, r, i, v, rv, m, j)

LEMMA SameHears ==
  ASSUME NEW u, NEW r, NEW n, NEW i \in SeqNo, NEW v, NEW rv, NEW m, NEW j,
         Pair(u, r, n, i, v, rv, m, j),
         NEW x, Good(x), SameSender(u, x), SameTaken(u, x), Follows(u, x)
  PROVE  Hears(u, x, r, n, i, v, rv, m, j)
<1>1. /\ Moves(u, x, r, n, i, j)
      /\ Una(x, i) = Una(u, i) /\ (Open(x) => Open(u))
  BY SameEnd DEF Pair
<1>2. Faces(x, r, i, v, rv, m, j)
  BY <1>1, SameFaces DEF Pair
<1>. QED BY <1>1, <1>2 DEF Hears

LEMMA StillHears ==
  ASSUME NEW u, NEW r, NEW n, NEW i \in SeqNo, NEW v, NEW rv, NEW m, NEW j,
         Pair(u, r, n, i, v, rv, m, j)
  PROVE  Hears(u, u, r, n, i, v, rv, m, j)
BY SameHears DEF SameSender, SameTaken, Follows, Pair, EndOK

LEMMA HearsOn ==
  ASSUME NEW u, NEW x, NEW y, NEW r, NEW n, NEW i \in SeqNo,
         NEW v, NEW rv, NEW m, NEW j,
         Pair(u, r, n, i, v, rv, m, j),
         Hears(u, x, r, n, i, v, rv, m, j), Hears(x, y, r, n, i, v, rv, m, j)
  PROVE  Hears(u, y, r, n, i, v, rv, m, j)
BY ForwardOn DEF Hears, Pair

LEMMA EndedHears ==
  ASSUME NEW u, NEW r, NEW n, NEW i \in SeqNo, NEW v, NEW rv, NEW m, NEW j,
         Pair(u, r, n, i, v, rv, m, j),
         NEW f \in SUBSET Flags, NEW x \in {"CLOSED", "LISTEN"},
         "EOF" \in f <=> "EOF" \in u.flags,
         x = "LISTEN" => u.state = "SYN_RCVD"
  PROVE  Hears(u, Ended(u, f, x), r, n, i, v, rv, m, j)
<1>. DEFINE e == Ended(u, f, x)
<1>1. Good(e) /\ e.state = x /\ e.flags = f
  BY EndedGood DEF Pair, EndOK
<1>2. SameSender(u, e) /\ e.rcvq = u.rcvq /\ e.rcv_nxt = u.rcv_nxt
  BY DEF Pair, EndOK, Good, Socket, SameSender, Ended
<1>. HIDE DEF e
<1>3. SameTaken(u, e) /\ Follows(u, e)
  BY <1>1, <1>2 DEF SameTaken, Finished, Follows
<1>4. Hears(u, e, r, n, i, v, rv, m, j)
  BY <1>1, <1>2, <1>3, SameHears
<1>. QED BY <1>4 DEF e

LEMMA InputResetHears ==
  ASSUME NEW u, NEW r, NEW n, NEW i \in SeqNo, NEW v, NEW rv, NEW m, NEW j,
         Pair(u, r, n, i, v, rv, m, j), NEW s \in Segment
  PROVE  Hears(u, InputReset(u, s), r, n, i, v, rv, m, j)
<1>. DEFINE f == u.flags \cup {"REFUSED", "RESET"}
            g == u.flags \cup {"RESET"}
<1>1. f \in SUBSET Flags /\ g \in SUBSET Flags /\ {} \in SUBSET Flags
  BY Fields DEF Pair, EndOK, Good, Flags
<1>2. /\ "EOF" \in f <=> "EOF" \in u.flags
      /\ "EOF" \in g <=> "EOF" \in u.flags
  OBVIOUS
<1>3. \/ InputReset(u, s) \in {u, Ended(u, f, "CLOSED"), Ended(u, g, "CLOSED")}
      \/ u.state = "SYN_RCVD" /\ InputReset(u, s) = Ended(u, {}, "LISTEN")
  <2>1. [u EXCEPT !.state = "LISTEN", !.flags = {}] = Ended(u, {}, "LISTEN")
    BY DEF Pair, EndOK, Good, Socket, Ended
  <2>2. CASE u.state = "SYN_SENT"
    BY <2>2 DEF InputReset, Ended
  <2>3. CASE u.state = "SYN_RCVD"
    BY <2>1, <2>3 DEF InputReset
  <2>4. CASE u.state \notin {"SYN_SENT", "SYN_RCVD"}
    BY <2>4 DEF InputReset, Ended
  <2>. QED BY <2>2, <2>3, <2>4
<1>. HIDE DEF f, g
<1>4. Hears(u, Ended(u, f, "CLOSED"), r, n, i, v, rv, m, j)
  BY <1>1, <1>2, EndedHears
<1>5. Hears(u, Ended(u, g, "CLOSED"), r, n, i, v, rv, m, j)
  BY <1>1, <1>2, EndedHears
<1>6. ASSUME u.state = "SYN_RCVD"
      PROVE  Hears(u, Ended(u, {}, "LISTEN"), r, n, i, v, rv, m, j)
  <2>. DEFINE z == {}
  <2>1. z \in SUBSET Flags /\ ("EOF" \in z <=> "EOF" \in u.flags)
    BY <1>6 DEF Pair, EndOK, Receives, Finished, Opening
  <2>. HIDE DEF z
  <2>2. Hears(u, Ended(u, z, "LISTEN"), r, n, i, v, rv, m, j)
    BY <1>6, <2>1, EndedHears
  <2>. QED BY <2>2 DEF z
<1>7. Hears(u, u, r, n, i, v, rv, m, j)
  BY StillHears
<1>. QED BY <1>3, <1>4, <1>5, <1>6, <1>7

(* The handshake is done.  ack is the segment's acknowledgement. *)
LEMMA OpenedHears ==
  ASSUME NEW u, NEW r, NEW n, NEW i \in SeqNo, NEW v, NEW rv, NEW m,
         NEW j \in SeqNo, Pair(u, r, n, i, v, rv, m, j),
         u.state \in Opening, Born(v),
         SeqSub(u.snd_nxt, i) <= Got(v, rv),
         NEW x \in Socket, x.state = "ESTABLISHED", x.flags = u.flags,
         x.iss = u.iss, x.snd_una = u.snd_nxt, x.snd_nxt = u.snd_nxt,
         x.sndq = u.sndq, x.inflight = u.inflight, x.rcvq = u.rcvq,
         x.fin_queued = u.fin_queued, x.fin_sent = u.fin_sent,
         x.rcv_nxt = SeqAdd(j, 1)
  PROVE  /\ Hears(u, x, r, n, i, v, rv, m, j) /\ Good(x)
         /\ Synced(x)
<1>1. Good(x)
  BY OpenedGood DEF Pair, EndOK
<1>2. EndOK(u, r, n, i, j) /\ EndOK(v, rv, m, j, i) /\ u \in Socket
  BY DEF Pair, EndOK, Good
<1>3. /\ Born(u) /\ u.iss = i /\ n = 0 /\ Nxt(u, i) <= 1 /\ u.snd_una = i
      /\ u.sndq = << >> /\ ~u.fin_queued /\ ~u.fin_sent
  BY <1>2 DEF EndOK, Good, Books, Unopened, Sends, Opening
<1>4. r = << >> /\ u.rcvq = << >> /\ ~Finished(u)
  BY <1>2 DEF EndOK, Receives
<1>5. u.snd_nxt \in SeqNo /\ SeqSub(u.snd_nxt, i) = 1
  <2>1. Nxt(u, i) = SeqSub(u.snd_nxt, i)
    BY <1>3 DEF Nxt
  <2>2. Nxt(u, i) \in Nat /\ Nxt(u, i) # 0
    BY <1>2, <1>3, EndTypes
  <2>. QED BY <1>2, <1>3, <2>1, <2>2, Fields
<1>6. Born(x) /\ Nxt(x, i) = 1 /\ Nxt(u, i) = 1 /\ Una(x, i) = 1
  BY <1>3, <1>5 DEF Born, Nxt, Una
<1>7. Synced(x) /\ x.state \notin Opening \cup {"LISTEN"}
  BY DEF Synced, Opening
<1>8. Len(<< >>) = 0 /\ << >> = Bytes(0, 0)
  BY NoBytes, EmptyBytes
<1>9. Has(x, r) = 0 /\ Got(x, r) = 1 /\ Got(u, r) = 1 /\ Has(u, r) = 0
      /\ Limit(x, r) = Limit(u, r)
  <2>1. Has(x, r) = 0 /\ Has(u, r) = 0
    BY <1>4, <1>8 DEF Has
  <2>2. ~Finished(x)
    BY <1>4 DEF Finished
  <2>3. Got(x, r) = 1 /\ Got(u, r) = 1
    BY <1>4, <2>1, <2>2 DEF Got
  <2>. QED BY <2>1, <2>3 DEF Limit, rcv_free
<1>10. Sends(x, n, i)
  <2>0. x.sndq = << >> /\ Len(x.sndq) = 0 /\ n = 0 /\ SeqSub(x.snd_una, i) = 1
    BY <1>3, <1>5, <1>8, Zenon
  <2>. DEFINE l == Len(x.sndq)  p == SeqSub(x.snd_una, i)
  <2>1. l <= n /\ p = 1 + n - l /\ n - l = 0 /\ l = 0
    <3>1. l = 0 /\ n = 0 /\ p = 1
      BY <2>0
    <3>. HIDE DEF l, p
    <3>. QED BY <3>1
  <2>2. x.sndq = Bytes(n - Len(x.sndq), Len(x.sndq))
    BY <1>8, <2>0, <2>1, Zenon
  <2>. QED BY <1>3, <1>5, <1>6, <1>7, <2>1, <2>2 DEF Sends
<1>11. Receives(x, r, j)
  <2>1. r \o x.rcvq = Bytes(0, Has(x, r))
    BY <1>2, <1>9 DEF EndOK, Receives
  <2>. QED BY <1>6, <1>7, <1>9, <2>1 DEF Receives
<1>12. EndOK(x, r, n, i, j)
  BY <1>1, <1>2, <1>9, <1>10, <1>11 DEF EndOK
<1>13. Forward(u, r, n, x, r, n, i)
  <2>1. ~Over(u)
    BY <1>3 DEF Over, Opening
  <2>2. Limit(u, r) \in Nat
    BY <1>2, EndTypes
  <2>. QED BY <1>3, <1>6, <1>9, <2>1, <2>2 DEF Forward
<1>14. Faces(x, r, i, v, rv, m, j)
  <2>1. m \in Nat /\ Nxt(v, j) \in Nat /\ Nxt(v, j) # 0
    BY <1>2, EndTypes
  <2>2. ~Finished(x)
    BY <1>4 DEF Finished
  <2>. QED BY <1>5, <1>6, <1>9, <2>1, <2>2 DEF Faces
<1>. QED BY <1>1, <1>7, <1>12, <1>13, <1>14 DEF Hears, Moves

LEMMA InputSynSentHears ==
  ASSUME NEW u, NEW r, NEW n, NEW i \in SeqNo, NEW v, NEW rv, NEW m,
         NEW j \in SeqNo, Pair(u, r, n, i, v, rv, m, j), u.state = "SYN_SENT",
         NEW s \in Segment, SeqOK(s, v, m, j),
         "ACK" \in s.fl => AckOK(s, v, rv, i)
  PROVE  Hears(u, InputSynSent(u, s), r, n, i, v, rv, m, j)
<1>1. CASE ~({"SYN", "ACK"} \subseteq s.fl /\ s.ack = u.snd_nxt)
  BY <1>1, StillHears DEF InputSynSent
<1>2. CASE {"SYN", "ACK"} \subseteq s.fl /\ s.ack = u.snd_nxt
  <2>. DEFINE w == take_mss(u, s)
              k == SeqAdd(s.seq, 1)
              c == w.peer_mss * 2
              x == [w EXCEPT !.rcv_nxt = k, !.snd_una = s.ack,
                             !.snd_wnd = s.wnd, !.state = "ESTABLISHED",
                             !.cwnd = c, !.retries = 0, !.rto = RtoInitial,
                             !.ack_pending = TRUE]
  <2>1. w \in Socket /\ SameCore(u, w) /\ w.peer_mss \in Nat \ {0}
    BY TakeMss DEF Pair, EndOK, Good
  <2>2. k \in SeqNo /\ s.ack \in SeqNo /\ s.wnd \in Nat /\ c \in Nat
    <3>. HIDE DEF w
    <3>. QED BY <2>1, SegmentFields, SeqAddType, InSeqNo
  <2>3. x \in Socket
    <3>. HIDE DEF w, k, c
    <3>. QED BY <2>1, <2>2, Consts DEF Socket, States
  <2>4. /\ x.state = "ESTABLISHED" /\ x.flags = w.flags
        /\ x.snd_una = s.ack /\ x.snd_nxt = w.snd_nxt /\ x.iss = w.iss
        /\ x.sndq = w.sndq /\ x.inflight = w.inflight /\ x.rcvq = w.rcvq
        /\ x.fin_queued = w.fin_queued /\ x.fin_sent = w.fin_sent
        /\ x.rcv_nxt = k
    <3>. HIDE DEF w, k, c
    <3>. QED BY <2>1 DEF Socket
  <2>5. InputSynSent(u, s) = x
    BY <1>2 DEF InputSynSent
  <2>6. "SYN" \in s.fl /\ "ACK" \in s.fl
    BY <1>2
  <2>7. s.seq = j /\ Born(v) /\ k = SeqAdd(j, 1)
    BY <2>6 DEF SeqOK
  <2>8. SeqSub(u.snd_nxt, i) <= Got(v, rv)
    <3>1. Got(v, rv) \in Nat
      BY EndTypes DEF Pair
    <3>. QED BY <1>2, <2>6, <3>1 DEF AckOK
  <2>. HIDE DEF w, k, x
  <2>9. /\ x.flags = u.flags
        /\ x.snd_una = u.snd_nxt /\ x.snd_nxt = u.snd_nxt /\ x.iss = u.iss
        /\ x.sndq = u.sndq /\ x.inflight = u.inflight /\ x.rcvq = u.rcvq
        /\ x.fin_queued = u.fin_queued /\ x.fin_sent = u.fin_sent
        /\ x.rcv_nxt = SeqAdd(j, 1)
    BY <1>2, <2>1, <2>4, <2>7 DEF SameCore
  <2>. QED BY <2>3, <2>4, <2>5, <2>7, <2>8, <2>9, OpenedHears DEF Opening
<1>. QED BY <1>1, <1>2

LEMMA OurFinAckedHears ==
  ASSUME NEW u, NEW r, NEW n, NEW i \in SeqNo, NEW v, NEW rv, NEW m, NEW j,
         Pair(u, r, n, i, v, rv, m, j), Synced(u)
  PROVE  Hears(u, OurFinAcked(u), r, n, i, v, rv, m, j)
<1>1. CASE ~(u.fin_sent /\ u.snd_una = u.snd_nxt)
  BY <1>1, StillHears DEF OurFinAcked
<1>2. CASE u.fin_sent /\ u.snd_una = u.snd_nxt
  <2>. DEFINE y == AfterOurFin[u.state]
              x == [u EXCEPT !.state = y]
  <2>1. u \in Socket /\ Good(u) /\ u.state \in States
    BY Fields DEF Pair, EndOK, Good
  <2>2. u.state \in WeFinished
    BY <1>2, <2>1 DEF Good, Agrees
  <2>3. y \in {u.state, "CLOSED", "FIN_WAIT_2", "TIME_WAIT"}
    BY <2>1, <2>2, FinStates DEF WeFinished, States
  <2>4. OurFinAcked(u) = x
    BY <1>2 DEF OurFinAcked
  <2>5. Good(x)
    BY <2>1, <2>4, OurFinAckedKept
  <2>. HIDE DEF y
  <2>6. SameSender(u, x) /\ SameTaken(u, x) /\ x.state = y
    BY <2>1 DEF Socket, SameSender, SameTaken, Finished
  <2>. HIDE DEF x
  <2>7. Follows(u, x)
    BY <2>3, <2>6 DEF Follows, Synced, Opening
  <2>. QED BY <2>4, <2>5, <2>6, <2>7, SameHears
<1>. QED BY <1>1, <1>2

LEMMA InputSynchronisedHears ==
  ASSUME NEW u, NEW r, NEW n, NEW i \in SeqNo, NEW v, NEW rv, NEW m,
         NEW j \in SeqNo, Pair(u, r, n, i, v, rv, m, j), Synced(u),
         NEW s \in Segment, SeqOK(s, v, m, j),
         "ACK" \in s.fl => AckOK(s, v, rv, i)
  PROVE  Hears(u, InputSynchronised(u, s), r, n, i, v, rv, m, j)
<1>1. CASE "ACK" \notin s.fl
  BY <1>1, StillHears DEF InputSynchronised
<1>. DEFINE h == handle_ack(u, s.ack)
<1>2. h = handle_ack(u, s.ack)
  OBVIOUS
<1>. HIDE DEF h
<1>3. ASSUME "ACK" \in s.fl
      PROVE  Hears(u, h, r, n, i, v, rv, m, j) /\ Synced(h) /\ SameTaken(u, h)
  <2>1. s.ack \in SeqNo
    BY SegmentFields
  <2>2. /\ Moves(u, h, r, n, i, j) /\ SameTaken(u, h) /\ Synced(h)
        /\ Una(h, i) = Una(u, i) \/ Una(h, i) = SeqSub(s.ack, i)
    BY <1>2, <2>1, HandleAckMoves DEF Pair
  <2>3. SeqSub(s.ack, i) <= Got(v, rv)
    <3>1. Got(v, rv) \in Nat
      BY EndTypes DEF Pair
    <3>. QED BY <1>3, <3>1 DEF AckOK
  <2>4. Has(h, r) = Has(u, r) /\ Got(h, r) = Got(u, r)
    BY <2>2, SameGot
  <2>5. Open(u)
    BY DEF Open
  <2>6. Faces(h, r, i, v, rv, m, j)
    BY <2>2, <2>3, <2>4, <2>5 DEF Pair, Faces, SameTaken
  <2>. QED BY <2>2, <2>6 DEF Hears
<1>4. CASE "ACK" \in s.fl /\ ~InOrder(u, s)
  <2>. DEFINE p == (h.ack_pending \/ s.data # << >> \/ "FIN" \in s.fl)
              x == [h EXCEPT !.ack_pending = p]
  <2>1. p \in BOOLEAN /\ h \in Socket
    <3>1. p \in BOOLEAN
      BY Zenon
    <3>. QED BY <1>3, <1>4, <3>1 DEF Hears, Moves, EndOK, Good
  <2>2. x \in Socket /\ SameCore(h, x) /\ x.rcv_nxt = h.rcv_nxt
    <3>. HIDE DEF p
    <3>. QED BY <2>1 DEF Socket, SameCore
  <2>3. InputSynchronised(u, s) = x
    BY <1>2, <1>4, Zenon DEF InputSynchronised
  <2>. HIDE DEF x
  <2>4. Pair(h, r, n, i, v, rv, m, j) /\ Good(h)
    BY <1>3, <1>4 DEF Pair, Hears, Moves, EndOK
  <2>5. Good(x)
    BY <2>2, <2>4, CoreGood
  <2>6. SameSender(h, x) /\ SameTaken(h, x) /\ Follows(h, x)
    BY <2>2, CoreSame
  <2>7. Hears(h, x, r, n, i, v, rv, m, j)
    BY <2>4, <2>5, <2>6, SameHears
  <2>. QED BY <1>3, <1>4, <2>3, <2>7, HearsOn
<1>5. CASE "ACK" \in s.fl /\ InOrder(u, s)
  <2>. DEFINE w == [h EXCEPT !.snd_wnd = s.wnd]
              x == TakePayload(w, s)
  <2>1. h \in Socket /\ s.wnd \in Nat
    BY <1>3, <1>5, SegmentFields DEF Hears, Moves, EndOK, Good
  <2>2. w \in Socket /\ SameCore(h, w) /\ w.rcv_nxt = h.rcv_nxt
    BY <2>1 DEF Socket, SameCore
  <2>3. InputSynchronised(u, s) = OurFinAcked(x)
    BY <1>2, <1>5 DEF InputSynchronised
  <2>4. x = TakePayload(w, s)
    OBVIOUS
  <2>. HIDE DEF w, x
  <2>5. Pair(h, r, n, i, v, rv, m, j) /\ Good(h)
    BY <1>3, <1>5 DEF Pair, Hears, Moves, EndOK
  <2>6. Good(w)
    BY <2>2, <2>5, CoreGood
  <2>7. SameSender(h, w) /\ SameTaken(h, w) /\ Follows(h, w)
    BY <2>2, CoreSame
  <2>8. Hears(h, w, r, n, i, v, rv, m, j)
    BY <2>5, <2>6, <2>7, SameHears
  <2>9. Hears(u, w, r, n, i, v, rv, m, j)
    BY <1>3, <1>5, <2>8, HearsOn
  <2>10. Pair(w, r, n, i, v, rv, m, j)
    BY <2>5, <2>8 DEF Pair, Hears, Moves
  <2>11. Synced(w) /\ InOrder(w, s)
    BY <1>3, <1>5, <2>2 DEF Synced, SameCore, SameTaken, InOrder
  <2>12. /\ Moves(w, x, r, n, i, j) /\ Synced(x)
         /\ Faces(x, r, i, v, rv, m, j)
    BY <2>4, <2>10, <2>11, TakePayloadMoves DEF Pair
  <2>13. Hears(u, x, r, n, i, v, rv, m, j)
    BY <2>9, <2>12, HearsOn DEF Hears
  <2>14. Pair(x, r, n, i, v, rv, m, j)
    BY <2>10, <2>12 DEF Pair, Moves
  <2>15. Hears(x, OurFinAcked(x), r, n, i, v, rv, m, j)
    BY <2>12, <2>14, OurFinAckedHears
  <2>. QED BY <2>3, <2>13, <2>15, HearsOn
<1>. QED BY <1>1, <1>4, <1>5

LEMMA InputSynRcvdHears ==
  ASSUME NEW u, NEW r, NEW n, NEW i \in SeqNo, NEW v, NEW rv, NEW m,
         NEW j \in SeqNo, Pair(u, r, n, i, v, rv, m, j), u.state = "SYN_RCVD",
         NEW s \in Segment, SeqOK(s, v, m, j),
         "ACK" \in s.fl => AckOK(s, v, rv, i)
  PROVE  Hears(u, InputSynRcvd(u, s), r, n, i, v, rv, m, j)
<1>1. u \in Socket /\ Good(u) /\ Open(u)
  BY DEF Pair, EndOK, Good, Open
<1>2. CASE "SYN" \in s.fl
  <2>. DEFINE p == (u.syn_pending \/ SeqAdd(s.seq, 1) = u.rcv_nxt)
              x == [u EXCEPT !.syn_pending = p]
  <2>1. p \in BOOLEAN
    BY Zenon
  <2>2. x \in Socket /\ SameCore(u, x) /\ x.rcv_nxt = u.rcv_nxt
    <3>. HIDE DEF p
    <3>. QED BY <1>1, <2>1 DEF Socket, SameCore
  <2>3. InputSynRcvd(u, s) = x
    BY <1>2, Zenon DEF InputSynRcvd
  <2>. HIDE DEF x
  <2>4. Good(x) /\ SameSender(u, x) /\ SameTaken(u, x) /\ Follows(u, x)
    BY <1>1, <2>2, CoreGood, CoreSame
  <2>. QED BY <2>3, <2>4, SameHears
<1>3. CASE /\ "SYN" \notin s.fl
           /\ ~("ACK" \in s.fl /\ s.ack = u.snd_nxt /\ s.seq = u.rcv_nxt)
  BY <1>3, StillHears DEF InputSynRcvd
<1>4. CASE /\ "SYN" \notin s.fl
           /\ "ACK" \in s.fl /\ s.ack = u.snd_nxt /\ s.seq = u.rcv_nxt
  <2>. DEFINE c == u.peer_mss * 2
              w == [u EXCEPT !.snd_una = s.ack, !.state = "ESTABLISHED",
                             !.cwnd = c, !.retries = 0, !.rto = RtoInitial]
  <2>1. c \in Nat /\ s.ack \in SeqNo
    BY <1>1, Fields, SegmentFields
  <2>2. w \in Socket
    <3>. HIDE DEF c
    <3>. QED BY <1>1, <2>1, Consts DEF Socket, States
  <2>3. /\ w.state = "ESTABLISHED" /\ w.flags = u.flags
        /\ w.snd_una = u.snd_nxt /\ w.snd_nxt = u.snd_nxt /\ w.iss = u.iss
        /\ w.sndq = u.sndq /\ w.inflight = u.inflight /\ w.rcvq = u.rcvq
        /\ w.fin_queued = u.fin_queued /\ w.fin_sent = u.fin_sent
        /\ w.rcv_nxt = u.rcv_nxt
    <3>. HIDE DEF c
    <3>. QED BY <1>1, <1>4 DEF Socket
  <2>4. InputSynRcvd(u, s) = InputSynchronised(w, s)
    BY <1>4 DEF InputSynRcvd
  <2>. HIDE DEF w
  <2>5. u.rcv_nxt = SeqAdd(j, 1)
    <3>1. r = << >> /\ u.rcvq = << >> /\ ~Finished(u) /\ u.rcv_nxt = SeqAdd(j, Got(u, r))
      BY <1>1 DEF Pair, EndOK, Receives, Opening
    <3>2. Got(u, r) = 1
      BY <3>1, EmptyBytes DEF Got, Has
    <3>. QED BY <3>1, <3>2
  <2>6. Born(v)
    <3>1. Got(u, r) \in Nat /\ Got(u, r) # 0 /\ Nxt(v, j) \in Nat
          /\ (Nxt(v, j) # 0 => Born(v))
      <4>1. Got(u, r) \in Nat /\ Has(u, r) \in Nat
            /\ (Got(u, r) = 1 + Has(u, r) \/ Got(u, r) = 2 + Has(u, r))
        BY EndTypes DEF Pair
      <4>2. Nxt(v, j) \in Nat /\ (Nxt(v, j) # 0 => Born(v))
        BY EndTypes DEF Pair
      <4>. QED BY <4>1, <4>2
    <3>2. Got(u, r) <= Nxt(v, j)
      BY <1>1 DEF Pair, Faces
    <3>. QED BY <3>1, <3>2
  <2>7. SeqSub(u.snd_nxt, i) <= Got(v, rv)
    <3>1. Got(v, rv) \in Nat
      BY EndTypes DEF Pair
    <3>. QED BY <1>4, <3>1 DEF AckOK
  <2>9. Hears(u, w, r, n, i, v, rv, m, j) /\ Synced(w)
    <3>1. u.state \in Opening /\ w.rcv_nxt = SeqAdd(j, 1)
      BY <2>3, <2>5 DEF Opening
    <3>. QED BY <2>2, <2>3, <2>6, <2>7, <3>1, OpenedHears
  <2>10. Pair(w, r, n, i, v, rv, m, j)
    BY <2>9 DEF Pair, Hears, Moves
  <2>11. Hears(w, InputSynchronised(w, s), r, n, i, v, rv, m, j)
    BY <2>9, <2>10, InputSynchronisedHears
  <2>. QED BY <2>4, <2>9, <2>11, HearsOn
<1>. QED BY <1>2, <1>3, <1>4

(* segment_input: it takes the next of its peer's stream, or nothing. *)
LEMMA SegmentInputHears ==
  ASSUME NEW u, NEW r, NEW n, NEW i \in SeqNo, NEW v, NEW rv, NEW m,
         NEW j \in SeqNo, Pair(u, r, n, i, v, rv, m, j),
         u.state \notin {"CLOSED", "LISTEN"},
         NEW s \in Segment, From(s, v, rv, m, j, i)
  PROVE  Hears(u, segment_input(u, s), r, n, i, v, rv, m, j)
<1>1. CASE "RST" \in s.fl
  BY <1>1, InputResetHears DEF segment_input
<1>2. ASSUME "RST" \notin s.fl
      PROVE  SeqOK(s, v, m, j) /\ ("ACK" \in s.fl => AckOK(s, v, rv, i))
  BY <1>2 DEF From
<1>3. CASE "RST" \notin s.fl /\ u.state = "SYN_SENT"
  BY <1>2, <1>3, InputSynSentHears DEF segment_input
<1>4. CASE "RST" \notin s.fl /\ u.state = "SYN_RCVD"
  BY <1>2, <1>4, InputSynRcvdHears DEF segment_input
<1>5. CASE "RST" \notin s.fl /\ u.state \notin Opening
  <2>1. Synced(u)
    BY <1>5 DEF Synced
  <2>. QED BY <1>2, <1>5, <2>1, InputSynchronisedHears DEF segment_input, Opening
<1>. QED BY <1>1, <1>3, <1>4, <1>5 DEF Opening

----------------------------------------------------------------------------
(* A frame for a host. *)

(* What v knows of u stays true as u goes on. *)
LEMMA FacesForward ==
  ASSUME NEW u, NEW r, NEW n, NEW x, NEW rx, NEW nx,
         NEW i \in SeqNo, NEW j \in SeqNo, NEW v, NEW rv, NEW m,
         EndOK(u, r, n, i, j), EndOK(x, rx, nx, i, j), EndOK(v, rv, m, j, i),
         Forward(u, r, n, x, rx, nx, i), Faces(v, rv, j, u, r, n, i)
  PROVE  Faces(v, rv, j, x, rx, nx, i)
<1>1. n \in Nat /\ Nxt(u, i) \in Nat /\ Got(u, r) \in Nat
  BY EndTypes
<1>2. nx \in Nat /\ Nxt(x, i) \in Nat /\ Got(x, rx) \in Nat
  BY EndTypes
<1>3. Has(v, rv) \in Nat /\ Got(v, rv) \in Nat /\ Una(v, j) \in Nat
  BY EndTypes
<1>4. Has(v, rv) <= nx
  BY <1>1, <1>2, <1>3 DEF Faces, Forward
<1>5. Finished(v) => Has(v, rv) = nx /\ Over(x)
  BY DEF Faces, Forward
<1>6. Open(v) => Got(v, rv) <= Nxt(x, i)
  BY <1>1, <1>2, <1>3 DEF Faces, Forward
<1>7. Una(v, j) <= Got(x, rx)
  BY <1>1, <1>2, <1>3 DEF Faces, Forward
<1>. QED BY <1>4, <1>5, <1>6, <1>7 DEF Faces

(* A socket that has begun a connection faces a peer it knows nothing of.  *)
LEMMA BegunHears ==
  ASSUME NEW u, NEW r, NEW n, NEW i \in SeqNo, NEW v, NEW rv, NEW m,
         NEW j \in SeqNo, Pair(u, r, n, i, v, rv, m, j),
         ~Born(u) \/ u.state = "LISTEN", r = << >>,
         ~Over(u), n = 0, Nxt(u, i) <= 1,
         NEW x, Good(x), Begun(x, i), x.state \in Opening,
         x.state = "SYN_RCVD" => x.rcv_nxt = SeqAdd(j, 1) /\ Born(v)
  PROVE  Hears(u, x, r, n, i, v, rv, m, j) /\ Nxt(x, i) = 1
<1>1. /\ EndOK(u, r, n, i, j) /\ EndOK(v, rv, m, j, i)
      /\ x \in Socket
  BY DEF Pair, EndOK, Good
<1>2. x.snd_nxt \in SeqNo /\ SeqSub(x.snd_nxt, i) = 1 /\ Born(x)
  <2>1. x.snd_nxt \in SeqNo /\ SeqSub(x.snd_nxt, i) = 1
    BY SeqAddType, InSeqNo DEF Begun
  <2>2. x.snd_nxt # i
    BY <2>1, AtStart
  <2>. QED BY <2>1, <2>2 DEF Born, Begun
<1>3. Nxt(x, i) = 1 /\ Una(x, i) = 0 /\ SeqSub(x.snd_una, i) = 0
  BY <1>2, AtStart DEF Nxt, Una, Begun
<1>4. ~Finished(x) /\ ~Finished(u)
  BY <1>1 DEF Begun, Finished, EndOK, Receives
<1>5. Len(<< >>) = 0 /\ << >> = Bytes(0, 0) /\ << >> \o << >> = << >>
  BY NoBytes, EmptyBytes
<1>6. x.rcvq = << >> /\ u.rcvq = << >>
  BY <1>1 DEF Begun, EndOK, Receives
<1>7. Has(x, r) = 0 /\ Has(u, r) = 0 /\ r \o x.rcvq = Bytes(0, 0)
  <2>1. Has(x, r) = Len(<< >>) + Len(<< >>) /\ Has(u, r) = Len(<< >>) + Len(<< >>)
    BY <1>6, Zenon DEF Has
  <2>2. r \o x.rcvq = Bytes(0, 0)
    BY <1>5, <1>6, Zenon
  <2>. QED BY <1>5, <2>1, <2>2
<1>8. Got(x, r) = 1 /\ Got(u, r) = 1 /\ Limit(x, r) = Limit(u, r)
  <2>1. Got(x, r) = 1 /\ Got(u, r) = 1
    BY <1>4, <1>7 DEF Got
  <2>. QED BY <1>6, <2>1 DEF Limit, rcv_free
<1>9. ~Synced(x) /\ x.state # "LISTEN" /\ x.state # "CLOSED"
  BY DEF Synced, Opening
<1>10. Sends(x, n, i)
  BY <1>2, <1>3, <1>9 DEF Sends, Begun
<1>11. Receives(x, r, j)
  <2>1. Open(x) => x.rcv_nxt = SeqAdd(j, 1)
    BY <1>9 DEF Open
  <2>. QED BY <1>4, <1>6, <1>7, <1>8, <2>1 DEF Receives
<1>12. EndOK(x, r, n, i, j)
  BY <1>1, <1>7, <1>10, <1>11 DEF EndOK
<1>13. Forward(u, r, n, x, r, n, i)
  <2>1. Limit(u, r) \in Nat
    BY <1>1, EndTypes
  <2>. QED BY <1>3, <1>8, <2>1 DEF Forward
<1>14. Faces(x, r, i, v, rv, m, j)
  <2>1. m \in Nat /\ Nxt(v, j) \in Nat /\ Got(v, rv) \in Nat
        /\ (Born(v) => Nxt(v, j) # 0)
    BY <1>1, EndTypes
  <2>2. Open(x) => Born(v)
    BY <1>9 DEF Open
  <2>. QED BY <1>3, <1>4, <1>7, <1>8, <2>1, <2>2 DEF Faces
<1>. QED BY <1>3, <1>12, <1>13, <1>14 DEF Hears, Moves

(* Its SYN, or the answer to its peer's, is in order. *)
LEMMA BegunSends ==
  ASSUME NEW x, NEW r, NEW n, NEW i \in SeqNo, NEW j \in SeqNo,
         EndOK(x, r, n, i, j), Nxt(x, i) = 1,
         NEW fl \in SUBSET SegFlags, "SYN" \in fl, "FIN" \notin fl,
         "RST" \notin fl, "ACK" \in fl => Open(x),
         NEW data \in Seq(Byte), data = << >>, NEW res
  PROVE  Polls(x, emit(x, fl, i, data, res), r, n, i, j)
<1>1. x \in Socket /\ RingsHold(x)
  BY DEF EndOK, Good
<1>. DEFINE s == Build(x, fl, i, data)
<1>3. s = Build(x, fl, i, data)
  OBVIOUS
<1>. HIDE DEF s
<1>4. s.fl = fl /\ s.seq = i /\ s.data = data
  BY <1>3 DEF Build
<1>5. Born(x)
  BY DEF Nxt
<1>6. SeqOK(s, x, n, i)
  BY <1>4, <1>5 DEF SeqOK
<1>. QED BY <1>3, <1>6, EmitSends

(* What a step of u on a frame leaves: the socket and what it sent.        *)
Answers(u, e, r, n, i, v, rv, m, j) ==
  Hears(u, e.t, r, n, i, v, rv, m, j) /\ Emitted(e.out, e.t, r, n, i, j)

LEMMA PollsAnswers ==
  ASSUME NEW u, NEW x, NEW e, NEW r, NEW n, NEW i \in SeqNo,
         NEW v, NEW rv, NEW m, NEW j \in SeqNo,
         Pair(u, r, n, i, v, rv, m, j), Hears(u, x, r, n, i, v, rv, m, j),
         Polls(x, e, r, n, i, j)
  PROVE  Answers(u, e, r, n, i, v, rv, m, j)
<1>1. Faces(e.t, r, i, v, rv, m, j)
  BY SameFaces DEF Hears, Polls
<1>2. Hears(x, e.t, r, n, i, v, rv, m, j)
  BY <1>1 DEF Hears, Polls
<1>3. Hears(u, e.t, r, n, i, v, rv, m, j)
  BY <1>2, HearsOn
<1>. QED BY <1>3 DEF Answers, Polls

(* passive_open: the SYN is the peer's, so it has begun. *)
LEMMA PassiveOpenAnswers ==
  ASSUME NEW u, NEW r, NEW n, NEW i \in SeqNo, NEW v, NEW rv, NEW m,
         NEW j \in SeqNo, Pair(u, r, n, i, v, rv, m, j), u.state = "LISTEN",
         NEW s \in Segment, From(s, v, rv, m, j, i),
         s.fl \cap {"SYN", "ACK", "RST"} = {"SYN"}, NEW res \in SendResult
  PROVE  Answers(u, passive_open(u, s, i, res), r, n, i, v, rv, m, j)
<1>1. s.seq = j /\ Born(v)
  <2>1. "SYN" \in s.fl /\ "RST" \notin s.fl
    OBVIOUS
  <2>. QED BY <2>1 DEF From, SeqOK
<1>2. /\ n = 0 /\ ~u.fin_queued /\ Nxt(u, i) <= 1 /\ r = << >>
  BY DEF Pair, EndOK, Sends, Receives
<1>3. Good(u) /\ ~Over(u)
  BY <1>2 DEF Pair, EndOK, Over
<1>4. PICK x : /\ Good(x) /\ x.state = "SYN_RCVD" /\ Begun(x, i)
               /\ x.rcv_nxt = SeqAdd(s.seq, 1)
               /\ passive_open(u, s, i, res) =
                    emit(x, {"SYN", "ACK"}, i, << >>, res)
  BY <1>3, PassiveOpenGood
<1>5. x.state \in Opening
  BY <1>4 DEF Opening
<1>6. Hears(u, x, r, n, i, v, rv, m, j) /\ Nxt(x, i) = 1
  BY <1>1, <1>2, <1>3, <1>4, <1>5, BegunHears
<1>. DEFINE fl == {"SYN", "ACK"}  data == << >>
<1>7. /\ fl \in SUBSET SegFlags /\ "SYN" \in fl /\ "FIN" \notin fl
      /\ "RST" \notin fl /\ data \in Seq(Byte) /\ data = << >>
      /\ EndOK(x, r, n, i, j) /\ Open(x)
      /\ passive_open(u, s, i, res) = emit(x, fl, i, data, res)
  BY <1>4, <1>6, EmptyBytes DEF Hears, Moves, Open, SegFlags
<1>. HIDE DEF fl, data
<1>8. Polls(x, emit(x, fl, i, data, res), r, n, i, j)
  BY <1>6, <1>7, BegunSends
<1>. QED BY <1>6, <1>7, <1>8, PollsAnswers

(* A reset says nothing about the streams. *)
LEMMA ResetEmitted ==
  ASSUME NEW u, NEW r, NEW n, NEW i, NEW j, NEW v, NEW rv, NEW m,
         NEW s \in Segment, From(s, v, rv, m, j, i), "RST" \notin s.fl, NEW res
  PROVE  Emitted(send_rst(s, res), u, r, n, i, j)
<1>. DEFINE f == {"RST"}  g == {"RST", "ACK"}  d == << >>
            k == SeqAdd(s.seq, Len(s.data)
                    + (IF "SYN" \in s.fl THEN 1 ELSE 0)
                    + (IF "FIN" \in s.fl THEN 1 ELSE 0))
            a == [fl |-> f, seq |-> s.ack, ack |-> 0, wnd |-> 0,
                  mss |-> 0, data |-> d]
            b == [fl |-> g, seq |-> 0, ack |-> k, wnd |-> 0,
                  mss |-> 0, data |-> d]
<1>1. CASE res # "OK"
  BY <1>1 DEF send_rst, Emitted
<1>2. CASE res = "OK" /\ "ACK" \in s.fl
  <2>1. /\ f \in SUBSET SegFlags /\ s.ack \in SeqNo /\ 0 \in SeqNo
        /\ d \in Seq(Byte) /\ 0 \in Nat /\ "RST" \in f
    BY SegmentFields, InSeqNo, EmptyBytes DEF SegFlags
  <2>2. a \in Segment /\ a.fl = f
    <3>. HIDE DEF f, d
    <3>. QED BY <2>1 DEF Segment
  <2>3. send_rst(s, res) = <<a>>
    BY <1>2 DEF send_rst
  <2>. HIDE DEF a, f
  <2>4. From(a, u, r, n, i, j)
    BY <2>1, <2>2 DEF From
  <2>. QED BY <2>2, <2>3, <2>4 DEF Emitted
<1>3. CASE res = "OK" /\ "ACK" \notin s.fl
  <2>1. k \in SeqNo
    <3>1. "SYN" \in s.fl /\ s.data = << >> /\ "FIN" \notin s.fl
      BY <1>3 DEF From, SeqOK
    <3>2. k = SeqAdd(s.seq, 1)
      BY <3>1, EmptyBytes
    <3>. QED BY <3>2, SegmentFields, SeqAddType, InSeqNo
  <2>2. /\ g \in SUBSET SegFlags /\ 0 \in SeqNo
        /\ d \in Seq(Byte) /\ 0 \in Nat /\ "RST" \in g
    BY InSeqNo, EmptyBytes DEF SegFlags
  <2>3. b \in Segment /\ b.fl = g
    <3>. HIDE DEF g, d, k
    <3>. QED BY <2>1, <2>2 DEF Segment
  <2>4. send_rst(s, res) = <<b>>
    BY <1>3 DEF send_rst
  <2>. HIDE DEF b, g
  <2>5. From(b, u, r, n, i, j)
    BY <2>2, <2>3 DEF From
  <2>. QED BY <2>3, <2>4, <2>5 DEF Emitted
<1>. QED BY <1>1, <1>2, <1>3

(* The dispatcher of a host. *)
LEMMA InputAnswers ==
  ASSUME NEW e, NEW r, NEW n, NEW i \in SeqNo, i = Iss[e],
         NEW v, NEW rv, NEW m, NEW j \in SeqNo,
         Pair(sock[e], r, n, i, v, rv, m, j),
         NEW s \in Segment, From(s, v, rv, m, j, i), NEW res \in SendResult
  PROVE  Answers(sock[e], mn_tcp_input(e, s, res), r, n, i, v, rv, m, j)
<1>. DEFINE u == sock[e]
            rst == IF "RST" \in s.fl THEN << >> ELSE send_rst(s, res)
<1>1. mn_tcp_input(e, s, res) =
        CASE u.state \notin {"CLOSED", "LISTEN"} -> Silent(segment_input(u, s))
          [] u.state = "LISTEN" /\ s.fl \cap {"SYN", "ACK", "RST"} = {"SYN"} ->
               passive_open(u, s, i, res)
          [] OTHER -> [t |-> u, out |-> rst]
  BY DEF mn_tcp_input
<1>2. u = sock[e]
  OBVIOUS
<1>3. Emitted(rst, u, r, n, i, j)
  <2>1. CASE "RST" \in s.fl
    BY <2>1 DEF Emitted
  <2>2. CASE "RST" \notin s.fl
    <3>1. Emitted(send_rst(s, res), u, r, n, i, j)
      BY <2>2, ResetEmitted
    <3>. QED BY <2>2, <3>1
  <2>. QED BY <2>1, <2>2
<1>. HIDE DEF u, rst
<1>4. CASE u.state \notin {"CLOSED", "LISTEN"}
  <2>1. mn_tcp_input(e, s, res) = Silent(segment_input(u, s))
    BY <1>1, <1>4
  <2>2. Hears(u, segment_input(u, s), r, n, i, v, rv, m, j)
    BY <1>2, <1>4, SegmentInputHears
  <2>3. Emitted(<< >>, segment_input(u, s), r, n, i, j)
    BY DEF Emitted
  <2>. QED BY <1>2, <2>1, <2>2, <2>3 DEF Silent, Answers
<1>5. CASE u.state = "LISTEN" /\ s.fl \cap {"SYN", "ACK", "RST"} = {"SYN"}
  <2>1. mn_tcp_input(e, s, res) = passive_open(u, s, i, res)
    BY <1>1, <1>5
  <2>. QED BY <1>2, <1>5, <2>1, PassiveOpenAnswers
<1>6. CASE /\ u.state \in {"CLOSED", "LISTEN"}
           /\ ~(u.state = "LISTEN" /\ s.fl \cap {"SYN", "ACK", "RST"} = {"SYN"})
  <2>1. mn_tcp_input(e, s, res) = [t |-> u, out |-> rst]
    BY <1>1, <1>6
  <2>2. Hears(u, u, r, n, i, v, rv, m, j)
    BY <1>2, StillHears
  <2>. QED BY <1>2, <1>3, <2>1, <2>2 DEF Answers
<1>. QED BY <1>4, <1>5, <1>6

(* Two functions that send, one after the other. *)
LEMMA EmittedBoth ==
  ASSUME NEW u, NEW r, NEW n, NEW i, NEW j,
         NEW a, NEW b, Emitted(a, u, r, n, i, j), Emitted(b, u, r, n, i, j)
  PROVE  Emitted(a \o b, u, r, n, i, j)
<1>1. /\ a \in Seq(Segment) /\ b \in Seq(Segment)
      /\ Len(a) \in Nat /\ Len(b) \in Nat
  BY DEF Emitted
<1>. DEFINE c == a \o b
<1>2. /\ c \in Seq(Segment) /\ Len(c) = Len(a) + Len(b)
      /\ \A k \in 1 .. Len(a) + Len(b) :
           c[k] = IF k <= Len(a) THEN a[k] ELSE b[k - Len(a)]
  BY <1>1, ConcatProperties, Zenon
<1>. HIDE DEF c
<1>3. ASSUME NEW k \in 1 .. Len(c)
      PROVE  From(c[k], u, r, n, i, j)
  <2>1. CASE k <= Len(a)
    <3>1. k \in 1 .. Len(a) /\ c[k] = a[k]
      BY <1>1, <1>2, <2>1
    <3>. QED BY <3>1 DEF Emitted
  <2>2. CASE ~(k <= Len(a))
    <3>1. k - Len(a) \in 1 .. Len(b) /\ c[k] = b[k - Len(a)]
      BY <1>1, <1>2, <2>2
    <3>. QED BY <3>1 DEF Emitted
  <2>. QED BY <2>1, <2>2
<1>4. Emitted(c, u, r, n, i, j)
  BY <1>2, <1>3 DEF Emitted
<1>. QED BY <1>4 DEF c

(* A poll that pulls a frame: the frame, then the socket's own turn.       *)
LEMMA PollFrameAnswers ==
  ASSUME NEW e, NEW r, NEW n, NEW i \in SeqNo, i = Iss[e],
         NEW v, NEW rv, NEW m, NEW j \in SeqNo,
         Pair(sock[e], r, n, i, v, rv, m, j),
         NEW s \in Segment, From(s, v, rv, m, j, i),
         NEW res \in SendResult, NEW d \in Nat, NEW link \in Link
  PROVE  LET in == mn_tcp_input(e, s, res)
             p  == poll_one(in.t, d, link)
         IN /\ Hears(sock[e], p.t, r, n, i, v, rv, m, j)
            /\ Emitted(in.out \o p.out, p.t, r, n, i, j)
<1>. DEFINE u == sock[e]
            in == mn_tcp_input(e, s, res)
            p == poll_one(in.t, d, link)
<1>1. Answers(u, in, r, n, i, v, rv, m, j)
  BY InputAnswers
<1>. HIDE DEF in
<1>2. EndOK(in.t, r, n, i, j)
  BY <1>1 DEF Answers, Hears, Moves
<1>3. Polls(in.t, p, r, n, i, j)
  BY <1>2, PollOneSends
<1>. HIDE DEF p
<1>4. Answers(u, p, r, n, i, v, rv, m, j)
  BY <1>1, <1>3, PollsAnswers DEF Answers
<1>5. Emitted(in.out, p.t, r, n, i, j)
  BY <1>1, <1>2, <1>3, EmittedKeeps DEF Answers, Polls
<1>6. Hears(u, p.t, r, n, i, v, rv, m, j)
      /\ Emitted(in.out \o p.out, p.t, r, n, i, j)
  BY <1>4, <1>5, EmittedBoth DEF Answers
<1>. QED BY <1>6 DEF in, p

----------------------------------------------------------------------------
(* The calls of the application. *)

LEMMA FreshEnd ==
  ASSUME NEW r, NEW n, NEW i \in SeqNo, NEW j, EndOK(FreshSocket, r, n, i, j)
  PROVE  /\ ~Born(FreshSocket) /\ n = 0 /\ r = << >> /\ ~Over(FreshSocket)
         /\ Nxt(FreshSocket, i) = 0 /\ Una(FreshSocket, i) = 0
         /\ FreshSocket.state = "CLOSED" /\ FreshSocket.rcvq = << >>
<1>1. ~Born(FreshSocket)
  BY DEF Born, FreshSocket
<1>2. ~FreshSocket.fin_queued /\ FreshSocket.state = "CLOSED" /\ FreshSocket.rcvq = << >>
  BY DEF FreshSocket
<1>3. n = 0 /\ r = << >>
  BY <1>1 DEF EndOK, Sends, Receives
<1>. QED BY <1>1, <1>2, <1>3 DEF Over, Nxt, Una

LEMMA ConnectAnswers ==
  ASSUME NEW r, NEW n, NEW i \in SeqNo, NEW v, NEW rv, NEW m,
         NEW j \in SeqNo, Pair(FreshSocket, r, n, i, v, rv, m, j),
         NEW res \in SendResult
  PROVE  Answers(FreshSocket, mn_tcp_connect(FreshSocket, i, res),
                 r, n, i, v, rv, m, j)
<1>. DEFINE u == FreshSocket
<1>1. u = FreshSocket
  OBVIOUS
<1>. HIDE DEF u
<1>2. Pair(u, r, n, i, v, rv, m, j) /\ Good(u)
  BY <1>1 DEF Pair, EndOK
<1>3. /\ ~Born(u) /\ n = 0 /\ r = << >> /\ ~Over(u) /\ Nxt(u, i) <= 1
      /\ u.state = "CLOSED"
  BY <1>1, FreshEnd DEF Pair
<1>4. PICK x : /\ Good(x) /\ x.state = "SYN_SENT" /\ Begun(x, i)
               /\ mn_tcp_connect(u, i, res) = emit(x, {"SYN"}, i, << >>, res)
  BY <1>2, <1>3, ConnectGood
<1>5. x.state \in Opening /\ x.state # "SYN_RCVD"
  BY <1>4 DEF Opening
<1>6. Hears(u, x, r, n, i, v, rv, m, j) /\ Nxt(x, i) = 1
  BY <1>2, <1>3, <1>4, <1>5, BegunHears
<1>. DEFINE fl == {"SYN"}  data == << >>
<1>7. /\ fl \in SUBSET SegFlags /\ "SYN" \in fl /\ "FIN" \notin fl
      /\ "RST" \notin fl /\ "ACK" \notin fl
      /\ data \in Seq(Byte) /\ data = << >>
      /\ EndOK(x, r, n, i, j)
      /\ mn_tcp_connect(u, i, res) = emit(x, fl, i, data, res)
  BY <1>4, <1>6, EmptyBytes DEF Hears, Moves, SegFlags
<1>. HIDE DEF fl, data
<1>8. Polls(x, emit(x, fl, i, data, res), r, n, i, j)
  BY <1>6, <1>7, BegunSends
<1>9. Answers(u, emit(x, fl, i, data, res), r, n, i, v, rv, m, j)
  BY <1>2, <1>6, <1>8, PollsAnswers
<1>. QED BY <1>1, <1>7, <1>9

LEMMA ListenHears ==
  ASSUME NEW r, NEW n, NEW i \in SeqNo, NEW v, NEW rv, NEW m,
         NEW j \in SeqNo, Pair(FreshSocket, r, n, i, v, rv, m, j)
  PROVE  Hears(FreshSocket, mn_tcp_listen(FreshSocket), r, n, i, v, rv, m, j)
<1>. DEFINE u == FreshSocket
            x == mn_tcp_listen(u)
<1>1. u = FreshSocket /\ x = mn_tcp_listen(u)
  OBVIOUS
<1>. HIDE DEF u, x
<1>2. Pair(u, r, n, i, v, rv, m, j) /\ Good(u)
  BY <1>1 DEF Pair, EndOK
<1>3. /\ ~Born(u) /\ n = 0 /\ r = << >> /\ ~Over(u) /\ u.rcvq = << >>
      /\ u.state = "CLOSED" /\ Nxt(u, i) = 0 /\ Una(u, i) = 0
  BY <1>1, FreshEnd DEF Pair
<1>4. /\ Good(x) /\ x.state = "LISTEN" /\ x.flags = {} /\ x.rcvq = << >>
      /\ ~x.fin_queued /\ ~x.fin_sent /\ x.iss = u.iss
      /\ x.snd_una = u.snd_una /\ x.snd_nxt = u.snd_nxt
  BY <1>1, <1>2, <1>3, ListenGood
<1>5. ~Born(x) /\ ~Finished(x) /\ ~Open(x) /\ ~Synced(x) /\ x.state \notin Opening
  BY <1>3, <1>4 DEF Born, Finished, Open, Synced, Opening
<1>6. Nxt(x, i) = 0 /\ Una(x, i) = 0
  BY <1>5 DEF Nxt, Una
<1>7. Has(x, r) = Has(u, r) /\ Got(x, r) = Got(u, r) /\ Limit(x, r) = Limit(u, r)
  <2>1. ~Finished(u)
    BY <1>2, <1>3 DEF Pair, EndOK, Receives
  <2>2. Has(x, r) = Has(u, r)
    BY <1>3, <1>4 DEF Has
  <2>. QED BY <1>3, <1>4, <1>5, <2>1, <2>2 DEF Got, Limit, rcv_free
<1>8. Sends(x, n, i)
  BY <1>3, <1>4, <1>5, <1>6 DEF Sends
<1>9. Receives(x, r, j)
  <2>1. r \o x.rcvq = Bytes(0, Has(x, r))
    BY <1>2, <1>3, <1>4, <1>7 DEF Pair, EndOK, Receives
  <2>. QED BY <1>3, <1>4, <1>5, <2>1 DEF Receives
<1>10. EndOK(x, r, n, i, j)
  BY <1>2, <1>4, <1>7, <1>8, <1>9 DEF Pair, EndOK
<1>11. /\ Got(u, r) \in Nat /\ Limit(u, r) \in Nat /\ Got(v, rv) \in Nat
  BY <1>2, EndTypes DEF Pair
<1>12. Forward(u, r, n, x, r, n, i)
  BY <1>3, <1>6, <1>7, <1>11 DEF Forward
<1>13. Faces(x, r, i, v, rv, m, j)
  <2>1. Has(u, r) <= m
    BY <1>2 DEF Pair, Faces
  <2>. QED BY <1>5, <1>6, <1>7, <1>11, <2>1 DEF Faces
<1>14. Hears(u, x, r, n, i, v, rv, m, j)
  BY <1>10, <1>12, <1>13 DEF Hears, Moves
<1>. QED BY <1>1, <1>14

(* A call that takes bytes from the application, or gives some to it: nx   *)
(* and rx are what it has taken and given then.                            *)
Calls(u, r, n, x, rx, nx, i, v, rv, m, j) ==
  /\ EndOK(x, rx, nx, i, j)
  /\ Forward(u, r, n, x, rx, nx, i)
  /\ Faces(x, rx, i, v, rv, m, j)

LEMMA WriteCalls ==
  ASSUME NEW u, NEW r, NEW n, NEW i \in SeqNo, NEW v, NEW rv, NEW m,
         NEW j \in SeqNo, Pair(u, r, n, i, v, rv, m, j), can_send(u),
         NEW l \in Nat, NEW data \in Seq(Byte), data = Bytes(n, l),
         Short(n + l), NEW k, k = SendTakes(u, l)
  PROVE  /\ k \in 0 .. l
         /\ Calls(u, r, n, mn_tcp_send(u, data), r, n + k, i, v, rv, m, j)
         /\ SameTaken(u, mn_tcp_send(u, data))
<1>. DEFINE x == mn_tcp_send(u, data)
<1>1. x = mn_tcp_send(u, data)
  OBVIOUS
<1>. HIDE DEF x
<1>2. /\ EndOK(u, r, n, i, j) /\ Good(u) /\ u \in Socket
      /\ Faces(u, r, i, v, rv, m, j)
  BY DEF Pair, EndOK, Good
<1>3. n \in Nat /\ Limit(u, r) \in Nat /\ Got(u, r) \in Nat /\ Nxt(u, i) \in Nat
  BY <1>2, EndTypes
<1>4. Len(data) = l
  BY <1>3, BytesSeq
<1>5. Good(x) /\ (k = 0 => x = u)
      /\ (k # 0 => /\ k \in 0 .. l /\ SameLink(u, x)
                   /\ x.sndq = u.sndq \o SubSeq(data, 1, k)
                   /\ x.rcvq = u.rcvq)
  BY <1>1, <1>2, <1>4, SendGood
<1>6. CASE k = 0
  <2>1. k \in 0 .. l /\ n + k = n /\ x = u
    BY <1>3, <1>5, <1>6
  <2>2. Forward(u, r, n, u, r, n, i)
    BY <1>2, ForwardSame
  <2>3. SameTaken(u, x)
    BY <2>1 DEF SameTaken
  <2>. QED BY <1>1, <1>2, <2>1, <2>2, <2>3 DEF Calls
<1>7. CASE k # 0
  <2>1. /\ k \in 0 .. l /\ SameLink(u, x)
        /\ x.sndq = u.sndq \o SubSeq(data, 1, k) /\ x.rcvq = u.rcvq
    BY <1>5, <1>7
  <2>2. Synced(u) /\ ~Over(u) /\ ~u.fin_sent
    BY <1>2 DEF can_send, Synced, Opening, Over, Good, Agrees
  <2>3. /\ Synced(x) /\ Born(x) = Born(u) /\ ~x.fin_sent /\ ~x.fin_queued
        /\ x.state \notin Opening \cup {"LISTEN"} /\ x.state # "CLOSED"
    BY <2>1, <2>2 DEF SameLink, Synced, Born, can_send, Opening
  <2>4. SameTaken(u, x)
    BY <2>1 DEF SameLink, SameTaken, Finished
  <2>5. Nxt(x, i) = Nxt(u, i) /\ Una(x, i) = Una(u, i)
    BY <2>1, <2>3 DEF SameLink, Nxt, Una
  <2>6. Has(x, r) = Has(u, r) /\ Got(x, r) = Got(u, r) /\ Limit(x, r) = Limit(u, r)
    BY <2>4, SameGot
  <2>. DEFINE L == Len(u.sndq)  b == n - L
  <2>7. /\ L \in Nat /\ L <= n /\ b \in Nat
        /\ u.sndq = Bytes(b, L) /\ SeqSub(u.snd_una, i) = 1 + n - L
    <3>1. L \in Nat
      BY <1>2, Fields, LenNat
    <3>2. L <= n /\ u.sndq = Bytes(n - L, L) /\ SeqSub(u.snd_una, i) = 1 + n - L
      BY <1>2, <2>2 DEF EndOK, Sends
    <3>. QED BY <1>3, <3>1, <3>2
  <2>8. SubSeq(data, 1, k) = Bytes(n, k)
    <3>1. /\ 1 \in 1 .. l + 1 /\ k \in 1 - 1 .. l
          /\ n + 1 - 1 = n /\ k - 1 + 1 = k
      BY <1>3, <2>1
    <3>2. SubSeq(Bytes(n, l), 1, k) = Bytes(n + 1 - 1, k - 1 + 1)
      BY <1>3, <3>1, Part
    <3>. QED BY <3>1, <3>2
  <2>9. x.sndq = Bytes(b, L + k)
    <3>. HIDE DEF b, L
    <3>1. k \in Nat
      BY <2>1
    <3>2. Bytes(b, L) \o Bytes(b + L, k) = Bytes(b, L + k)
      BY <2>7, <3>1, Joined
    <3>3. b + L = n
      BY <1>3, <2>7 DEF b
    <3>. QED BY <2>1, <2>7, <2>8, <3>2, <3>3
  <2>10. Len(x.sndq) = L + k
    <3>. HIDE DEF b, L
    <3>1. L + k \in Nat
      BY <2>1, <2>7
    <3>. QED BY <2>7, <2>9, <3>1, BytesSeq
  <2>11. /\ Len(x.sndq) <= n + k /\ (n + k) - Len(x.sndq) = b
         /\ SeqSub(u.snd_una, i) = 1 + (n + k) - Len(x.sndq)
         /\ n + k \in Nat /\ n <= n + k
    <3>1. L \in Nat /\ L <= n /\ SeqSub(u.snd_una, i) = 1 + n - L /\ k \in Nat
      BY <2>1, <2>7
    <3>2. b = n - L
      OBVIOUS
    <3>. HIDE DEF b, L
    <3>. QED BY <1>3, <2>10, <3>1, <3>2
  <2>. HIDE DEF b, L
  <2>12. Sends(x, n + k, i)
    <3>1. /\ Born(x) /\ x.iss = i /\ SeqSub(x.snd_nxt, i) \in 1 .. n + 2
          /\ SeqSub(x.snd_una, i) <= SeqSub(x.snd_nxt, i)
      BY <1>2, <2>1, <2>2, <2>3 DEF SameLink, EndOK, Sends, Synced
    <3>2. SeqSub(x.snd_nxt, i) \in 1 .. (n + k) + 2
      BY <1>3, <2>11, <3>1
    <3>3. x.sndq = Bytes((n + k) - Len(x.sndq), Len(x.sndq))
      BY <2>9, <2>10, <2>11
    <3>4. SeqSub(x.snd_una, i) = 1 + (n + k) - Len(x.sndq)
      BY <2>1, <2>11 DEF SameLink
    <3>. QED BY <2>3, <2>11, <3>1, <3>2, <3>3, <3>4 DEF Sends
  <2>13. Receives(x, r, j)
    <3>1. Open(x) => Open(u)
      BY <2>2 DEF Open
    <3>. QED BY <1>2, <2>3, <2>4, <3>1, SameReceives DEF EndOK
  <2>14. Short(n + k)
    <3>1. n + k <= n + l /\ n + k \in Nat /\ n + l \in Nat
      BY <1>3, <2>1
    <3>. QED BY <3>1, Consts DEF Short
  <2>15. EndOK(x, r, n + k, i, j)
    BY <1>2, <1>5, <2>6, <2>12, <2>13, <2>14 DEF EndOK
  <2>16. Forward(u, r, n, x, r, n + k, i)
    BY <1>3, <2>2, <2>5, <2>6, <2>11 DEF Forward
  <2>17. Faces(x, r, i, v, rv, m, j)
    <3>1. Open(x) => Open(u)
      BY <2>2 DEF Open
    <3>. QED BY <1>2, <2>4, <2>5, <3>1, SameFaces
  <2>. QED BY <1>1, <2>1, <2>4, <2>15, <2>16, <2>17 DEF Calls
<1>. QED BY <1>6, <1>7

(* A sequence in two parts. *)
LEMMA Halves ==
  ASSUME NEW q \in Seq(Byte), NEW k \in 0 .. Len(q)
  PROVE  /\ SubSeq(q, 1, k) \in Seq(Byte) /\ Len(SubSeq(q, 1, k)) = k
         /\ SubSeq(q, 1, k) \o SubSeq(q, k + 1, Len(q)) = q
<1>. DEFINE a == SubSeq(q, 1, k)  b == SubSeq(q, k + 1, Len(q))  c == a \o b
<1>1. Len(q) \in Nat /\ k \in Nat /\ k <= Len(q)
  OBVIOUS
<1>2. /\ a \in Seq(Byte) /\ Len(a) = k /\ \A z \in 1 .. k : a[z] = q[z]
  BY <1>1
<1>3. /\ b \in Seq(Byte) /\ Len(b) = Len(q) - k
      /\ \A z \in 1 .. Len(q) - k : b[z] = q[k + z]
  BY <1>1
<1>. HIDE DEF a, b
<1>4. /\ c \in Seq(Byte) /\ Len(c) = Len(a) + Len(b)
      /\ \A z \in 1 .. Len(a) + Len(b) :
           c[z] = IF z <= Len(a) THEN a[z] ELSE b[z - Len(a)]
  BY <1>2, <1>3, Concatenation, Zenon
<1>. HIDE DEF c
<1>5. Len(c) = Len(q)
  BY <1>1, <1>2, <1>3, <1>4
<1>6. ASSUME NEW z \in 1 .. Len(c)
      PROVE  c[z] = q[z]
  <2>1. z \in 1 .. Len(a) + Len(b) /\ z \in Nat
    BY <1>1, <1>2, <1>3, <1>4
  <2>2. CASE z <= k
    <3>1. z \in 1 .. k
      BY <2>1, <2>2
    <3>. QED BY <1>2, <1>4, <2>1, <2>2, <3>1
  <2>3. CASE ~(z <= k)
    <3>1. z - k \in 1 .. Len(q) - k /\ k + (z - k) = z
      BY <1>1, <1>5, <2>1, <2>3
    <3>. QED BY <1>2, <1>3, <1>4, <2>1, <2>3, <3>1
  <2>. QED BY <2>2, <2>3
<1>7. c = q
  BY <1>4, <1>5, <1>6, SeqEqual
<1>. QED BY <1>2, <1>7 DEF a, b, c

(* What the application has been given after it reads at most cap. *)
Handed(u, r, cap) == r \o SubSeq(u.rcvq, 1, RecvTakes(u, cap))

SameHas(u, r, x, rx) == Has(x, rx) = Has(u, r)

LEMMA ReadCalls ==
  ASSUME NEW u, NEW r, NEW n, NEW i \in SeqNo, NEW v, NEW rv, NEW m,
         NEW j \in SeqNo, Pair(u, r, n, i, v, rv, m, j), u.rcvq # << >>,
         NEW cap \in Nat, NEW x, x = mn_tcp_recv(u, cap),
         NEW rx, rx = Handed(u, r, cap)
  PROVE  /\ Calls(u, r, n, x, rx, n, i, v, rv, m, j)
         /\ SameHas(u, r, x, rx) /\ (Finished(x) <=> Finished(u))
         /\ Len(r) <= Len(rx)
<1>. DEFINE k == RecvTakes(u, cap)
            q == u.rcvq
            a == SubSeq(q, 1, k)
            b == SubSeq(q, k + 1, Len(q))
<1>1. /\ EndOK(u, r, n, i, j) /\ Good(u) /\ u \in Socket
      /\ Faces(u, r, i, v, rv, m, j) /\ r \in Seq(Byte)
  BY DEF Pair, EndOK, Good
<1>2. q \in Seq(Byte) /\ Len(q) \in Nat /\ Len(r) \in Nat
  BY <1>1, Fields, LenNat
<1>3. k \in 0 .. Len(q)
  BY <1>2 DEF RecvTakes, Lesser
<1>4. /\ Good(x) /\ SameLink(u, x) /\ x.sndq = u.sndq /\ x.rcvq = b
  BY <1>1, <1>3, AfterRecvGood DEF mn_tcp_recv
<1>5. /\ a \in Seq(Byte) /\ Len(a) = k /\ a \o b = q
  BY <1>2, <1>3, Halves
<1>6. /\ b \in Seq(Byte) /\ Len(b) = Len(q) - k
  BY <1>2, <1>3, Drop
<1>0. rx = r \o a
  BY DEF Handed
<1>. HIDE DEF k, a, b
<1>7. rx \in Seq(Byte) /\ Len(rx) = Len(r) + k
  BY <1>0, <1>1, <1>5, Concatenation
<1>8. rx \o b = r \o q
  <2>1. r \o (a \o b) = (r \o a) \o b
    BY <1>1, <1>5, <1>6, Regroup
  <2>. QED BY <1>0, <1>5, <2>1
<1>9. Has(x, rx) = Has(u, r) /\ rcv_free(u) <= rcv_free(x)
      /\ rcv_free(x) \in Int /\ rcv_free(u) \in Int
  <2>1. Has(x, rx) = Len(rx) + Len(b) /\ Has(u, r) = Len(r) + Len(q)
        /\ rcv_free(u) = RcvBuf - Len(q) /\ rcv_free(x) = RcvBuf - Len(b)
    BY <1>4 DEF Has, rcv_free
  <2>2. k \in Nat /\ k <= Len(q)
    BY <1>2, <1>3
  <2>. HIDE DEF q
  <2>. QED BY <1>2, <1>6, <1>7, <2>1, <2>2, Consts
<1>10. Finished(x) <=> Finished(u)
  BY <1>4 DEF SameLink, Finished
<1>11. Got(x, rx) = Got(u, r) /\ Got(u, r) \in Nat
  <2>1. Got(u, r) \in Nat
    BY <1>1, EndTypes
  <2>. QED BY <1>9, <1>10, <2>1 DEF Got
<1>12. Limit(u, r) <= Limit(x, rx)
  BY <1>9, <1>11 DEF Limit
<1>13. /\ Born(x) = Born(u) /\ x.state = u.state
       /\ Nxt(x, i) = Nxt(u, i) /\ Una(x, i) = Una(u, i)
       /\ (Open(x) <=> Open(u)) /\ (Synced(x) <=> Synced(u))
  BY <1>4 DEF SameLink, Born, Nxt, Una, Open, Synced
<1>14. Sends(x, n, i)
  BY <1>1, <1>4, <1>13 DEF EndOK, Sends, SameLink
<1>15. Receives(x, rx, j)
  <2>1. rx \o x.rcvq = Bytes(0, Has(x, rx))
    BY <1>1, <1>4, <1>8, <1>9 DEF EndOK, Receives
  <2>2. ~(~Born(x) \/ x.state \in Opening \cup {"LISTEN"})
    BY <1>1, <1>13 DEF EndOK, Receives
  <2>3. Open(x) => x.rcv_nxt = SeqAdd(j, Got(x, rx))
    BY <1>1, <1>4, <1>11, <1>13 DEF EndOK, Receives, SameLink
  <2>. QED BY <2>1, <2>2, <2>3 DEF Receives
<1>16. EndOK(x, rx, n, i, j)
  BY <1>1, <1>4, <1>7, <1>9, <1>14, <1>15 DEF EndOK
<1>17. Forward(u, r, n, x, rx, n, i)
  <2>1. n \in Nat /\ Nxt(u, i) \in Nat
    BY <1>1, EndTypes
  <2>2. Over(u) => Over(x)
    BY <1>4, <1>13 DEF Over, SameLink
  <2>. QED BY <1>11, <1>12, <1>13, <2>1, <2>2 DEF Forward
<1>18. Faces(x, rx, i, v, rv, m, j)
  BY <1>1, <1>9, <1>10, <1>11, <1>13 DEF Faces
<1>19. Calls(u, r, n, x, rx, n, i, v, rv, m, j)
  BY <1>16, <1>17, <1>18 DEF Calls
<1>20. Len(r) <= Len(rx)
  BY <1>2, <1>3, <1>7
<1>. QED BY <1>9, <1>10, <1>19, <1>20 DEF SameHas

LEMMA CloseHears ==
  ASSUME NEW u, NEW r, NEW n, NEW i \in SeqNo, NEW v, NEW rv, NEW m,
         NEW j \in SeqNo, Pair(u, r, n, i, v, rv, m, j)
  PROVE  Hears(u, mn_tcp_close(u), r, n, i, v, rv, m, j)
<1>. DEFINE x == mn_tcp_close(u)
<1>1. /\ EndOK(u, r, n, i, j) /\ Good(u) /\ u \in Socket
      /\ Faces(u, r, i, v, rv, m, j)
  BY DEF Pair, EndOK, Good
<1>2. Good(x)
  BY <1>1, CloseGood
<1>3. CASE u.state \in {"ESTABLISHED", "CLOSE_WAIT"}
  <2>. DEFINE y == [u EXCEPT !.fin_queued = TRUE, !.tx_pending = TRUE]
  <2>1. x = y
    BY <1>3 DEF mn_tcp_close
  <2>2. /\ y.state = u.state /\ y.iss = u.iss /\ y.flags = u.flags
        /\ y.snd_una = u.snd_una /\ y.snd_nxt = u.snd_nxt
        /\ y.sndq = u.sndq /\ y.rcvq = u.rcvq /\ y.rcv_nxt = u.rcv_nxt
        /\ y.fin_queued /\ y.fin_sent = u.fin_sent
    BY <1>1 DEF Socket
  <2>. HIDE DEF x, y
  <2>3. /\ Synced(u) /\ Synced(y) /\ SameTaken(u, y)
        /\ y.state \notin Opening \cup {"LISTEN", "CLOSED"}
    BY <1>3, <2>2 DEF Synced, Opening, SameTaken, Finished
  <2>4. /\ (Born(y) <=> Born(u)) /\ Born(u)
        /\ Nxt(y, i) = Nxt(u, i) /\ Una(y, i) = Una(u, i)
    BY <1>1, <2>2, <2>3 DEF Born, Nxt, Una, EndOK, Sends, Synced
  <2>5. Has(y, r) = Has(u, r) /\ Got(y, r) = Got(u, r) /\ Limit(y, r) = Limit(u, r)
    BY <2>3, SameGot
  <2>6. Sends(y, n, i)
    BY <1>1, <2>2, <2>3, <2>4 DEF EndOK, Sends
  <2>7. (Open(y) => Open(u)) /\ Receives(y, r, j)
    <3>1. Open(y) => Open(u)
      BY <2>3 DEF Open
    <3>. QED BY <1>1, <2>3, <2>4, <3>1, SameReceives DEF EndOK
  <2>8. EndOK(y, r, n, i, j)
    BY <1>1, <1>2, <2>1, <2>5, <2>6, <2>7 DEF EndOK
  <2>9. Forward(u, r, n, y, r, n, i)
    <3>1. n \in Nat /\ Nxt(u, i) \in Nat /\ Got(u, r) \in Nat /\ Limit(u, r) \in Nat
      BY <1>1, EndTypes
    <3>2. Over(y)
      BY <2>2 DEF Over
    <3>. QED BY <2>4, <2>5, <3>1, <3>2 DEF Forward
  <2>10. Faces(y, r, i, v, rv, m, j)
    BY <1>1, <2>3, <2>4, <2>7, SameFaces
  <2>11. Hears(u, y, r, n, i, v, rv, m, j)
    BY <2>8, <2>9, <2>10 DEF Hears, Moves
  <2>. QED BY <2>1, <2>11 DEF x
<1>4. CASE u.state \in Opening \cup {"LISTEN"}
  <2>. DEFINE y == [u EXCEPT !.state = "CLOSED"]
  <2>1. x = y
    BY <1>4 DEF mn_tcp_close, Opening
  <2>2. SameSender(u, y) /\ SameTaken(u, y) /\ y.state = "CLOSED"
    BY <1>1 DEF Socket, SameSender, SameTaken, Finished
  <2>. HIDE DEF x, y
  <2>3. Good(y) /\ Follows(u, y)
    BY <1>2, <2>1, <2>2 DEF Follows
  <2>4. Hears(u, y, r, n, i, v, rv, m, j)
    BY <2>2, <2>3, SameHears
  <2>. QED BY <2>1, <2>4 DEF x
<1>5. CASE u.state \notin {"ESTABLISHED", "CLOSE_WAIT", "LISTEN"} \cup Opening
  <2>1. x = u
    BY <1>5 DEF mn_tcp_close
  <2>. QED BY <2>1, StillHears
<1>. QED BY <1>3, <1>4, <1>5

LEMMA AbortAnswers ==
  ASSUME NEW u, NEW r, NEW n, NEW i \in SeqNo, NEW v, NEW rv, NEW m,
         NEW j \in SeqNo, Pair(u, r, n, i, v, rv, m, j), NEW res \in SendResult
  PROVE  Answers(u, mn_tcp_abort(u, res), r, n, i, v, rv, m, j)
<1>. DEFINE x == mn_tcp_abort(u, res).t
            out == mn_tcp_abort(u, res).out
<1>1. /\ EndOK(u, r, n, i, j) /\ Good(u) /\ u \in Socket /\ RingsHold(u)
      /\ Faces(u, r, i, v, rv, m, j)
  BY DEF Pair, EndOK, Good
<1>2. /\ Good(x) /\ x.state = "CLOSED"
      /\ x.flags = u.flags /\ x.iss = u.iss /\ x.rcvq = u.rcvq
      /\ x.snd_una = u.snd_una /\ x.snd_nxt = u.snd_nxt
      /\ ~x.fin_queued /\ ~x.fin_sent
  BY <1>1, AbortGood
<1>3. Emitted(out, x, r, n, i, j)
  <2>. DEFINE fl == {"RST", "ACK"}  data == << >>
              s == Build(u, fl, u.snd_nxt, data)
  <2>1. out \in {<< >>, <<s>>}
    BY DEF mn_tcp_abort, emit, Silent
  <2>2. /\ fl \in SUBSET SegFlags /\ data \in Seq(Byte) /\ "RST" \in fl
        /\ u.snd_nxt \in SeqNo /\ s = Build(u, fl, u.snd_nxt, data)
    BY <1>1, Fields, EmptyBytes DEF SegFlags
  <2>. HIDE DEF out, x, s, fl, data
  <2>3. s \in Segment /\ s.fl = fl
    BY <1>1, <2>2, Built
  <2>4. From(s, x, r, n, i, j)
    BY <2>2, <2>3 DEF From
  <2>5. CASE out = << >>
    BY <2>5 DEF Emitted
  <2>6. CASE out = <<s>>
    <3>1. /\ out \in Seq(Segment) /\ Len(out) = 1 /\ out[1] = s
      BY <2>3, <2>6
    <3>2. \A k \in 1 .. Len(out) : k = 1
      BY <3>1
    <3>. QED BY <2>4, <3>1, <3>2 DEF Emitted
  <2>. QED BY <2>1, <2>5, <2>6
<1>. HIDE DEF x
<1>4. /\ Born(x) <=> Born(u)
      /\ Finished(x) <=> Finished(u)
      /\ ~Open(x) /\ ~Synced(x) /\ x.state \notin Opening \cup {"LISTEN"}
  BY <1>2 DEF Born, Finished, Open, Synced, Opening
<1>5. Nxt(x, i) = Nxt(u, i) /\ Una(x, i) = Una(u, i)
  BY <1>2, <1>4 DEF Nxt, Una
<1>6. Has(x, r) = Has(u, r) /\ Got(x, r) = Got(u, r) /\ Limit(x, r) = Limit(u, r)
  BY <1>2, <1>4 DEF Has, Got, Limit, rcv_free
<1>7. Sends(x, n, i)
  BY <1>1, <1>2, <1>4 DEF EndOK, Sends
<1>8. Receives(x, r, j)
  BY <1>1, <1>2, <1>4, <1>6 DEF EndOK, Receives
<1>9. EndOK(x, r, n, i, j)
  BY <1>1, <1>2, <1>6, <1>7, <1>8 DEF EndOK
<1>10. Forward(u, r, n, x, r, n, i)
  <2>1. n \in Nat /\ Nxt(u, i) \in Nat /\ Got(u, r) \in Nat /\ Limit(u, r) \in Nat
    BY <1>1, EndTypes
  <2>2. Over(u) => Over(x)
    BY <1>1, <1>2, <1>4 DEF Over, EndOK, Sends
  <2>. QED BY <1>5, <1>6, <2>1, <2>2 DEF Forward
<1>11. Faces(x, r, i, v, rv, m, j)
  BY <1>1, <1>4, <1>5, <1>6 DEF Faces
<1>12. Hears(u, x, r, n, i, v, rv, m, j)
  BY <1>9, <1>10, <1>11 DEF Hears, Moves
<1>. QED BY <1>3, <1>12 DEF Answers, x

----------------------------------------------------------------------------
(* The two ends and the network. *)

LEMMA EndsFacts ==
  ASSUME NEW e \in Ends
  PROVE  /\ Peer[e] \in Ends /\ Peer[e] # e /\ Peer[Peer[e]] = e
         /\ Iss[e] \in SeqNo /\ Total[e] \in Nat /\ Short(Total[e])
         /\ Reads[e] \subseteq Nat
         /\ \A f \in Ends : f = e \/ f = Peer[e]
<1>1. /\ CliBytes \in Nat /\ SrvBytes \in Nat /\ CliIss \in SeqNo /\ SrvIss \in SeqNo
      /\ CliReads \subseteq Nat /\ SrvReads \subseteq Nat
      /\ CliBytes + SrvBytes + RcvBuf + 4 < Half
  BY ConnectionAssumption
<1>2. Short(CliBytes) /\ Short(SrvBytes)
  BY <1>1, Consts DEF Short
<1>. QED BY <1>1, <1>2 DEF Ends, Peer, Iss, Total, Reads

(* Every element of q is one of a or of b. *)
Among(q, a, b) ==
  \A k \in 1 .. Len(q) : \/ \E l \in 1 .. Len(a) : q[k] = a[l]
                         \/ \E l \in 1 .. Len(b) : q[k] = b[l]

LEMMA Carried ==
  ASSUME NEW q \in Seq(Segment), NEW segs \in Seq(Segment)
  PROVE  /\ Carry(q, segs) \in Seq(Segment) /\ Len(Carry(q, segs)) <= ChanCap
         /\ Among(Carry(q, segs), q, segs)
<1>. DEFINE a == q \o segs
            l == Lesser(Len(q) + Len(segs), ChanCap)
            c == SubSeq(a, 1, l)
<1>1. ChanCap \in Nat /\ Len(q) \in Nat /\ Len(segs) \in Nat
  BY ConnectionAssumption
<1>2. /\ a \in Seq(Segment) /\ Len(a) = Len(q) + Len(segs)
      /\ \A z \in 1 .. Len(q) + Len(segs) :
           a[z] = IF z <= Len(q) THEN q[z] ELSE segs[z - Len(q)]
  BY ConcatProperties, Zenon
<1>3. l \in Nat /\ l <= Len(q) + Len(segs) /\ l <= ChanCap
  <2>1. Len(q) + Len(segs) \in Nat
    BY <1>1
  <2>. QED BY <1>1, <2>1, Least
<1>. HIDE DEF a, l
<1>4. /\ c \in Seq(Segment) /\ Len(c) = l /\ \A z \in 1 .. l : c[z] = a[z]
  BY <1>1, <1>2, <1>3
<1>. HIDE DEF c
<1>5. Among(c, q, segs)
  <2>1. ASSUME NEW k \in 1 .. Len(c)
        PROVE  \/ \E z \in 1 .. Len(q) : c[k] = q[z]
               \/ \E z \in 1 .. Len(segs) : c[k] = segs[z]
    <3>1. k \in 1 .. l /\ k \in 1 .. Len(q) + Len(segs) /\ c[k] = a[k]
      BY <1>1, <1>3, <1>4
    <3>2. CASE k <= Len(q)
      <4>1. k \in 1 .. Len(q) /\ c[k] = q[k]
        BY <1>1, <1>2, <3>1, <3>2
      <4>. QED BY <4>1
    <3>3. CASE ~(k <= Len(q))
      <4>1. k - Len(q) \in 1 .. Len(segs) /\ c[k] = segs[k - Len(q)]
        BY <1>1, <1>2, <3>1, <3>3
      <4>. QED BY <4>1
    <3>. QED BY <3>2, <3>3
  <2>. QED BY <2>1 DEF Among
<1>6. Carry(q, segs) = c
  BY DEF Carry, c, a, l
<1>. QED BY <1>3, <1>4, <1>5, <1>6

LEMMA Removed ==
  ASSUME NEW q \in Seq(Segment), NEW i \in 1 .. Len(q)
  PROVE  /\ RemoveAt(q, i) \in Seq(Segment) /\ Len(RemoveAt(q, i)) <= Len(q)
         /\ Among(RemoveAt(q, i), q, << >>)
<1>. DEFINE a == SubSeq(q, 1, i - 1)  b == SubSeq(q, i + 1, Len(q))
            c == a \o b
<1>1. Len(q) \in Nat /\ i \in Nat /\ i >= 1 /\ i <= Len(q)
  OBVIOUS
<1>2. a \in Seq(Segment) /\ Len(a) = i - 1 /\ \A z \in 1 .. i - 1 : a[z] = q[z]
  BY <1>1
<1>3. b \in Seq(Segment) /\ Len(b) = Len(q) - i
      /\ \A z \in 1 .. Len(q) - i : b[z] = q[i + z]
  BY <1>1
<1>. HIDE DEF a, b
<1>4. /\ c \in Seq(Segment) /\ Len(c) = Len(a) + Len(b)
      /\ \A z \in 1 .. Len(a) + Len(b) :
           c[z] = IF z <= Len(a) THEN a[z] ELSE b[z - Len(a)]
  BY <1>2, <1>3, ConcatProperties, Zenon
<1>. HIDE DEF c
<1>5. Len(c) <= Len(q)
  BY <1>1, <1>2, <1>3, <1>4
<1>6. Among(c, q, << >>)
  <2>1. ASSUME NEW k \in 1 .. Len(c)
        PROVE  \E z \in 1 .. Len(q) : c[k] = q[z]
    <3>1. k \in 1 .. Len(a) + Len(b)
      BY <1>4
    <3>2. CASE k <= Len(a)
      <4>1. k \in 1 .. i - 1 /\ k \in 1 .. Len(q) /\ c[k] = a[k]
        BY <1>1, <1>2, <1>4, <3>1, <3>2
      <4>. QED BY <1>2, <4>1
    <3>3. CASE ~(k <= Len(a))
      <4>1. /\ k - Len(a) \in 1 .. Len(q) - i /\ c[k] = b[k - Len(a)]
            /\ i + (k - Len(a)) \in 1 .. Len(q)
        BY <1>1, <1>2, <1>3, <1>4, <3>1, <3>3
      <4>. QED BY <1>3, <4>1
    <3>. QED BY <3>2, <3>3
  <2>. QED BY <2>1 DEF Among
<1>7. RemoveAt(q, i) = c
  BY DEF RemoveAt, c, a, b
<1>. QED BY <1>4, <1>5, <1>6, <1>7

----------------------------------------------------------------------------
(* The invariant. *)

AtEnd(e) ==
  /\ Pair(sock[e], rcvd[e], sent[e], Iss[e],
          sock[Peer[e]], rcvd[Peer[e]], sent[Peer[e]], Iss[Peer[e]])
  /\ \A k \in 1 .. Len(wire[Peer[e]]) :
       From(wire[Peer[e]][k], sock[e], rcvd[e], sent[e], Iss[e], Iss[Peer[e]])

Shape ==
  /\ sock \in [Ends -> Socket] /\ rcvd \in [Ends -> Seq(Byte)]
  /\ sent \in [Ends -> Nat] /\ \A e \in Ends : sent[e] <= Total[e]
  /\ wire \in [Ends -> Seq(Segment)]
  /\ \A e \in Ends : Len(wire[e]) <= ChanCap

Sound == Shape /\ \A e \in Ends : AtEnd(e)

Bounded ==
  /\ faults \in [kinds : SUBSET Faults, count : 0 .. MaxFaults]
  /\ ticks \in 0 .. MaxTicks

IInv == Sound /\ Bounded

LEMMA StartSound == Init => IInv
<1>. SUFFICES ASSUME Init PROVE IInv
  OBVIOUS
<1>. DEFINE u == FreshSocket
<1>1. u = FreshSocket
  OBVIOUS
<1>2. /\ Good(u) /\ u.flags = {} /\ u.rcvq = << >> /\ u.state = "CLOSED"
      /\ ~u.fin_queued /\ ~u.fin_sent /\ ~Born(u)
  BY FreshGood DEF FreshSocket, Born
<1>. HIDE DEF u
<1>. DEFINE r == << >>
<1>3. r = << >> /\ r \in Seq(Byte) /\ Len(r) = 0 /\ r \o r = Bytes(0, 0)
  BY NoBytes, EmptyBytes
<1>. HIDE DEF r
<1>4. ~Finished(u) /\ ~Open(u) /\ ~Synced(u) /\ u.state \notin Opening \cup {"LISTEN"}
  BY <1>2 DEF Finished, Open, Synced, Opening
<1>5. Has(u, r) = 0
  BY <1>2, <1>3 DEF Has
<1>6. Got(u, r) = 1
  BY <1>4, <1>5 DEF Got
<1>7. Short(0)
  <2>1. \E e : e \in Ends
    BY DEF Ends
  <2>2. PICK e \in Ends : TRUE
    BY <2>1
  <2>3. Short(Total[e])
    BY EndsFacts
  <2>. QED BY <2>3, Consts DEF Short
<1>8. ASSUME NEW i \in SeqNo, NEW j \in SeqNo
      PROVE  Pair(u, r, 0, i, u, r, 0, j)
  <2>1. ASSUME NEW k \in SeqNo, NEW l \in SeqNo PROVE EndOK(u, r, 0, k, l)
    <3>1. Sends(u, 0, k)
      BY <1>2, <1>4 DEF Sends
    <3>2. Receives(u, r, l)
      BY <1>2, <1>3, <1>4, <1>5 DEF Receives
    <3>. QED BY <1>2, <1>3, <1>5, <1>7, <3>1, <3>2 DEF EndOK
  <2>2. Una(u, i) = 0
    BY <1>2 DEF Una
  <2>3. Faces(u, r, i, u, r, 0, j)
    BY <1>4, <1>5, <1>6, <2>2 DEF Faces
  <2>. QED BY <2>1, <2>3 DEF Pair
<1>9. ASSUME NEW e \in Ends
      PROVE  AtEnd(e) /\ sent[e] <= Total[e] /\ Len(wire[e]) <= ChanCap
  <2>1. /\ sock[e] = u /\ sock[Peer[e]] = u /\ rcvd[e] = r /\ rcvd[Peer[e]] = r
        /\ sent[e] = 0 /\ sent[Peer[e]] = 0
        /\ wire[e] = << >> /\ wire[Peer[e]] = << >>
    BY <1>1, <1>3, EndsFacts DEF Init
  <2>2. Pair(u, r, 0, Iss[e], u, r, 0, Iss[Peer[e]])
    BY <1>8, EndsFacts
  <2>3. Len(<< >>) = 0 /\ ChanCap \in Nat /\ Total[e] \in Nat
    BY ConnectionAssumption, EndsFacts
  <2>4. Len(wire[e]) <= ChanCap /\ sent[e] <= Total[e]
    BY <2>1, <2>3
  <2>5. \A k \in 1 .. Len(wire[Peer[e]]) : FALSE
    BY <2>1, <2>3
  <2>. QED BY <2>1, <2>2, <2>4, <2>5 DEF AtEnd
<1>10. /\ sock \in [Ends -> Socket] /\ rcvd \in [Ends -> Seq(Byte)]
       /\ sent \in [Ends -> Nat] /\ wire \in [Ends -> Seq(Segment)]
  <2>1. FreshSocket \in Socket
    BY <1>1, <1>2 DEF Good
  <2>. QED BY <2>1 DEF Init
<1>11. Bounded
  BY ConnectionAssumption DEF Init, Bounded
<1>. QED BY <1>9, <1>10, <1>11 DEF IInv, Sound, Shape

(* A step of one end e: what has been sent to it is still, in part, under  *)
(* way, and to that in the other direction it has added out.               *)
EndStep(e, x, rx, nx, out) ==
  /\ Calls(sock[e], rcvd[e], sent[e], x, rx, nx, Iss[e],
           sock[Peer[e]], rcvd[Peer[e]], sent[Peer[e]], Iss[Peer[e]])
  /\ nx <= Total[e]
  /\ Emitted(out, x, rx, nx, Iss[e], Iss[Peer[e]])
  /\ sock' = [sock EXCEPT ![e] = x]
  /\ rcvd' = [rcvd EXCEPT ![e] = rx]
  /\ sent' = [sent EXCEPT ![e] = nx]
  /\ wire' \in [Ends -> Seq(Segment)]
  /\ \A f \in Ends : Len(wire'[f]) <= ChanCap
  /\ Among(wire'[e], wire[e], << >>)
  /\ Among(wire'[Peer[e]], wire[Peer[e]], out)

LEMMA EndStepSound ==
  ASSUME Sound, NEW e \in Ends, NEW x, NEW rx, NEW nx, NEW out,
         EndStep(e, x, rx, nx, out)
  PROVE  Sound'
<1>. DEFINE p == Peer[e]  i == Iss[e]  j == Iss[p]
            u == sock[e]  r == rcvd[e]  n == sent[e]
            v == sock[p]  rv == rcvd[p]  m == sent[p]
<1>1. /\ p \in Ends /\ p # e /\ Peer[p] = e /\ i \in SeqNo /\ j \in SeqNo
      /\ \A f \in Ends : f = e \/ f = p
  BY EndsFacts
<1>2. /\ Pair(u, r, n, i, v, rv, m, j) /\ Pair(v, rv, m, j, u, r, n, i)
  <2>1. AtEnd(e) /\ AtEnd(p)
    BY <1>1 DEF Sound
  <2>. QED BY <1>1, <2>1 DEF AtEnd
<1>3. /\ EndOK(u, r, n, i, j) /\ EndOK(v, rv, m, j, i)
      /\ Faces(v, rv, j, u, r, n, i)
  BY <1>2 DEF Pair
<1>4. /\ EndOK(x, rx, nx, i, j) /\ Forward(u, r, n, x, rx, nx, i)
      /\ Faces(x, rx, i, v, rv, m, j)
      /\ Emitted(out, x, rx, nx, i, j)
  BY DEF EndStep, Calls
<1>5. Faces(v, rv, j, x, rx, nx, i)
  BY <1>1, <1>3, <1>4, FacesForward
<1>6. /\ x \in Socket /\ rx \in Seq(Byte) /\ nx \in Nat
  BY <1>4 DEF EndOK, Good, Short
<1>7. Shape'
  <2>1. /\ sock' \in [Ends -> Socket] /\ rcvd' \in [Ends -> Seq(Byte)]
        /\ sent' \in [Ends -> Nat]
    BY <1>6 DEF EndStep, Sound, Shape
  <2>2. \A f \in Ends : sent'[f] <= Total[f]
    BY DEF EndStep, Sound, Shape
  <2>. QED BY <2>1, <2>2 DEF EndStep, Shape
<1>8. /\ sock'[e] = x /\ rcvd'[e] = rx /\ sent'[e] = nx
      /\ sock'[p] = v /\ rcvd'[p] = rv /\ sent'[p] = m
  BY <1>1 DEF EndStep, Sound, Shape
<1>9. /\ \A k \in 1 .. Len(wire[p]) :
           wire[p][k] \in Segment /\ From(wire[p][k], u, r, n, i, j)
      /\ \A k \in 1 .. Len(wire[e]) : From(wire[e][k], v, rv, m, j, i)
  <2>1. AtEnd(e) /\ AtEnd(p) /\ wire[p] \in Seq(Segment)
    BY <1>1 DEF Sound, Shape
  <2>. QED BY <1>1, <2>1 DEF AtEnd
<1>. HIDE DEF p, i, j, u, r, n, v, rv, m
<1>10. ASSUME NEW k \in 1 .. Len(wire'[p])
       PROVE  From(wire'[p][k], x, rx, nx, i, j)
  <2>1. \/ \E l \in 1 .. Len(wire[p]) : wire'[p][k] = wire[p][l]
        \/ \E l \in 1 .. Len(out) : wire'[p][k] = out[l]
    BY DEF EndStep, Among, p
  <2>2. ASSUME NEW l \in 1 .. Len(wire[p]) PROVE From(wire[p][l], x, rx, nx, i, j)
    BY <1>1, <1>3, <1>4, <1>9, FromKeeps
  <2>3. ASSUME NEW l \in 1 .. Len(out) PROVE From(out[l], x, rx, nx, i, j)
    BY <1>4 DEF Emitted
  <2>. QED BY <2>1, <2>2, <2>3
<1>11. ASSUME NEW k \in 1 .. Len(wire'[e])
       PROVE  From(wire'[e][k], v, rv, m, j, i)
  <2>1. \E l \in 1 .. Len(wire[e]) : wire'[e][k] = wire[e][l]
    <3>1. 1 .. Len(<< >>) = {}
      OBVIOUS
    <3>. QED BY <3>1 DEF EndStep, Among
  <2>. QED BY <1>9, <2>1
<1>12. Pair(x, rx, nx, i, v, rv, m, j) /\ Pair(v, rv, m, j, x, rx, nx, i)
  BY <1>3, <1>4, <1>5 DEF Pair
<1>13. AtEnd(e)'
  BY <1>8, <1>10, <1>12 DEF AtEnd, p, i, j
<1>14. AtEnd(p)'
  BY <1>1, <1>8, <1>11, <1>12 DEF AtEnd, i, j
<1>. QED BY <1>1, <1>7, <1>13, <1>14 DEF Sound

----------------------------------------------------------------------------
(* The steps of Next, by what they do to the two streams. *)

Hearing(e) == \E x, out :
  /\ Hears(sock[e], x, rcvd[e], sent[e], Iss[e],
           sock[Peer[e]], rcvd[Peer[e]], sent[Peer[e]], Iss[Peer[e]])
  /\ EndStep(e, x, rcvd[e], sent[e], out)

Writing(e) == \E x, nx :
  /\ can_send(sock[e]) /\ SameTaken(sock[e], x)
  /\ EndStep(e, x, rcvd[e], nx, << >>)

Reading(e) == \E x, rx :
  /\ Has(x, rx) = Has(sock[e], rcvd[e]) /\ (Finished(x) <=> Finished(sock[e]))
  /\ Len(rcvd[e]) <= Len(rx)
  /\ EndStep(e, x, rx, sent[e], << >>)

Carrying == Sound' /\ UNCHANGED <<sock, rcvd, sent>>

LEMMA AmongSame ==
  ASSUME NEW q, NEW b
  PROVE  Among(q, q, b)
BY DEF Among

(* What e sends is added to what is under way to its peer. *)
LEMMA WireSends ==
  ASSUME Shape, NEW e \in Ends, NEW out \in Seq(Segment),
         wire' = [wire EXCEPT ![Peer[e]] = Carry(@, out)]
  PROVE  /\ wire' \in [Ends -> Seq(Segment)]
         /\ \A f \in Ends : Len(wire'[f]) <= ChanCap
         /\ Among(wire'[e], wire[e], << >>)
         /\ Among(wire'[Peer[e]], wire[Peer[e]], out)
<1>. DEFINE p == Peer[e]  c == Carry(wire[p], out)
<1>1. p \in Ends /\ p # e /\ \A f \in Ends : f = e \/ f = p
  BY EndsFacts
<1>2. c \in Seq(Segment) /\ Len(c) <= ChanCap /\ Among(c, wire[p], out)
  BY <1>1, Carried DEF Shape
<1>3. wire' = [wire EXCEPT ![p] = c]
  OBVIOUS
<1>. HIDE DEF p, c
<1>4. /\ wire' \in [Ends -> Seq(Segment)] /\ wire'[p] = c /\ wire'[e] = wire[e]
  BY <1>1, <1>2, <1>3 DEF Shape
<1>5. \A f \in Ends : Len(wire'[f]) <= ChanCap
  BY <1>1, <1>2, <1>4 DEF Shape
<1>6. Among(wire'[e], wire[e], << >>)
  BY <1>4, AmongSame
<1>. QED BY <1>2, <1>4, <1>5, <1>6 DEF p

LEMMA WireSame ==
  ASSUME Shape, NEW e \in Ends, UNCHANGED wire
  PROVE  /\ wire' \in [Ends -> Seq(Segment)]
         /\ \A f \in Ends : Len(wire'[f]) <= ChanCap
         /\ Among(wire'[e], wire[e], << >>)
         /\ Among(wire'[Peer[e]], wire[Peer[e]], << >>)
<1>1. Among(wire[e], wire[e], << >>) /\ Among(wire[Peer[e]], wire[Peer[e]], << >>)
  BY AmongSame
<1>. QED BY <1>1 DEF Shape

(* A step in which e only hears is one of the kind above. *)
LEMMA IsHearing ==
  ASSUME Sound, NEW e \in Ends, NEW x, NEW out,
         Hears(sock[e], x, rcvd[e], sent[e], Iss[e],
               sock[Peer[e]], rcvd[Peer[e]], sent[Peer[e]], Iss[Peer[e]]),
         Emitted(out, x, rcvd[e], sent[e], Iss[e], Iss[Peer[e]]),
         sock' = [sock EXCEPT ![e] = x], UNCHANGED <<rcvd, sent>>,
         wire' \in [Ends -> Seq(Segment)],
         \A f \in Ends : Len(wire'[f]) <= ChanCap,
         Among(wire'[e], wire[e], << >>),
         Among(wire'[Peer[e]], wire[Peer[e]], out)
  PROVE  Hearing(e)
<1>1. /\ rcvd' = [rcvd EXCEPT ![e] = rcvd[e]] /\ sent' = [sent EXCEPT ![e] = sent[e]]
      /\ sent[e] <= Total[e]
  BY DEF Sound, Shape
<1>2. Calls(sock[e], rcvd[e], sent[e], x, rcvd[e], sent[e], Iss[e],
            sock[Peer[e]], rcvd[Peer[e]], sent[Peer[e]], Iss[Peer[e]])
  BY DEF Hears, Moves, Calls
<1>3. EndStep(e, x, rcvd[e], sent[e], out)
  BY <1>1, <1>2 DEF EndStep
<1>. QED BY <1>3 DEF Hearing

LEMMA EmittedNone ==
  ASSUME NEW u, NEW r, NEW n, NEW i, NEW j
  PROVE  Emitted(<< >>, u, r, n, i, j)
BY DEF Emitted

LEMMA PairAt ==
  ASSUME Sound, NEW e \in Ends
  PROVE  /\ Pair(sock[e], rcvd[e], sent[e], Iss[e],
                 sock[Peer[e]], rcvd[Peer[e]], sent[Peer[e]], Iss[Peer[e]])
         /\ Iss[e] \in SeqNo /\ Iss[Peer[e]] \in SeqNo
<1>1. AtEnd(e) /\ Peer[e] \in Ends
  BY EndsFacts DEF Sound
<1>. QED BY <1>1, EndsFacts DEF AtEnd

LEMMA ConnectStep ==
  ASSUME Sound, NEW e \in Ends, Connect(e)
  PROVE  Hearing(e)
<1>. DEFINE v == sock[Peer[e]]  rv == rcvd[Peer[e]]  m == sent[Peer[e]]
            j == Iss[Peer[e]]
<1>1. PICK res \in SendResult :
        LET c == mn_tcp_connect(sock[e], Iss[e], res)
        IN /\ sock' = [sock EXCEPT ![e] = c.t]
           /\ wire' = [wire EXCEPT ![Peer[e]] = Carry(@, c.out)]
  BY DEF Connect
<1>. DEFINE c == mn_tcp_connect(sock[e], Iss[e], res)
<1>2. /\ sock[e] = FreshSocket /\ UNCHANGED <<rcvd, sent>>
      /\ sock' = [sock EXCEPT ![e] = c.t]
      /\ wire' = [wire EXCEPT ![Peer[e]] = Carry(@, c.out)]
  BY <1>1 DEF Connect
<1>3. /\ Pair(sock[e], rcvd[e], sent[e], Iss[e], v, rv, m, j)
      /\ Iss[e] \in SeqNo /\ j \in SeqNo
  BY PairAt
<1>4. Answers(sock[e], c, rcvd[e], sent[e], Iss[e], v, rv, m, j)
  <2>. HIDE DEF v, rv, m, j
  <2>1. Answers(FreshSocket, mn_tcp_connect(FreshSocket, Iss[e], res),
                rcvd[e], sent[e], Iss[e], v, rv, m, j)
    BY <1>2, <1>3, ConnectAnswers
  <2>. QED BY <1>2, <2>1
<1>. HIDE DEF c
<1>5. c.out \in Seq(Segment)
  BY <1>4 DEF Answers, Emitted
<1>6. Shape
  BY DEF Sound
<1>7. /\ wire' \in [Ends -> Seq(Segment)]
      /\ \A f \in Ends : Len(wire'[f]) <= ChanCap
      /\ Among(wire'[e], wire[e], << >>)
      /\ Among(wire'[Peer[e]], wire[Peer[e]], c.out)
  BY <1>2, <1>5, <1>6, WireSends
<1>. QED BY <1>2, <1>4, <1>7, IsHearing DEF Answers

LEMMA ListenStep ==
  ASSUME Sound, NEW e \in Ends, Listen(e)
  PROVE  Hearing(e)
<1>. DEFINE v == sock[Peer[e]]  rv == rcvd[Peer[e]]  m == sent[Peer[e]]
            j == Iss[Peer[e]]  x == mn_tcp_listen(sock[e])
<1>1. /\ sock[e] = FreshSocket /\ UNCHANGED <<wire, rcvd, sent>>
      /\ sock' = [sock EXCEPT ![e] = x]
  BY DEF Listen
<1>2. /\ Pair(sock[e], rcvd[e], sent[e], Iss[e], v, rv, m, j)
      /\ Iss[e] \in SeqNo /\ j \in SeqNo
  BY PairAt
<1>3. Hears(sock[e], x, rcvd[e], sent[e], Iss[e], v, rv, m, j)
  <2>. HIDE DEF v, rv, m, j
  <2>1. Hears(FreshSocket, mn_tcp_listen(FreshSocket),
              rcvd[e], sent[e], Iss[e], v, rv, m, j)
    BY <1>1, <1>2, ListenHears
  <2>. QED BY <1>1, <2>1
<1>. HIDE DEF x
<1>4. Shape
  BY DEF Sound
<1>. QED BY <1>1, <1>3, <1>4, WireSame, EmittedNone, IsHearing

LEMMA CloseStep ==
  ASSUME Sound, NEW e \in Ends, Close(e)
  PROVE  Hearing(e)
<1>. DEFINE x == mn_tcp_close(sock[e])
<1>1. UNCHANGED <<wire, rcvd, sent>> /\ sock' = [sock EXCEPT ![e] = x]
  BY DEF Close
<1>2. Hears(sock[e], x, rcvd[e], sent[e], Iss[e],
            sock[Peer[e]], rcvd[Peer[e]], sent[Peer[e]], Iss[Peer[e]])
  BY PairAt, CloseHears
<1>. HIDE DEF x
<1>3. Shape
  BY DEF Sound
<1>. QED BY <1>1, <1>2, <1>3, WireSame, EmittedNone, IsHearing

LEMMA AbortStep ==
  ASSUME Sound, NEW e \in Ends, Abort(e)
  PROVE  Hearing(e)
<1>. DEFINE ok == "OK"  a == mn_tcp_abort(sock[e], ok)
<1>1. /\ UNCHANGED <<rcvd, sent>>
      /\ sock' = [sock EXCEPT ![e] = a.t]
      /\ wire' = [wire EXCEPT ![Peer[e]] = Carry(@, a.out)]
      /\ ok \in SendResult
  BY DEF Abort, SendResult
<1>. HIDE DEF ok
<1>2. Answers(sock[e], a, rcvd[e], sent[e], Iss[e],
              sock[Peer[e]], rcvd[Peer[e]], sent[Peer[e]], Iss[Peer[e]])
  BY <1>1, PairAt, AbortAnswers
<1>. HIDE DEF a
<1>3. Shape /\ a.out \in Seq(Segment)
  BY <1>2 DEF Sound, Answers, Emitted
<1>4. /\ wire' \in [Ends -> Seq(Segment)]
      /\ \A f \in Ends : Len(wire'[f]) <= ChanCap
      /\ Among(wire'[e], wire[e], << >>)
      /\ Among(wire'[Peer[e]], wire[Peer[e]], a.out)
  BY <1>1, <1>3, WireSends
<1>. QED BY <1>1, <1>2, <1>4, IsHearing DEF Answers

LEMMA Links ==
  ASSUME NEW link \in {Willing} \cup Unwilling
  PROVE  link \in Link /\ FirstResult(link) \in SendResult
<1>1. link \in Link
  BY Consts DEF Willing, Unwilling, Link, SendResult
<1>. QED BY <1>1 DEF FirstResult, Link, SendResult

LEMMA PollQuietStep ==
  ASSUME Sound, NEW e \in Ends, PollQuiet(e)
  PROVE  Hearing(e)
<1>1. PICK d \in Elapsed, link \in {Willing} \cup Unwilling :
        LET p == poll_one(sock[e], d, link)
        IN /\ sock' = [sock EXCEPT ![e] = p.t]
           /\ wire' = [wire EXCEPT ![Peer[e]] = Carry(@, p.out)]
           /\ UNCHANGED <<sent, rcvd>>
  BY DEF PollQuiet, PollQuietAfter
<1>. DEFINE p == poll_one(sock[e], d, link)
<1>2. /\ sock' = [sock EXCEPT ![e] = p.t]
      /\ wire' = [wire EXCEPT ![Peer[e]] = Carry(@, p.out)]
      /\ UNCHANGED <<sent, rcvd>>
  BY <1>1
<1>3. link \in Link /\ d \in Nat
  BY Links, ConnectionAssumption
<1>4. EndOK(sock[e], rcvd[e], sent[e], Iss[e], Iss[Peer[e]])
      /\ Iss[e] \in SeqNo /\ Iss[Peer[e]] \in SeqNo
  BY PairAt DEF Pair
<1>5. Polls(sock[e], p, rcvd[e], sent[e], Iss[e], Iss[Peer[e]])
  BY <1>3, <1>4, PollOneSends
<1>. HIDE DEF p
<1>. DEFINE v == sock[Peer[e]]  rv == rcvd[Peer[e]]  m == sent[Peer[e]]
<1>6. Pair(sock[e], rcvd[e], sent[e], Iss[e], v, rv, m, Iss[Peer[e]])
  BY PairAt
<1>. HIDE DEF v, rv, m
<1>7. Hears(sock[e], sock[e], rcvd[e], sent[e], Iss[e], v, rv, m, Iss[Peer[e]])
  BY <1>4, <1>6, StillHears
<1>8. Answers(sock[e], p, rcvd[e], sent[e], Iss[e], v, rv, m, Iss[Peer[e]])
  BY <1>4, <1>5, <1>6, <1>7, PollsAnswers
<1>9. Shape /\ p.out \in Seq(Segment)
  BY <1>8 DEF Sound, Answers, Emitted
<1>10. /\ wire' \in [Ends -> Seq(Segment)]
       /\ \A f \in Ends : Len(wire'[f]) <= ChanCap
       /\ Among(wire'[e], wire[e], << >>)
       /\ Among(wire'[Peer[e]], wire[Peer[e]], p.out)
  BY <1>2, <1>9, WireSends
<1>. QED BY <1>2, <1>8, <1>10, IsHearing DEF Answers, v, rv, m

LEMMA PollFrameStep ==
  ASSUME Sound, NEW e \in Ends, PollFrame(e)
  PROVE  Hearing(e)
<1>1. PICK k \in 1 .. Len(wire[e]), d \in Elapsed,
           link \in {Willing} \cup Unwilling :
        LET in == mn_tcp_input(e, wire[e][k], FirstResult(link))
            p  == poll_one(in.t, d, link)
        IN /\ sock' = [sock EXCEPT ![e] = p.t]
           /\ wire' = [wire EXCEPT ![e] = RemoveAt(@, k),
                                   ![Peer[e]] = Carry(@, in.out \o p.out)]
           /\ UNCHANGED <<sent, rcvd>>
  BY DEF PollFrame
<1>. DEFINE s == wire[e][k]
            res == FirstResult(link)
            in == mn_tcp_input(e, s, res)
            p  == poll_one(in.t, d, link)
            out == in.out \o p.out
            v == sock[Peer[e]]  rv == rcvd[Peer[e]]  m == sent[Peer[e]]
            i == Iss[e]  j == Iss[Peer[e]]
<1>2. /\ sock' = [sock EXCEPT ![e] = p.t]
      /\ wire' = [wire EXCEPT ![e] = RemoveAt(@, k), ![Peer[e]] = Carry(@, out)]
      /\ UNCHANGED <<sent, rcvd>>
  BY <1>1
<1>3. link \in Link /\ d \in Nat /\ res \in SendResult
  BY Links, ConnectionAssumption
<1>4. /\ Pair(sock[e], rcvd[e], sent[e], i, v, rv, m, j)
      /\ i \in SeqNo /\ j \in SeqNo /\ i = Iss[e]
  BY PairAt
<1>5. /\ wire[e] \in Seq(Segment) /\ wire[Peer[e]] \in Seq(Segment)
      /\ Len(wire[e]) <= ChanCap /\ Len(wire[e]) \in Nat /\ ChanCap \in Nat
      /\ Peer[e] \in Ends /\ Peer[e] # e
      /\ \A f \in Ends : f = e \/ f = Peer[e]
  BY EndsFacts, ConnectionAssumption DEF Sound, Shape
<1>6. s \in Segment /\ From(s, v, rv, m, j, i)
  <2>1. AtEnd(Peer[e]) /\ Peer[Peer[e]] = e
    BY EndsFacts DEF Sound
  <2>. QED BY <1>5, <2>1 DEF AtEnd
<1>7. Hears(sock[e], p.t, rcvd[e], sent[e], i, v, rv, m, j)
      /\ Emitted(out, p.t, rcvd[e], sent[e], i, j)
  <2>. HIDE DEF s, res, i, j, v, rv, m
  <2>. QED BY <1>3, <1>4, <1>6, PollFrameAnswers
<1>. HIDE DEF out, p, in, res, s
<1>8. out \in Seq(Segment)
  BY <1>7 DEF Emitted
<1>. DEFINE a == RemoveAt(wire[e], k)  b == Carry(wire[Peer[e]], out)
<1>9. /\ a \in Seq(Segment) /\ Len(a) <= Len(wire[e]) /\ Among(a, wire[e], << >>)
      /\ b \in Seq(Segment) /\ Len(b) <= ChanCap /\ Among(b, wire[Peer[e]], out)
  BY <1>5, <1>8, Removed, Carried
<1>10. /\ wire' \in [Ends -> Seq(Segment)] /\ wire'[e] = a /\ wire'[Peer[e]] = b
  <2>1. wire' = [wire EXCEPT ![e] = a, ![Peer[e]] = b]
    BY <1>2, <1>5 DEF Sound, Shape
  <2>. HIDE DEF a, b
  <2>. QED BY <1>5, <1>9, <2>1 DEF Sound, Shape
<1>11. \A f \in Ends : Len(wire'[f]) <= ChanCap
  <2>1. Len(a) <= ChanCap
    <3>1. Len(a) \in Nat
      BY <1>9
    <3>. HIDE DEF a
    <3>. QED BY <1>5, <1>9, <3>1
  <2>. QED BY <1>5, <1>9, <1>10, <2>1
<1>. HIDE DEF a, b
<1>12. Among(wire'[e], wire[e], << >>) /\ Among(wire'[Peer[e]], wire[Peer[e]], out)
  BY <1>9, <1>10
<1>. QED BY <1>2, <1>7, <1>10, <1>11, <1>12, IsHearing DEF i, j, v, rv, m

LEMMA WriteStep ==
  ASSUME Sound, NEW e \in Ends, Write(e)
  PROVE  Writing(e)
<1>1. PICK l \in 1 .. Total[e] - sent[e] :
        /\ sock' = [sock EXCEPT ![e] =
                      mn_tcp_send(@, [z \in 1 .. l |-> sent[e] + z])]
        /\ sent' = [sent EXCEPT ![e] = @ + SendTakes(sock[e], l)]
  BY DEF Write
<1>. DEFINE data == [z \in 1 .. l |-> sent[e] + z]
            k == SendTakes(sock[e], l)
            x == mn_tcp_send(sock[e], data)
            v == sock[Peer[e]]  rv == rcvd[Peer[e]]  m == sent[Peer[e]]
            i == Iss[e]  j == Iss[Peer[e]]
<1>2. /\ can_send(sock[e]) /\ UNCHANGED <<wire, rcvd>>
      /\ sock' = [sock EXCEPT ![e] = x] /\ sent' = [sent EXCEPT ![e] = sent[e] + k]
  BY <1>1 DEF Write, Sound, Shape
<1>3. sent[e] \in Nat /\ Total[e] \in Nat /\ sent[e] <= Total[e] /\ Short(Total[e])
  BY EndsFacts DEF Sound, Shape
<1>4. l \in Nat /\ sent[e] + l <= Total[e] /\ Short(sent[e] + l)
  <2>1. l \in Nat /\ sent[e] + l <= Total[e]
    BY <1>3
  <2>. QED BY <1>3, <2>1, Consts DEF Short
<1>5. data = Bytes(sent[e], l)
  BY DEF Bytes
<1>6. data \in Seq(Byte)
  <2>1. \A z \in 1 .. l : sent[e] + z \in Byte
    <3>1. /\ CliBytes \in Nat /\ SrvBytes \in Nat
          /\ Byte = 1 .. (IF CliBytes > SrvBytes THEN CliBytes ELSE SrvBytes)
      BY ConnectionAssumption
    <3>2. Total[e] = CliBytes \/ Total[e] = SrvBytes
      BY DEF Total, Ends
    <3>. QED BY <1>3, <1>4, <3>1, <3>2
  <2>2. data \in [1 .. l -> Byte]
    BY <2>1
  <2>. QED BY <1>4, <2>2
<1>7. /\ Pair(sock[e], rcvd[e], sent[e], i, v, rv, m, j)
      /\ i \in SeqNo /\ j \in SeqNo
  BY PairAt
<1>8. k = SendTakes(sock[e], l) /\ x = mn_tcp_send(sock[e], data)
  OBVIOUS
<1>. HIDE DEF data, k, x, v, rv, m, i, j
<1>9. /\ k \in 0 .. l /\ SameTaken(sock[e], x)
      /\ Calls(sock[e], rcvd[e], sent[e], x, rcvd[e], sent[e] + k, i, v, rv, m, j)
  BY <1>2, <1>4, <1>5, <1>6, <1>7, <1>8, WriteCalls
<1>10. sent[e] + k <= Total[e]
  BY <1>3, <1>4, <1>9
<1>11. Emitted(<< >>, x, rcvd[e], sent[e] + k, i, j)
  BY EmittedNone
<1>12. Shape /\ UNCHANGED wire /\ rcvd' = [rcvd EXCEPT ![e] = rcvd[e]]
  BY <1>2 DEF Sound, Shape
<1>13. /\ wire' \in [Ends -> Seq(Segment)]
       /\ \A f \in Ends : Len(wire'[f]) <= ChanCap
       /\ Among(wire'[e], wire[e], << >>)
       /\ Among(wire'[Peer[e]], wire[Peer[e]], << >>)
  BY <1>12, WireSame
<1>14. EndStep(e, x, rcvd[e], sent[e] + k, << >>)
  BY <1>2, <1>9, <1>10, <1>11, <1>12, <1>13 DEF EndStep, v, rv, m, i, j
<1>. QED BY <1>2, <1>9, <1>14 DEF Writing

LEMMA ReadStep ==
  ASSUME Sound, NEW e \in Ends, Read(e)
  PROVE  Reading(e)
<1>1. PICK cap \in Reads[e] :
        /\ sock' = [sock EXCEPT ![e] = mn_tcp_recv(@, cap)]
        /\ rcvd' = [rcvd EXCEPT ![e] =
                      @ \o SubSeq(sock[e].rcvq, 1, RecvTakes(sock[e], cap))]
  BY DEF Read
<1>. DEFINE x == mn_tcp_recv(sock[e], cap)
            rx == Handed(sock[e], rcvd[e], cap)
            v == sock[Peer[e]]  rv == rcvd[Peer[e]]  m == sent[Peer[e]]
            i == Iss[e]  j == Iss[Peer[e]]
<1>2. /\ sock[e].rcvq # << >> /\ UNCHANGED <<wire, sent>>
      /\ sock' = [sock EXCEPT ![e] = x] /\ rcvd' = [rcvd EXCEPT ![e] = rx]
  BY <1>1 DEF Read, Sound, Shape, Handed
<1>3. cap \in Nat
  BY EndsFacts
<1>4. /\ Pair(sock[e], rcvd[e], sent[e], i, v, rv, m, j)
      /\ i \in SeqNo /\ j \in SeqNo
  BY PairAt
<1>5. x = mn_tcp_recv(sock[e], cap) /\ rx = Handed(sock[e], rcvd[e], cap)
  OBVIOUS
<1>. HIDE DEF x, rx, v, rv, m, i, j
<1>6. /\ Calls(sock[e], rcvd[e], sent[e], x, rx, sent[e], i, v, rv, m, j)
      /\ Has(x, rx) = Has(sock[e], rcvd[e]) /\ (Finished(x) <=> Finished(sock[e]))
      /\ Len(rcvd[e]) <= Len(rx)
  <2>1. Calls(sock[e], rcvd[e], sent[e], x, rx, sent[e], i, v, rv, m, j)
    BY <1>2, <1>3, <1>4, <1>5, ReadCalls
  <2>2. SameHas(sock[e], rcvd[e], x, rx)
    BY <1>2, <1>3, <1>4, <1>5, ReadCalls
  <2>3. Finished(x) <=> Finished(sock[e])
    BY <1>2, <1>3, <1>4, <1>5, ReadCalls
  <2>4. Len(rcvd[e]) <= Len(rx)
    BY <1>2, <1>3, <1>4, <1>5, ReadCalls
  <2>. QED BY <2>1, <2>2, <2>3, <2>4 DEF SameHas
<1>7. Emitted(<< >>, x, rx, sent[e], i, j)
  BY EmittedNone
<1>8. Shape /\ UNCHANGED wire /\ sent' = [sent EXCEPT ![e] = sent[e]]
      /\ sent[e] <= Total[e]
  BY <1>2 DEF Sound, Shape
<1>9. /\ wire' \in [Ends -> Seq(Segment)]
      /\ \A f \in Ends : Len(wire'[f]) <= ChanCap
      /\ Among(wire'[e], wire[e], << >>)
      /\ Among(wire'[Peer[e]], wire[Peer[e]], << >>)
  BY <1>8, WireSame
<1>10. EndStep(e, x, rx, sent[e], << >>)
  BY <1>2, <1>6, <1>7, <1>8, <1>9 DEF EndStep, v, rv, m, i, j
<1>. QED BY <1>6, <1>10 DEF Reading

(* The network loses and repeats what has been sent, and adds nothing.     *)
LEMMA NetworkSound ==
  ASSUME Sound, NEW e \in Ends, NEW q \in Seq(Segment), Len(q) <= ChanCap,
         Among(q, wire[e], << >>), wire' = [wire EXCEPT ![e] = q],
         UNCHANGED <<sock, rcvd, sent>>
  PROVE  Carrying
<1>1. Shape'
  BY DEF Sound, Shape
<1>2. ASSUME NEW f \in Ends PROVE AtEnd(f)'
  <2>1. AtEnd(f)
    BY DEF Sound
  <2>2. ASSUME NEW k \in 1 .. Len(wire'[Peer[f]])
        PROVE  \E l \in 1 .. Len(wire[Peer[f]]) : wire'[Peer[f]][k] = wire[Peer[f]][l]
    <3>1. CASE Peer[f] = e
      <4>1. wire'[Peer[f]] = q
        BY <3>1 DEF Sound, Shape
      <4>2. 1 .. Len(<< >>) = {}
        OBVIOUS
      <4>. QED BY <2>2, <3>1, <4>1, <4>2 DEF Among
    <3>2. CASE Peer[f] # e
      BY <3>2, EndsFacts DEF Sound, Shape
    <3>. QED BY <3>1, <3>2
  <2>. QED BY <2>1, <2>2 DEF AtEnd
<1>. QED BY <1>1, <1>2 DEF Sound, Carrying

LEMMA LoseStep ==
  ASSUME Sound, NEW e \in Ends, Lose(e)
  PROVE  Carrying
<1>1. PICK k \in 1 .. Len(wire[e]) : wire' = [wire EXCEPT ![e] = RemoveAt(@, k)]
  BY DEF Lose
<1>. DEFINE q == RemoveAt(wire[e], k)
<1>2. /\ wire[e] \in Seq(Segment) /\ Len(wire[e]) <= ChanCap
      /\ Len(wire[e]) \in Nat /\ ChanCap \in Nat
      /\ wire' = [wire EXCEPT ![e] = q]
  BY <1>1, ConnectionAssumption DEF Sound, Shape
<1>3. q \in Seq(Segment) /\ Len(q) <= Len(wire[e]) /\ Among(q, wire[e], << >>)
      /\ Len(q) \in Nat
  BY <1>2, Removed
<1>. HIDE DEF q
<1>4. Len(q) <= ChanCap
  BY <1>2, <1>3
<1>. QED BY <1>2, <1>3, <1>4, NetworkSound DEF Lose

LEMMA DuplicateStep ==
  ASSUME Sound, NEW e \in Ends, Duplicate(e)
  PROVE  Carrying
<1>1. PICK k \in 1 .. Len(wire[e]) :
        wire' = [wire EXCEPT ![e] = Carry(@, <<wire[e][k]>>)]
  BY DEF Duplicate
<1>. DEFINE s == wire[e][k]  one == <<s>>  q == Carry(wire[e], one)
<1>2. /\ wire[e] \in Seq(Segment) /\ s \in Segment
      /\ wire' = [wire EXCEPT ![e] = q]
  BY <1>1 DEF Sound, Shape
<1>3. one \in Seq(Segment) /\ Len(one) = 1 /\ one[1] = s
  BY <1>2
<1>4. q \in Seq(Segment) /\ Len(q) <= ChanCap /\ Among(q, wire[e], one)
  <2>. HIDE DEF one
  <2>. QED BY <1>2, <1>3, Carried
<1>. HIDE DEF q, one
<1>5. Among(q, wire[e], << >>)
  <2>1. ASSUME NEW z \in 1 .. Len(q)
        PROVE  \E l \in 1 .. Len(wire[e]) : q[z] = wire[e][l]
    <3>1. \/ \E l \in 1 .. Len(wire[e]) : q[z] = wire[e][l]
          \/ \E l \in 1 .. Len(one) : q[z] = one[l]
      BY <1>4 DEF Among
    <3>2. \A l \in 1 .. Len(one) : one[l] = wire[e][k]
      BY <1>3
    <3>. QED BY <3>1, <3>2
  <2>. QED BY <2>1 DEF Among
<1>. QED BY <1>2, <1>4, <1>5, NetworkSound DEF Duplicate

----------------------------------------------------------------------------
(* The invariant is kept. *)

LEMMA GivenBounded ==
  ASSUME Bounded, NEW F, Given(F)
  PROVE  faults' \in [kinds : SUBSET Faults, count : 0 .. MaxFaults]
<1>1. Cardinality(F) \in Nat
  <2>1. IsFiniteSet(FaultKinds)
    <3>1. \A x, S : IsFiniteSet(S) => IsFiniteSet(S \cup {x})
      BY FS_AddElement
    <3>2. IsFiniteSet({} \cup {"loss"})
      BY <3>1, FS_EmptySet, Zenon
    <3>3. IsFiniteSet(({} \cup {"loss"}) \cup {"dup"})
      BY <3>1, <3>2, Zenon
    <3>4. IsFiniteSet((({} \cup {"loss"}) \cup {"dup"}) \cup {"overtake"})
      BY <3>1, <3>3, Zenon
    <3>5. IsFiniteSet(((({} \cup {"loss"}) \cup {"dup"}) \cup {"overtake"})
                        \cup {"refused"})
      BY <3>1, <3>4, Zenon
    <3>6. IsFiniteSet((((({} \cup {"loss"}) \cup {"dup"}) \cup {"overtake"})
                        \cup {"refused"}) \cup {"abort"})
      BY <3>1, <3>5, Zenon
    <3>7. (((({} \cup {"loss"}) \cup {"dup"}) \cup {"overtake"})
             \cup {"refused"}) \cup {"abort"} = FaultKinds
      BY DEF FaultKinds
    <3>. QED BY <3>6, <3>7, Zenon
  <2>2. F \subseteq FaultKinds
    BY ConnectionAssumption DEF Given
  <2>. QED BY <2>1, <2>2, FS_Subset, FS_CardinalityType
<1>2. /\ faults.kinds \subseteq Faults /\ faults.count \in Nat /\ MaxFaults \in Nat
  BY ConnectionAssumption DEF Bounded
<1>. DEFINE n == faults.count + Cardinality(F)
            K == faults.kinds \cup F
<1>3. n \in 0 .. MaxFaults /\ K \subseteq Faults
  BY <1>1, <1>2 DEF Given
<1>4. faults' = [kinds |-> K, count |-> n]
  BY DEF Given
<1>. HIDE DEF n, K
<1>. QED BY <1>3, <1>4

LEMMA CallBounded ==
  ASSUME Bounded, NEW F, Given(F), UNCHANGED ticks
  PROVE  Bounded'
BY GivenBounded DEF Bounded

LEMMA PollBounded ==
  ASSUME Bounded, NEW d, NEW link, NEW F, Conditions(d, link, F)
  PROVE  Bounded'
<1>1. PICK G : Given(G)
  BY DEF Conditions
<1>2. ticks' \in 0 .. MaxTicks
  <2>1. \/ ticks < MaxTicks /\ ticks' = ticks + 1
        \/ ticks' = ticks
    BY DEF Conditions
  <2>2. ticks \in 0 .. MaxTicks /\ MaxTicks \in Nat
    BY ConnectionAssumption DEF Bounded
  <2>. QED BY <2>1, <2>2
<1>. QED BY <1>1, <1>2, GivenBounded DEF Bounded

LEMMA StepBounded ==
  ASSUME Bounded, Next
  PROVE  Bounded'
<1>1. ASSUME Connect("cli") PROVE Bounded'
  BY <1>1, CallBounded DEF Connect
<1>2. ASSUME NEW e \in Ends, Abort(e) PROVE Bounded'
  BY <1>2, CallBounded DEF Abort
<1>3. ASSUME NEW e \in Ends, Lose(e) PROVE Bounded'
  BY <1>3, CallBounded DEF Lose
<1>4. ASSUME NEW e \in Ends, Duplicate(e) PROVE Bounded'
  BY <1>4, CallBounded DEF Duplicate
<1>5. ASSUME NEW e \in Ends, PollQuiet(e) PROVE Bounded'
  <2>1. \E d, link : Conditions(d, link, {})
    BY <1>5 DEF PollQuiet, PollQuietAfter
  <2>. QED BY <2>1, PollBounded
<1>6. ASSUME NEW e \in Ends, PollFrame(e) PROVE Bounded'
  <2>1. \E d, link, F : Conditions(d, link, F)
    BY <1>6 DEF PollFrame
  <2>. QED BY <2>1, PollBounded
<1>7. ASSUME UNCHANGED <<faults, ticks>> PROVE Bounded'
  BY <1>7 DEF Bounded
<1>8. ASSUME NEW e \in Ends, Write(e) \/ Read(e) \/ Close(e) \/ Listen("srv")
      PROVE  Bounded'
  BY <1>7, <1>8 DEF Write, Read, Close, Listen
<1>9. \E e : e \in Ends
  BY DEF Ends
<1>. QED BY <1>1, <1>2, <1>3, <1>4, <1>5, <1>6, <1>8, <1>9 DEF Next

(* Whatever happens, one end hears, writes or reads, or the network alone  *)
(* acts.                                                                   *)
LEMMA StepKinds ==
  ASSUME Sound, Next
  PROVE  \/ \E e \in Ends : Hearing(e) \/ Writing(e) \/ Reading(e)
         \/ Carrying
<1>1. "cli" \in Ends /\ "srv" \in Ends
  BY DEF Ends
<1>2. CASE Connect("cli")
  BY <1>1, <1>2, ConnectStep
<1>3. CASE Listen("srv")
  BY <1>1, <1>3, ListenStep
<1>4. CASE \E e \in Ends : Write(e)
  BY <1>4, WriteStep
<1>5. CASE \E e \in Ends : Read(e)
  BY <1>5, ReadStep
<1>6. CASE \E e \in Ends : Close(e)
  BY <1>6, CloseStep
<1>7. CASE \E e \in Ends : Abort(e)
  BY <1>7, AbortStep
<1>8. CASE \E e \in Ends : PollQuiet(e)
  BY <1>8, PollQuietStep
<1>9. CASE \E e \in Ends : PollFrame(e)
  BY <1>9, PollFrameStep
<1>10. CASE \E e \in Ends : Lose(e)
  BY <1>10, LoseStep
<1>11. CASE \E e \in Ends : Duplicate(e)
  BY <1>11, DuplicateStep
<1>. QED BY <1>2, <1>3, <1>4, <1>5, <1>6, <1>7, <1>8, <1>9, <1>10, <1>11 DEF Next

LEMMA StepSound ==
  ASSUME Sound, Next
  PROVE  Sound'
<1>1. CASE Carrying
  BY <1>1 DEF Carrying
<1>2. ASSUME NEW e \in Ends, Hearing(e) PROVE Sound'
  BY <1>2, EndStepSound DEF Hearing
<1>3. ASSUME NEW e \in Ends, Writing(e) PROVE Sound'
  BY <1>3, EndStepSound DEF Writing
<1>4. ASSUME NEW e \in Ends, Reading(e) PROVE Sound'
  BY <1>4, EndStepSound DEF Reading
<1>. QED BY <1>1, <1>2, <1>3, <1>4, StepKinds

LEMMA StutterSound ==
  ASSUME IInv, UNCHANGED vars
  PROVE  IInv'
<1>1. /\ sock' = sock /\ wire' = wire /\ sent' = sent /\ rcvd' = rcvd
      /\ faults' = faults /\ ticks' = ticks
  BY DEF vars
<1>2. Shape' /\ Bounded'
  BY <1>1 DEF IInv, Sound, Shape, Bounded
<1>3. ASSUME NEW e \in Ends PROVE AtEnd(e)'
  BY <1>1 DEF IInv, Sound, AtEnd
<1>. QED BY <1>2, <1>3 DEF IInv, Sound

(* The two ends and the network between them always fit together. *)
THEOREM InvariantHolds == Spec => []IInv
<1>1. IInv /\ [Next]_vars => IInv'
  BY StepSound, StepBounded, StutterSound DEF IInv
<1>. QED BY StartSound, <1>1, PTL DEF Spec

----------------------------------------------------------------------------
(* What the invariant says of two ends, u and v, that face one another.    *)

Facing(u, r, n, i, v, rv, m, j) ==
  Pair(u, r, n, i, v, rv, m, j) /\ Pair(v, rv, m, j, u, r, n, i)

LEMMA FacingAt ==
  ASSUME Sound, NEW e \in Ends
  PROVE  /\ Facing(sock[e], rcvd[e], sent[e], Iss[e],
                   sock[Peer[e]], rcvd[Peer[e]], sent[Peer[e]], Iss[Peer[e]])
         /\ Iss[e] \in SeqNo /\ Iss[Peer[e]] \in SeqNo
<1>1. AtEnd(e) /\ AtEnd(Peer[e]) /\ Peer[Peer[e]] = e
  BY EndsFacts DEF Sound
<1>. QED BY <1>1, EndsFacts DEF AtEnd, Facing

(* The positions of the sequence numbers of two synchronised sockets. *)
LEMMA SentAt ==
  ASSUME NEW u, NEW r, NEW n, NEW i \in SeqNo, NEW j, EndOK(u, r, n, i, j),
         Synced(u) \/ u.fin_sent
  PROVE  /\ Una(u, i) = SeqSub(u.snd_una, i) /\ Nxt(u, i) = SeqSub(u.snd_nxt, i)
         /\ u.snd_una \in SeqNo /\ u.snd_nxt \in SeqNo
         /\ SeqSub(u.snd_una, i) \in Nat /\ SeqSub(u.snd_nxt, i) \in Nat
<1>1. Born(u)
  BY DEF EndOK, Sends, Synced, Good, Agrees
<1>2. u.snd_una \in SeqNo /\ u.snd_nxt \in SeqNo
  BY Fields DEF EndOK, Good
<1>. QED BY <1>1, <1>2, SeqSubType DEF Una, Nxt

LEMMA TakenAt ==
  ASSUME NEW u, NEW r, NEW n, NEW i \in SeqNo, NEW j \in SeqNo,
         EndOK(u, r, n, i, j), Open(u)
  PROVE  u.rcv_nxt \in SeqNo /\ SeqSub(u.rcv_nxt, j) = Got(u, r)
<1>1. u.rcv_nxt = SeqAdd(j, Got(u, r))
  BY DEF EndOK, Receives
<1>2. Got(u, r) \in Nat /\ Got(u, r) < SeqSpace
  <2>1. Got(u, r) \in Nat /\ Got(u, r) + RcvBuf + 2 < Half
    BY EndTypes
  <2>. QED BY <2>1, Consts
<1>. QED BY <1>1, <1>2, Ahead

LEMMA FacingSynchronised ==
  ASSUME NEW u, NEW r, NEW n, NEW i \in SeqNo, NEW v, NEW rv, NEW m,
         NEW j \in SeqNo, Facing(u, r, n, i, v, rv, m, j),
         Synced(u), Synced(v)
  PROVE  SEQ_LEQ(u.snd_una, v.rcv_nxt) /\ SEQ_LEQ(v.rcv_nxt, u.snd_nxt)
<1>1. /\ EndOK(u, r, n, i, j) /\ EndOK(v, rv, m, j, i)
      /\ Faces(u, r, i, v, rv, m, j) /\ Faces(v, rv, j, u, r, n, i)
  BY DEF Facing, Pair
<1>2. Open(v)
  BY DEF Open
<1>3. v.rcv_nxt \in SeqNo /\ SeqSub(v.rcv_nxt, i) = Got(v, rv)
  BY <1>1, <1>2, TakenAt
<1>4. /\ Una(u, i) = SeqSub(u.snd_una, i) /\ Nxt(u, i) = SeqSub(u.snd_nxt, i)
      /\ u.snd_una \in SeqNo /\ u.snd_nxt \in SeqNo
  BY <1>1, SentAt
<1>5. Una(u, i) <= Got(v, rv) /\ Got(v, rv) <= Nxt(u, i)
  BY <1>1, <1>2 DEF Faces
<1>6. Got(v, rv) < Half /\ Nxt(u, i) < Half
  <2>1. /\ Nxt(u, i) \in Nat /\ Nxt(u, i) <= n + 2 /\ n + RcvBuf + 4 < Half
        /\ n \in Nat
    BY <1>1, EndTypes
  <2>2. Got(v, rv) \in Nat
    BY <1>1, EndTypes
  <2>. QED BY <1>5, <2>1, <2>2, Consts
<1>. QED BY <1>3, <1>4, <1>5, <1>6, Ordered

(* How far what u knows to be acknowledged is in its stream. *)
LEMMA KnownAt ==
  ASSUME NEW u, NEW r, NEW n, NEW i \in SeqNo, NEW j, EndOK(u, r, n, i, j),
         u.state # "CLOSED"
  PROVE  n <= Len(u.sndq) \/ 1 + n <= Una(u, i) + Len(u.sndq)
<1>1. /\ n \in Nat /\ u.sndq \in Seq(Byte) /\ Len(u.sndq) \in Nat
      /\ u.state \in States
  BY EndTypes, Fields, LenNat DEF EndOK, Good
<1>2. CASE u.state \in Opening \cup {"LISTEN"}
  <2>1. n = 0
    BY <1>2 DEF EndOK, Sends
  <2>. QED BY <1>1, <2>1
<1>3. CASE Synced(u) /\ ~u.fin_sent
  <2>1. /\ Una(u, i) = SeqSub(u.snd_una, i) /\ SeqSub(u.snd_una, i) \in Nat
    BY <1>3, SentAt
  <2>2. SeqSub(u.snd_una, i) = 1 + n - Len(u.sndq)
    BY <1>3 DEF EndOK, Sends
  <2>. QED BY <1>1, <2>1, <2>2
<1>4. CASE Synced(u) /\ u.fin_sent
  <2>1. /\ Una(u, i) = SeqSub(u.snd_una, i) /\ Nxt(u, i) = SeqSub(u.snd_nxt, i)
        /\ u.snd_una \in SeqNo /\ u.snd_nxt \in SeqNo
        /\ SeqSub(u.snd_una, i) \in Nat /\ SeqSub(u.snd_nxt, i) \in Nat
    BY <1>4, SentAt
  <2>2. SeqSub(u.snd_una, i) <= SeqSub(u.snd_nxt, i) /\ SeqSub(u.snd_nxt, i) = n + 2
    <3>1. Una(u, i) <= Nxt(u, i)
      BY EndTypes
    <3>. QED BY <1>4, <2>1, <3>1 DEF EndOK, Sends
  <2>3. SeqSub(u.snd_nxt, u.snd_una) = SeqSub(u.snd_nxt, i) - SeqSub(u.snd_una, i)
    BY <2>1, <2>2, Positions
  <2>4. SeqSub(u.snd_nxt, u.snd_una) <= 1 /\ u.sndq = << >>
    BY <1>4 DEF EndOK, Good, Books, Balanced
  <2>5. Len(u.sndq) = 0
    BY <2>4
  <2>. QED BY <1>1, <2>1, <2>2, <2>3, <2>4, <2>5
<1>. QED BY <1>1, <1>2, <1>3, <1>4 DEF Synced

LEMMA FacingRetired ==
  ASSUME NEW u, NEW r, NEW n, NEW i \in SeqNo, NEW v, NEW rv, NEW m,
         NEW j \in SeqNo, Facing(u, r, n, i, v, rv, m, j), u.state # "CLOSED"
  PROVE  n - Len(u.sndq) <= Has(v, rv)
<1>1. /\ EndOK(u, r, n, i, j) /\ EndOK(v, rv, m, j, i)
      /\ Faces(u, r, i, v, rv, m, j) /\ Faces(v, rv, j, u, r, n, i)
  BY DEF Facing, Pair
<1>2. /\ n \in Nat /\ u.sndq \in Seq(Byte) /\ Len(u.sndq) \in Nat
      /\ Una(u, i) \in Nat
  BY <1>1, EndTypes, Fields, LenNat DEF EndOK, Good
<1>3. /\ Has(v, rv) \in Nat /\ Got(v, rv) \in Nat
      /\ Finished(v) => Has(v, rv) = n
      /\ ~Finished(v) => Got(v, rv) = 1 + Has(v, rv)
  BY <1>1, EndTypes DEF Faces
<1>4. Una(u, i) <= Got(v, rv)
  BY <1>1 DEF Faces
<1>5. n <= Len(u.sndq) \/ 1 + n <= Una(u, i) + Len(u.sndq)
  BY <1>1, KnownAt
<1>6. CASE Finished(v)
  BY <1>2, <1>3, <1>6
<1>7. CASE ~Finished(v)
  <2>1. Got(v, rv) = 1 + Has(v, rv)
    BY <1>3, <1>7
  <2>. QED BY <1>2, <1>3, <1>4, <1>5, <2>1
<1>. QED BY <1>6, <1>7

LEMMA FacingClosed ==
  ASSUME NEW u, NEW r, NEW n, NEW i \in SeqNo, NEW v, NEW rv, NEW m,
         NEW j \in SeqNo, Facing(u, r, n, i, v, rv, m, j),
         u.fin_sent, u.snd_una = u.snd_nxt
  PROVE  Has(v, rv) = n /\ Finished(v)
<1>1. /\ EndOK(u, r, n, i, j) /\ EndOK(v, rv, m, j, i)
      /\ Faces(u, r, i, v, rv, m, j) /\ Faces(v, rv, j, u, r, n, i)
  BY DEF Facing, Pair
<1>2. Una(u, i) = n + 2
  <2>1. /\ Una(u, i) = SeqSub(u.snd_una, i) /\ Nxt(u, i) = SeqSub(u.snd_nxt, i)
    BY <1>1, SentAt
  <2>2. SeqSub(u.snd_nxt, i) = n + 2
    BY <1>1 DEF EndOK, Sends
  <2>. QED BY <2>1, <2>2
<1>3. /\ n \in Nat /\ Has(v, rv) \in Nat /\ Got(v, rv) \in Nat
      /\ Got(v, rv) = 1 + Has(v, rv) \/ Got(v, rv) = 2 + Has(v, rv)
      /\ Finished(v) <=> Got(v, rv) = 2 + Has(v, rv)
  BY <1>1, EndTypes
<1>4. Una(u, i) <= Got(v, rv) /\ Has(v, rv) <= n
  BY <1>1 DEF Faces
<1>5. Has(v, rv) = n /\ Got(v, rv) = 2 + Has(v, rv)
  BY <1>2, <1>3, <1>4
<1>. QED BY <1>3, <1>5

LEMMA WindowAt ==
  ASSUME NEW u, NEW r, NEW n, NEW i \in SeqNo, NEW j \in SeqNo,
         EndOK(u, r, n, i, j), Synced(u), NEW s \in Segment,
         From(s, u, r, n, i, j), "ACK" \in s.fl, "RST" \notin s.fl
  PROVE  SEQ_LEQ(SeqAdd(s.ack, s.wnd), Room(u))
<1>1. /\ SeqSub(s.ack, j) \in 1 .. Got(u, r)
      /\ SeqSub(s.ack, j) + s.wnd <= Limit(u, r)
  BY DEF From, AckOK
<1>2. s.ack \in SeqNo /\ s.wnd \in Nat
  BY DEF Segment
<1>3. /\ Got(u, r) \in Nat /\ rcv_free(u) \in Nat /\ Limit(u, r) \in Nat
      /\ Limit(u, r) <= Got(u, r) + RcvBuf /\ Got(u, r) + RcvBuf + 2 < Half
  BY EndTypes
<1>4. Limit(u, r) < Half /\ Half < SeqSpace
  BY <1>3, Consts
<1>5. u.rcv_nxt \in SeqNo /\ SeqSub(u.rcv_nxt, j) = Got(u, r)
  BY TakenAt DEF Open
<1>6. SeqSub(u.rcv_nxt, j) + rcv_free(u) = Limit(u, r)
  BY <1>5 DEF Limit
<1>7. Room(u) \in SeqNo /\ SeqSub(Room(u), j) = Limit(u, r)
  <2>1. SeqSub(u.rcv_nxt, j) + rcv_free(u) < SeqSpace
    BY <1>3, <1>4, <1>6, Consts
  <2>. QED BY <1>3, <1>5, <1>6, <2>1, SeqSubAdd DEF Room
<1>8. /\ SeqAdd(s.ack, s.wnd) \in SeqNo
      /\ SeqSub(SeqAdd(s.ack, s.wnd), j) = SeqSub(s.ack, j) + s.wnd
  <2>1. SeqSub(s.ack, j) \in Nat
    BY <1>1, <1>3
  <2>2. SeqSub(s.ack, j) + s.wnd < SeqSpace
    BY <1>1, <1>2, <1>3, <1>4, <2>1, Consts
  <2>. QED BY <1>2, <2>2, SeqSubAdd
<1>. QED BY <1>1, <1>4, <1>7, <1>8, Ordered

----------------------------------------------------------------------------
(* The theorems. *)

(* Every variable has its type and every ring holds what it can, however   *)
(* the calls of the two hosts and the network interleave.                  *)
THEOREM TypeCorrect == Spec => []TypeOK
<1>1. ASSUME IInv PROVE TypeOK
  <2>1. ASSUME NEW e \in Ends
        PROVE  RingsHold(sock[e]) /\ sent[e] \in 0 .. Total[e]
    <3>1. Good(sock[e])
      BY <1>1, PairAt DEF IInv, Pair, EndOK
    <3>2. sent[e] \in Nat /\ sent[e] <= Total[e] /\ Total[e] \in Nat
      BY <1>1, EndsFacts DEF IInv, Sound, Shape
    <3>. QED BY <3>1, <3>2 DEF Good
  <2>. QED BY <1>1, <2>1 DEF IInv, Sound, Shape, Bounded, TypeOK
<1>. QED BY InvariantHolds, <1>1, PTL

(* What the receiver has taken is between what the sender knows to be      *)
(* acknowledged and what it has sent, whatever segment_input and poll_one  *)
(* are given and whatever the network does.                                *)
THEOREM EndsAgree == Spec => []Synchronised
<1>1. ASSUME IInv PROVE Synchronised
  <2>1. ASSUME NEW e \in Ends, Synced(sock[e]), Synced(sock[Peer[e]])
        PROVE  /\ SEQ_LEQ(sock[e].snd_una, sock[Peer[e]].rcv_nxt)
               /\ SEQ_LEQ(sock[Peer[e]].rcv_nxt, sock[e].snd_nxt)
    BY <1>1, <2>1, FacingAt, FacingSynchronised DEF IInv
  <2>. QED BY <2>1 DEF Synchronised, Linked
<1>. QED BY InvariantHolds, <1>1, PTL

(* handle_ack retires from the send ring only what the peer's receive ring *)
(* has taken.                                                              *)
THEOREM NothingRetiredEarly == Spec => []RetiredIsTaken
<1>1. ASSUME IInv PROVE RetiredIsTaken
  <2>1. ASSUME NEW e \in Ends, sock[e].state # "CLOSED"
        PROVE  sent[e] - Len(sock[e].sndq) <= Has(sock[Peer[e]], rcvd[Peer[e]])
    BY <1>1, <2>1, FacingAt, FacingRetired DEF IInv
  <2>. QED BY <2>1 DEF RetiredIsTaken, Taken, Has
<1>. QED BY InvariantHolds, <1>1, PTL

(* A FIN is acknowledged only when the peer has the whole stream and knows *)
(* that it is whole: a close that completes has lost nothing.              *)
THEOREM CloseLosesNothing == Spec => []CloseIsComplete
<1>1. ASSUME IInv PROVE CloseIsComplete
  <2>1. ASSUME NEW e \in Ends, sock[e].fin_sent, sock[e].snd_una = sock[e].snd_nxt
        PROVE  /\ Has(sock[Peer[e]], rcvd[Peer[e]]) = sent[e]
               /\ Finished(sock[Peer[e]])
    BY <1>1, <2>1, FacingAt, FacingClosed DEF IInv
  <2>. QED BY <2>1 DEF CloseIsComplete, Taken, Has, Finished
<1>. QED BY InvariantHolds, <1>1, PTL

(* The right edge that a segment under way advertises is one the receive   *)
(* ring still has room for.                                                *)
THEOREM WindowsAreKept == Spec => []WindowIsKept
<1>1. ASSUME IInv PROVE WindowIsKept
  <2>1. ASSUME NEW e \in Ends, Synced(sock[e]),
               NEW k \in 1 .. Len(wire[Peer[e]]),
               wire[Peer[e]][k].fl \cap {"ACK", "RST"} = {"ACK"}
        PROVE  SEQ_LEQ(SeqAdd(wire[Peer[e]][k].ack, wire[Peer[e]][k].wnd),
                       Room(sock[e]))
    <3>. DEFINE s == wire[Peer[e]][k]
    <3>1. s \in Segment
      BY <1>1, EndsFacts DEF IInv, Sound, Shape
    <3>2. /\ EndOK(sock[e], rcvd[e], sent[e], Iss[e], Iss[Peer[e]])
          /\ From(s, sock[e], rcvd[e], sent[e], Iss[e], Iss[Peer[e]])
      BY <1>1 DEF IInv, Sound, AtEnd, Pair
    <3>3. "ACK" \in s.fl /\ "RST" \notin s.fl
      BY <2>1
    <3>. HIDE DEF s
    <3>4. SEQ_LEQ(SeqAdd(s.ack, s.wnd), Room(sock[e]))
      BY <2>1, <3>1, <3>2, <3>3, EndsFacts, WindowAt
    <3>. QED BY <3>4 DEF s
  <2>. QED BY <2>1 DEF WindowIsKept
<1>. QED BY InvariantHolds, <1>1, PTL

----------------------------------------------------------------------------
(* The connection implements two byte streams. *)

Arrived(e) == rcvd[e] \o sock[e].rcvq

LEMMA ArrivedIs ==
  ASSUME Sound, NEW e \in Ends
  PROVE  /\ Arrived(e) = Bytes(0, Has(sock[e], rcvd[e]))
         /\ Len(Arrived(e)) = Has(sock[e], rcvd[e])
         /\ Has(sock[e], rcvd[e]) \in Nat /\ sent[e] \in Nat
         /\ Len(rcvd[e]) \in Nat
<1>1. EndOK(sock[e], rcvd[e], sent[e], Iss[e], Iss[Peer[e]])
      /\ Iss[e] \in SeqNo
  BY PairAt DEF Pair
<1>2. Arrived(e) = Bytes(0, Has(sock[e], rcvd[e]))
  BY <1>1 DEF EndOK, Receives, Arrived
<1>3. /\ Has(sock[e], rcvd[e]) \in Nat /\ sent[e] \in Nat
      /\ Len(rcvd[e]) \in Nat
  BY <1>1, EndTypes
<1>4. Len(Bytes(0, Has(sock[e], rcvd[e]))) = Has(sock[e], rcvd[e])
  BY <1>3, BytesSeq
<1>. QED BY <1>2, <1>3, <1>4

(* The four mapped variables change at e alone. *)
LEMMA EndStepMaps ==
  ASSUME Sound, NEW e \in Ends, NEW x, NEW rx, NEW nx, NEW out,
         EndStep(e, x, rx, nx, out)
  PROVE  /\ sock'[e] = x /\ rcvd'[e] = rx /\ sent'[e] = nx
         /\ \A f \in Ends : f # e =>
              sock'[f] = sock[f] /\ rcvd'[f] = rcvd[f] /\ sent'[f] = sent[f]
         /\ sent' = [sent EXCEPT ![e] = nx]
         /\ Arrived(e)' = Bytes(0, Has(x, rx))
         /\ Has(x, rx) \in Nat /\ Len(rx) \in Nat /\ nx \in Nat
<1>1. /\ sock'[e] = x /\ rcvd'[e] = rx /\ sent'[e] = nx
      /\ \A f \in Ends : f # e =>
           sock'[f] = sock[f] /\ rcvd'[f] = rcvd[f] /\ sent'[f] = sent[f]
      /\ sent' = [sent EXCEPT ![e] = nx]
  BY DEF EndStep, Sound, Shape
<1>2. EndOK(x, rx, nx, Iss[e], Iss[Peer[e]]) /\ Iss[e] \in SeqNo
  BY EndsFacts DEF EndStep, Calls
<1>3. Has(x, rx) \in Nat /\ Len(rx) \in Nat /\ nx \in Nat
  BY <1>2, EndTypes
<1>4. Arrived(e)' = Bytes(0, Has(x, rx))
  BY <1>1, <1>2 DEF EndOK, Receives, Arrived
<1>. QED BY <1>1, <1>3, <1>4

LEMMA HearingMaps ==
  ASSUME Sound, NEW e \in Ends, Hearing(e)
  PROVE  Streams!Arrive(e) \/ UNCHANGED Streams!vars
<1>. DEFINE p == Peer[e]
<1>1. PICK x, out :
        /\ Hears(sock[e], x, rcvd[e], sent[e], Iss[e],
                 sock[p], rcvd[p], sent[p], Iss[p])
        /\ EndStep(e, x, rcvd[e], sent[e], out)
  BY DEF Hearing
<1>. DEFINE n == Has(x, rcvd[e])  k == Has(sock[e], rcvd[e])
<1>2. /\ sock'[e] = x /\ rcvd' = rcvd /\ sent' = sent
      /\ \A f \in Ends : f # e => sock'[f] = sock[f]
      /\ Arrived(e)' = Bytes(0, n) /\ n \in Nat
  <2>1. rcvd' = rcvd /\ sent' = sent
    BY <1>1 DEF EndStep, Sound, Shape
  <2>. QED BY <1>1, <2>1, EndStepMaps
<1>3. /\ Arrived(e) = Bytes(0, k) /\ Len(Arrived(e)) = k /\ k \in Nat
      /\ sent[p] \in Nat
  BY ArrivedIs, EndsFacts
<1>4. \A f \in Ends : f # e => Arrived(f)' = Arrived(f) /\ sock'[f] = sock[f]
  BY <1>2 DEF Arrived
<1>5. /\ n <= sent[p] /\ k <= sent[p]
      /\ Finished(x) => n = sent[p]
      /\ Finished(sock[e]) => k = sent[p]
  BY <1>1, PairAt DEF Hears, Faces, Pair
<1>6. /\ k <= n \/ Finished(x)
      /\ Finished(sock[e]) => Finished(x)
  <2>1. Got(sock[e], rcvd[e]) <= Got(x, rcvd[e])
    BY <1>1 DEF Hears, Moves, Forward
  <2>2. /\ EndOK(sock[e], rcvd[e], sent[e], Iss[e], Iss[p])
        /\ EndOK(x, rcvd[e], sent[e], Iss[e], Iss[p]) /\ Iss[e] \in SeqNo
    BY <1>1, PairAt DEF Hears, Moves, Pair
  <2>3. /\ Got(sock[e], rcvd[e]) = 1 + k \/ Got(sock[e], rcvd[e]) = 2 + k
        /\ Finished(sock[e]) <=> Got(sock[e], rcvd[e]) = 2 + k
    BY <2>2, EndTypes
  <2>4. /\ Got(x, rcvd[e]) = 1 + n \/ Got(x, rcvd[e]) = 2 + n
        /\ Finished(x) <=> Got(x, rcvd[e]) = 2 + n
    BY <2>2, EndTypes
  <2>5. Finished(sock[e]) => k = sent[p] /\ n <= sent[p]
    BY <1>5
  <2>. HIDE DEF n, k, p
  <2>6. CASE Finished(x)
    BY <2>6
  <2>7. CASE ~Finished(x)
    <3>1. Got(x, rcvd[e]) = 1 + n
      BY <2>4, <2>7
    <3>2. k <= n
      BY <1>2, <1>3, <2>1, <2>3, <3>1
    <3>3. ~Finished(sock[e])
      BY <1>2, <1>3, <1>5, <2>1, <2>3, <3>1
    <3>. QED BY <3>2, <3>3
  <2>. QED BY <2>6, <2>7
<1>. HIDE DEF n, k
<1>7. CASE Finished(sock[e])
  <2>1. Finished(x) /\ n = k
    BY <1>5, <1>6, <1>7
  <2>2. Arrived(e)' = Arrived(e) /\ (Finished(sock'[e]) <=> Finished(sock[e]))
    BY <1>2, <1>3, <1>7, <2>1
  <2>3. \A f \in Ends : /\ Arrived(f)' = Arrived(f)
                        /\ Finished(sock'[f]) <=> Finished(sock[f])
    BY <1>4, <2>2
  <2>4. [f \in Ends |-> rcvd[f] \o sock[f].rcvq]'
        = [f \in Ends |-> rcvd[f] \o sock[f].rcvq]
    BY <2>3 DEF Arrived
  <2>5. [f \in Ends |-> "EOF" \in sock[f].flags]'
        = [f \in Ends |-> "EOF" \in sock[f].flags]
    <3>1. ASSUME NEW f \in Ends
          PROVE  ("EOF" \in sock'[f].flags) = ("EOF" \in sock[f].flags)
      BY <2>3 DEF Finished
    <3>. QED BY <3>1, Zenon
  <2>6. [f \in Ends |-> Len(rcvd[f])]' = [f \in Ends |-> Len(rcvd[f])]
    BY <1>2
  <2>. QED BY <1>2, <2>4, <2>5, <2>6 DEF Streams!vars
<1>8. CASE ~Finished(sock[e])
  <2>. DEFINE A == [f \in Ends |-> rcvd[f] \o sock[f].rcvq]
              E == [f \in Ends |-> "EOF" \in sock[f].flags]
              end == Finished(x)
  <2>1. n \in k .. sent[p] /\ end \in BOOLEAN /\ (end => n = sent[p])
    BY <1>2, <1>3, <1>5, <1>6 DEF Finished
  <2>2. A' = [A EXCEPT ![e] = [z \in 1 .. n |-> z]]
    <3>1. Bytes(0, n) = [z \in 1 .. n |-> z]
      BY <1>2 DEF Bytes
    <3>2. A = [f \in Ends |-> Arrived(f)] /\ A' = [f \in Ends |-> Arrived(f)']
      BY DEF Arrived
    <3>. HIDE DEF A
    <3>. QED BY <1>2, <1>4, <3>1, <3>2
  <2>3. E' = [E EXCEPT ![e] = end]
    <3>1. E' = [f \in Ends |-> Finished(sock'[f])]
      BY DEF Finished
    <3>2. [E EXCEPT ![e] = end]
          = [f \in Ends |-> IF f = e THEN end ELSE Finished(sock[f])]
      BY Zenon DEF Finished
    <3>3. \A f \in Ends : Finished(sock'[f]) = IF f = e THEN end ELSE Finished(sock[f])
      BY <1>2, Zenon
    <3>. QED BY <3>1, <3>2, <3>3, Zenon
  <2>4. [f \in Ends |-> Len(rcvd[f])]' = [f \in Ends |-> Len(rcvd[f])]
    BY <1>2
  <2>5. ~E[e] /\ Len(A[e]) = k
    BY <1>3, <1>8 DEF Arrived, Finished
  <2>. HIDE DEF end
  <2>6. Streams!Arrive(e)
    BY <1>2, <2>1, <2>2, <2>3, <2>4, <2>5 DEF Streams!Arrive
  <2>. QED BY <2>6
<1>. QED BY <1>7, <1>8

LEMMA WritingMaps ==
  ASSUME Sound, NEW e \in Ends, Writing(e)
  PROVE  Streams!Accept(e) \/ UNCHANGED Streams!vars
<1>. DEFINE p == Peer[e]
<1>1. PICK x, nx :
        /\ can_send(sock[e]) /\ SameTaken(sock[e], x)
        /\ EndStep(e, x, rcvd[e], nx, << >>)
  BY DEF Writing
<1>2. /\ sock'[e] = x /\ rcvd' = rcvd /\ sent'[e] = nx /\ nx \in Nat
      /\ sent' = [sent EXCEPT ![e] = nx]
      /\ \A f \in Ends : f # e => sock'[f] = sock[f]
  <2>1. rcvd' = rcvd
    BY <1>1 DEF EndStep, Sound, Shape
  <2>. QED BY <1>1, <2>1, EndStepMaps
<1>3. \A f \in Ends : /\ rcvd'[f] = rcvd[f] /\ sock'[f].rcvq = sock[f].rcvq
                      /\ Finished(sock'[f]) <=> Finished(sock[f])
  BY <1>1, <1>2 DEF SameTaken
<1>4. [f \in Ends |-> rcvd[f] \o sock[f].rcvq]'
      = [f \in Ends |-> rcvd[f] \o sock[f].rcvq]
  BY <1>3
<1>5. [f \in Ends |-> "EOF" \in sock[f].flags]'
      = [f \in Ends |-> "EOF" \in sock[f].flags]
  <2>1. ASSUME NEW f \in Ends
        PROVE  ("EOF" \in sock'[f].flags) = ("EOF" \in sock[f].flags)
    BY <1>3 DEF Finished
  <2>. QED BY <2>1, Zenon
<1>6. [f \in Ends |-> Len(rcvd[f])]' = [f \in Ends |-> Len(rcvd[f])]
  BY <1>2
<1>7. sent[e] <= nx /\ sent[e] \in Nat
  BY <1>1, ArrivedIs DEF EndStep, Calls, Forward
<1>8. CASE nx = sent[e]
  <2>1. sent' = sent
    BY <1>2, <1>8 DEF Sound, Shape
  <2>. QED BY <1>4, <1>5, <1>6, <2>1 DEF Streams!vars
<1>9. CASE nx # sent[e]
  <2>1. "EOF" \notin sock[p].flags
    <3>1. Finished(sock[p]) => Over(sock[e])
      BY FacingAt DEF Facing, Pair, Faces
    <3>2. ~Over(sock[e])
      BY <1>1 DEF Over, can_send
    <3>. QED BY <3>1, <3>2 DEF Finished
  <2>2. ~[f \in Ends |-> "EOF" \in sock[f].flags][p]
    BY <2>1, EndsFacts
  <2>3. sent'[e] > sent[e] /\ sent' = [sent EXCEPT ![e] = sent'[e]]
    BY <1>2, <1>7, <1>9
  <2>4. Streams!Accept(e)
    BY <1>4, <1>5, <1>6, <2>2, <2>3 DEF Streams!Accept
  <2>. QED BY <2>4
<1>. QED BY <1>8, <1>9

LEMMA ReadingMaps ==
  ASSUME Sound, NEW e \in Ends, Reading(e)
  PROVE  Streams!Give(e) \/ UNCHANGED Streams!vars
<1>1. PICK x, rx :
        /\ Has(x, rx) = Has(sock[e], rcvd[e])
        /\ Finished(x) <=> Finished(sock[e])
        /\ Len(rcvd[e]) <= Len(rx)
        /\ EndStep(e, x, rx, sent[e], << >>)
  BY DEF Reading
<1>2. /\ sock'[e] = x /\ rcvd'[e] = rx /\ sent' = sent /\ Len(rx) \in Nat
      /\ \A f \in Ends : f # e => sock'[f] = sock[f] /\ rcvd'[f] = rcvd[f]
      /\ Arrived(e)' = Bytes(0, Has(x, rx))
  <2>1. sent' = sent
    BY <1>1 DEF EndStep, Sound, Shape
  <2>. QED BY <1>1, <2>1, EndStepMaps
<1>3. /\ Arrived(e) = Bytes(0, Has(sock[e], rcvd[e]))
      /\ Len(Arrived(e)) = Has(sock[e], rcvd[e]) /\ Len(rcvd[e]) \in Nat
      /\ Has(sock[e], rcvd[e]) \in Nat
  BY ArrivedIs
<1>4. \A f \in Ends : /\ Arrived(f)' = Arrived(f)
                      /\ Finished(sock'[f]) <=> Finished(sock[f])
  BY <1>1, <1>2, <1>3 DEF Arrived
<1>5. [f \in Ends |-> rcvd[f] \o sock[f].rcvq]'
      = [f \in Ends |-> rcvd[f] \o sock[f].rcvq]
  BY <1>4 DEF Arrived
<1>6. [f \in Ends |-> "EOF" \in sock[f].flags]'
      = [f \in Ends |-> "EOF" \in sock[f].flags]
  <2>1. ASSUME NEW f \in Ends
        PROVE  ("EOF" \in sock'[f].flags) = ("EOF" \in sock[f].flags)
    BY <1>4 DEF Finished
  <2>. QED BY <2>1, Zenon
<1>7. [f \in Ends |-> Len(rcvd[f])]'
      = [[f \in Ends |-> Len(rcvd[f])] EXCEPT ![e] = Len(rx)]
  BY <1>2
<1>8. CASE Len(rx) = Len(rcvd[e])
  <2>1. [f \in Ends |-> Len(rcvd[f])]' = [f \in Ends |-> Len(rcvd[f])]
    BY <1>2, <1>8
  <2>. QED BY <1>2, <1>5, <1>6, <2>1 DEF Streams!vars
<1>9. CASE Len(rx) # Len(rcvd[e])
  <2>1. Len(rx) <= Has(x, rx)
    <3>1. Len(x.rcvq) \in Nat
      BY <1>1, Fields, LenNat DEF EndStep, Calls, EndOK, Good
    <3>. QED BY <1>2, <3>1 DEF Has
  <2>2. Len(rx) \in Len(rcvd[e]) + 1 .. Len(Arrived(e))
    BY <1>1, <1>2, <1>3, <1>9, <2>1
  <2>3. Len(rx) \in [f \in Ends |-> Len(rcvd[f])][e] + 1
                     .. Len([f \in Ends |-> rcvd[f] \o sock[f].rcvq][e])
    BY <2>2 DEF Arrived
  <2>4. Streams!Give(e)
    BY <1>2, <1>5, <1>6, <1>7, <2>3 DEF Streams!Give
  <2>. QED BY <2>4
<1>. QED BY <1>8, <1>9

LEMMA StillMaps ==
  ASSUME UNCHANGED <<sock, rcvd, sent>>
  PROVE  UNCHANGED Streams!vars
BY DEF Streams!vars

(* Two mega-net sockets are two byte streams: what mn_tcp_send takes       *)
(* arrives in order and once, mn_tcp_recv gives what has arrived, and EOF  *)
(* is set only when all of it has.                                         *)
THEOREM ConnectionIsTwoStreams == Spec => ImplementsStreams
<1>1. Init => Streams!Init
  <2>1. << >> \o << >> = << >> /\ Len(<< >>) = 0
    OBVIOUS
  <2>2. \A e \in Ends : Init => /\ rcvd[e] = << >> /\ sock[e].rcvq = << >>
                                /\ sock[e].flags = {}
    BY DEF Init, FreshSocket
  <2>3. Init => /\ [e \in Ends |-> rcvd[e] \o sock[e].rcvq] = [e \in Ends |-> << >>]
                /\ [e \in Ends |-> Len(rcvd[e])] = [e \in Ends |-> 0]
    BY <2>1, <2>2
  <2>4. Init => [e \in Ends |-> "EOF" \in sock[e].flags] = [e \in Ends |-> FALSE]
    <3>1. ASSUME Init, NEW e \in Ends PROVE ("EOF" \in sock[e].flags) = FALSE
      BY <2>2, <3>1
    <3>. QED BY <3>1, Zenon
  <2>. QED BY <2>3, <2>4 DEF Init, Streams!Init
<1>2. ASSUME IInv, [Next]_vars PROVE [Streams!Next]_(Streams!vars)
  <2>1. Sound
    BY <1>2 DEF IInv
  <2>2. CASE UNCHANGED vars
    BY <2>2, StillMaps DEF vars
  <2>3. CASE Carrying
    BY <2>3, StillMaps DEF Carrying
  <2>4. ASSUME NEW e \in Ends, Hearing(e) PROVE [Streams!Next]_(Streams!vars)
    BY <2>1, <2>4, HearingMaps DEF Streams!Next
  <2>5. ASSUME NEW e \in Ends, Writing(e) PROVE [Streams!Next]_(Streams!vars)
    BY <2>1, <2>5, WritingMaps DEF Streams!Next
  <2>6. ASSUME NEW e \in Ends, Reading(e) PROVE [Streams!Next]_(Streams!vars)
    BY <2>1, <2>6, ReadingMaps DEF Streams!Next
  <2>7. CASE Next
    BY <2>1, <2>3, <2>4, <2>5, <2>6, <2>7, StepKinds
  <2>. QED BY <1>2, <2>2, <2>7
<1>. QED BY <1>1, <1>2, InvariantHolds, PTL DEF Spec, ImplementsStreams, Streams!Spec

=============================================================================
