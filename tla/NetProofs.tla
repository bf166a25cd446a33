----------------------------- MODULE NetProofs -----------------------------
(***************************************************************************)
(* What holds of the ARP cache and the network layer for a cache and a     *)
(* receive ring of any size, any address plan, any number of stations and  *)
(* of conversations.                                                       *)
(***************************************************************************)
EXTENDS Net, TLAPS, WellFoundedInduction

----------------------------------------------------------------------------
(* A set of naturals has a least element; what is said of all of them may  *)
(* be refuted at the least that fails.                                     *)

LEMMA LeastNat ==
  ASSUME NEW T, T \subseteq Nat, T # {}
  PROVE  \E x \in T : \A y \in T : x <= y
<1> DEFINE R == OpToRel(<, Nat)
<1>1. IsWellFoundedOn(R, Nat)
  BY NatLessThanWellFounded, Zenon
<1>2. \A x, y \in Nat : x <= y \/ <<y, x>> \in R
  BY DEF OpToRel
<1> HIDE DEF R
<1>3. PICK x \in T : \A y \in T : ~ (<<y, x>> \in R)
  BY <1>1, WFMin
<1>4. \A y \in T : x <= y
  BY <1>2, <1>3
<1> QED BY <1>4

----------------------------------------------------------------------------
(* The cache. *)

LEMMA FirstIn ==
  ASSUME NEW S, S \subseteq Slot, S # {}
  PROVE  First(S) \in S
<1>1. S \subseteq Nat
  BY CacheAssumption DEF Slot
<1>2. \E i \in S : \A j \in S : i <= j
  BY <1>1, LeastNat
<1> QED BY <1>2 DEF First

LEMMA PlaceIn ==
  ASSUME NEW c \in Cache, NEW ip
  PROVE  /\ Place(c, ip) \in Slot
         /\ Known(c, ip) # {} => Place(c, ip) \in Known(c, ip)
<1>1. Known(c, ip) \subseteq Slot /\ Free(c) \subseteq Slot /\ c.next \in Slot
  BY DEF Known, Free, Cache
<1>2. Known(c, ip) # {} => First(Known(c, ip)) \in Known(c, ip)
  BY <1>1, FirstIn
<1>3. Free(c) # {} => First(Free(c)) \in Free(c)
  BY <1>1, FirstIn
<1> QED BY <1>1, <1>2, <1>3 DEF Place

LEMMA EmptyCache ==
  /\ mn_arp_cache_init \in Cache
  /\ NoDuplicates(mn_arp_cache_init)
  /\ \A a : mn_arp_cache_lookup(mn_arp_cache_init, a) = None
<1>1. Free(mn_arp_cache_init) = Slot
  BY DEF Free, mn_arp_cache_init
<1>2. 0 \in Slot
  BY CacheAssumption DEF Slot
<1> QED BY <1>1, <1>2 DEF mn_arp_cache_init, Cache, NoDuplicates,
                          mn_arp_cache_lookup, Known

LEMMA LookupType ==
  ASSUME NEW c \in Cache, NEW a
  PROVE  mn_arp_cache_lookup(c, a) \in Mac \cup {None}
<1>1. Known(c, a) \subseteq Slot
  BY DEF Known
<1>2. CASE Known(c, a) = {}
  BY <1>2 DEF mn_arp_cache_lookup
<1>3. CASE Known(c, a) # {}
  <2>1. First(Known(c, a)) \in Slot \ Free(c)
    BY <1>1, <1>3, FirstIn DEF Known
  <2>2. c.e[First(Known(c, a))] \in Entry
    BY <2>1 DEF Free, Cache
  <2> QED BY <1>3, <2>2 DEF mn_arp_cache_lookup, Entry
<1> QED BY <1>2, <1>3

(* With no duplicates a lookup finds the one entry there is.               *)
LEMMA LookupFinds ==
  ASSUME NEW c, NoDuplicates(c), NEW i \in Slot \ Free(c)
  PROVE  mn_arp_cache_lookup(c, c.e[i].ip) = c.e[i].mac
<1> DEFINE a == c.e[i].ip
<1>1. i \in Known(c, a)
  BY DEF Known
<1>2. First(Known(c, a)) \in Known(c, a)
  BY <1>1, FirstIn DEF Known
<1>3. \A j \in Known(c, a) : j = i
  BY DEF Known, NoDuplicates
<1>4. First(Known(c, a)) = i
  BY <1>2, <1>3
<1> QED BY <1>1, <1>4 DEF mn_arp_cache_lookup

(* What is learned is what a lookup then answers, and of any other address *)
(* it answers as before, or nothing: however large the cache, wherever its *)
(* turn is, and whatever was replaced (mn_arp.c:116-149).                  *)
THEOREM LearnReplaces ==
  ASSUME NEW c \in Cache, NoDuplicates(c), NEW ip \in Addr, NEW mac \in Mac
  PROVE  LET d == mn_arp_cache_learn(c, ip, mac)
         IN /\ d \in Cache /\ NoDuplicates(d)
            /\ mn_arp_cache_lookup(d, ip) = mac
            /\ \A a \in Addr \ {ip} :
                 mn_arp_cache_lookup(d, a) \in {mn_arp_cache_lookup(c, a), None}
<1> DEFINE d == mn_arp_cache_learn(c, ip, mac)
           p == Place(c, ip)
           new == [ip |-> ip, mac |-> mac]
<1>1. p \in Slot /\ (Known(c, ip) # {} => p \in Known(c, ip))
  BY PlaceIn
<1>2. new \in Entry /\ new # None
  BY CacheAssumption DEF Entry
<1>3. d.e = [c.e EXCEPT ![p] = new]
  BY DEF mn_arp_cache_learn
<1>4. c.e \in [Slot -> Entry \cup {None}] /\ c.next \in Slot
  BY DEF Cache
<1> HIDE DEF p, new
<1>5. (c.next + 1) % CacheSize \in Slot
  BY <1>4, CacheAssumption DEF Slot
<1>6. d \in Cache
  <2>1. d.e \in [Slot -> Entry \cup {None}]
    BY <1>1, <1>2, <1>3, <1>4
  <2>2. d = [e |-> d.e, next |-> IF InTurn(c, ip) THEN (c.next + 1) % CacheSize
                                 ELSE c.next]
    BY DEF mn_arp_cache_learn
  <2> HIDE DEF d
  <2> QED BY <1>4, <1>5, <2>1, <2>2 DEF Cache
<1> HIDE DEF d
<1>7. d.e[p] = new /\ \A i \in Slot \ {p} : d.e[i] = c.e[i]
  BY <1>1, <1>3, <1>4
<1>8. new.ip = ip /\ new.mac = mac
  BY DEF new
<1>9. \A i \in Slot \ {p} : i \notin Free(c) => c.e[i].ip # ip
  <2> SUFFICES ASSUME NEW i \in Slot \ {p}, i \notin Free(c), c.e[i].ip = ip
               PROVE  FALSE
    OBVIOUS
  <2>1. i \in Known(c, ip)
    BY DEF Known
  <2>2. p \in Known(c, ip)
    BY <1>1, <2>1
  <2>3. p \in Slot \ Free(c) /\ c.e[p].ip = ip
    BY <2>2 DEF Known
  <2> QED BY <2>3 DEF NoDuplicates
<1>10. p \notin Free(d) /\ \A i \in Slot \ {p} : i \in Free(d) <=> i \in Free(c)
  BY <1>1, <1>2, <1>7 DEF Free
<1>11. NoDuplicates(d)
  <2> SUFFICES ASSUME NEW i \in Slot \ Free(d), NEW j \in Slot \ Free(d),
                      d.e[i].ip = d.e[j].ip
               PROVE  i = j
    BY DEF NoDuplicates
  <2>1. CASE i = p
    BY <1>7, <1>8, <1>9, <1>10, <2>1
  <2>2. CASE j = p
    BY <1>7, <1>8, <1>9, <1>10, <2>2
  <2>3. CASE i # p /\ j # p
    <3>1. i \in Slot \ Free(c) /\ j \in Slot \ Free(c) /\ c.e[i].ip = c.e[j].ip
      BY <1>7, <1>10, <2>3
    <3> QED BY <3>1 DEF NoDuplicates
  <2> QED BY <2>1, <2>2, <2>3
<1>12. mn_arp_cache_lookup(d, ip) = mac
  BY <1>1, <1>7, <1>8, <1>10, <1>11, LookupFinds
<1>13. ASSUME NEW a \in Addr \ {ip}
       PROVE  mn_arp_cache_lookup(d, a) \in {mn_arp_cache_lookup(c, a), None}
  <2>1. CASE Known(d, a) = {}
    BY <2>1 DEF mn_arp_cache_lookup
  <2>2. CASE Known(d, a) # {}
    <3>1. PICK i \in Slot \ Free(d) : d.e[i].ip = a
      BY <2>2 DEF Known
    <3>2. i # p
      BY <1>7, <1>8, <3>1
    <3>3. i \in Slot \ Free(c) /\ c.e[i].ip = a /\ c.e[i].mac = d.e[i].mac
      BY <1>7, <1>10, <3>1, <3>2
    <3>4. mn_arp_cache_lookup(d, a) = d.e[i].mac
      BY <1>11, <3>1, LookupFinds
    <3>5. mn_arp_cache_lookup(c, a) = c.e[i].mac
      BY <3>3, LookupFinds
    <3> QED BY <3>3, <3>4, <3>5
  <2> QED BY <2>1, <2>2
<1> QED BY <1>6, <1>11, <1>12, <1>13 DEF d

----------------------------------------------------------------------------
(* Transmit. *)

NetT == [ip : Addr, mask : Addr, gw : Addr, arp : Cache,
         tx_mac : Mac \cup {None, BcastMac}]
Why == {"OK", "PENDING", "FAILED"}
Work == [n : NetT, given : Seq(OutFrame), why : Why, want : SUBSET Conv]

(* The cache n has says what was told, once each. *)
Current(n, told) ==
  /\ NoDuplicates(n.arp)
  /\ \A a \in Addr : mn_arp_cache_lookup(n.arp, a) \in {told[a], None}

AllAimed(n, told, frames) ==
  \A k \in 1 .. Len(frames) : Aimed(n, told, frames[k])

SameAddress(n, p) == p.ip = n.ip /\ p.mask = n.mask /\ p.gw = n.gw

(* What a call that transmits leaves alone: the address, the cache, and    *)
(* the frames given before.                                                *)
Follows(v, u) ==
  /\ SameAddress(v.n, u.n) /\ u.n.arp = v.n.arp
  /\ Len(v.given) <= Len(u.given)
  /\ \A k \in 1 .. Len(v.given) : u.given[k] = v.given[k]

Sends(v, u, told) ==
  /\ u \in Work /\ Follows(v, u)
  /\ AllAimed(u.n, told, u.given)

LEMMA Consts ==
  /\ Addr = SUBSET Bits /\ Mac = Stations \X (0 .. MaxMoves)
  /\ Stations \subseteq Addr /\ Dests \in Seq(Addr) /\ AppDests \subseteq Addr
  /\ Asks \subseteq AskKinds /\ MaxMoves \in Nat /\ MaxOdd \in Nat /\ MaxAsks \in Nat
  /\ MaxMoves = MaxOdd
  /\ RxBufs \in Nat \ {0} /\ zero_ip \in Addr
  /\ \A c \in Configs : c.ip \in Addr /\ c.mask \in Addr /\ c.gw \in Addr
BY NetAssumption DEF MaxMoves, zero_ip

LEMMA AimedAlike ==
  ASSUME NEW n, NEW p, SameAddress(n, p), NEW told, NEW f
  PROVE  Aimed(n, told, f) <=> Aimed(p, told, f)
BY DEF SameAddress, Aimed, OnLink, HostPartFull, Misrouted

LEMMA AppendSeq ==
  ASSUME NEW S, NEW q \in Seq(S), NEW x \in S
  PROVE  /\ Append(q, x) \in Seq(S) /\ Len(Append(q, x)) = Len(q) + 1
         /\ Len(q) \in Nat
         /\ \A k \in 1 .. Len(q) : Append(q, x)[k] = q[k]
         /\ Append(q, x)[Len(q) + 1] = x
OBVIOUS

LEMMA GiveSends ==
  ASSUME NEW w \in Work, NEW v \in Work, NEW told, NEW f \in OutFrame,
         Sends(w, v, told), Aimed(v.n, told, f)
  PROVE  Sends(w, Give(v, f), told) /\ Give(v, f).n = v.n
<1> DEFINE u == Give(v, f)
<1>1. /\ v.given \in Seq(OutFrame) /\ w.given \in Seq(OutFrame)
      /\ v.n \in NetT /\ v.why \in Why /\ v.want \in SUBSET Conv
  BY DEF Work
<1>2. /\ u.n = v.n /\ u.given = Append(v.given, f)
      /\ u.why = v.why /\ u.want = v.want
  BY DEF Give, Work
<1>3. /\ u.given \in Seq(OutFrame) /\ Len(u.given) = Len(v.given) + 1
      /\ Len(v.given) \in Nat /\ Len(w.given) \in Nat
      /\ \A k \in 1 .. Len(v.given) : u.given[k] = v.given[k]
      /\ u.given[Len(v.given) + 1] = f
  BY <1>1, <1>2, AppendSeq
<1>4. u \in Work
  <2> DEFINE g == Append(v.given, f)
  <2>1. g \in Seq(OutFrame)
    BY <1>2, <1>3
  <2> HIDE DEF g
  <2>2. [v EXCEPT !.given = g] \in Work
    BY <2>1 DEF Work
  <2> QED BY <2>2 DEF g, Give
<1> HIDE DEF u
<1>5. Follows(w, u)
  BY <1>2, <1>3 DEF Sends, Follows
<1>6. AllAimed(u.n, told, u.given)
  <2> SUFFICES ASSUME NEW k \in 1 .. Len(u.given)
               PROVE  Aimed(v.n, told, u.given[k])
    BY <1>2 DEF AllAimed
  <2>1. CASE k \in 1 .. Len(v.given)
    BY <1>3, <2>1 DEF Sends, AllAimed
  <2>2. CASE k = Len(v.given) + 1
    BY <1>3, <2>2
  <2> QED BY <1>3, <2>1, <2>2
<1> QED BY <1>2, <1>4, <1>5, <1>6 DEF Sends, u

(* Where a packet for d goes, in the words of the property.                *)
LEMMA HopAimed ==
  ASSUME NEW n \in NetT, NEW told, NEW d \in Addr, Current(n, told),
         NEW mac, mac # None,
         LET hop == mn_net_next_hop(n, d)
         IN mac = IF is_broadcast(n, hop) THEN BcastMac
                  ELSE mn_arp_cache_lookup(n.arp, hop),
         NEW f, f.dst = d, f.mac = mac
  PROVE  Aimed(n, told, f)
<1> DEFINE hop == mn_net_next_hop(n, d)
<1>1. /\ n.ip \in Addr /\ n.mask \in Addr /\ n.gw \in Addr
      /\ Addr = SUBSET Bits
  BY Consts DEF NetT
<1>2. \A a \in Addr : is_broadcast(n, a) <=> HostPartFull(n, a)
  BY <1>1 DEF is_broadcast, HostPartFull, limited_bcast
<1>3. ~Misrouted(n, d) => hop = IF OnLink(n, d) THEN d ELSE n.gw
  <2>1. CASE is_broadcast(n, d)
    BY <1>2, <2>1 DEF Misrouted, mn_net_next_hop
  <2>2. CASE ~is_broadcast(n, d)
    BY <1>1, <2>2 DEF OnLink, mn_net_next_hop, is_broadcast, limited_bcast
  <2> QED BY <2>1, <2>2
<1>4. hop \in Addr
  BY <1>1 DEF mn_net_next_hop
<1> HIDE DEF hop
<1>5. mac = IF HostPartFull(n, hop) THEN BcastMac ELSE mn_arp_cache_lookup(n.arp, hop)
  BY <1>2, <1>4 DEF hop
<1>6. mac = IF HostPartFull(n, hop) THEN BcastMac ELSE told[hop]
  BY <1>4, <1>5 DEF Current
<1> QED BY <1>3, <1>6 DEF Aimed

LEMMA NotData ==
  ASSUME NEW n, NEW told, NEW f, f.kind # "data"
  PROVE  Aimed(n, told, f)
BY DEF Aimed

LEMMA TransmitSends ==
  ASSUME NEW w \in Work, NEW v \in Work, NEW told, Sends(w, v, told),
         Current(w.n, told), NEW d \in Addr, NEW takes
  PROVE  Sends(w, Transmit(v, d, takes), told)
<1> DEFINE hop == mn_net_next_hop(v.n, d)
           mac == IF is_broadcast(v.n, hop) THEN BcastMac
                  ELSE mn_arp_cache_lookup(v.n.arp, hop)
           x   == [v EXCEPT !.n.tx_mac = mac]
           ask == [kind |-> "request", mac |-> BcastMac, dst |-> hop]
           b   == mn_net_tx_begin(v, d)
           pkt == [kind |-> "data", mac |-> mac, dst |-> d]
<1>1. /\ v.given \in Seq(OutFrame) /\ v.n \in NetT /\ v.n.arp \in Cache
      /\ v.n.gw \in Addr /\ v.why \in Why /\ v.want \in SUBSET Conv
  BY DEF Work, NetT
<1>2. hop \in Addr
  BY <1>1 DEF mn_net_next_hop
<1>3. mac \in Mac \cup {None, BcastMac}
  BY <1>1, LookupType
<1>4. /\ SameAddress(v.n, x.n) /\ x.n.arp = v.n.arp /\ x.n.tx_mac = mac
      /\ x.given = v.given /\ x \in Work
  <2>1. x.n = [v.n EXCEPT !.tx_mac = mac] /\ x.given = v.given
    BY DEF Work
  <2>2. x.n \in NetT /\ SameAddress(v.n, x.n) /\ x.n.arp = v.n.arp /\ x.n.tx_mac = mac
    BY <1>1, <1>3, <2>1 DEF NetT, SameAddress
  <2> DEFINE n == [v.n EXCEPT !.tx_mac = mac]
  <2>3. n \in NetT
    BY <2>1, <2>2
  <2> HIDE DEF n
  <2>4. [v EXCEPT !.n = n] \in Work
    BY <2>3 DEF Work
  <2>5. x \in Work
    BY <2>4 DEF n
  <2> QED BY <2>1, <2>2, <2>5
<1>5. Current(v.n, told)
  BY DEF Sends, Follows, Current
<1> HIDE DEF hop, mac, x
<1>6. Sends(w, x, told)
  <2>1. AllAimed(x.n, told, x.given)
    BY <1>4, AimedAlike DEF Sends, AllAimed
  <2>2. Follows(w, x)
    BY <1>4 DEF Sends, Follows, SameAddress
  <2> QED BY <1>4, <2>1, <2>2 DEF Sends
<1>7. \A u \in Work, y \in Why :
        Sends(w, u, told) => /\ Sends(w, [u EXCEPT !.why = y], told)
                             /\ [u EXCEPT !.why = y].n = u.n
                             /\ [u EXCEPT !.why = y].why = y
  <2> TAKE u \in Work, y \in Why
  <2> DEFINE z == [u EXCEPT !.why = y]
  <2>1. z \in Work /\ z.n = u.n /\ z.given = u.given /\ z.why = y
    BY DEF Work
  <2> HIDE DEF z
  <2>2. Sends(w, u, told) => Sends(w, z, told)
    BY <2>1 DEF Sends, Follows
  <2> QED BY <2>1, <2>2 DEF z
<1>8. b = IF mac # None THEN [x EXCEPT !.why = "OK"]
          ELSE [Give(x, ask) EXCEPT !.why = "PENDING"]
  BY DEF mn_net_tx_begin, b, x, mac, hop, ask
<1>9. CASE mac = None
  <2>1. ask \in OutFrame /\ ask.kind # "data"
    BY <1>2 DEF OutFrame
  <2> HIDE DEF ask
  <2>2. Sends(w, Give(x, ask), told)
    BY <1>4, <1>6, <2>1, GiveSends, NotData
  <2> DEFINE y == Give(x, ask)
  <2>3. b = [y EXCEPT !.why = "PENDING"]
    BY <1>8, <1>9
  <2>4. y \in Work /\ "PENDING" \in Why
    BY <2>2 DEF Sends, Why
  <2> HIDE DEF b, y
  <2>5. Sends(w, b, told) /\ b.why = "PENDING"
    BY <1>7, <2>2, <2>3, <2>4 DEF y
  <2>6. Transmit(v, d, takes) = b
    BY <2>5 DEF Transmit, b
  <2> QED BY <2>5, <2>6
<1>10. CASE mac # None
  <2>1. b = [x EXCEPT !.why = "OK"]
    BY <1>8, <1>10
  <2> HIDE DEF b
  <2>2. Sends(w, b, told) /\ b.n = x.n /\ b.why = "OK" /\ b \in Work
    BY <1>4, <1>6, <1>7, <2>1 DEF Sends, Why
  <2>3. Transmit(v, d, takes) = mn_net_tx_send(b, d, takes)
    BY <2>2 DEF Transmit, b
  <2>4. pkt = [kind |-> "data", mac |-> b.n.tx_mac, dst |-> d]
    BY <1>4, <2>2
  <2>5. pkt \in OutFrame /\ pkt.dst = d /\ pkt.mac = mac
    BY <1>3, <1>10 DEF OutFrame
  <2>6. mn_net_tx_send(b, d, takes)
          = [Give(b, pkt) EXCEPT !.why = Answer(Give(b, pkt), takes)]
    BY <2>4 DEF mn_net_tx_send
  <2> HIDE DEF pkt
  <2>7. Aimed(v.n, told, pkt)
    BY <1>1, <1>5, <1>10, <2>5, HopAimed DEF mac, hop
  <2>8. Aimed(b.n, told, pkt)
    BY <1>4, <2>2, <2>7, AimedAlike
  <2>9. Sends(w, Give(b, pkt), told)
    BY <2>2, <2>5, <2>8, GiveSends
  <2>10. Answer(Give(b, pkt), takes) \in Why
    BY DEF Answer, Why
  <2> QED BY <1>7, <2>3, <2>6, <2>9, <2>10 DEF Sends
<1> QED BY <1>9, <1>10

----------------------------------------------------------------------------
(* The services, in turn. *)

LEMMA Unfolded ==
  ASSUME NEW w, NEW takes
  PROVE  \E g : /\ g = [i \in 0 .. Len(Dests) |->
                          IF i = 0 THEN w ELSE Serve(g[i - 1], i, takes)]
                /\ Services(w, takes) = g[Len(Dests)]
<1> DEFINE Ok(n) == \E g : g = [i \in 0 .. n |->
                                  IF i = 0 THEN w ELSE Serve(g[i - 1], i, takes)]
           T == {n \in Nat : ~Ok(n)}
<1>1. T = {}
  <2> SUFFICES ASSUME T # {} PROVE FALSE
    OBVIOUS
  <2>1. PICK n \in T : \A y \in T : n <= y
    BY LeastNat
  <2>2. n \in Nat /\ ~Ok(n)
    BY <2>1
  <2>3. CASE n = 0
    <3> DEFINE h == [i \in 0 .. 0 |-> w]
    <3>1. h = [i \in 0 .. 0 |-> IF i = 0 THEN w ELSE Serve(h[i - 1], i, takes)]
      OBVIOUS
    <3> HIDE DEF h
    <3> QED BY <2>2, <2>3, <3>1
  <2>4. CASE n # 0
    <3>1. n - 1 \in Nat /\ n - 1 < n
      BY <2>2, <2>4
    <3> HIDE DEF Ok
    <3>2. Ok(n - 1)
      BY <2>1, <3>1
    <3> USE DEF Ok
    <3>3. PICK g : g = [i \in 0 .. n - 1 |->
                          IF i = 0 THEN w ELSE Serve(g[i - 1], i, takes)]
      BY <3>2
    <3> DEFINE h == [i \in 0 .. n |->
                       IF i = n THEN Serve(g[n - 1], n, takes) ELSE g[i]]
    <3>4. \A i \in 0 .. n : h[i] = IF i = 0 THEN w ELSE Serve(h[i - 1], i, takes)
      <4> TAKE i \in 0 .. n
      <4>1. CASE i = n
        <5>1. h[i - 1] = g[n - 1]
          BY <2>2, <2>4, <4>1
        <5> QED BY <2>4, <4>1, <5>1
      <4>2. CASE i # n
        <5>1. i \in 0 .. n - 1 /\ h[i] = g[i] /\ (i # 0 => h[i - 1] = g[i - 1])
          BY <2>2, <4>2
        <5>2. g[i] = IF i = 0 THEN w ELSE Serve(g[i - 1], i, takes)
          BY <3>3, <5>1
        <5> HIDE DEF h
        <5> QED BY <5>1, <5>2
      <4> QED BY <4>1, <4>2
    <3>5. h = [i \in 0 .. n |-> h[i]]
      OBVIOUS
    <3> HIDE DEF h
    <3>6. h = [i \in 0 .. n |-> IF i = 0 THEN w ELSE Serve(h[i - 1], i, takes)]
      BY <3>4, <3>5
    <3> QED BY <2>2, <3>6
  <2> QED BY <2>3, <2>4
<1>2. Len(Dests) \in Nat
  BY Consts
<1>3. Ok(Len(Dests))
  BY <1>1, <1>2
<1> DEFINE f == CHOOSE g : g = [i \in 0 .. Len(Dests) |->
                                  IF i = 0 THEN w ELSE Serve(g[i - 1], i, takes)]
<1>4. f = [i \in 0 .. Len(Dests) |->
             IF i = 0 THEN w ELSE Serve(f[i - 1], i, takes)]
  BY <1>3
<1>5. Services(w, takes) = f[Len(Dests)]
  BY DEF Services
<1> HIDE DEF f
<1> QED BY <1>4, <1>5

LEMMA ServeSends ==
  ASSUME NEW w \in Work, NEW told, Current(w.n, told),
         NEW v, Sends(w, v, told), NEW i \in Conv, NEW takes
  PROVE  Sends(w, Serve(v, i, takes), told)
<1> DEFINE u == Transmit(v, Dests[i], takes)
<1>1. Dests[i] \in Addr /\ v \in Work
  BY Consts DEF Conv, Sends
<1>2. Sends(w, u, told)
  BY <1>1, TransmitSends
<1> HIDE DEF u
<1>3. u \in Work
  BY <1>2 DEF Sends
<1> DEFINE z == [u EXCEPT !.want = @ \ {i}]
<1>4. z \in Work /\ z.n = u.n /\ z.given = u.given
  BY <1>3 DEF Work
<1> HIDE DEF z
<1>5. Sends(w, z, told)
  BY <1>2, <1>4 DEF Sends, Follows
<1> QED BY <1>2, <1>5 DEF Serve, u, z

LEMMA ServicesSend ==
  ASSUME NEW w \in Work, NEW told, Current(w.n, told),
         AllAimed(w.n, told, w.given), NEW takes
  PROVE  Sends(w, Services(w, takes), told)
<1>1. PICK g : /\ g = [i \in 0 .. Len(Dests) |->
                         IF i = 0 THEN w ELSE Serve(g[i - 1], i, takes)]
               /\ Services(w, takes) = g[Len(Dests)]
  BY Unfolded
<1> DEFINE T == {n \in 0 .. Len(Dests) : ~Sends(w, g[n], told)}
<1>2. Len(Dests) \in Nat /\ Conv = 1 .. Len(Dests)
  BY Consts DEF Conv
<1>3. T = {}
  <2> SUFFICES ASSUME T # {} PROVE FALSE
    OBVIOUS
  <2>1. PICK n \in T : \A y \in T : n <= y
    <3>1. T \subseteq Nat
      BY <1>2
    <3> HIDE DEF T
    <3> QED BY <3>1, LeastNat
  <2>2. n \in 0 .. Len(Dests) /\ ~Sends(w, g[n], told)
    BY <2>1
  <2>3. CASE n = 0
    <3>1. g[0] = w
      BY <1>1, <1>2
    <3>2. Follows(w, w)
      BY DEF Follows, SameAddress, Work
    <3>3. Sends(w, w, told)
      BY <3>2 DEF Sends
    <3> QED BY <2>2, <2>3, <3>1, <3>3
  <2>4. CASE n # 0
    <3>1. n - 1 \in 0 .. Len(Dests) /\ n - 1 < n /\ n \in Conv
      BY <1>2, <2>2, <2>4
    <3>2. Sends(w, g[n - 1], told)
      BY <2>1, <3>1
    <3>3. g[n] = Serve(g[n - 1], n, takes)
      BY <1>1, <2>2, <2>4
    <3>4. Sends(w, Serve(g[n - 1], n, takes), told)
      BY <3>1, <3>2, ServeSends
    <3> QED BY <2>2, <3>3, <3>4
  <2> QED BY <2>3, <2>4
<1>4. Sends(w, g[Len(Dests)], told)
  BY <1>2, <1>3
<1> QED BY <1>1, <1>4

----------------------------------------------------------------------------
(* Receive. *)

Told == [Addr -> Mac \cup {None}]
After(n, told, f) == IF Teaches(n, f) THEN [told EXCEPT ![f.sip] = f.mac] ELSE told
ReplyTo(kind) == IF kind = "echo" THEN "echo" ELSE "reply"
IsAnswer(o, f) == o.mac = f.mac /\ o.kind = ReplyTo(f.kind)

LEMMA InFields ==
  ASSUME NEW f \in InFrame
  PROVE  /\ f.kind \in {"reply", "request", "probe", "echo"} /\ f.mac \in Mac
         /\ f.sip \in Addr /\ f.tip \in Addr /\ f.ok \in BOOLEAN
BY DEF InFrame, AskKinds

LEMMA LearnCurrent ==
  ASSUME NEW w \in Work, NEW told \in Told, Current(w.n, told), NEW f \in InFrame
  PROVE  LET v == Learn(w, f)
         IN /\ v \in Work /\ SameAddress(w.n, v.n) /\ v.given = w.given
            /\ Current(v.n, [told EXCEPT ![f.sip] = f.mac])
<1> DEFINE c == mn_arp_cache_learn(w.n.arp, f.sip, f.mac)
           n == [w.n EXCEPT !.arp = c]
           v == [w EXCEPT !.n = n]
           now == [told EXCEPT ![f.sip] = f.mac]
<1>1. w.n \in NetT /\ w.n.arp \in Cache /\ f.sip \in Addr /\ f.mac \in Mac
  BY InFields DEF Work, NetT
<1>2. /\ c \in Cache /\ NoDuplicates(c) /\ mn_arp_cache_lookup(c, f.sip) = f.mac
      /\ \A a \in Addr \ {f.sip} :
           mn_arp_cache_lookup(c, a) \in {mn_arp_cache_lookup(w.n.arp, a), None}
  BY <1>1, LearnReplaces DEF Current
<1>3. Learn(w, f) = v
  BY DEF Learn
<1> HIDE DEF c
<1>4. n \in NetT /\ n.arp = c /\ SameAddress(w.n, n)
  BY <1>1, <1>2 DEF NetT, SameAddress
<1> HIDE DEF n
<1>5. v \in Work /\ v.n = n /\ v.given = w.given
  BY <1>4 DEF Work
<1>6. now[f.sip] = f.mac /\ \A a \in Addr \ {f.sip} : now[a] = told[a]
  BY <1>1 DEF Told
<1> HIDE DEF now
<1>7. Current(n, now)
  <2> SUFFICES ASSUME NEW a \in Addr
               PROVE  mn_arp_cache_lookup(c, a) \in {now[a], None}
    BY <1>2, <1>4 DEF Current
  <2>1. CASE a = f.sip
    BY <1>2, <1>6, <2>1
  <2>2. CASE a # f.sip
    BY <1>2, <1>6, <2>2 DEF Current
  <2> QED BY <2>1, <2>2
<1> QED BY <1>3, <1>4, <1>5, <1>7 DEF v, now

(* An answer to f, given to the driver after what was given before.        *)
LEMMA GiveAnswer ==
  ASSUME NEW w \in Work, w.given = << >>, NEW f \in InFrame,
         NEW kind \in {"reply", "echo"}
  PROVE  LET o == [kind |-> kind, mac |-> f.mac, dst |-> f.sip]
             v == Give(w, o)
         IN /\ v \in Work /\ v.n = w.n /\ v.given = <<o>>
            /\ \A told : AllAimed(v.n, told, v.given)
<1> DEFINE o == [kind |-> kind, mac |-> f.mac, dst |-> f.sip]
           g == <<o>>
           v == [w EXCEPT !.given = g]
<1>1. o \in OutFrame /\ o.kind # "data"
  BY InFields DEF OutFrame
<1> HIDE DEF o
<1>2. g \in Seq(OutFrame) /\ Len(g) = 1 /\ g[1] = o
  BY <1>1
<1>3. Give(w, o) = v
  <2>1. Append(w.given, o) = g
    OBVIOUS
  <2> HIDE DEF g
  <2>2. Give(w, o) = [w EXCEPT !.given = Append(w.given, o)]
    BY DEF Give
  <2> QED BY <2>1, <2>2
<1> HIDE DEF g
<1>4. v \in Work /\ v.n = w.n /\ v.given = g
  BY <1>2 DEF Work
<1> HIDE DEF v
<1>5. ASSUME NEW told PROVE AllAimed(v.n, told, v.given)
  <2> DEFINE s == v.given
  <2>1. Len(s) = 1 /\ s[1] = o
    BY <1>2, <1>4
  <2> HIDE DEF s
  <2>2. \A k \in 1 .. Len(s) : s[k] = o
    BY <2>1
  <2>3. Aimed(v.n, told, o)
    BY <1>1, NotData
  <2> QED BY <2>2, <2>3 DEF AllAimed, s
<1> QED BY <1>3, <1>4, <1>5 DEF o, g

LEMMA InputStep ==
  ASSUME NEW w \in Work, w.given = << >>, NEW told \in Told, Current(w.n, told),
         NEW f \in InFrame
  PROVE  LET v == mn_net_input(w, f)
             now == After(w.n, told, f)
         IN /\ v \in Work /\ SameAddress(w.n, v.n)
            /\ now \in Told /\ Current(v.n, now) /\ AllAimed(v.n, now, v.given)
            /\ f.kind # "reply" /\ f.tip = w.n.ip =>
                 \E k \in 1 .. Len(v.given) : IsAnswer(v.given[k], f)
<1> DEFINE v == mn_net_input(w, f)
           now == After(w.n, told, f)
           x == Learn(w, f)
<1>1. /\ f.kind \in {"reply", "request", "probe", "echo"} /\ f.mac \in Mac
      /\ f.sip \in Addr
  BY InFields
<1>2. now \in Told
  BY <1>1 DEF After, Told
<1>3. /\ x \in Work /\ SameAddress(w.n, x.n) /\ x.given = << >>
      /\ Current(x.n, [told EXCEPT ![f.sip] = f.mac])
  BY LearnCurrent
<1>4. SameAddress(w.n, w.n) /\ \A p, a : AllAimed(p, a, << >>)
  BY DEF SameAddress, AllAimed
<1> HIDE DEF x
<1>5. CASE f.kind = "reply"
  <2>1. v = x /\ now = [told EXCEPT ![f.sip] = f.mac]
    BY <1>5 DEF mn_net_input, x, After, Teaches
  <2> QED BY <1>2, <1>3, <1>4, <1>5, <2>1
<1>6. CASE f.kind \in {"request", "probe"} /\ f.tip = w.n.ip
  <2> DEFINE o == [kind |-> "reply", mac |-> f.mac, dst |-> f.sip]
  <2>1. v = Give(x, o) /\ now = [told EXCEPT ![f.sip] = f.mac]
    BY <1>6 DEF mn_net_input, x, After, Teaches
  <2>2. /\ v \in Work /\ v.n = x.n /\ v.given = <<o>>
        /\ \A a : AllAimed(v.n, a, v.given)
    BY <1>3, <2>1, GiveAnswer
  <2>3. IsAnswer(o, f) /\ 1 \in 1 .. Len(<<o>>) /\ <<o>>[1] = o
    BY <1>6 DEF IsAnswer, ReplyTo
  <2> HIDE DEF o, v, now
  <2>4. \E k \in 1 .. Len(v.given) : IsAnswer(v.given[k], f)
    BY <2>2, <2>3
  <2> QED BY <1>2, <1>3, <2>1, <2>2, <2>4 DEF v, now
<1>7. CASE f.kind = "echo" /\ f.tip = w.n.ip
  <2> DEFINE o == [kind |-> "echo", mac |-> f.mac, dst |-> f.sip]
  <2>1. v = Give(w, o) /\ now = told
    BY <1>7 DEF mn_net_input, After, Teaches
  <2>2. /\ v \in Work /\ v.n = w.n /\ v.given = <<o>>
        /\ \A a : AllAimed(v.n, a, v.given)
    BY <2>1, GiveAnswer
  <2>3. IsAnswer(o, f) /\ 1 \in 1 .. Len(<<o>>) /\ <<o>>[1] = o
    BY <1>7 DEF IsAnswer, ReplyTo
  <2> HIDE DEF o, v, now
  <2>4. \E k \in 1 .. Len(v.given) : IsAnswer(v.given[k], f)
    BY <2>2, <2>3
  <2> QED BY <1>2, <1>4, <2>1, <2>2, <2>4 DEF v, now
<1>8. CASE f.kind # "reply" /\ f.tip # w.n.ip
  <2>1. v = w /\ now = told
    BY <1>1, <1>8 DEF mn_net_input, After, Teaches
  <2> QED BY <1>2, <1>4, <1>8, <2>1
<1> QED BY <1>1, <1>5, <1>6, <1>7, <1>8

----------------------------------------------------------------------------
(* The inductive invariant.  Beside the types and the cache it says that   *)
(* no station has moved more often than odd things have happened, and that *)
(* each question not yet answered is still in the controller.              *)

EthT == [view : InFrame \cup {NoFrame}, waiting : Seq(InFrame)]

IsQuestion(f, q) == f.ok /\ f.kind = q[1] /\ f.mac = q[2] /\ f.tip = net.ip

Typed ==
  /\ net \in NetT
  /\ eth \in EthT /\ Len(eth.waiting) <= RxBufs
  /\ want \subseteq Conv
  /\ given \in Seq(OutFrame)
  /\ asked \subseteq Stations
  /\ moved \in [Stations -> Nat]
  /\ heard \in Told
  /\ owed \subseteq Asks \X Mac
  /\ polls \in 0 .. 1 /\ asks \in 0 .. MaxAsks /\ odd \in 0 .. MaxOdd

IInv ==
  /\ Typed
  /\ \A h \in Stations : moved[h] <= odd
  /\ Current(net, heard)
  /\ AllAimed(net, heard, given)
  /\ \A q \in owed : \E k \in 1 .. Len(eth.waiting) : IsQuestion(eth.waiting[k], q)

LEMMA InitHolds == Init => IInv
<1> SUFFICES ASSUME Init PROVE IInv
  OBVIOUS
<1>1. mn_arp_cache_init \in Cache /\ Current(net, heard)
  <2>1. net.arp = mn_arp_cache_init
    BY DEF Init
  <2> QED BY <2>1, EmptyCache DEF Current
<1>2. net \in NetT
  BY <1>1, Consts DEF Init, NetT
<1>3. eth \in EthT /\ Len(eth.waiting) <= RxBufs
  BY Consts DEF Init, Idle, EthT
<1>4. heard \in Told
  BY DEF Init, Told
<1>5. AllAimed(net, heard, given)
  BY DEF Init, AllAimed
<1>6. moved \in [Stations -> Nat] /\ odd = 0 /\ \A h \in Stations : moved[h] <= odd
  BY DEF Init
<1>7. Typed
  BY <1>2, <1>3, <1>4, <1>6, Consts DEF Init, Typed
<1> QED BY <1>1, <1>5, <1>6, <1>7 DEF Init, IInv

LEMMA StationMac ==
  ASSUME IInv, NEW h \in Stations
  PROVE  MacOf(h) \in Mac /\ h \in Addr
<1>1. moved[h] \in Nat /\ moved[h] <= odd /\ odd \in 0 .. MaxOdd
  BY DEF IInv, Typed
<1>2. moved[h] \in 0 .. MaxMoves
  BY <1>1, Consts
<1> QED BY <1>2, Consts DEF MacOf

(* A frame that arrives leaves the questions where they are.               *)
LEMMA ArriveKeeps ==
  ASSUME IInv, NEW f \in InFrame, Room(eth)
  PROVE  LET e == Arrive(eth, f)
         IN /\ e \in EthT /\ Len(e.waiting) <= RxBufs
            /\ \A q \in owed : \E k \in 1 .. Len(e.waiting) :
                 IsQuestion(e.waiting[k], q)
            /\ Len(e.waiting) \in 1 .. Len(e.waiting) /\ e.waiting[Len(e.waiting)] = f
<1> DEFINE s == Append(eth.waiting, f)
           e == [eth EXCEPT !.waiting = s]
<1>1. eth \in EthT /\ eth.waiting \in Seq(InFrame) /\ Len(eth.waiting) < RxBufs
  BY DEF IInv, Typed, EthT, Room
<1>2. /\ s \in Seq(InFrame) /\ Len(s) = Len(eth.waiting) + 1
      /\ Len(eth.waiting) \in Nat /\ s[Len(s)] = f
      /\ \A k \in 1 .. Len(eth.waiting) : s[k] = eth.waiting[k]
  BY <1>1, AppendSeq
<1>3. Arrive(eth, f) = e
  BY DEF Arrive
<1> HIDE DEF s
<1>4. e \in EthT /\ e.waiting = s
  BY <1>1, <1>2 DEF EthT
<1> HIDE DEF e
<1>5. Len(e.waiting) <= RxBufs
  BY <1>1, <1>2, <1>4, Consts
<1>6. ASSUME NEW q \in owed
      PROVE  \E k \in 1 .. Len(e.waiting) : IsQuestion(e.waiting[k], q)
  <2>1. PICK k \in 1 .. Len(eth.waiting) : IsQuestion(eth.waiting[k], q)
    BY DEF IInv
  <2>2. k \in 1 .. Len(e.waiting) /\ e.waiting[k] = eth.waiting[k]
    BY <1>2, <1>4
  <2> QED BY <2>1, <2>2
<1> QED BY <1>2, <1>3, <1>4, <1>5, <1>6

LEMMA NothingGiven ==
  /\ << >> \in Seq(OutFrame)
  /\ \A n, told : AllAimed(n, told, << >>)
BY DEF AllAimed

LEMMA BeginWork ==
  ASSUME IInv
  PROVE  /\ Begin \in Work /\ Begin.n = net /\ Begin.given = << >>
         /\ Begin.want = want
<1>1. net \in NetT /\ want \in SUBSET Conv /\ "OK" \in Why
  BY DEF IInv, Typed, Why
<1>2. << >> \in Seq(OutFrame)
  BY NothingGiven
<1> QED BY <1>1, <1>2 DEF Begin, Work

LEMMA PollStep ==
  ASSUME IInv, NEW takes, PollTaking(takes)
  PROVE  IInv'
<1> DEFINE r == mn_net_poll(Begin, eth)
           rx == eth_rx(eth)
           f == r.frame
           w == Services(r.w, takes)
           told == IF f # NoFrame /\ Teaches(net, f)
                   THEN [heard EXCEPT ![f.sip] = f.mac] ELSE heard
<1>1. /\ Odd(takes < All)
      /\ net' = w.n /\ want' = w.want /\ given' = w.given /\ eth' = r.eth
      /\ Sent(w, takes) /\ heard' = told
      /\ owed' = {q \in owed : \A k \in DOMAIN w.given : w.given[k].mac # q[2]
                   \/ w.given[k].kind # ReplyTo(q[1])}
      /\ polls' = 1 - polls /\ UNCHANGED <<moved, asks>>
  BY DEF PollTaking, ReplyTo
<1>2. /\ net \in NetT /\ eth \in EthT /\ eth.waiting \in Seq(InFrame)
      /\ heard \in Told /\ Current(net, heard) /\ odd \in 0 .. MaxOdd
      /\ polls \in 0 .. 1 /\ Len(eth.waiting) <= RxBufs /\ Len(eth.waiting) \in Nat
  BY DEF IInv, Typed, EthT
<1>3. r.eth = rx.eth /\ f = rx.frame
      /\ r.w = IF f = NoFrame THEN Begin ELSE mn_net_input(Begin, f)
  BY DEF mn_net_poll
<1>5. /\ rx.eth \in EthT /\ Len(rx.eth.waiting) <= RxBufs
      /\ rx.frame \in InFrame \cup {NoFrame}
      /\ \A k \in 1 .. Len(eth.waiting) :
           \/ eth.waiting[k].ok /\ rx.frame = eth.waiting[k]
           \/ ~eth.waiting[k].ok
           \/ k - 1 \in 1 .. Len(rx.eth.waiting)
                /\ rx.eth.waiting[k - 1] = eth.waiting[k]
  <2>1. CASE eth.waiting = << >>
    <3>1. rx = [eth |-> eth, frame |-> NoFrame]
      BY <2>1 DEF eth_rx
    <3> QED BY <1>2, <2>1, <3>1
  <2>2. CASE eth.waiting # << >>
    <3> DEFINE hd == Head(eth.waiting)
               tl == Tail(eth.waiting)
    <3>1. /\ rx.eth = [view |-> hd, waiting |-> tl]
          /\ rx.frame = IF hd.ok THEN hd ELSE NoFrame
      BY <2>2 DEF eth_rx, Rotated
    <3>2. /\ hd \in InFrame /\ hd = eth.waiting[1] /\ tl \in Seq(InFrame)
          /\ Len(tl) = Len(eth.waiting) - 1
          /\ \A k \in 2 .. Len(eth.waiting) :
               k - 1 \in 1 .. Len(tl) /\ tl[k - 1] = eth.waiting[k]
      BY <1>2, <2>2
    <3> HIDE DEF hd, tl, rx
    <3>3. rx.eth \in EthT /\ rx.eth.waiting = tl
      BY <3>1, <3>2 DEF EthT
    <3>4. Len(tl) <= RxBufs
      BY <1>2, <3>2, Consts
    <3>5. rx.frame \in InFrame \cup {NoFrame}
      BY <3>1, <3>2
    <3>6. ASSUME NEW k \in 1 .. Len(eth.waiting)
          PROVE  \/ eth.waiting[k].ok /\ rx.frame = eth.waiting[k]
                 \/ ~eth.waiting[k].ok
                 \/ k - 1 \in 1 .. Len(tl) /\ tl[k - 1] = eth.waiting[k]
      <4>1. CASE k = 1
        BY <3>1, <3>2, <4>1
      <4>2. CASE k # 1
        BY <1>2, <3>2, <4>2
      <4> QED BY <4>1, <4>2
    <3> QED BY <3>3, <3>4, <3>5, <3>6
  <2> QED BY <2>1, <2>2
<1>6. Begin \in Work /\ Begin.n = net /\ Begin.given = << >>
  BY BeginWork
<1> HIDE DEF rx, r
<1>7. /\ r.w \in Work /\ SameAddress(net, r.w.n)
      /\ told \in Told /\ Current(r.w.n, told) /\ AllAimed(r.w.n, told, r.w.given)
      /\ f # NoFrame /\ f.kind # "reply" /\ f.tip = net.ip =>
           \E k \in 1 .. Len(r.w.given) : IsAnswer(r.w.given[k], f)
  <2>1. CASE f = NoFrame
    <3>1. r.w = Begin /\ told = heard
      BY <1>3, <2>1
    <3> QED BY <1>2, <1>6, <2>1, <3>1, NothingGiven DEF SameAddress
  <2>2. CASE f # NoFrame
    <3>1. f \in InFrame
      BY <1>3, <1>5, <2>2
    <3>2. r.w = mn_net_input(Begin, f) /\ told = After(net, heard, f)
      BY <1>3, <2>2 DEF After
    <3> HIDE DEF f, told
    <3> QED BY <1>2, <1>6, <2>2, <3>1, <3>2, InputStep
  <2> QED BY <2>1, <2>2
<1> HIDE DEF told
<1>8. Sends(r.w, w, told)
  BY <1>7, ServicesSend
<1> HIDE DEF w
<1>9. /\ w \in Work /\ SameAddress(r.w.n, w.n) /\ w.n.arp = r.w.n.arp
      /\ AllAimed(w.n, told, w.given) /\ w.given \in Seq(OutFrame)
      /\ Len(w.given) \in Nat /\ Len(r.w.given) <= Len(w.given)
      /\ r.w.given \in Seq(OutFrame) /\ Len(r.w.given) \in Nat
      /\ \A k \in 1 .. Len(r.w.given) : w.given[k] = r.w.given[k]
  BY <1>7, <1>8 DEF Sends, Follows, Work
<1>10. net' \in NetT /\ want' \subseteq Conv /\ given' \in Seq(OutFrame)
  BY <1>1, <1>9 DEF Work
<1>11. eth' \in EthT /\ Len(eth'.waiting) <= RxBufs
  BY <1>1, <1>3, <1>5
<1>12. odd' \in 0 .. MaxOdd /\ odd <= odd' /\ polls' \in 0 .. 1
  BY <1>1, <1>2, Consts DEF Odd
<1>13. asked' \subseteq Stations
  BY <1>1 DEF Sent, IInv, Typed
<1>14. Typed'
  BY <1>1, <1>7, <1>10, <1>11, <1>12, <1>13 DEF IInv, Typed
<1>15. \A h \in Stations : moved'[h] <= odd'
  BY <1>1, <1>2, <1>12, Consts DEF IInv, Typed
<1>16. Current(net', heard') /\ AllAimed(net', heard', given')
  BY <1>1, <1>7, <1>9 DEF Current
<1>17. ASSUME NEW q \in owed'
       PROVE  (\E k \in 1 .. Len(eth.waiting) : IsQuestion(eth.waiting[k], q))'
  <2>1. q \in owed /\ \A k \in DOMAIN w.given :
          w.given[k].mac # q[2] \/ w.given[k].kind # ReplyTo(q[1])
    BY <1>1
  <2>2. PICK k \in 1 .. Len(eth.waiting) : IsQuestion(eth.waiting[k], q)
    BY <2>1 DEF IInv
  <2> DEFINE x == eth.waiting[k]
  <2>3. x \in InFrame /\ q[1] \in Asks
    BY <1>2, <2>1 DEF IInv, Typed
  <2>4. f # x
    <3> SUFFICES ASSUME f = x PROVE FALSE
      OBVIOUS
    <3>1. f # NoFrame /\ f.kind # "reply" /\ f.tip = net.ip
      BY <2>2, <2>3, FrameAssumption, Consts DEF IsQuestion, AskKinds
    <3>2. PICK j \in 1 .. Len(r.w.given) : IsAnswer(r.w.given[j], f)
      BY <1>7, <3>1
    <3>3. j \in DOMAIN w.given /\ w.given[j] = r.w.given[j]
      BY <1>9
    <3>4. w.given[j].mac = q[2] /\ w.given[j].kind = ReplyTo(q[1])
      BY <2>2, <3>2, <3>3 DEF IsAnswer, IsQuestion
    <3> QED BY <2>1, <3>3, <3>4
  <2>5. k - 1 \in 1 .. Len(rx.eth.waiting) /\ rx.eth.waiting[k - 1] = x
    BY <1>3, <1>5, <2>2, <2>4 DEF IsQuestion
  <2>6. net'.ip = net.ip
    BY <1>1, <1>7, <1>9 DEF SameAddress
  <2>7. eth'.waiting = rx.eth.waiting
    BY <1>1, <1>3
  <2>8. x.ok /\ x.kind = q[1] /\ x.mac = q[2] /\ x.tip = net'.ip
    BY <2>2, <2>6 DEF IsQuestion
  <2> QED BY <2>5, <2>7, <2>8 DEF IsQuestion
<1> QED BY <1>14, <1>15, <1>16, <1>17 DEF IInv

LEMMA UdpSendStep ==
  ASSUME IInv, UdpSend
  PROVE  IInv'
<1>1. PICK d \in AppDests :
        LET w == Transmit(Begin, d, All)
        IN /\ net' = w.n /\ given' = w.given /\ Sent(w, All)
           /\ UNCHANGED <<eth, want, moved, heard, owed, asks, odd, polls>>
  BY DEF UdpSend
<1> DEFINE w == Transmit(Begin, d, All)
<1>2. Begin \in Work /\ Begin.n = net /\ Begin.given = << >>
  BY BeginWork
<1>3. Current(net, heard)
  BY DEF IInv
<1>4. Sends(Begin, Begin, heard)
  <2>1. Follows(Begin, Begin)
    BY <1>2 DEF Follows, SameAddress
  <2> QED BY <1>2, <2>1, NothingGiven DEF Sends
<1>5. d \in Addr
  BY Consts
<1>6. Sends(Begin, w, heard)
  BY <1>2, <1>3, <1>4, <1>5, TransmitSends
<1> HIDE DEF w
<1>7. /\ net' = w.n /\ given' = w.given /\ Sent(w, All)
      /\ UNCHANGED <<eth, want, moved, heard, owed, asks, odd, polls>>
  BY <1>1 DEF w
<1>8. /\ w \in Work /\ SameAddress(net, w.n) /\ w.n.arp = net.arp
      /\ AllAimed(w.n, heard, w.given)
  BY <1>2, <1>6 DEF Sends, Follows
<1>9. net' \in NetT /\ given' \in Seq(OutFrame)
  BY <1>7, <1>8 DEF Work
<1>10. asked' \subseteq Stations
  BY <1>7 DEF Sent, IInv, Typed
<1>11. Typed'
  BY <1>7, <1>9, <1>10 DEF IInv, Typed
<1>12. net'.ip = net.ip /\ net'.arp = net.arp
  BY <1>7, <1>8 DEF SameAddress
<1>13. Current(net', heard')
  BY <1>3, <1>7, <1>12 DEF Current
<1>14. AllAimed(net', heard', given')
  BY <1>7, <1>8
<1>15. (\A q \in owed : \E k \in 1 .. Len(eth.waiting) : IsQuestion(eth.waiting[k], q))'
  BY <1>7, <1>12 DEF IInv, IsQuestion
<1> QED BY <1>7, <1>11, <1>13, <1>14, <1>15 DEF IInv

LEMMA SetIpStep ==
  ASSUME IInv, SetIp
  PROVE  IInv'
<1>1. PICK c \in Configs : net' = [net EXCEPT !.ip = c.ip, !.mask = c.mask, !.gw = c.gw]
  BY DEF SetIp
<1>2. /\ Odd(net.ip # zero_ip) /\ owed' = {} /\ given' = << >>
      /\ UNCHANGED <<eth, want, asked, moved, heard, asks, polls>>
  BY DEF SetIp
<1>3. net' \in NetT /\ net'.arp = net.arp
  BY <1>1, Consts DEF IInv, Typed, NetT
<1>4. odd \in Nat /\ odd' \in 0 .. MaxOdd /\ odd <= odd'
  BY <1>2, Consts DEF Odd, IInv, Typed
<1>5. Typed'
  BY <1>2, <1>3, <1>4, NothingGiven DEF IInv, Typed
<1>6. \A h \in Stations : moved'[h] <= odd'
  BY <1>2, <1>4 DEF IInv, Typed
<1>7. Current(net', heard')
  BY <1>2, <1>3 DEF IInv, Current
<1>8. AllAimed(net', heard', given')
  BY <1>2, NothingGiven
<1> QED BY <1>2, <1>5, <1>6, <1>7, <1>8 DEF IInv

(* A step that gives nothing to the driver and leaves the network layer,   *)
(* what was heard and the polls alone.                                     *)
LEMMA QuietStep ==
  ASSUME IInv, given' = << >>, UNCHANGED <<net, heard, polls>>,
         (eth \in EthT /\ Len(eth.waiting) <= RxBufs)',
         want' \subseteq Conv, asked' \subseteq Stations,
         moved' \in [Stations -> Nat], owed' \subseteq Asks \X Mac,
         asks' \in 0 .. MaxAsks, odd' \in 0 .. MaxOdd,
         \A h \in Stations : moved'[h] <= odd',
         (\A q \in owed : \E k \in 1 .. Len(eth.waiting) :
            IsQuestion(eth.waiting[k], q))'
  PROVE  IInv'
<1>1. Typed'
  BY NothingGiven DEF IInv, Typed
<1>2. Current(net', heard') /\ AllAimed(net', heard', given')
  BY NothingGiven DEF IInv
<1> QED BY <1>1, <1>2 DEF IInv

LEMMA WantStep ==
  ASSUME IInv, NEW i \in Conv, Want(i)
  PROVE  IInv'
<1>1. /\ given' = << >> /\ want' = want \cup {i}
      /\ UNCHANGED <<net, eth, asked, moved, heard, owed, asks, odd, polls>>
  BY DEF Want
<1>2. want' \subseteq Conv
  BY <1>1 DEF IInv, Typed
<1> QED BY <1>1, <1>2, QuietStep DEF IInv, Typed, IsQuestion

LEMMA AnswerLostStep ==
  ASSUME IInv, NEW h \in Stations, AnswerLost(h)
  PROVE  IInv'
<1>1. /\ given' = << >> /\ asked' = asked \ {h}
      /\ UNCHANGED <<net, eth, want, moved, heard, owed, asks, odd, polls>>
  BY DEF AnswerLost
<1>2. asked' \subseteq Stations
  BY <1>1 DEF IInv, Typed
<1> QED BY <1>1, <1>2, QuietStep DEF IInv, Typed, IsQuestion

LEMMA FrameIn ==
  ASSUME IInv, NEW h \in Stations, NEW kind \in {"reply"} \cup AskKinds,
         NEW sip \in Addr, NEW ok \in BOOLEAN
  PROVE  /\ Frame(h, kind, sip, net.ip, ok) \in InFrame
         /\ ok => IsQuestion(Frame(h, kind, sip, net.ip, ok), <<kind, MacOf(h)>>)
<1>1. net.ip \in Addr /\ MacOf(h) \in Mac
  BY StationMac DEF IInv, Typed, NetT
<1> QED BY <1>1 DEF Frame, InFrame, IsQuestion

LEMMA StationAnswersStep ==
  ASSUME IInv, NEW h \in Stations, StationAnswers(h)
  PROVE  IInv'
<1> DEFINE f == Frame(h, "reply", h, net.ip, TRUE)
<1>1. /\ given' = << >> /\ asked' = asked \ {h} /\ Room(eth)
      /\ eth' = Arrive(eth, f)
      /\ UNCHANGED <<net, want, moved, heard, owed, asks, odd, polls>>
  BY DEF StationAnswers
<1>2. asked' \subseteq Stations
  BY <1>1 DEF IInv, Typed
<1>3. f \in InFrame
  BY StationMac, FrameIn
<1> HIDE DEF f
<1>4. (/\ eth \in EthT /\ Len(eth.waiting) <= RxBufs
       /\ \A q \in owed : \E k \in 1 .. Len(eth.waiting) :
            IsQuestion(eth.waiting[k], q))'
  BY <1>1, <1>3, ArriveKeeps DEF IsQuestion
<1> QED BY <1>1, <1>2, <1>4, QuietStep DEF IInv, Typed

LEMMA StationAsksStep ==
  ASSUME IInv, NEW h \in Stations, StationAsks(h)
  PROVE  IInv'
<1>1. /\ given' = << >> /\ Room(eth) /\ asks < MaxAsks /\ asks' = asks + 1
      /\ UNCHANGED <<net, want, asked, moved, heard, polls>>
  BY DEF StationAsks
<1>2. PICK kind \in Asks, ok \in BOOLEAN :
        /\ Odd(~ok)
        /\ eth' = Arrive(eth, Frame(h, kind,
                     IF kind = "probe" THEN zero_ip ELSE h, net.ip, ok))
        /\ owed' = IF ok THEN owed \cup {<<kind, MacOf(h)>>} ELSE owed
  BY DEF StationAsks
<1> DEFINE sip == IF kind = "probe" THEN zero_ip ELSE h
           f == Frame(h, kind, sip, net.ip, ok)
<1>3. kind \in {"reply"} \cup AskKinds /\ sip \in Addr /\ MacOf(h) \in Mac
  BY Consts, StationMac
<1>4. f \in InFrame /\ (ok => IsQuestion(f, <<kind, MacOf(h)>>))
  BY <1>3, FrameIn
<1>5. eth' = Arrive(eth, f)
  BY <1>2
<1> HIDE DEF f
<1>6. /\ eth' \in EthT /\ Len(eth'.waiting) <= RxBufs
      /\ Len(eth'.waiting) \in 1 .. Len(eth'.waiting)
      /\ eth'.waiting[Len(eth'.waiting)] = f
      /\ \A q \in owed : \E k \in 1 .. Len(eth'.waiting) :
           LET x == eth'.waiting[k]
           IN x.ok /\ x.kind = q[1] /\ x.mac = q[2] /\ x.tip = net.ip
  BY <1>1, <1>4, <1>5, ArriveKeeps DEF IsQuestion
<1>7. owed' \subseteq Asks \X Mac
  BY <1>2, <1>3 DEF IInv, Typed
<1>8. /\ odd \in Nat /\ odd' \in 0 .. MaxOdd /\ odd <= odd'
      /\ asks' \in 0 .. MaxAsks
  BY <1>1, <1>2, Consts DEF Odd, IInv, Typed
<1>9. \A g \in Stations : moved'[g] <= odd'
  BY <1>1, <1>8 DEF IInv, Typed
<1>10. ASSUME NEW q \in owed'
       PROVE  (\E k \in 1 .. Len(eth.waiting) : IsQuestion(eth.waiting[k], q))'
  <2>1. CASE q \in owed
    BY <1>1, <1>6, <2>1 DEF IsQuestion
  <2>2. CASE q \notin owed
    <3>1. ok /\ q = <<kind, MacOf(h)>>
      BY <1>2, <2>2
    <3>2. f.ok /\ f.kind = q[1] /\ f.mac = q[2] /\ f.tip = net'.ip
      BY <1>1, <1>4, <3>1 DEF IsQuestion
    <3> QED BY <1>6, <3>2 DEF IsQuestion
  <2> QED BY <2>1, <2>2
<1> QED BY <1>1, <1>6, <1>7, <1>8, <1>9, <1>10, QuietStep DEF IInv, Typed

LEMMA StationMovesStep ==
  ASSUME IInv, NEW h \in Stations, StationMoves(h)
  PROVE  IInv'
<1> DEFINE f == [kind |-> "reply", mac |-> <<h, moved[h] + 1>>, sip |-> h,
                 tip |-> h, ok |-> TRUE]
<1>1. /\ given' = << >> /\ Odd(TRUE) /\ moved' = [moved EXCEPT ![h] = @ + 1]
      /\ UNCHANGED eth \/ (Room(eth) /\ eth' = Arrive(eth, f))
      /\ UNCHANGED <<net, want, asked, heard, owed, asks, polls>>
  BY DEF StationMoves
<1>2. /\ odd \in Nat /\ odd' = odd + 1 /\ odd' \in 0 .. MaxOdd
      /\ moved \in [Stations -> Nat] /\ \A g \in Stations : moved[g] <= odd
  BY <1>1, Consts DEF Odd, IInv, Typed
<1>3. moved' \in [Stations -> Nat] /\ \A g \in Stations : moved'[g] <= odd'
  BY <1>1, <1>2
<1>4. f \in InFrame
  <2>1. moved[h] + 1 \in 0 .. MaxMoves
    BY <1>2, Consts
  <2> QED BY <2>1, Consts DEF InFrame
<1> HIDE DEF f
<1>5. (/\ eth \in EthT /\ Len(eth.waiting) <= RxBufs
       /\ \A q \in owed : \E k \in 1 .. Len(eth.waiting) :
            IsQuestion(eth.waiting[k], q))'
  <2>1. CASE UNCHANGED eth
    BY <1>1, <2>1 DEF IInv, Typed, IsQuestion
  <2>2. CASE Room(eth) /\ eth' = Arrive(eth, f)
    BY <1>1, <1>4, <2>2, ArriveKeeps DEF IsQuestion
  <2> QED BY <1>1, <2>1, <2>2
<1> QED BY <1>1, <1>2, <1>3, <1>5, QuietStep DEF IInv, Typed

LEMMA NextHolds == IInv /\ [Next]_vars => IInv'
<1> SUFFICES ASSUME IInv, [Next]_vars PROVE IInv'
  OBVIOUS
<1>1. CASE Poll
  BY <1>1, PollStep DEF Poll
<1>2. CASE PollRefused
  BY <1>2, PollStep DEF PollRefused
<1>3. CASE UdpSend
  BY <1>3, UdpSendStep
<1>4. CASE SetIp
  BY <1>4, SetIpStep
<1>5. CASE \E i \in Conv : Want(i)
  BY <1>5, WantStep
<1>6. CASE \E h \in Stations : StationAnswers(h)
  BY <1>6, StationAnswersStep
<1>7. CASE \E h \in Stations : AnswerLost(h)
  BY <1>7, AnswerLostStep
<1>8. CASE \E h \in Stations : StationAsks(h)
  BY <1>8, StationAsksStep
<1>9. CASE \E h \in Stations : StationMoves(h)
  BY <1>9, StationMovesStep
<1>10. CASE UNCHANGED vars
  BY <1>10 DEF vars, IInv, Typed, IsQuestion
<1> QED BY <1>1, <1>2, <1>3, <1>4, <1>5, <1>6, <1>7, <1>8, <1>9, <1>10 DEF Next

----------------------------------------------------------------------------
(* The theorems. *)

LEMMA Invariant == Spec => []IInv
BY InitHolds, NextHolds, PTL DEF Spec

(* Every variable has its type, and no station has more interfaces than    *)
(* the bound on odd things allows.                                         *)
THEOREM TypeCorrect == Spec => []TypeOK
<1>1. IInv => TypeOK
  <2> SUFFICES ASSUME IInv PROVE TypeOK
    OBVIOUS
  <2>1. moved \in [Stations -> 0 .. MaxMoves]
    <3>1. \A h \in Stations : moved[h] \in 0 .. MaxMoves
      BY Consts DEF IInv, Typed
    <3> QED BY <3>1 DEF IInv, Typed
  <2> QED BY <2>1 DEF IInv, Typed, TypeOK, NetT, EthT, Told
<1> QED BY <1>1, Invariant, PTL

(* The cache says of an address what was last said of it, or nothing: no   *)
(* order of answers, questions and replacements leaves an old word in a    *)
(* slot a lookup finds (mn_arp.c:104-149).                                 *)
THEOREM CacheStaysCurrent == Spec => []CacheIsCurrent
<1>1. IInv => CacheIsCurrent
  BY DEF IInv, Current, CacheIsCurrent
<1> QED BY <1>1, Invariant, PTL

(* Whatever the services send in one poll, and a client between two, each  *)
(* packet leaves with the MAC of its own next hop: tx_mac, shared by all   *)
(* of them, is never that of the packet before (mn_net.c:178-217).         *)
THEOREM PacketsFindTheirHop == Spec => []PacketsGoToTheirHop
<1>1. IInv => PacketsGoToTheirHop
  <2> SUFFICES ASSUME IInv PROVE PacketsGoToTheirHop
    OBVIOUS
  <2>1. DOMAIN given = 1 .. Len(given)
    BY DEF IInv, Typed
  <2> QED BY <2>1 DEF IInv, AllAimed, PacketsGoToTheirHop
<1> QED BY <1>1, Invariant, PTL

(* A question for our address is answered, to its asker, by the poll that  *)
(* pulls it from the controller (mn_net.c:107-164, mn_arp.c:76-102).       *)
THEOREM AskersAreAnswered == Spec => []AnsweredOnTime
<1>1. IInv => AnsweredOnTime
  BY DEF IInv, AnsweredOnTime
<1> QED BY <1>1, Invariant, PTL

=============================================================================
