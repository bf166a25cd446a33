--------------------------- MODULE ResolverProofs ---------------------------
(***************************************************************************)
(* What holds of the name and time clients and the UDP sockets they borrow *)
(* for any number of sockets, any clock, any ports, whatever datagrams     *)
(* arrive and whatever becomes of what is sent.                            *)
(***************************************************************************)
EXTENDS Resolver, TLAPS, WellFoundedInduction, FiniteSetTheorems

SocketT == [port : Ports \cup {0}, mail : Datagram \cup {None}]
ClientT ==
  [state : States, sock : Sockets \cup {None}, tick : Clock,
   name : Names \cup {None}, result : Names \cup {None},
   tries : 0 .. MaxTries, pending : BOOLEAN, sent_age : Nat]

----------------------------------------------------------------------------
(* The invariant, of any clients cl, sockets s, sockets h of the           *)
(* application and queries a, because a poll runs the clients in turn.     *)

(* Who has which socket.                                                   *)
Owned(cl, s, h) ==
  /\ \A i \in Sockets :
       s[i].port # 0 => i \in h \/ \E k \in Clients : cl[k].sock = i
  /\ \A i \in h : s[i].port # 0
  /\ \A k \in Clients : cl[k].sock # None =>
       /\ cl[k].sock \notin h
       /\ s[cl[k].sock].port = Port(k, cl[k].tick)
  /\ \A k, l \in Clients : k # l /\ cl[k].sock # None => cl[k].sock # cl[l].sock

Distinct(s) ==
  \A i, j \in Sockets : s[i].port = s[j].port /\ i # j => s[i].port = 0

Addressed(s) ==
  \A i \in Sockets :
    s[i].port # 0 /\ s[i].mail # None => s[i].mail.port = s[i].port

(* What a datagram that answers says of the past: the query has left.      *)
Genuine(m, a) ==
  m.kind = "answer" => [from |-> "dns", tick |-> m.id, name |-> m.name] \in a
Answered(s, a) ==
  \A i \in Sockets : s[i].mail # None => Genuine(s[i].mail, a)

SocketsOK(cl, s, h, a) ==
  /\ cl \in [Clients -> ClientT] /\ s \in [Sockets -> SocketT]
  /\ h \subseteq Sockets /\ a \subseteq Query
  /\ Owned(cl, s, h) /\ Distinct(s) /\ Addressed(s) /\ Answered(s, a)

(* What one client has: a socket while it waits, a try left while a send   *)
(* is pending, and an answer to a query that left.                         *)
ClientOK(k, c, a) ==
  /\ c.state = "WAITING" => c.sock # None
  /\ c.sock # None => c.state = "WAITING" \/ (k = "dns" /\ c.state = "FAILED")
  /\ c.state = "WAITING" /\ c.pending => c.tries < MaxTries
  /\ k = "dns" /\ c.state = "DONE" =>
       [from |-> "dns", tick |-> c.tick, name |-> c.result] \in a

Sound(cl, s, h, a) ==
  SocketsOK(cl, s, h, a) /\ \A k \in Clients : ClientOK(k, cl[k], a)

IInv ==
  /\ Sound(client, sock, held, asked)
  /\ now \in Clock /\ starts \in 0 .. MaxStarts

----------------------------------------------------------------------------
(* Ports and sets of sockets. *)

LEMMA MinIn ==
  ASSUME NEW S, S \subseteq Sockets, S # {}
  PROVE  Min(S) \in S
<1> DEFINE R == OpToRel(<, Nat)
<1>1. IsWellFoundedOn(R, Nat)
  BY NatLessThanWellFounded, Zenon
<1>2. \A x, y \in Nat : x <= y \/ <<y, x>> \in R
  BY DEF OpToRel
<1>3. S \subseteq Nat
  BY ResolverAssumption DEF Sockets
<1> HIDE DEF R
<1>4. PICK x \in S : \A y \in S : ~ (<<y, x>> \in R)
  BY <1>1, <1>3, WFMin
<1>5. \A y \in S : x <= y
  BY <1>2, <1>3, <1>4
<1> QED BY <1>5 DEF Min

LEMMA PortType ==
  ASSUME NEW k \in Clients, NEW t \in Clock
  PROVE  Port(k, t) \in Ports /\ Port(k, t) # 0
<1>1. PortSpan \in Nat \ {0} /\ t \in Nat /\ Base(k) \in Nat \ {0}
  BY ResolverAssumption DEF Clock, Base
<1>2. t % PortSpan \in 0 .. PortSpan - 1
  BY <1>1
<1> QED BY <1>1, <1>2 DEF Port, Ports

LEMMA PortsPositive == 0 \notin Ports /\ AppPort \in Ports
<1>1. \A k \in Clients : Base(k) \in Nat \ {0}
  BY ResolverAssumption DEF Base
<1>2. \A n \in 0 .. PortSpan - 1 : n \in Nat
  BY ResolverAssumption
<1>3. AppPort \in Nat \ {0}
  BY ResolverAssumption
<1> QED BY <1>1, <1>2, <1>3 DEF Ports

(* Only index and tick of a client matter to who owns what, and queries    *)
(* are never forgotten.                                                    *)
LEMMA SocketsFrame ==
  ASSUME NEW cl, NEW s, NEW h, NEW a, SocketsOK(cl, s, h, a),
         NEW d \in [Clients -> ClientT],
         \A k \in Clients : d[k].sock = cl[k].sock /\ d[k].tick = cl[k].tick,
         NEW b \in SUBSET Query, a \subseteq b
  PROVE  SocketsOK(d, s, h, b)
<1>1. Owned(d, s, h)
  BY DEF SocketsOK, Owned
<1>2. Answered(s, b)
  BY DEF SocketsOK, Answered, Genuine
<1> QED BY <1>1, <1>2 DEF SocketsOK

LEMMA Opens ==
  ASSUME NEW s \in [Sockets -> SocketT], NEW p \in Ports
  PROVE  LET o == mn_net_udp_open(s, p)
         IN /\ o.index = None => o.sock = s
            /\ o.index # None =>
                 /\ o.index \in Sockets /\ s[o.index].port = 0
                 /\ \A i \in Sockets : s[i].port # p
                 /\ o.sock = [s EXCEPT ![o.index] = [port |-> p, mail |-> None]]
<1>1. CASE MayOpen(s, p)
  <2>1. Min(With(s, 0)) \in With(s, 0)
    BY <1>1, MinIn DEF MayOpen, With
  <2>2. Min(With(s, 0)) # None
    BY <2>1, ResolverAssumption DEF With, Sockets
  <2> QED BY <1>1, <2>1, <2>2 DEF mn_net_udp_open, MayOpen, With, OpenedSocket
<1>2. CASE ~MayOpen(s, p)
  BY <1>2 DEF mn_net_udp_open
<1> QED BY <1>1, <1>2

LEMMA ClosedType == ClosedSocket \in SocketT
BY DEF ClosedSocket, SocketT

(* A client takes a closed socket.                                         *)
LEMMA TakeSocket ==
  ASSUME NEW cl, NEW s, NEW h, NEW a, SocketsOK(cl, s, h, a),
         NEW k \in Clients, cl[k].sock = None,
         NEW c \in ClientT, NEW i \in Sockets, c.sock = i,
         s[i].port = 0, \A j \in Sockets : s[j].port # Port(k, c.tick)
  PROVE  SocketsOK([cl EXCEPT ![k] = c],
                   [s EXCEPT ![i] = [port |-> Port(k, c.tick), mail |-> None]],
                   h, a)
<1> DEFINE d == [cl EXCEPT ![k] = c]
           new == [port |-> Port(k, c.tick), mail |-> None]
           z == [s EXCEPT ![i] = new]
<1>1. /\ cl \in [Clients -> ClientT] /\ s \in [Sockets -> SocketT]
      /\ h \subseteq Sockets /\ a \subseteq Query
      /\ Owned(cl, s, h) /\ Distinct(s) /\ Addressed(s) /\ Answered(s, a)
  BY DEF SocketsOK
<1>2. c.tick \in Clock /\ None \notin Sockets
  BY ResolverAssumption DEF ClientT, Sockets
<1>3. Port(k, c.tick) \in Ports /\ Port(k, c.tick) # 0
  BY <1>2, PortType
<1>4. new \in SocketT /\ new.port = Port(k, c.tick) /\ new.mail = None
  BY <1>3 DEF SocketT
<1>5. /\ d \in [Clients -> ClientT] /\ d[k] = c
      /\ \A l \in Clients \ {k} : d[l] = cl[l]
  BY <1>1
<1>6. /\ z \in [Sockets -> SocketT] /\ z[i] = new
      /\ \A j \in Sockets \ {i} : z[j] = s[j]
  BY <1>1, <1>4
<1>7. ASSUME NEW l \in Clients PROVE cl[l].sock # i
  <2>1. cl[l].tick \in Clock
    BY <1>1 DEF ClientT
  <2>2. Port(l, cl[l].tick) # 0
    BY <2>1, PortType
  <2> QED BY <1>1, <1>2, <2>2 DEF Owned
<1> HIDE DEF d, z, new
<1>8. Owned(d, z, h)
  <2>1. ASSUME NEW j \in Sockets, z[j].port # 0
        PROVE  j \in h \/ \E l \in Clients : d[l].sock = j
    BY <1>1, <1>5, <1>6, <2>1, <1>2 DEF Owned
  <2>2. i \notin h
    BY <1>1 DEF Owned
  <2>3. ASSUME NEW j \in h PROVE z[j].port # 0
    BY <1>1, <1>6, <2>2 DEF Owned
  <2>4. ASSUME NEW l \in Clients, d[l].sock # None
        PROVE  d[l].sock \notin h /\ z[d[l].sock].port = Port(l, d[l].tick)
    <3>1. CASE l = k
      BY <1>4, <1>5, <1>6, <2>2, <3>1
    <3>2. CASE l # k
      <4>1. d[l] = cl[l] /\ cl[l].sock # i /\ cl[l].sock \in Sockets
        BY <1>1, <1>5, <1>7, <2>4, <3>2 DEF ClientT
      <4> QED BY <1>1, <1>6, <2>4, <4>1 DEF Owned
    <3> QED BY <3>1, <3>2
  <2>5. ASSUME NEW l \in Clients, NEW m \in Clients, l # m, d[l].sock # None
        PROVE  d[l].sock # d[m].sock
    BY <1>1, <1>5, <1>7, <2>5 DEF Owned
  <2> QED BY <2>1, <2>3, <2>4, <2>5 DEF Owned
<1>9. Distinct(z)
  BY <1>1, <1>3, <1>4, <1>6 DEF Distinct
<1>10. Addressed(z) /\ Answered(z, a)
  BY <1>1, <1>4, <1>6 DEF Addressed, Answered
<1> QED BY <1>1, <1>5, <1>6, <1>8, <1>9, <1>10 DEF SocketsOK, d, z, new

(* A client gives its socket back.                                         *)
LEMMA GiveSocket ==
  ASSUME NEW cl, NEW s, NEW h, NEW a, SocketsOK(cl, s, h, a),
         NEW k \in Clients, NEW c \in ClientT, c.sock = None
  PROVE  /\ SocketsOK([cl EXCEPT ![k] = c], mn_net_udp_close(s, cl[k].sock), h, a)
         /\ mn_net_udp_close(s, cl[k].sock) \in [Sockets -> SocketT]
<1> DEFINE d == [cl EXCEPT ![k] = c]
           z == mn_net_udp_close(s, cl[k].sock)
<1>1. /\ cl \in [Clients -> ClientT] /\ s \in [Sockets -> SocketT]
      /\ h \subseteq Sockets /\ a \subseteq Query
      /\ Owned(cl, s, h) /\ Distinct(s) /\ Addressed(s) /\ Answered(s, a)
  BY DEF SocketsOK
<1>2. None \notin Sockets /\ cl[k].sock \in Sockets \cup {None}
  BY <1>1, ResolverAssumption DEF ClientT, Sockets
<1>3. /\ d \in [Clients -> ClientT] /\ d[k] = c
      /\ \A l \in Clients \ {k} : d[l] = cl[l]
  BY <1>1
<1>4. /\ z \in [Sockets -> SocketT]
      /\ \A j \in Sockets : j = cl[k].sock => z[j] = ClosedSocket
      /\ \A j \in Sockets : j # cl[k].sock => z[j] = s[j]
  BY <1>1, <1>2, ClosedType DEF mn_net_udp_close
<1> HIDE DEF d, z
<1>5. ClosedSocket.port = 0 /\ ClosedSocket.mail = None
  BY DEF ClosedSocket
<1>6. Owned(d, z, h)
  <2>1. ASSUME NEW j \in Sockets, z[j].port # 0
        PROVE  j \in h \/ \E l \in Clients : d[l].sock = j
    BY <1>1, <1>2, <1>3, <1>4, <1>5, <2>1 DEF Owned
  <2>2. ASSUME NEW j \in h PROVE z[j].port # 0
    <3>1. j \in Sockets /\ j # cl[k].sock
      BY <1>1, <1>2 DEF Owned
    <3> QED BY <1>1, <1>4, <3>1 DEF Owned
  <2>3. ASSUME NEW l \in Clients, d[l].sock # None
        PROVE  d[l].sock \notin h /\ z[d[l].sock].port = Port(l, d[l].tick)
    <3>1. l # k /\ d[l] = cl[l] /\ cl[l].sock \in Sockets
      BY <1>1, <1>3, <2>3 DEF ClientT
    <3>2. cl[l].sock # cl[k].sock
      BY <1>1, <2>3, <3>1 DEF Owned
    <3> QED BY <1>1, <1>4, <2>3, <3>1, <3>2 DEF Owned
  <2>4. ASSUME NEW l \in Clients, NEW m \in Clients, l # m, d[l].sock # None
        PROVE  d[l].sock # d[m].sock
    BY <1>1, <1>3, <2>4 DEF Owned
  <2> QED BY <2>1, <2>2, <2>3, <2>4 DEF Owned
<1>7. Distinct(z)
  BY <1>1, <1>4, <1>5 DEF Distinct
<1>8. Addressed(z) /\ Answered(z, a)
  BY <1>1, <1>4, <1>5 DEF Addressed, Answered
<1> QED BY <1>1, <1>3, <1>4, <1>6, <1>7, <1>8 DEF SocketsOK, d, z

(* A mailbox is emptied, or filled with what is for its port.              *)
LEMMA MailKeeps ==
  ASSUME NEW cl, NEW s, NEW h, NEW a, SocketsOK(cl, s, h, a),
         NEW i \in Sockets, NEW m \in Datagram \cup {None},
         m # None => s[i].port = m.port /\ Genuine(m, a)
  PROVE  SocketsOK(cl, [s EXCEPT ![i].mail = m], h, a)
<1> DEFINE z == [s EXCEPT ![i].mail = m]
<1>1. /\ cl \in [Clients -> ClientT] /\ s \in [Sockets -> SocketT]
      /\ h \subseteq Sockets /\ a \subseteq Query
      /\ Owned(cl, s, h) /\ Distinct(s) /\ Addressed(s) /\ Answered(s, a)
  BY DEF SocketsOK
<1>2. z[i] = [s[i] EXCEPT !.mail = m] /\ \A j \in Sockets \ {i} : z[j] = s[j]
  BY <1>1
<1>3. z[i] \in SocketT /\ z[i].port = s[i].port /\ z[i].mail = m
  BY <1>1, <1>2 DEF SocketT
<1>4. z \in [Sockets -> SocketT] /\ \A j \in Sockets : z[j].port = s[j].port
  BY <1>1, <1>2, <1>3
<1> HIDE DEF z
<1>5. \A l \in Clients : cl[l].sock # None => cl[l].sock \in Sockets
  BY <1>1 DEF ClientT
<1>6. Owned(cl, z, h)
  BY <1>1, <1>4, <1>5 DEF Owned
<1>7. Distinct(z)
  BY <1>1, <1>4 DEF Distinct
<1>8. Addressed(z)
  BY <1>1, <1>2, <1>3 DEF Addressed
<1>9. Answered(z, a)
  BY <1>1, <1>2, <1>3 DEF Answered
<1> QED BY <1>1, <1>4, <1>6, <1>7, <1>8, <1>9 DEF SocketsOK, z

LEMMA DeliverKeeps ==
  ASSUME NEW cl, NEW s, NEW h, NEW a, SocketsOK(cl, s, h, a),
         NEW m \in Datagram \cup {None}, m # None => Genuine(m, a)
  PROVE  SocketsOK(cl, deliver_udp(s, m), h, a)
<1> DEFINE i == Min(With(s, m.port))
<1>1. CASE m = None \/ With(s, m.port) = {} \/ s[i].mail # None
  BY <1>1 DEF deliver_udp
<1>2. CASE ~(m = None \/ With(s, m.port) = {} \/ s[i].mail # None)
  <2>1. i \in With(s, m.port)
    BY <1>2, MinIn DEF With
  <2>2. i \in Sockets /\ s[i].port = m.port
    BY <2>1 DEF With
  <2>3. deliver_udp(s, m) = [s EXCEPT ![i].mail = m]
    BY <1>2 DEF deliver_udp
  <2>4. m # None => s[i].port = m.port /\ Genuine(m, a)
    BY <2>2
  <2> HIDE DEF i
  <2>5. SocketsOK(cl, [s EXCEPT ![i].mail = m], h, a)
    BY <2>2, <2>4, MailKeeps
  <2> QED BY <2>3, <2>5
<1> QED BY <1>1, <1>2

LEMMA EmptiedKeeps ==
  ASSUME NEW cl, NEW s, NEW h, NEW a, SocketsOK(cl, s, h, a), NEW i \in Sockets
  PROVE  SocketsOK(cl, Emptied(s, i), h, a)
BY MailKeeps DEF Emptied

----------------------------------------------------------------------------
(* One client. *)

(* One client has changed, and the others may only have seen more queries. *)
LEMMA OneChanged ==
  ASSUME NEW cl, NEW a, \A l \in Clients : ClientOK(l, cl[l], a),
         NEW k \in Clients, NEW d, NEW z, NEW h, NEW b, a \subseteq b,
         SocketsOK(d, z, h, b), ClientOK(k, d[k], b),
         \A l \in Clients \ {k} : d[l] = cl[l]
  PROVE  Sound(d, z, h, b)
<1>1. ASSUME NEW l \in Clients PROVE ClientOK(l, d[l], b)
  <2>1. CASE l = k
    BY <2>1
  <2>2. CASE l # k
    <3>1. ClientOK(l, cl[l], a) /\ d[l] = cl[l]
      BY <2>2
    <3> QED BY <3>1 DEF ClientOK
  <2> QED BY <2>1, <2>2
<1> QED BY <1>1 DEF Sound

(* What transmit makes of a client that waits and has a try left.          *)
LEMMA TransmitStep ==
  ASSUME NEW k \in Clients, NEW c \in ClientT, NEW s, NEW n \in transmit(k, c, s),
         c.state = "WAITING", c.sock # None, c.tries < MaxTries, NEW b
  PROVE  /\ n.sock = s /\ n.c \in ClientT /\ n.out \subseteq Query
         /\ n.c.sock = c.sock /\ n.c.tick = c.tick
         /\ ClientOK(k, n.c, b)
<1>1. c.tries \in 0 .. MaxTries /\ c.tries + 1 \in 0 .. MaxTries
  <2>1. MaxTries \in Nat
    BY ResolverAssumption
  <2>2. c.tries \in 0 .. MaxTries
    BY DEF ClientT
  <2> QED BY <2>1, <2>2
<1>2. CASE k = "dns" /\ c.name \in Malformed
  <2>1. n.c = [c EXCEPT !.state = "FAILED"] /\ n.sock = s /\ n.out = {}
    BY <1>2 DEF transmit, Same
  <2>2. /\ n.c \in ClientT /\ n.c.state = "FAILED" /\ n.c.sock = c.sock
        /\ n.c.tick = c.tick
    BY <2>1 DEF ClientT, States
  <2> QED BY <1>2, <2>1, <2>2 DEF ClientOK
<1>3. CASE ~(k = "dns" /\ c.name \in Malformed)
  <2>1. PICK r \in SendResult :
          n = [c |-> [c EXCEPT !.pending = r = "PENDING", !.sent_age = 0,
                               !.tries = IF Counts(r) THEN @ + 1 ELSE @],
               sock |-> s,
               out |-> IF r = "OK"
                       THEN {[from |-> k, tick |-> c.tick, name |-> c.name]}
                       ELSE {}]
    BY <1>3 DEF transmit
  <2>2. PICK p \in BOOLEAN, t \in 0 .. MaxTries :
          /\ n.c = [c EXCEPT !.pending = p, !.sent_age = 0, !.tries = t]
          /\ p => t = c.tries
    <3>1. CASE r = "PENDING"
      <4>1. n.c = [c EXCEPT !.pending = TRUE, !.sent_age = 0, !.tries = c.tries]
        BY <2>1, <3>1 DEF Counts
      <4> QED BY <1>1, <4>1
    <3>2. CASE r # "PENDING"
      <4>1. n.c = [c EXCEPT !.pending = FALSE, !.sent_age = 0, !.tries = c.tries + 1]
        BY <2>1, <3>2 DEF Counts
      <4> QED BY <1>1, <4>1
    <3> QED BY <3>1, <3>2
  <2>3. n.sock = s
    BY <2>1
  <2>4. /\ n.c.sock = c.sock /\ n.c.tick = c.tick
        /\ n.c.state = "WAITING" /\ n.c.tries = t
    BY <2>2 DEF ClientT
  <2>5. n.c.pending = p
    BY <2>2, Zenon DEF ClientT
  <2>6. n.c \in ClientT
    <3> DEFINE v == [c EXCEPT !.pending = p, !.sent_age = 0, !.tries = t]
    <3>1. v \in ClientT
      BY <2>2 DEF ClientT
    <3> QED BY <2>2, <3>1
  <2>7. n.out \subseteq Query
    BY <2>1 DEF Query, ClientT
  <2>8. n.c.pending => n.c.tries < MaxTries
    BY <2>2, <2>4, <2>5
  <2>9. ClientOK(k, n.c, b)
    BY <2>4, <2>8 DEF ClientOK
  <2> QED BY <2>3, <2>4, <2>6, <2>7, <2>9
<1> QED BY <1>2, <1>3

LEMMA TransmitSound ==
  ASSUME NEW cl, NEW s, NEW h, NEW a, SocketsOK(cl, s, h, a),
         NEW k \in Clients, NEW n \in transmit(k, cl[k], s),
         \A l \in Clients \ {k} : ClientOK(l, cl[l], a),
         cl[k].state = "WAITING", cl[k].sock # None, cl[k].tries < MaxTries
  PROVE  Sound([cl EXCEPT ![k] = n.c], n.sock, h, a \cup n.out)
<1> DEFINE d == [cl EXCEPT ![k] = n.c]
           b == a \cup n.out
<1>1. cl \in [Clients -> ClientT] /\ a \subseteq Query
  BY DEF SocketsOK
<1>2. /\ n.sock = s /\ n.c \in ClientT /\ n.out \subseteq Query
      /\ n.c.sock = cl[k].sock /\ n.c.tick = cl[k].tick
      /\ ClientOK(k, n.c, b)
  BY <1>1, TransmitStep
<1>3. /\ d \in [Clients -> ClientT] /\ d[k] = n.c
      /\ \A l \in Clients \ {k} : d[l] = cl[l]
  BY <1>1, <1>2
<1>4. b \in SUBSET Query /\ a \subseteq b
  BY <1>1, <1>2
<1> HIDE DEF d, b
<1>5. \A l \in Clients : d[l].sock = cl[l].sock /\ d[l].tick = cl[l].tick
  BY <1>2, <1>3
<1>6. SocketsOK(d, s, h, b)
  BY <1>3, <1>4, <1>5, SocketsFrame
<1>7. \A l \in Clients \ {k} : ClientOK(l, d[l], b)
  BY <1>3, <1>4 DEF ClientOK
<1>8. Sound(d, s, h, b)
  BY <1>2, <1>3, <1>6, <1>7 DEF Sound
<1> QED BY <1>2, <1>8 DEF d, b

(* A client ends and gives its socket back.                                *)
LEMMA FinishSound ==
  ASSUME NEW cl, NEW s, NEW h, NEW a, SocketsOK(cl, s, h, a),
         NEW k \in Clients, NEW c \in ClientT, c.sock = cl[k].sock,
         \A l \in Clients \ {k} : ClientOK(l, cl[l], a),
         NEW e \in {"DONE", "FAILED"}, NEW n \in Finish(c, s, e),
         k = "dns" /\ e = "DONE" =>
           [from |-> "dns", tick |-> c.tick, name |-> c.result] \in a
  PROVE  Sound([cl EXCEPT ![k] = n.c], n.sock, h, a \cup n.out)
<1> DEFINE v == [c EXCEPT !.state = e, !.sock = None]
<1>1. /\ n.c = v /\ n.out = {}
      /\ n.sock = mn_net_udp_close(s, cl[k].sock)
  BY DEF Finish, Same, Released
<1>2. /\ v \in ClientT /\ v.state = e /\ v.sock = None /\ v.tick = c.tick
      /\ v.result = c.result
  BY DEF ClientT, States
<1> HIDE DEF v
<1>3. cl \in [Clients -> ClientT]
  BY DEF SocketsOK
<1> DEFINE d == [cl EXCEPT ![k] = v]
<1>4. d[k] = v /\ \A l \in Clients \ {k} : d[l] = cl[l]
  BY <1>3
<1>5. SocketsOK(d, n.sock, h, a)
  BY <1>1, <1>2, GiveSocket
<1>6. ClientOK(k, v, a)
  BY <1>2 DEF ClientOK
<1> HIDE DEF d
<1>7. Sound(d, n.sock, h, a)
  BY <1>4, <1>5, <1>6 DEF Sound
<1> QED BY <1>1, <1>7 DEF d

LEMMA StartSound ==
  ASSUME NEW cl, NEW s, NEW h, NEW a, Sound(cl, s, h, a), now \in Clock,
         NEW k \in Clients, NEW name \in Names \cup {None},
         NEW n \in start(k, cl[k], s, name)
  PROVE  Sound([cl EXCEPT ![k] = n.c], n.sock, h, a \cup n.out)
<1> DEFINE z == mn_net_udp_close(s, cl[k].sock)
           o == mn_net_udp_open(z, Port(k, now))
           st == IF o.index = None THEN "FAILED" ELSE "WAITING"
           v == [cl[k] EXCEPT !.sock = o.index, !.tick = now, !.name = name,
                              !.result = None, !.tries = 0, !.state = st]
           none == [cl[k] EXCEPT !.sock = None]
           e == [cl EXCEPT ![k] = none]
<1>1. /\ SocketsOK(cl, s, h, a) /\ cl \in [Clients -> ClientT]
      /\ \A l \in Clients : ClientOK(l, cl[l], a)
  BY DEF Sound, SocketsOK
<1>2. none \in ClientT /\ none.sock = None
  BY <1>1 DEF ClientT
<1>3. SocketsOK(e, z, h, a) /\ z \in [Sockets -> SocketT]
  BY <1>1, <1>2, GiveSocket
<1>4. e[k] = none /\ \A l \in Clients \ {k} : e[l] = cl[l]
  BY <1>1
<1>5. Port(k, now) \in Ports
  BY PortType
<1>6. /\ o.index = None => o.sock = z
      /\ o.index # None =>
           /\ o.index \in Sockets /\ z[o.index].port = 0
           /\ \A i \in Sockets : z[i].port # Port(k, now)
           /\ o.sock = [z EXCEPT ![o.index] = [port |-> Port(k, now), mail |-> None]]
  BY <1>3, <1>5, Opens
<1>7. n \in IF o.index = None THEN Same(v, o.sock) ELSE transmit(k, v, o.sock)
  BY DEF start, Reclaimed
<1> HIDE DEF z, o, none, e
<1>8. st \in States /\ o.index \in Sockets \cup {None} /\ 0 \in 0 .. MaxTries
  BY <1>6, ResolverAssumption DEF States
<1>9. /\ v \in ClientT /\ v.sock = o.index /\ v.tick = now /\ v.tries = 0
      /\ v.state = st
  <2> HIDE DEF st
  <2> QED BY <1>1, <1>8 DEF ClientT
<1> HIDE DEF v
<1>10. CASE o.index = None
  <2>1. n.c = v /\ n.sock = z /\ n.out = {}
    BY <1>6, <1>7, <1>10 DEF Same
  <2> DEFINE d == [cl EXCEPT ![k] = v]
  <2>2. SocketsOK(d, z, h, a)
    BY <1>1, <1>9, <1>10, GiveSocket DEF z
  <2>3. d[k] = v /\ \A l \in Clients \ {k} : d[l] = cl[l]
    BY <1>1
  <2>4. ClientOK(k, v, a)
    BY <1>9, <1>10 DEF ClientOK
  <2> HIDE DEF d
  <2>5. Sound(d, z, h, a)
    BY <1>1, <2>2, <2>3, <2>4 DEF Sound
  <2> QED BY <2>1, <2>5 DEF d
<1>11. CASE o.index # None
  <2> DEFINE f == [e EXCEPT ![k] = v]
  <2>1. /\ o.index \in Sockets /\ v.sock = o.index /\ e[k].sock = None
        /\ z[o.index].port = 0
        /\ \A j \in Sockets : z[j].port # Port(k, v.tick)
        /\ o.sock = [z EXCEPT ![o.index] = [port |-> Port(k, v.tick), mail |-> None]]
    BY <1>2, <1>4, <1>6, <1>9, <1>11
  <2> DEFINE i == o.index
             y == [z EXCEPT ![i] = [port |-> Port(k, v.tick), mail |-> None]]
  <2>2. SocketsOK(f, y, h, a)
    <3> HIDE DEF i
    <3>1. /\ i \in Sockets /\ v.sock = i /\ z[i].port = 0
      BY <2>1 DEF i
    <3> QED BY <1>3, <1>9, <2>1, <3>1, TakeSocket
  <2>3. SocketsOK(f, o.sock, h, a)
    BY <2>1, <2>2
  <2>4. e \in [Clients -> ClientT]
    BY <1>3 DEF SocketsOK
  <2>5. f[k] = v /\ \A l \in Clients \ {k} : f[l] = cl[l]
    BY <1>4, <2>4
  <2>6. n \in transmit(k, f[k], o.sock)
    BY <1>7, <1>11, <2>5
  <2>7. f[k].state = "WAITING" /\ f[k].sock # None /\ f[k].tries < MaxTries
    <3>1. 0 < MaxTries
      BY ResolverAssumption
    <3> QED BY <1>9, <1>11, <2>5, <3>1
  <2>8. [f EXCEPT ![k] = n.c] = [cl EXCEPT ![k] = n.c]
    BY <1>1, <2>4 DEF e
  <2>9. \A l \in Clients \ {k} : ClientOK(l, f[l], a)
    BY <1>1, <2>5
  <2> HIDE DEF f
  <2>10. Sound([f EXCEPT ![k] = n.c], n.sock, h, a \cup n.out)
    BY <2>3, <2>6, <2>7, <2>9, TransmitSound
  <2> QED BY <2>8, <2>10
<1> QED BY <1>10, <1>11

LEMMA DueSound ==
  ASSUME NEW cl, NEW s, NEW h, NEW a, Sound(cl, s, h, a),
         NEW k \in Clients, cl[k].state = "WAITING", NEW n \in Due(k, cl[k], s)
  PROVE  Sound([cl EXCEPT ![k] = n.c], n.sock, h, a \cup n.out)
<1> DEFINE c == cl[k]
<1>1. /\ SocketsOK(cl, s, h, a) /\ cl \in [Clients -> ClientT]
      /\ \A l \in Clients : ClientOK(l, cl[l], a)
  BY DEF Sound, SocketsOK
<1>2. CASE c.pending \/ (c.sent_age >= Retry(k) /\ MayRetry(c))
  <2>1. n \in transmit(k, c, s)
    BY <1>2 DEF Due
  <2>2. c.sock # None /\ c.tries < MaxTries
    BY <1>1, <1>2 DEF ClientOK, MayRetry
  <2> QED BY <1>1, <2>1, <2>2, TransmitSound
<1>3. CASE /\ ~(c.pending \/ (c.sent_age >= Retry(k) /\ MayRetry(c)))
           /\ c.sent_age >= Retry(k)
  <2>1. n \in Finish(c, s, "FAILED")
    BY <1>3 DEF Due
  <2> QED BY <1>1, <2>1, FinishSound
<1>4. CASE /\ ~(c.pending \/ (c.sent_age >= Retry(k) /\ MayRetry(c)))
           /\ ~(c.sent_age >= Retry(k))
  <2>1. n.c = c /\ n.sock = s /\ n.out = {}
    BY <1>4 DEF Due, Same
  <2> QED BY <1>1, <2>1
<1> QED BY <1>2, <1>3, <1>4

LEMMA PollSound ==
  ASSUME NEW cl, NEW s, NEW h, NEW a, Sound(cl, s, h, a),
         NEW k \in Clients, NEW n \in poll(k, cl[k], s)
  PROVE  Sound([cl EXCEPT ![k] = n.c], n.sock, h, a \cup n.out)
<1> DEFINE c == cl[k]
           i == c.sock
           m == s[i].mail
           out == Outcome(k, c, m)
<1>1. /\ SocketsOK(cl, s, h, a) /\ cl \in [Clients -> ClientT]
      /\ \A l \in Clients : ClientOK(l, cl[l], a)
      /\ Answered(s, a) /\ s \in [Sockets -> SocketT]
  BY DEF Sound, SocketsOK
<1>2. CASE c.state # "WAITING"
  <2>1. n.c = c /\ n.sock = s /\ n.out = {}
    BY <1>2 DEF poll, Same
  <2> QED BY <1>1, <2>1
<1>3. CASE c.state = "WAITING" /\ m = None
  <2>1. n \in Due(k, c, s)
    BY <1>3 DEF poll
  <2> QED BY <1>3, <2>1, DueSound
<1>4. CASE c.state = "WAITING" /\ m # None
  <2>1. i \in Sockets
    <3>1. c.sock # None /\ c \in ClientT
      BY <1>1, <1>4 DEF ClientOK
    <3> QED BY <3>1 DEF ClientT
  <2>2. m \in Datagram /\ Genuine(m, a)
    BY <1>1, <1>4, <2>1 DEF SocketT, Answered
  <2>3. SocketsOK(cl, Emptied(s, i), h, a)
    BY <1>1, <2>1, EmptiedKeeps
  <2>4. Sound(cl, Emptied(s, i), h, a)
    BY <1>1, <2>3 DEF Sound
  <2>5. CASE out = "WAITING"
    <3>1. n \in Due(k, c, Emptied(s, i))
      BY <1>4, <2>5 DEF poll
    <3> QED BY <1>4, <2>4, <3>1, DueSound
  <2>6. CASE out # "WAITING"
    <3> DEFINE r == IF out = "DONE" THEN m.name ELSE None
               v == [c EXCEPT !.result = r]
    <3>1. out \in {"DONE", "FAILED"}
      BY <2>6 DEF Outcome
    <3>2. n \in Finish(v, Emptied(s, i), out)
      BY <1>4, <2>6 DEF poll
    <3>3. k = "dns" /\ out = "DONE" =>
            m.id = c.tick /\ m.kind = "answer" /\ r = m.name
      BY DEF Outcome, Ours
    <3>4. r \in Names \cup {None}
      BY <2>2 DEF Datagram
    <3>5. k = "dns" /\ out = "DONE" =>
            [from |-> "dns", tick |-> c.tick, name |-> r] \in a
      BY <2>2, <3>3 DEF Genuine
    <3> HIDE DEF r, out
    <3>6. v \in ClientT /\ v.sock = c.sock /\ v.tick = c.tick /\ v.result = r
      BY <1>1, <3>4 DEF ClientT
    <3> HIDE DEF v
    <3> QED BY <1>1, <2>3, <3>1, <3>2, <3>5, <3>6, FinishSound
  <2> QED BY <2>5, <2>6
<1> QED BY <1>2, <1>3, <1>4

----------------------------------------------------------------------------
(* The steps of the specification. *)

LEMMA StartKeeps ==
  ASSUME IInv, NEW k \in Clients, NEW name \in Names \cup {None}, Start(k, name)
  PROVE  IInv'
<1>1. PICK n \in start(k, client[k], sock, name) :
        /\ client' = [client EXCEPT ![k] = n.c]
        /\ sock' = n.sock /\ asked' = asked \cup n.out
  BY DEF Start
<1>2. held' = held /\ now' = now /\ starts' \in 0 .. MaxStarts
  BY ResolverAssumption DEF Start, IInv
<1>3. Sound([client EXCEPT ![k] = n.c], n.sock, held, asked \cup n.out)
  BY StartSound DEF IInv
<1> QED BY <1>1, <1>2, <1>3 DEF IInv

LEMMA PollKeeps ==
  ASSUME IInv, NEW m \in Datagram \cup {None}, m # None => Genuine(m, asked),
         PollWith(m)
  PROVE  IInv'
<1> DEFINE z == deliver_udp(sock, m)
<1>1. Sound(client, sock, held, asked) /\ client \in [Clients -> ClientT]
  BY DEF IInv, Sound, SocketsOK
<1>2. Sound(client, z, held, asked)
  BY <1>1, DeliverKeeps DEF Sound
<1> HIDE DEF z
<1>3. PICK d \in poll("dns", client["dns"], z) :
        \E n \in poll("ntp", client["ntp"], d.sock) :
          /\ client' = [k \in Clients |-> IF k = "dns" THEN d.c ELSE n.c]
          /\ sock' = n.sock /\ asked' = asked \cup d.out \cup n.out
  BY DEF PollWith, z
<1>4. PICK n \in poll("ntp", client["ntp"], d.sock) :
        /\ client' = [k \in Clients |-> IF k = "dns" THEN d.c ELSE n.c]
        /\ sock' = n.sock /\ asked' = asked \cup d.out \cup n.out
  BY <1>3
<1> DEFINE e == [client EXCEPT !["dns"] = d.c]
           b == asked \cup d.out
<1>5. "dns" \in Clients /\ "ntp" \in Clients
  BY DEF Clients
<1>6. Sound(e, d.sock, held, b)
  BY <1>2, <1>5, PollSound
<1>7. e["ntp"] = client["ntp"]
  BY <1>1, <1>5
<1>8. client' = [e EXCEPT !["ntp"] = n.c]
  BY <1>1, <1>4 DEF Clients
<1> HIDE DEF e, b
<1>9. Sound([e EXCEPT !["ntp"] = n.c], n.sock, held, b \cup n.out)
  BY <1>5, <1>6, <1>7, PollSound
<1>10. asked' = b \cup n.out /\ sock' = n.sock
  BY <1>4 DEF b
<1>11. held' = held /\ now' = now /\ starts' = starts
  BY DEF PollWith
<1>12. Sound(client', sock', held', asked')
  BY <1>8, <1>9, <1>10, <1>11
<1> QED BY <1>11, <1>12 DEF IInv

(* What arrives is what a server makes of a query that has left, or does   *)
(* not pass for an answer.                                                 *)
LEMMA RepliesGenuine ==
  ASSUME NEW q \in Query, q \in asked, NEW m \in Replies(q)
  PROVE  m \in Datagram /\ Genuine(m, asked)
<1>1. q.from \in Clients /\ q.tick \in Clock /\ q.name \in Names \cup {None}
  BY DEF Query
<1>2. Port(q.from, q.tick) \in Ports
  BY <1>1, PortType
<1>3. CASE q.from = "dns"
  <2>1. /\ m \in [port : {Port("dns", q.tick)}, id : {q.tick}, kind : Kinds,
                  name : {q.name}, time : BOOLEAN]
    BY <1>3 DEF Replies
  <2>2. m \in Datagram /\ m.id = q.tick /\ m.name = q.name
    BY <1>1, <1>2, <1>3, <2>1 DEF Datagram
  <2>3. q = [from |-> "dns", tick |-> q.tick, name |-> q.name]
    BY <1>3 DEF Query
  <2> QED BY <2>2, <2>3 DEF Genuine
<1>4. CASE q.from # "dns"
  <2>1. m \in [port : {Port("ntp", q.tick)}, id : {None}, kind : {"other"},
               name : {None}, time : BOOLEAN]
    BY <1>4 DEF Replies
  <2>2. Port("ntp", q.tick) \in Ports
    BY <1>1, <1>2, <1>4 DEF Clients
  <2> QED BY <2>1, <2>2 DEF Datagram, Kinds, Genuine
<1> QED BY <1>3, <1>4

LEMMA StraysGenuine ==
  ASSUME NEW m \in Strays
  PROVE  m \in Datagram /\ Genuine(m, asked)
BY DEF Strays, Datagram, Kinds, Genuine

LEMMA AppOpenKeeps == ASSUME IInv, AppOpen PROVE IInv'
<1> DEFINE o == mn_net_udp_open(sock, AppPort)
           i == o.index
           new == [port |-> AppPort, mail |-> None]
           z == [sock EXCEPT ![i] = new]
           g == held \cup {i}
<1>1. /\ client \in [Clients -> ClientT] /\ sock \in [Sockets -> SocketT]
      /\ held \subseteq Sockets /\ asked \subseteq Query
      /\ Owned(client, sock, held) /\ Distinct(sock)
      /\ Addressed(sock) /\ Answered(sock, asked)
      /\ \A l \in Clients : ClientOK(l, client[l], asked)
  BY DEF IInv, Sound, SocketsOK
<1>2. i # None /\ sock' = o.sock /\ held' = g
      /\ UNCHANGED <<client, now, asked, starts>>
  BY DEF AppOpen
<1>3. AppPort \in Ports /\ AppPort # 0
  BY PortsPositive
<1>4. /\ i \in Sockets /\ sock[i].port = 0
      /\ \A j \in Sockets : sock[j].port # AppPort
      /\ sock' = z
  BY <1>1, <1>2, <1>3, Opens
<1>5. new \in SocketT /\ new.port = AppPort /\ new.mail = None
  BY <1>3 DEF SocketT
<1> HIDE DEF o, i, new
<1>6. /\ z \in [Sockets -> SocketT] /\ z[i] = new
      /\ \A j \in Sockets \ {i} : z[j] = sock[j]
  BY <1>1, <1>4, <1>5
<1> HIDE DEF z
<1>7. i \notin held
  BY <1>1, <1>4 DEF Owned
<1>8. ASSUME NEW l \in Clients PROVE client[l].sock # i
  <2>1. client[l] \in ClientT
    BY <1>1
  <2>2. client[l].tick \in Clock
    BY <2>1 DEF ClientT
  <2>3. Port(l, client[l].tick) # 0
    BY <2>2, PortType
  <2> QED BY <1>1, <1>2, <1>4, <2>3 DEF Owned
<1>9. \A l \in Clients : client[l].sock # None => client[l].sock \in Sockets
  BY <1>1 DEF ClientT
<1>10. Owned(client, z, g)
  BY <1>1, <1>3, <1>4, <1>5, <1>6, <1>7, <1>8, <1>9 DEF Owned
<1>11. Distinct(z)
  BY <1>1, <1>3, <1>4, <1>5, <1>6 DEF Distinct
<1>12. Addressed(z) /\ Answered(z, asked)
  BY <1>1, <1>5, <1>6 DEF Addressed, Answered
<1>13. SocketsOK(client, z, g, asked)
  BY <1>1, <1>4, <1>6, <1>10, <1>11, <1>12 DEF SocketsOK
<1> QED BY <1>1, <1>2, <1>4, <1>13 DEF IInv, Sound

LEMMA AppCloseKeeps == ASSUME IInv, AppClose PROVE IInv'
<1>1. /\ client \in [Clients -> ClientT] /\ sock \in [Sockets -> SocketT]
      /\ held \subseteq Sockets /\ asked \subseteq Query
      /\ Owned(client, sock, held) /\ Distinct(sock)
      /\ Addressed(sock) /\ Answered(sock, asked)
      /\ \A l \in Clients : ClientOK(l, client[l], asked)
  BY DEF IInv, Sound, SocketsOK
<1>2. PICK i \in held : sock' = mn_net_udp_close(sock, i) /\ held' = held \ {i}
  BY DEF AppClose
<1>3. i \in Sockets /\ i # None
  BY <1>1, ResolverAssumption DEF Sockets
<1> DEFINE z == [sock EXCEPT ![i] = ClosedSocket]
           g == held \ {i}
<1>4. sock' = z
  BY <1>2, <1>3 DEF mn_net_udp_close
<1>5. ClosedSocket.port = 0 /\ ClosedSocket.mail = None
  BY DEF ClosedSocket
<1>6. /\ z \in [Sockets -> SocketT] /\ z[i] = ClosedSocket
      /\ \A j \in Sockets \ {i} : z[j] = sock[j]
  BY <1>1, <1>3, ClosedType
<1> HIDE DEF z
<1>7. \A l \in Clients : client[l].sock # None => client[l].sock \in Sockets \ {i}
  BY <1>1, <1>2 DEF Owned, ClientT
<1>8. Owned(client, z, g)
  BY <1>1, <1>5, <1>6, <1>7 DEF Owned
<1>9. Distinct(z)
  BY <1>1, <1>5, <1>6 DEF Distinct
<1>10. Addressed(z) /\ Answered(z, asked)
  BY <1>1, <1>5, <1>6 DEF Addressed, Answered
<1>11. SocketsOK(client, z, g, asked)
  BY <1>1, <1>6, <1>8, <1>9, <1>10 DEF SocketsOK
<1>12. UNCHANGED <<client, now, asked, starts>>
  BY DEF AppClose
<1> QED BY <1>1, <1>2, <1>4, <1>11, <1>12 DEF IInv, Sound

LEMMA AppRecvKeeps == ASSUME IInv, AppRecv PROVE IInv'
<1>1. PICK i \in held : sock' = Emptied(sock, i)
  BY DEF AppRecv
<1>2. UNCHANGED <<client, held, now, asked, starts>>
  BY DEF AppRecv
<1>3. SocketsOK(client, Emptied(sock, i), held, asked)
  BY EmptiedKeeps DEF IInv, Sound, SocketsOK
<1> QED BY <1>1, <1>2, <1>3 DEF IInv, Sound

LEMMA NoServerKeeps == ASSUME IInv, DnsStartNoServer PROVE IInv'
<1> DEFINE v == [client["dns"] EXCEPT !.state = "FAILED"]
           d == [client EXCEPT !["dns"] = v]
<1>1. /\ SocketsOK(client, sock, held, asked) /\ client \in [Clients -> ClientT]
      /\ asked \subseteq Query
      /\ \A l \in Clients : ClientOK(l, client[l], asked)
  BY DEF IInv, Sound, SocketsOK
<1>2. "dns" \in Clients /\ client["dns"] \in ClientT
  BY <1>1 DEF Clients
<1>3. client' = d /\ UNCHANGED <<sock, held, now, asked>>
  BY DEF DnsStartNoServer
<1>4. /\ v \in ClientT /\ v.state = "FAILED" /\ v.sock = client["dns"].sock
      /\ v.tick = client["dns"].tick
  BY <1>2 DEF ClientT, States
<1> HIDE DEF v
<1>5. /\ d \in [Clients -> ClientT] /\ d["dns"] = v
      /\ \A l \in Clients \ {"dns"} : d[l] = client[l]
  BY <1>1, <1>2, <1>4
<1> HIDE DEF d
<1>6. \A l \in Clients : d[l].sock = client[l].sock /\ d[l].tick = client[l].tick
  BY <1>4, <1>5
<1>7. SocketsOK(d, sock, held, asked)
  BY <1>1, <1>5, <1>6, SocketsFrame
<1>8. ClientOK("dns", v, asked)
  BY <1>4 DEF ClientOK
<1>9. Sound(d, sock, held, asked)
  BY <1>1, <1>5, <1>7, <1>8 DEF Sound
<1>10. starts' \in 0 .. MaxStarts
  BY ResolverAssumption DEF DnsStartNoServer, IInv
<1> QED BY <1>3, <1>9, <1>10 DEF IInv

LEMMA TickKeeps == ASSUME IInv, Tick PROVE IInv'
<1> DEFINE age(k) == IF client[k].sent_age < Retry(k) THEN client[k].sent_age + 1
                     ELSE client[k].sent_age
           older(k) == [client[k] EXCEPT !.sent_age = age(k)]
           d == [k \in Clients |-> older(k)]
<1>1. /\ SocketsOK(client, sock, held, asked) /\ client \in [Clients -> ClientT]
      /\ asked \subseteq Query
      /\ \A l \in Clients : ClientOK(l, client[l], asked)
  BY DEF IInv, Sound, SocketsOK
<1>2. client' = d /\ UNCHANGED <<sock, held, asked, starts>>
  BY DEF Tick
<1>3. ASSUME NEW k \in Clients
      PROVE  /\ older(k) \in ClientT /\ older(k).state = client[k].state
             /\ older(k).sock = client[k].sock /\ older(k).tick = client[k].tick
             /\ older(k).tries = client[k].tries
             /\ older(k).result = client[k].result
             /\ older(k).pending = client[k].pending
  <2> DEFINE n == age(k)
             v == [client[k] EXCEPT !.sent_age = n]
  <2>1. client[k] \in ClientT
    BY <1>1
  <2>2. n \in Nat
    <3>1. client[k].sent_age \in Nat
      BY <2>1 DEF ClientT
    <3> QED BY <3>1
  <2> HIDE DEF n
  <2>3. v \in ClientT
    BY <2>1, <2>2 DEF ClientT
  <2>4. /\ v.state = client[k].state /\ v.sock = client[k].sock
        /\ v.tick = client[k].tick /\ v.tries = client[k].tries
        /\ v.result = client[k].result
    BY <2>1 DEF ClientT
  <2>5. v.pending = client[k].pending
    BY <2>1, Zenon DEF ClientT
  <2> QED BY <2>3, <2>4, <2>5 DEF n
<1> HIDE DEF older
<1>4. d \in [Clients -> ClientT] /\ \A k \in Clients : d[k] = older(k)
  BY <1>3
<1> HIDE DEF d
<1>5. \A l \in Clients : d[l].sock = client[l].sock /\ d[l].tick = client[l].tick
  BY <1>3, <1>4
<1>6. SocketsOK(d, sock, held, asked)
  BY <1>1, <1>4, <1>5, SocketsFrame
<1>7. ASSUME NEW k \in Clients PROVE ClientOK(k, d[k], asked)
  <2>1. ClientOK(k, client[k], asked)
    BY <1>1
  <2> QED BY <1>3, <1>4, <2>1 DEF ClientOK
<1>8. now' \in Clock
  <2>1. TickSpace \in Nat \ {0}
    BY ResolverAssumption
  <2> QED BY <2>1 DEF Tick, IInv, Clock
<1> QED BY <1>2, <1>6, <1>7, <1>8 DEF IInv, Sound

LEMMA Starts == Init => IInv
<1> SUFFICES ASSUME Init PROVE IInv
  OBVIOUS
<1>1. 0 \in Clock /\ 0 \in 0 .. MaxTries /\ 0 \in 0 .. MaxStarts
  BY ResolverAssumption DEF Clock
<1>2. IdleClient \in ClientT /\ IdleClient.sock = None /\ IdleClient.state = "IDLE"
  BY <1>1 DEF IdleClient, ClientT, States
<1>3. ClosedSocket \in SocketT /\ ClosedSocket.port = 0 /\ ClosedSocket.mail = None
  BY ClosedType DEF ClosedSocket
<1>4. /\ client \in [Clients -> ClientT] /\ sock \in [Sockets -> SocketT]
      /\ \A k \in Clients : client[k] = IdleClient
      /\ \A i \in Sockets : sock[i] = ClosedSocket
      /\ held = {} /\ asked = {} /\ now = 0 /\ starts = 0
  BY <1>2, <1>3 DEF Init
<1>5. Owned(client, sock, held)
  BY <1>2, <1>3, <1>4 DEF Owned
<1>6. Distinct(sock) /\ Addressed(sock) /\ Answered(sock, asked)
  BY <1>3, <1>4 DEF Distinct, Addressed, Answered
<1>7. \A k \in Clients : ClientOK(k, client[k], asked)
  BY <1>2, <1>4 DEF ClientOK
<1>8. SocketsOK(client, sock, held, asked)
  BY <1>4, <1>5, <1>6 DEF SocketsOK
<1> QED BY <1>1, <1>4, <1>7, <1>8 DEF IInv, Sound

LEMMA Steps == IInv /\ [Next]_vars => IInv'
<1> SUFFICES ASSUME IInv, [Next]_vars PROVE IInv'
  OBVIOUS
<1>1. CASE DnsStart
  BY <1>1, StartKeeps DEF DnsStart, Clients
<1>2. CASE NtpStart
  BY <1>2, StartKeeps DEF NtpStart, Clients
<1>3. CASE DnsStartNoServer
  BY <1>3, NoServerKeeps
<1>4. CASE AppOpen
  BY <1>4, AppOpenKeeps
<1>5. CASE AppClose
  BY <1>5, AppCloseKeeps
<1>6. CASE AppRecv
  BY <1>6, AppRecvKeeps
<1>7. CASE PollQuiet
  BY <1>7, PollKeeps DEF PollQuiet
<1>8. CASE PollReply
  <2>1. PICK q \in asked : \E m \in Replies(q) : PollWith(m)
    BY <1>8 DEF PollReply
  <2>2. PICK m \in Replies(q) : PollWith(m)
    BY <2>1
  <2>3. q \in Query
    BY DEF IInv, Sound, SocketsOK
  <2>4. m \in Datagram /\ Genuine(m, asked)
    BY <2>3, RepliesGenuine
  <2> QED BY <2>2, <2>4, PollKeeps
<1>9. CASE PollStray
  BY <1>9, PollKeeps, StraysGenuine DEF PollStray
<1>10. CASE Tick
  BY <1>10, TickKeeps
<1>11. CASE UNCHANGED vars
  BY <1>11 DEF IInv, vars
<1> QED BY <1>1, <1>2, <1>3, <1>4, <1>5, <1>6, <1>7, <1>8, <1>9, <1>10, <1>11
        DEF Next

----------------------------------------------------------------------------
(* The theorems. *)

(* Who holds which socket, what is in the mailboxes and what each client   *)
(* still has to do hang together, after any calls and any datagrams.       *)
THEOREM InvariantHolds == Spec => []IInv
BY Starts, Steps, PTL DEF Spec

LEMMA Facts ==
  ASSUME IInv
  PROVE  /\ client \in [Clients -> ClientT] /\ sock \in [Sockets -> SocketT]
         /\ held \subseteq Sockets /\ asked \subseteq Query
         /\ Owned(client, sock, held) /\ Distinct(sock) /\ Addressed(sock)
         /\ \A k \in Clients : ClientOK(k, client[k], asked)
         /\ now \in Clock /\ starts \in 0 .. MaxStarts
BY DEF IInv, Sound, SocketsOK

(* Every variable has its type: no client counts more than MaxTries tries. *)
THEOREM TypeCorrect == Spec => []TypeOK
<1>1. IInv => TypeOK
  BY Facts DEF TypeOK, ClientT, SocketT
<1> QED BY <1>1, InvariantHolds, PTL

(* Whatever the number of sockets and whoever fails to get one: an open    *)
(* socket has exactly one owner, and it is open on its owner's port.       *)
THEOREM SocketsHaveOneOwner == Spec => []EverySocketOwned
<1>1. IInv => EverySocketOwned
  <2> SUFFICES ASSUME IInv, NEW i \in Sockets
               PROVE  /\ sock[i].port # 0 <=> Owners(i) # {}
                      /\ Cardinality(Owners(i)) <= 1
                      /\ \A k \in Owners(i) \cap Clients :
                           sock[i].port = Port(k, client[k].tick)
    BY DEF EverySocketOwned
  <2>1. "app" \notin Clients /\ i # None
    BY ResolverAssumption DEF Clients, Sockets
  <2>2. \A k \in Owners(i) \cap Clients : client[k].sock = i
    BY <2>1 DEF Owners
  <2>3. \A k \in Owners(i) \cap Clients : sock[i].port = Port(k, client[k].tick)
    BY <2>1, <2>2, Facts DEF Owned
  <2>4. sock[i].port # 0 => Owners(i) # {}
    BY Facts DEF Owned, Owners
  <2>5. ASSUME NEW k \in Owners(i) PROVE sock[i].port # 0
    <3>1. CASE k \in Clients
      <4>1. client[k].tick \in Clock
        BY <3>1, Facts DEF ClientT
      <4> QED BY <2>3, <2>5, <3>1, <4>1, PortType
    <3>2. CASE k \notin Clients
      <4>1. i \in held
        BY <2>5, <3>2 DEF Owners
      <4> QED BY <4>1, Facts DEF Owned
    <3> QED BY <3>1, <3>2
  <2>6. ASSUME NEW k \in Owners(i), NEW l \in Owners(i) PROVE k = l
    BY <2>1, Facts DEF Owners, Owned
  <2>7. Cardinality(Owners(i)) <= 1
    <3>1. CASE Owners(i) = {}
      BY <3>1, FS_EmptySet
    <3>2. CASE Owners(i) # {}
      <4>1. PICK k \in Owners(i) : Owners(i) = {k}
        BY <2>6, <3>2
      <4>2. Cardinality({k}) = 1
        BY FS_Singleton
      <4> QED BY <4>1, <4>2
    <3> QED BY <3>1, <3>2
  <2> QED BY <2>3, <2>4, <2>5, <2>7
<1> QED BY <1>1, InvariantHolds, PTL

(* Two sockets are never open on one port, whatever ports the clock gives. *)
THEOREM PortsStayUnique == Spec => []PortsUnique
<1>1. IInv => PortsUnique
  BY Facts DEF PortsUnique, Distinct
<1> QED BY <1>1, InvariantHolds, PTL

(* What an owner finds in its mailbox came for its port and its time.      *)
THEOREM MailIsForItsSocket == Spec => []MailIsAddressed
<1>1. IInv => MailIsAddressed
  BY Facts DEF MailIsAddressed, Addressed
<1> QED BY <1>1, InvariantHolds, PTL

(* A lookup ends with an answer to a query with its own tick that left the *)
(* host, however late and however often answers to others arrive.          *)
THEOREM AnswersAreOurs == Spec => []AnswerIsOurs
<1>1. IInv => AnswerIsOurs
  BY Facts DEF AnswerIsOurs, ClientOK, Clients
<1> QED BY <1>1, InvariantHolds, PTL

(* A client that waits has a socket, and one that has ended has none; the  *)
(* exception is the lookup that failed before it could start.              *)
THEOREM SocketsGivenBack == Spec => []GivenBack
<1>1. IInv => GivenBack
  BY Facts DEF GivenBack, ClientOK
<1> QED BY <1>1, InvariantHolds, PTL
=============================================================================
