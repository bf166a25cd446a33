------------------------------ MODULE Resolver ------------------------------
(***************************************************************************)
(* The name and time clients of mega-net (mn_dns.c, mn_ntp.c) on the UDP   *)
(* sockets they borrow from the network layer (mn_net.c), which they share *)
(* with the application and with each other.                               *)
(*                                                                         *)
(* The two clients are the same machine: borrow a socket on a port taken   *)
(* from the clock, ask, ask again a bounded number of times, and give the  *)
(* socket back.  The environment repeats, delays and drops: a reply to any *)
(* query that ever left may arrive at any poll, and so may a stray datagram*)
(* for any port.                                                           *)
(***************************************************************************)
EXTENDS Integers, FiniteSets, FiniteSetsExt

CONSTANTS
  Slots,       \* MN_UDP_SOCKETS sockets, 1 .. 4
  None,        \* no socket, no name, no datagram
  Names,       \* what may be looked up ...
  Malformed,   \* ... and of these, what build() refuses
  TickSpace,   \* the clock and the DNS id: 2^16
  PortSpan,    \* the ports a client chooses from: 4096
  DnsBase,     \* 49152
  NtpBase,     \* 50000
  AppPort,     \* the port the application opens
  DnsRetry, NtpRetry,   \* RETRY_TICKS of each
  MaxTries,    \* MAX_TRIES, the same for both
  MaxStarts    \* bound on how many queries are started

ASSUME ResolverAssumption ==
  /\ \A c \in {Slots, TickSpace, PortSpan, DnsBase, NtpBase, AppPort, DnsRetry,
               NtpRetry, MaxTries} : c \in Nat \ {0}
  /\ TickSpace % PortSpan = 0
  /\ MaxStarts \in Nat
  /\ Malformed \subseteq Names /\ None \notin Names /\ None \notin 1 .. Slots

Clients == {"dns", "ntp"}
States  == {"IDLE", "WAITING", "DONE", "FAILED"}
Sockets == 1 .. Slots
Clock   == 0 .. TickSpace - 1
Base(k)  == IF k = "dns" THEN DnsBase ELSE NtpBase
Retry(k) == IF k = "dns" THEN DnsRetry ELSE NtpRetry
Ports == {AppPort} \cup {Base(k) + n : k \in Clients, n \in 0 .. PortSpan - 1}

(* A query that has left: whose, the tick that gave it its id and port, and *)
(* the name it asks for.                                                   *)
Query == [from : Clients, tick : Clock, name : Names \cup {None}]
Port(k, tick) == Base(k) + (tick % PortSpan)

(* A datagram for us: the DNS id (a bijection of the tick), what DNS makes *)
(* of it, the name it answers, and whether it passes for the time.         *)
Kinds == {"answer", "error", "other"}
Datagram == [port : Ports \cup {0}, id : Clock \cup {None}, kind : Kinds,
             name : Names \cup {None}, time : BOOLEAN]

Replies(q) ==
  IF q.from = "dns"
  THEN [port : {Port("dns", q.tick)}, id : {q.tick}, kind : Kinds,
        name : {q.name}, time : BOOLEAN]
  ELSE [port : {Port("ntp", q.tick)}, id : {None}, kind : {"other"},
        name : {None}, time : BOOLEAN]
Strays == [port : Ports \cup {0}, id : {None}, kind : {"other"}, name : {None},
           time : {FALSE}]

VARIABLES
  sock,     \* the UDP sockets of the network layer: port (0: closed) and mail
  client,   \* the DNS and the NTP client
  held,     \* the sockets the application has opened
  now,      \* the tick
  asked,    \* the queries that have left
  starts    \* how many queries were started

vars == <<sock, client, held, now, asked, starts>>

ClosedSocket == [port |-> 0, mail |-> None]
IdleClient ==
  [state |-> "IDLE", sock |-> None, tick |-> 0, name |-> None, result |-> None,
   tries |-> 0, pending |-> FALSE, sent_age |-> 0]

Init ==
  /\ sock = [i \in Sockets |-> ClosedSocket]
  /\ client = [k \in Clients |-> IdleClient]
  /\ held = {} /\ now = 0 /\ asked = {} /\ starts = 0

----------------------------------------------------------------------------
(* The sockets of mn_net.c.  A datagram for port 0 finds the first closed  *)
(* socket.                                                                 *)

With(s, p) == {i \in Sockets : s[i].port = p}

(* [mutant of OpenedSocket: leaves what is in the mailbox] *)
OpenedSocket_Full(k, p) == [k EXCEPT !.port = p]
OpenedSocket(k, p) == [port |-> p, mail |-> None]

(* [mutant of MayOpen: the same port twice] *)
MayOpen_Twice(s, p) == With(s, 0) # {}
MayOpen(s, p) == With(s, p) = {} /\ With(s, 0) # {}

mn_net_udp_open(s, p) ==
  LET i == Min(With(s, 0))
  IN IF MayOpen(s, p)
     THEN [sock |-> [s EXCEPT ![i] = OpenedSocket(@, p)], index |-> i]
     ELSE [sock |-> s, index |-> None]

mn_net_udp_close(s, i) ==
  IF i = None THEN s ELSE [s EXCEPT ![i] = ClosedSocket]

(* A mailbox holds one datagram; the next is dropped. *)
deliver_udp(s, m) ==
  LET i == Min(With(s, m.port))
  IN IF m = None \/ With(s, m.port) = {} THEN s
     ELSE IF s[i].mail # None THEN s
     ELSE [s EXCEPT ![i].mail = m]

Emptied(s, i) == [s EXCEPT ![i].mail = None]

----------------------------------------------------------------------------
(* One client.  A step of it is a record of the client, the sockets and    *)
(* what left the host; each operation gives the set of its possible steps, *)
(* one for every answer of mn_net_send_udp.                                *)
SendResult == {"OK", "FAILED", "PENDING"}
Same(c, s) == {[c |-> c, sock |-> s, out |-> {}]}

(* [mutant of Counts: only what has left the host is a try] *)
Counts_Sent(r) == r = "OK"
Counts(r) == r # "PENDING"

(* transmit(); a name that build() refuses ends the lookup where it stands.*)
transmit(k, c, s) ==
  IF k = "dns" /\ c.name \in Malformed
  THEN Same([c EXCEPT !.state = "FAILED"], s)
  ELSE {[c |-> [c EXCEPT !.pending = r = "PENDING", !.sent_age = 0,
                         !.tries = IF Counts(r) THEN @ + 1 ELSE @],
         sock |-> s,
         out |-> IF r = "OK" THEN {[from |-> k, tick |-> c.tick, name |-> c.name]}
                 ELSE {}] : r \in SendResult}

(* [mutant of Reclaimed: a socket still held is forgotten] *)
Reclaimed_Not(c, s) == s
(* A socket still held from the last query is closed before the next. *)
Reclaimed(c, s) == mn_net_udp_close(s, c.sock)

(* mn_dns_start, mn_ntp_start. *)
start(k, c, s, name) ==
  LET o == mn_net_udp_open(Reclaimed(c, s), Port(k, now))
      n == [c EXCEPT !.sock = o.index, !.tick = now, !.name = name,
                     !.result = None, !.tries = 0,
                     !.state = IF o.index = None THEN "FAILED" ELSE "WAITING"]
  IN IF o.index = None THEN Same(n, o.sock) ELSE transmit(k, n, o.sock)

(* [mutant of Released: the index is kept] *)
Released_Kept(c) == c
Released(c) == [c EXCEPT !.sock = None]

Finish(c, s, state) ==
  Same(Released([c EXCEPT !.state = state]), mn_net_udp_close(s, c.sock))

(* [mutant of Ours: any answer will do] *)
Ours_Any(c, m) == m.id # None
(* parse() of mn_dns.c: the id is all that is compared. *)
Ours(c, m) == m.id = c.tick

(* What the client makes of its mail: an end, or nothing. *)
Outcome(k, c, m) ==
  CASE k = "ntp" /\ m.time -> "DONE"
    [] k = "dns" /\ Ours(c, m) /\ m.kind = "answer" -> "DONE"
    [] k = "dns" /\ Ours(c, m) /\ m.kind = "error" -> "FAILED"
    [] OTHER -> "WAITING"

(* [mutant of MayRetry: one try too many] *)
MayRetry_Over(c) == c.tries <= MaxTries
MayRetry(c) == c.tries < MaxTries

(* What is due when no answer has come. *)
Due(k, c, s) ==
  IF c.pending \/ (c.sent_age >= Retry(k) /\ MayRetry(c))
  THEN transmit(k, c, s)
  ELSE IF c.sent_age >= Retry(k) THEN Finish(c, s, "FAILED")
  ELSE Same(c, s)

(* mn_dns_poll, mn_ntp_poll. *)
poll(k, c, s) ==
  LET m == s[c.sock].mail
  IN IF c.state # "WAITING" THEN Same(c, s)
     ELSE IF m = None THEN Due(k, c, s)
     ELSE IF Outcome(k, c, m) = "WAITING" THEN Due(k, c, Emptied(s, c.sock))
     ELSE Finish([c EXCEPT !.result = IF Outcome(k, c, m) = "DONE" THEN m.name
                                      ELSE None],
                 Emptied(s, c.sock), Outcome(k, c, m))

----------------------------------------------------------------------------
(* The calls of the application, and time. *)

Start(k, name) ==
  /\ starts < MaxStarts /\ starts' = starts + 1
  /\ \E n \in start(k, client[k], sock, name) :
       /\ client' = [client EXCEPT ![k] = n.c]
       /\ sock' = n.sock /\ asked' = asked \cup n.out
  /\ UNCHANGED <<held, now>>

DnsStart == \E name \in Names : Start("dns", name)
NtpStart == Start("ntp", None)

(* mn_api_dns_start while no server is known. *)
DnsStartNoServer ==
  /\ starts < MaxStarts /\ starts' = starts + 1
  /\ client' = [client EXCEPT !["dns"].state = "FAILED"]
  /\ UNCHANGED <<sock, held, now, asked>>

AppOpen ==
  LET o == mn_net_udp_open(sock, AppPort)
  IN /\ o.index # None
     /\ sock' = o.sock /\ held' = held \cup {o.index}
     /\ UNCHANGED <<client, now, asked, starts>>

AppClose ==
  /\ \E i \in held : sock' = mn_net_udp_close(sock, i) /\ held' = held \ {i}
  /\ UNCHANGED <<client, now, asked, starts>>

AppRecv ==
  /\ \E i \in held : sock[i].mail # None /\ sock' = Emptied(sock, i)
  /\ UNCHANGED <<client, held, now, asked, starts>>

(* mn_api_poll: a datagram or none, then the name client, then the time    *)
(* client.                                                                 *)
PollWith(m) ==
  /\ \E d \in poll("dns", client["dns"], deliver_udp(sock, m)) :
       \E n \in poll("ntp", client["ntp"], d.sock) :
         /\ client' = [k \in Clients |-> IF k = "dns" THEN d.c ELSE n.c]
         /\ sock' = n.sock /\ asked' = asked \cup d.out \cup n.out
  /\ UNCHANGED <<held, now, starts>>

PollQuiet == PollWith(None)
PollReply == \E q \in asked : \E m \in Replies(q) : PollWith(m)
PollStray == \E m \in Strays : PollWith(m)

(* The frame counter goes on; a timestamp is its age. *)
Tick ==
  /\ now' = (now + 1) % TickSpace
  /\ client' = [k \in Clients |->
                  [client[k] EXCEPT !.sent_age = IF @ < Retry(k) THEN @ + 1 ELSE @]]
  /\ UNCHANGED <<sock, held, asked, starts>>

Next ==
  \/ DnsStart \/ NtpStart \/ DnsStartNoServer
  \/ AppOpen \/ AppClose \/ AppRecv
  \/ PollQuiet \/ PollReply \/ PollStray
  \/ Tick

Spec == Init /\ [][Next]_vars

(* The client's loop polls for ever and time passes. *)
FairSpec == Spec /\ WF_vars(Tick) /\ WF_vars(PollQuiet)

----------------------------------------------------------------------------
(* Properties. *)

TypeOK ==
  /\ sock \in [Sockets -> [port : Ports \cup {0}, mail : Datagram \cup {None}]]
  /\ client \in [Clients ->
       [state : States, sock : Sockets \cup {None}, tick : Clock,
        name : Names \cup {None}, result : Names \cup {None},
        tries : 0 .. MaxTries, pending : BOOLEAN, sent_age : Nat]]
  /\ held \subseteq Sockets /\ now \in Clock
  /\ asked \subseteq Query /\ starts \in 0 .. MaxStarts

(* Every open socket has exactly one owner, who knows its index and its    *)
(* port: nobody closes, reads or keeps a socket of somebody else.          *)
Owners(i) == {k \in Clients : client[k].sock = i} \cup
             (IF i \in held THEN {"app"} ELSE {})
EverySocketOwned ==
  \A i \in Sockets :
    /\ sock[i].port # 0 <=> Owners(i) # {}
    /\ Cardinality(Owners(i)) <= 1
    /\ \A k \in Owners(i) \cap Clients : sock[i].port = Port(k, client[k].tick)

(* A port has one socket, so a datagram has one place to go. *)
PortsUnique ==
  \A i, j \in Sockets : sock[i].port = sock[j].port /\ i # j => sock[i].port = 0

(* What waits in the mailbox of an open socket came for its port, although *)
(* a datagram for port 0 is put in the mailbox of a closed socket.         *)
MailIsAddressed ==
  \A i \in Sockets :
    sock[i].port # 0 /\ sock[i].mail # None => sock[i].mail.port = sock[i].port

(* A lookup ends with the answer to a query of its own: one that left, with*)
(* this lookup's tick, for the name that was answered.  Late answers to an *)
(* earlier lookup, on the same port too, are not taken ("an id and port    *)
(* that differ between lookups", mn_dns.c:87).  Two lookups started in one *)
(* tick are the exception: they share id and port.                         *)
AnswerIsOurs ==
  LET c == client["dns"]
  IN c.state = "DONE" =>
       [from |-> "dns", tick |-> c.tick, name |-> c.result] \in asked

(* A client that has ended has given its socket back, and one that waits   *)
(* has one; a lookup that could not start may keep it until the next.      *)
GivenBack ==
  \A k \in Clients :
    LET c == client[k]
    IN /\ c.state = "WAITING" => c.sock # None
       /\ c.sock # None => c.state = "WAITING" \/ (k = "dns" /\ c.state = "FAILED")

(* A query ends, answered or not, unless the next hop stays unresolved:    *)
(* a send that is pending is not counted as a try (mn_dns.c:69).           *)
Waits(k) == client[k].state = "WAITING"
EndsOnceHeard ==
  \A k \in Clients : []<>client[k].pending \/ (Waits(k) ~> ~Waits(k))

(* What GUIDE-BASIC.md:279 and test_dnsntp.c:123 say of a query nobody     *)
(* answers: it ends, FAILED after its retries.                             *)
QueryEnds == \A k \in Clients : Waits(k) ~> ~Waits(k)

=============================================================================
