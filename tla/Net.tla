-------------------------------- MODULE Net --------------------------------
(***************************************************************************)
(* The network layer src/net/mn_net.c over the ARP cache and the Ethernet  *)
(* driver, on a LAN with other stations: who is asked for a hardware       *)
(* address, what is answered and learned, and where a packet goes.         *)
(*                                                                         *)
(* An address is the set of its 1 bits, so & and | of the code are \cap    *)
(* and \cup.  A station's MAC is the station and how often it has changed  *)
(* its interface.  The services of mn_api_poll (the clients and the TCP    *)
(* sockets) are seen as conversations, each with one destination: one that *)
(* has something to send tries at every poll until the driver takes it.    *)
(* What becomes of a UDP datagram or a TCP segment that arrives is not     *)
(* here: see Resolver and TcpSet.                                          *)
(***************************************************************************)
EXTENDS ArpCache, Eth45E100

CONSTANTS
  Bits,       \* the bits of an address
  Configs,    \* what mn_net_set_ip is given: [ip, mask, gw]
  Stations,   \* the addresses of the other stations on the LAN
  Dests,      \* the destination of each conversation, in the order of poll
  AppDests,   \* the destinations of UDP_SEND, called between polls
  Asks,       \* what a station may ask us: a subset of AskKinds
  BcastMac,   \* mn_eth_broadcast
  MaxAsks,    \* bound on questions
  MaxOdd      \* bound on moves, announcements, bad frames, refusals and
              \* changes of our address, taken together

limited_bcast == Bits
zero_ip == {}
NoAddress == [ip |-> zero_ip, mask |-> zero_ip, gw |-> zero_ip]
MaxMoves == MaxOdd

AskKinds == {"request", "probe", "echo"}

ASSUME NetAssumption ==
  /\ Addr = SUBSET Bits
  /\ Mac = Stations \X (0 .. MaxMoves)
  /\ Stations \subseteq Addr \ {limited_bcast, zero_ip}
  /\ Dests \in Seq(Addr) /\ AppDests \subseteq Addr
  /\ Asks \subseteq AskKinds
  /\ \A c \in Configs : c \in [ip : Addr, mask : Addr, gw : Addr]
  /\ RxBufs \in Nat \ {0} /\ MaxAsks \in Nat /\ MaxOdd \in Nat

Conv == DOMAIN Dests

(* Frames that arrive: an ARP reply, an ARP request for our address, the   *)
(* same from a station that has no address yet, an ICMP echo request.      *)
InFrame == [kind : {"reply"} \cup AskKinds, mac : Mac, sip : Addr,
            tip : Addr, ok : BOOLEAN]
ASSUME FrameAssumption == NoFrame \notin InFrame

(* Frames given to the driver. *)
OutFrame == [kind : {"request", "reply", "echo", "data"},
             mac : Mac \cup {BcastMac}, dst : Addr]

VARIABLES
  net,     \* mn_net: ip, mask, gw, arp; and tx_mac
  eth,     \* the controller's receive ring
  want,    \* the conversations that have something to send
  given,   \* the frames the last step gave to the driver, oldest first
  asked,   \* the stations that have our ARP request
  moved,   \* how often each station has changed its interface
  heard,   \* the MAC last learned for each address
  owed,    \* questions for us that were let in and not yet answered
  polls,   \* the parity of the polls so far: every poll is a step
  asks, odd

vars == <<net, eth, want, given, asked, moved, heard, owed, polls, asks, odd>>

(* mn_net_init *)
Init ==
  /\ net = [ip |-> zero_ip, mask |-> zero_ip, gw |-> zero_ip,
            arp |-> mn_arp_cache_init, tx_mac |-> None]
  /\ eth = Idle
  /\ want = {}
  /\ given = << >>
  /\ asked = {}
  /\ moved = [h \in Stations |-> 0]
  /\ heard = [a \in Addr |-> None]
  /\ owed = {}
  /\ polls = 0 /\ asks = 0 /\ odd = 0

MacOf(h) == <<h, moved[h]>>

----------------------------------------------------------------------------
(* Transmit.  The operators carry what a call has done so far:             *)
(* [n |-> the network layer, given |-> the frames given to the driver].    *)
(* takes is how many frames the driver takes during the call.              *)

is_broadcast(n, dst) == dst = limited_bcast \/ dst \cup n.mask = Bits

mn_net_next_hop(n, dst) ==
  IF ~is_broadcast(n, dst) /\ dst \cap n.mask # n.ip \cap n.mask
  THEN n.gw ELSE dst

(* send() *)
Give(w, frame) == [w EXCEPT !.given = Append(@, frame)]
Answer(w, takes) == IF Len(w.given) <= takes THEN "OK" ELSE "FAILED"

(* [mutant of mn_net_tx_begin: leaves tx_mac as it was for a broadcast] *)
mn_net_tx_begin_Stale(w, dst) ==
  LET hop == mn_net_next_hop(w.n, dst)
      mac == mn_arp_cache_lookup(w.n.arp, hop)
  IN IF is_broadcast(w.n, hop) THEN [w EXCEPT !.why = "OK"]
     ELSE IF mac # None THEN [w EXCEPT !.n.tx_mac = mac, !.why = "OK"]
     ELSE [Give(w, [kind |-> "request", mac |-> BcastMac, dst |-> hop])
             EXCEPT !.n.tx_mac = None, !.why = "PENDING"]

mn_net_tx_begin(w, dst) ==
  LET hop == mn_net_next_hop(w.n, dst)
      mac == IF is_broadcast(w.n, hop) THEN BcastMac
             ELSE mn_arp_cache_lookup(w.n.arp, hop)
      v == [w EXCEPT !.n.tx_mac = mac]
  IN IF mac # None THEN [v EXCEPT !.why = "OK"]
     ELSE [Give(v, [kind |-> "request", mac |-> BcastMac, dst |-> hop])
             EXCEPT !.why = "PENDING"]

mn_net_tx_send(w, dst, takes) ==
  LET v == Give(w, [kind |-> "data", mac |-> w.n.tx_mac, dst |-> dst])
  IN [v EXCEPT !.why = Answer(v, takes)]

(* tx_begin, the payload, tx_send: what mn_net_send_udp and emit do. *)
Transmit(w, dst, takes) ==
  LET v == mn_net_tx_begin(w, dst)
  IN IF v.why = "OK" THEN mn_net_tx_send(v, dst, takes) ELSE v

----------------------------------------------------------------------------
(* Receive. *)

Learn(w, f) ==
  [w EXCEPT !.n.arp = mn_arp_cache_learn(@, f.sip, f.mac)]

(* Who answers us or asks for us is remembered. *)
Teaches(n, f) ==
  f.kind = "reply" \/ (f.kind \in {"request", "probe"} /\ f.tip = n.ip)

(* The switch of mn_net_poll.  An answer goes to the MAC that asked.       *)
mn_net_input(w, f) ==
  CASE f.kind = "reply" -> Learn(w, f)
    [] f.kind \in {"request", "probe"} /\ f.tip = w.n.ip ->
         Give(Learn(w, f), [kind |-> "reply", mac |-> f.mac, dst |-> f.sip])
    [] f.kind = "echo" /\ f.tip = w.n.ip ->
         Give(w, [kind |-> "echo", mac |-> f.mac, dst |-> f.sip])
    [] OTHER -> w

(* mn_net_poll: what it leaves of the ring and of the network layer.       *)
mn_net_poll(w, e) ==
  LET rx == eth_rx(e)
  IN [eth |-> rx.eth, frame |-> rx.frame,
      w   |-> IF rx.frame = NoFrame THEN w ELSE mn_net_input(w, rx.frame)]

(* The services after it, in the order of mn_api_poll and mn_tcp_poll.     *)
Serve(v, i, takes) ==
  LET u == Transmit(v, Dests[i], takes)
  IN IF i \notin v.want THEN v
     ELSE IF u.why = "OK" THEN [u EXCEPT !.want = @ \ {i}] ELSE u

Services(w, takes) ==
  LET after[i \in 0 .. Len(Dests)] ==
        IF i = 0 THEN w ELSE Serve(after[i - 1], i, takes)
  IN after[Len(Dests)]

----------------------------------------------------------------------------
(* The steps of this host. *)

Begin == [n |-> net, given |-> << >>, why |-> "OK", want |-> want]

Odd(b) == odd' = odd + (IF b THEN 1 ELSE 0) /\ odd' <= MaxOdd

(* What the frames the driver took do on the LAN. *)
Sent(w, takes) ==
  LET out == {w.given[k] : k \in 1 .. (IF takes < Len(w.given) THEN takes
                                       ELSE Len(w.given))}
  IN asked' = asked \cup {h \in Stations :
                \E f \in out : f.kind = "request" /\ f.dst = h}

(* mn_api_poll. *)
All == Len(Dests) + 1
PollTaking(takes) ==
  \E r \in {mn_net_poll(Begin, eth)} : \E w \in {Services(r.w, takes)} :
     LET f == r.frame IN
     /\ takes < Len(w.given) \/ takes = All
     /\ Odd(takes < All)
     /\ net' = w.n /\ want' = w.want /\ given' = w.given /\ eth' = r.eth
     /\ Sent(w, takes)
     /\ heard' = IF f # NoFrame /\ Teaches(net, f)
                 THEN [heard EXCEPT ![f.sip] = f.mac] ELSE heard
     /\ owed' = {q \in owed : \A k \in DOMAIN w.given : w.given[k].mac # q[2]
                   \/ w.given[k].kind # (IF q[1] = "echo" THEN "echo" ELSE "reply")}
     /\ polls' = 1 - polls
     /\ UNCHANGED <<moved, asks>>

Poll == PollTaking(All)
PollRefused == \E takes \in 0 .. 1 : PollTaking(takes)

(* mn_api_udp_send, between two polls. *)
UdpSend ==
  \E d \in AppDests :
    LET w == Transmit(Begin, d, All)
    IN /\ net' = w.n /\ given' = w.given /\ Sent(w, All)
       /\ UNCHANGED <<eth, want, moved, heard, owed, asks, odd, polls>>

(* mn_api_set_ip and the others that set an address: the cache stays.      *)
SetIp ==
  /\ \E c \in Configs :
       /\ c # [ip |-> net.ip, mask |-> net.mask, gw |-> net.gw]
       /\ net' = [net EXCEPT !.ip = c.ip, !.mask = c.mask, !.gw = c.gw]
  /\ Odd(net.ip # zero_ip)
  /\ owed' = {}
  /\ given' = << >>
  /\ UNCHANGED <<eth, want, asked, moved, heard, asks, polls>>

(* A service has something to send. *)
Want(i) ==
  /\ i \notin want /\ want' = want \cup {i}
  /\ given' = << >>
  /\ UNCHANGED <<net, eth, asked, moved, heard, owed, asks, odd, polls>>

----------------------------------------------------------------------------
(* The other stations.  What finds no room in the controller is lost.      *)

Frame(h, kind, sip, tip, ok) ==
  [kind |-> kind, mac |-> MacOf(h), sip |-> sip, tip |-> tip, ok |-> ok]

StationAnswers(h) ==
  /\ h \in asked /\ asked' = asked \ {h}
  /\ Room(eth)
  /\ eth' = Arrive(eth, Frame(h, "reply", h, net.ip, TRUE))
  /\ given' = << >>
  /\ UNCHANGED <<net, want, moved, heard, owed, asks, odd, polls>>

AnswerLost(h) ==
  /\ h \in asked /\ asked' = asked \ {h}
  /\ ~Room(eth)
  /\ given' = << >>
  /\ UNCHANGED <<net, eth, want, moved, heard, owed, asks, odd, polls>>

StationAsks(h) ==
  /\ Room(eth) /\ net.ip # zero_ip
  /\ asks < MaxAsks /\ asks' = asks + 1
  /\ \E kind \in Asks, ok \in BOOLEAN :
       /\ Odd(~ok)
       /\ eth' = Arrive(eth, Frame(h, kind,
                    IF kind = "probe" THEN zero_ip ELSE h, net.ip, ok))
       /\ owed' = IF ok THEN owed \cup {<<kind, MacOf(h)>>} ELSE owed
  /\ given' = << >>
  /\ UNCHANGED <<net, want, asked, moved, heard, polls>>

(* A station takes another interface, and says so or does not. *)
StationMoves(h) ==
  /\ Odd(TRUE)
  /\ moved' = [moved EXCEPT ![h] = @ + 1]
  /\ \/ UNCHANGED eth
     \/ Room(eth) /\ eth' = Arrive(eth,
          [kind |-> "reply", mac |-> <<h, moved[h] + 1>>, sip |-> h,
           tip |-> h, ok |-> TRUE])
  /\ given' = << >>
  /\ UNCHANGED <<net, want, asked, heard, owed, asks, polls>>

Next ==
  \/ Poll \/ PollRefused \/ UdpSend \/ SetIp
  \/ \E i \in Conv : Want(i)
  \/ \E h \in Stations : StationAnswers(h)
  \/ \E h \in Stations : AnswerLost(h)
  \/ \E h \in Stations : StationAsks(h)
  \/ \E h \in Stations : StationMoves(h)

Spec == Init /\ [][Next]_vars

(* The client goes on polling, and a station that is asked again and again *)
(* finds room for its answer in the end.                                   *)
Fairness ==
  /\ []<><<Poll>>_vars
  /\ \A h \in Stations : SF_vars(StationAnswers(h))

FairSpec == Spec /\ Fairness

----------------------------------------------------------------------------
(* Properties. *)

(* Every variable has its type. *)
TypeOK ==
  /\ net \in [ip : Addr, mask : Addr, gw : Addr, arp : Cache,
              tx_mac : Mac \cup {None, BcastMac}]
  /\ eth.view \in InFrame \cup {NoFrame}
  /\ eth.waiting \in Seq(InFrame) /\ Len(eth.waiting) <= RxBufs
  /\ want \subseteq Conv
  /\ given \in Seq(OutFrame)
  /\ asked \subseteq Stations
  /\ moved \in [Stations -> 0 .. MaxMoves]
  /\ heard \in [Addr -> Mac \cup {None}]
  /\ owed \subseteq Asks \X Mac
  /\ polls \in 0 .. 1 /\ asks \in 0 .. MaxAsks /\ odd \in 0 .. MaxOdd

(* The cache says of an address what was last said of it, and no address   *)
(* has two entries: an old word is never found behind a newer one, however *)
(* often entries have been replaced (mn_arp.c, refresh, free slot, turn).  *)
CacheIsCurrent ==
  /\ NoDuplicates(net.arp)
  /\ \A a \in Addr :
       mn_arp_cache_lookup(net.arp, a) \in {heard[a], None}

(* A packet goes to the MAC last heard for its next hop, and to no other:  *)
(* the tx_mac it leaves with is its own and not that of the packet before. *)
(* The exception is what the code does to a destination beyond the router  *)
(* whose host part, under our mask, is all ones: it is broadcast here.     *)
OnLink(n, d) == d = Bits \/ d \cap n.mask = n.ip \cap n.mask
HostPartFull(n, d) == Bits \ n.mask \subseteq d
Misrouted(n, d) == ~OnLink(n, d) /\ HostPartFull(n, d)
Aimed(n, told, f) ==
  LET hop == IF OnLink(n, f.dst) THEN f.dst ELSE n.gw
  IN f.kind = "data" /\ ~Misrouted(n, f.dst) /\ ~Misrouted(n, hop) =>
       f.mac = IF HostPartFull(n, hop) THEN BcastMac ELSE told[hop]

PacketsGoToTheirHop == \A k \in DOMAIN given : Aimed(net, heard, given[k])

(* Nobody waits for an answer once the controller has nothing more: what   *)
(* is asked is answered by the poll that pulls it, not by the next one     *)
(* (REQUIREMENTS.md 5.5), and to the station that asked.                   *)
AnsweredOnTime == eth.waiting = << >> => owed = {}

(* A service that has something to send gets it out, though its peer's     *)
(* entry may be replaced any number of times before it does: four entries  *)
(* are enough for any number of conversations.  A hop that nobody has is   *)
(* asked for without end.                                                  *)
Reachable(i) ==
  LET hop == mn_net_next_hop(net, Dests[i])
  IN is_broadcast(net, hop) \/ hop \in Stations
EventuallySent ==
  \A i \in Conv : i \in want ~> i \notin want \/ ~Reachable(i)

============================================================================
