# mega-net in TLA+

mega-net is a small TCP/IP stack for the MEGA65. It lives in its own memory,
has no thread and no interrupt handler of its own, and does something only when the client program calls it:
`mn_api_poll` pulls at most one Ethernet frame, hands it to whoever it is for,
and then runs the timers of each service. This directory holds a formal model of
the parts of the stack that keep protocol state, the TLC runs that check it on
small instances, and TLAPS proofs that the safety properties the runs check hold for
every value of the constants.

Paths in this document and line numbers are those of the repository
(`src/net/mn_tcp.c` and so on).

Contents: 1 Inventory · 2 Modules · 3 Runs · 4 Fairness · 5 Proofs ·
6 What was found · 7 What is not modelled · 8 Plan

## 1. Inventory

| Part | State | Operations | Talks to |
|---|---|---|---|
| TCP sockets, `mn_tcp.c` | per socket: state, sequence numbers, two rings, timers, retries, flags; 8 sockets in a set | connect, listen, send, recv, close, abort; input (from the network layer); poll | network layer (`tx_begin`, `tx_send`), external memory |
| Network layer, `mn_net.c` | addresses, 4 UDP sockets with a mailbox of one datagram, counters, the transmit frame | poll, set_ip, udp_open/close/recv, send_udp, tx_begin/tx_send | driver, ARP, UDP, ICMP, TCP input |
| ARP cache, `mn_arp.c` | 4 entries, round robin | learn, lookup | network layer |
| DHCP client, `mn_dhcp.c` | state, phase, offer, lease, lease clock, one UDP socket | start, poll | network layer (sets the address) |
| DNS resolver, `mn_dns.c` | state, id, port, name, tries, one UDP socket | start, poll | network layer |
| NTP client, `mn_ntp.c` | state, port, tries, one UDP socket, seconds; a calendar function | start, poll, civil | network layer |
| API and clock, `abi/api.c` | the 16-bit tick made from an 8-bit frame counter; one of each service | one entry per call; poll | everything above |
| Frame formats (`mn_ether`, `mn_ipv4`, `mn_udp`, `mn_icmp`, `mn_checksum`) | none | build, validate | network layer |
| External memory (`mn_xmem`) | the rings and mailboxes in bank 5 or attic RAM | read, write | TCP, UDP |
| Ethernet driver (`hal/`) | controller registers | tx, rx | network layer |
| Jump table, trampoline (`abi/*.S`) | saved zero page, memory map | every call | API |

How they interact. The only concurrency inside a host is between *calls*: a call
runs to its end, and between two calls the application, the network and the
clock may do anything. So an action of a model is one call, whole. Data that is
shared: the UDP sockets (DHCP, DNS, NTP and the application take them from one
table), the transmit frame and the scratch buffer (never live across a call),
the ARP cache, and the tick.

What is hard, and for each part what makes it correct:

* **TCP.** Two hosts, each moved by its own polls, over a link that loses,
  repeats and overtakes, a driver that refuses frames, a next hop that is not
  resolved yet, sequence numbers that wrap, rings of a few kilobytes that fill,
  close from either side at any time. *Correct*: the bytes given to the
  application are a prefix of the bytes the other application wrote; no byte is
  given up before the peer has it; a close that completes has delivered
  everything; an advertised window is never taken back; a connection closes for
  a reason the application can see; data and closes get through in the end.
* **DHCP.** Several servers answering late, twice or not at all; NAK and expiry in
  every phase; polls that come late; a clock carried through 8-bit remainders;
  a socket that must be given back. *Correct*: an address is held exactly while
  there is a lease; it is renewed at T1, rebound at T2, and never used past its
  end; the clock is exact; an acquisition ends.
* **DNS, NTP and the UDP sockets.** Ports from the tick, two overlapping ranges,
  too few sockets, late answers to earlier queries, datagrams nobody asked for,
  starts that fail half way. *Correct*: a socket has one owner, who gives it
  back; an answer is to the query it ends; a query ends.
* **ARP and the next hop.** Four entries, any number of hosts, stations that take
  another interface, an address that changes, a transmit path in two halves that
  share one pointer, a receive ring that shows the frame already handled.
  *Correct*: what the cache says is what was last said; a packet goes to its own
  next hop; who asks is answered at once; a conversation is not starved of its entry.
* **Several TCP sockets.** Ports computed from the clock, several listeners on one
  port, SYNs that come twice. *Correct*: a segment has one owner; a
  listener keeps its line until a caller completes; TIME_WAIT lasts.
* **Clock.** An 8-bit counter sampled when the client likes, added up in 16 bits. *Correct*:
  modulo 65536 the clock is the frames that have passed, but for whole turns of the
  counter between two samples.

The file `PROJECT.json` lists the hazards, each at the line where
it bites, with the properties that would catch it going wrong.

## 2. Modules

| Module | Models | Built on |
|---|---|---|
| `MnTcp` | one socket of `mn_tcp.c`: every function of it that changes a socket, as an operator | |
| `MnTcpProofs` | a lemma for each function of `MnTcp`: it keeps what holds of a socket | `MnTcp` |
| `TcpSocket` | that socket in an open environment: any call, any segment, any link | `MnTcp` |
| `MCTcpSocket` | values for the inputs of `TcpSocket` that a `.cfg` cannot write | `TcpRings` |
| `TcpConnection` | two hosts and the network between them | `MnTcp` |
| `ByteStreams` | what a connection promises: two byte streams | |
| `TcpConnectionProofs` | theorems about `TcpConnection`, the refinement with them | `TcpConnection`, `MnTcpProofs` |
| `TcpSocketProofs` | theorems about `TcpSocket` and its rings | `TcpRings`, `MnTcpProofs`, `RingProofs` |
| `Dhcp` | `mn_dhcp.c` among any servers | |
| `DhcpProofs` | theorems about `Dhcp` | `Dhcp` |
| `Resolver` | `mn_dns.c`, `mn_ntp.c` and the UDP sockets of `mn_net.c` they share | |
| `ResolverProofs` | theorems about `Resolver` | `Resolver` |
| `ArpCache` | the cache of `mn_arp.c`, as operators | |
| `Eth45E100` | `eth_rx` of `mn_eth45e100.c` and the controller's receive ring | |
| `Net` | `mn_net.c` on a LAN with other stations | `ArpCache`, `Eth45E100` |
| `MCNet` | addresses for `Net` | `Net` |
| `NetProofs` | theorems about `ArpCache` and `Net` | `Net` |
| `TcpSet` | the set of sockets: dispatch, ports, listeners, TIME_WAIT, the clock of `api.c` | `MnTcp` |
| `MCTcpSet` | the symmetry of the other ends | `TcpSet` |
| `TcpSetProofs` | theorems about `TcpSet` | `TcpSet`, `MnTcpProofs` |
| `Ring` | `ring_read`, `ring_write` and the rings, byte by byte | |
| `RingProofs` | a ring of any size is a queue | `Ring` |
| `TcpRings` | a socket and its two rings | `TcpSocket`, `Ring` (two instances) |

### TCP

A socket is a record with the names of `mn_tcp_sock` (`snd_una`, `snd_nxt`,
`inflight`, `rcv_nxt`, `adv_edge`, `fin_queued`, ...). Each function of the code
is an operator from a socket, and what the link answers, to the socket and the
segments sent: `mn_tcp_connect`, `mn_tcp_listen`, `mn_tcp_send`, `mn_tcp_recv`,
`mn_tcp_close`, `mn_tcp_abort`, `segment_input` with `handle_ack`, and `poll_one`
with its timers, retransmission and transmitter. Order, early returns and the
answers `OK`, `FAILED` and `PENDING` of the transmit path are kept. What stands
for what:

* a ring is the sequence of its bytes; its capacity is a constant, and every
  `ring_put` cuts to the free space as the code does. `Ring` has the array itself,
  with its two-part copies, and `RingProofs` that the sequence is all one sees;
* sequence numbers are `0 .. SeqSpace-1` with the comparisons of `SEQ_LT`;
  initial numbers are chosen just below the wrap;
* a time stamp is the ticks since, saturated where nothing distinguishes more;
* a segment is a record of what `segment_input` reads. A damaged one is a lost
  one. In `TcpSocket` and `TcpConnection` the four-tuple is fixed, one socket per
  host; several are in `TcpSet`;
* left out: the statistics, `PSH`, an MSS option of 0, the refusal of port 0 in
  `mn_tcp_listen`.

`TcpConnection` makes every call of either application an action (`Connect`,
`Listen`, `Write`, `Read`, `Close`, `Abort`) and two polls: one that
pulls a frame and one that does not. The network is a queue to each host, with
the faults in the constant `Faults`, at most `MaxFaults` of them, those in
`OneWay` only while the server sends no data. The payload
is the position of the byte in its stream, so order, loss and repetition show
in the data. `TcpSocket` has no peer at all: any segment of the four-tuple
arrives in any state, so what it shows needs no assumption on the other end.

`ByteStreams` is the abstract specification: bytes are accepted, arrive in order,
and are given to the application; the end of a stream is signalled only after all
of it. `TcpConnection` implements it under the mapping *accepted* = what
`mn_tcp_send` took, *arrived* = what was read plus the receive ring, *given* =
what was read, *eof* = the flag (`ImplementsStreams`).

### DHCP

`Dhcp` keeps the fields of `mn_dhcp`, the address of the network layer, and the
ticks that have passed since the lease was granted (`elapsed`, which is not in
the code: the clock is checked against it). `Start` is `mn_dhcp_start`; a poll is
quiet or brings one message, and dispatches as `mn_dhcp_poll` does to
`Answered` / `Unanswered` while acquiring and to `PollBound` when bound.
`Parsed` writes `server_id` and `lease` into the client from *every* reply with
our transaction id, before the type is looked at, as `walk` does. Messages are
records: type, transaction id, server, lease. Every reply carries a server id and
a lease. A send may answer `OK`, `FAILED` or `PENDING`.
The application is assumed not to set an address by hand while DHCP runs.

### DNS, NTP and the UDP sockets

In `Resolver` the DNS and NTP clients are two instances of one machine, `start`,
`transmit`, `poll`, because the two files are the same machine up to what they
make of an answer (`Outcome`). Each operation gives the set of its possible
results, one for each answer of `mn_net_send_udp`. Every query that left is
remembered (`asked`), and a reply to any of them may arrive at any later poll,
any number of times; so may a stray datagram for any port, port 0 included. The
id, `now * 7 + mac[5]` in 16 bits, is a bijection of the tick and is modelled as
the tick; the port keeps fewer bits of it, as in the code. The application opens,
reads and closes a socket of its own, and closes only what it opened. DHCP's
socket is in `Dhcp` and not here.

### The network layer, the ARP cache and the driver

In `Net` an address is the set of its one bits, so the `&` and `|` of
`is_broadcast` and `mn_net_next_hop` are intersection and union and masks work as
they do in the code. A step is a whole call. `Poll` is `mn_api_poll`: `eth_rx`
(rotate, then look; a bad frame is consumed and gives nothing), the switch of
`mn_net_poll` (learn, answer a request or an echo), then each service that has
something to send, in order, through `mn_net_tx_begin` and `mn_net_tx_send`.
`UdpSend` is the client's own `UDP_SEND` and `SetIp` any call that sets the
address; the cache is not touched by it, as in the code. The services are seen as
conversations with one destination each. What the driver refuses is lost
(`PollRefused`). The other stations answer requests that reached them, ask, probe, ping,
send damaged frames, and take another interface, announcing it or not. A frame
that finds the controller's ring full is lost. What becomes of a UDP datagram or a TCP segment
is in `Resolver` and `TcpSet`.

### The set of sockets and the clock

`TcpSet` runs `poll_one`, `segment_input` and `passive_open` of `MnTcp` for every
socket of a host under one `mn_tcp_input`: the first socket that owns the four-tuple,
else the first that listens on the port, else nobody. Ports and initial sequence
numbers come from the tick as in `mn_tcp_connect` and `initial_seq`. The other ends send
segments without data: the one a socket expects next, the SYN again, or to nobody what
starts a connection or is left of one. No payload is queued: data is in `TcpConnection`.

The tick is `tick()` of `api.c`: a `uint16_t`, here modulo `TickSpace`, made from a frame
counter of `FrameSpace` values. Every time the code keeps is of that width, and so are
the port and the initial sequence number made from it. Three variables are not in the
code, and what the clock is checked against: `passed`, the frames that have really
passed; `idle`, those of them since `tick()` was last called; and `missed`, those that
`tick()` never saw because the counter had been round (`Turns`, added to `missed` at each call).
`StartTick` is the time at which the behaviour starts with no socket used yet: any time
after `mn_tcp_init` at which the client has only polled. In the run it is the last
before the clock comes round.

Ages are counted to `set->now`, the time of the last poll. A SYN that `connect` sends
between two polls carries a later stamp: `lead` is how much later, and the next poll
(`Polled`) ages that socket by so much less. An age grows by what each poll finds to have passed,
which is a difference modulo `TickSpace`, as in the code. The code however takes the age
itself as one 16-bit difference, now less the stamp, and the model's age is not cut: after
65536 ticks (22 minutes) without a new stamp the two differ. A client that polls
sees each timer expire long before that; what remains is the stamp of an earlier
connection, for which no property promises anything (section 6, CLOSING).

## 3. Runs

Passing runs (all with 2 workers in under five minutes):

| Run | Question | Bounds that matter |
|---|---|---|
| `tcp_socket` | Do the books of a socket balance, does its state agree with its history, and do its rings serve it, whatever segments arrive? | any of 5 flag sets, sequence and acknowledgement numbers around the edges, 3 segments, `SeqSpace` 16 starting at 15 |
| `tcp_safety` | Is every connection two byte streams, with data both ways and a fault? | rings of 2 bytes, 2 bytes one way and 1 the other, one fault: a lost frame at any time; a duplicate, an overtaking, a refusal or an abort while the server has sent no data |
| `tcp_liveness` | Does data arrive, does a close end, does a handshake end? | one lost frame, `MaxRetries` 2, prompt network |
| `dhcp` | Do address, socket, phase and lease agree, and does an acquisition end? | two servers, leases of 2 min, longer, and for ever; 4 messages; polls 0, 1 or 5 ticks apart |
| `net` | Is the cache current, does each packet go to its hop, is who asks answered, and does everything get out? | 5 bits of address, 2 of network; a router, a neighbour, a host beyond the router; 2 cache entries for 3 addresses; 2 receive buffers; one question and one odd event (move, bad frame, refusal, change of address) |
| `tcp_set` | Does a segment have one owner, does a listener keep its line, does TIME_WAIT last, is the clock exact? | 2 sockets, 2 other ends, 4 ephemeral ports, a frame counter of 3 values, a clock of 8 that starts at 7, 3 frames, 2 opens, 3 segments |
| `resolver` | Does every socket have one owner and every query its own answer and an end? | 2 sockets for 3 users, ports colliding within and between clients, 2 starts, 2 tries |

Properties, by run:

* `tcp_socket`: `TypeOK`; `BooksBalance` (what lies between `snd_una` and
  `snd_nxt` is the SYN, or the in-flight part of the send ring, or the FIN);
  `StateAgrees` (the state against whose FIN was sent, seen, acknowledged);
  `RingsServe` (whatever is queued, and wherever in its ring, is then put, sent,
  sent again, read or retired as the sequence says);
  `ClosedForAReason`; `EdgeNeverRetreats` (the right edge of the window we
  advertised, in any step).
* `tcp_safety`: `Synchronised` (the receiver's `rcv_nxt` lies between the
  sender's `snd_una` and `snd_nxt`), `RetiredIsTaken` (a byte leaves the send ring
  only when the peer has it), `CloseIsComplete`, `WindowIsKept` (a window in a
  segment still under way is still there), `ImplementsStreams`.
* `tcp_liveness`: `TypeOK`, with a receive ring of one byte that is soon full;
  `NoSilentStall`, `CloseEnds`, `HandshakeEnds`. The first two of these three
  except the state `Unheard`: the sender waits for a window that its peer has
  opened, but the word of it was lost. There is no persist timer in `poll_one`.
  `CloseEnds` also says that no close ends by a timeout while nothing is lost, so
  every acknowledgement is understood, across the wrap (`GaveUpRightly`; except where
  `tcp_stall` and `tcp_resend` show otherwise).
* `dhcp`: `TypeOK`, `AddressWhileBound`, `SocketHeld`, `PhaseOnTime`,
  `LeaseClockExact`, `NeverPastLease`, `AcquisitionEnds`, `QuietUntilT1` (nothing is
  sent between the ACK and T1, except a REQUEST that was waiting for its next hop).
* `net`: `TypeOK`; `CacheIsCurrent` (the cache says of an address what was last
  said of it, or nothing); `PacketsGoToTheirHop` (the MAC a packet leaves with is
  the one last heard for its own next hop, except for the destinations of section 6);
  `AnsweredOnTime` (once the controller has no frame left, nobody waits for an
  answer); `EventuallySent` (a service that wants to send gets it out, or its next
  hop is nobody's).
* `tcp_set`: `TypeOK`; `OwnersUnique` (no two sockets own one four-tuple, unless a later
  connect took the port: section 6); `ClockExact` (modulo `TickSpace` the clock is `passed` but for
  what it has still to see and for the turns it missed); `TimeWaitLasts` (in frames that
  really passed, whatever the clock made of them); `LineKept`.
* `resolver`: `TypeOK`, `EverySocketOwned`, `PortsUnique`, `MailIsAddressed`
  (a datagram in an open mailbox came for its port, although a datagram to port 0
  lands in a closed socket), `AnswerIsOurs`, `GivenBack`, `EndsOnceHeard`.

Why the bounds are enough. The code looks at differences of sequence numbers, at
the fill of a ring against 0 and its capacity, and at one boundary of each timer.
With rings of one to three bytes every ring is empty, partly full, full and cut
short in the run; with sequence numbers starting just below the wrap each stream
crosses it; `MaxRetries` of 1 or 2 reaches the last retry and the step after it.
One fault at a time is a real restriction of the runs, and so is `OneWay`: with data both
ways only loss is tried, because every other fault on top of it takes the run far
past a million states. For safety the proofs of section 5 lift both: they allow
any number of faults of any kind at any time. The liveness of `tcp_liveness` is
shown for one lost frame only.
`TimeWaitTicks`, `RtoInitial` and so on are scaled to 1 or 2 ticks; only their order
matters. For DHCP the constants keep the ratios that choose branches: the short
lease that is two minutes, an ordinary one with distinct T1 and T2, and the infinite one;
`TicksPerS` and `SecPerM` are 2, so both carries of the clock happen with
remainders, and a poll 5 ticks late crosses several deadlines at once. For the
resolver the tick wraps at 4 and a port keeps one bit of it, so that two lookups
may share a port and differ in id; this is what `AnswerIsOurs` needs. In `net` the
two entries of the cache stand for its four: what matters is that there are fewer
than addresses, and one more than a conversation needs. In `tcp_set` ticks times
three wraps within four ports, so two connects do choose one port. The clock comes
round at the first frame, in the middle of every timer that is running, and the frame counter
comes round within the three frames, unseen if nobody calls `tick()` meanwhile. `TickSpace` (8) is
longer than every timer of the run, as 65536 is than those of the code. `SYMMETRY` there permutes the other ends, which no
definition tells apart; the run has no liveness property.

`CHECK_DEADLOCK FALSE` appears in the runs whose system may stop: when the
bounded applications have written, read and closed, a host has nothing left to do.

Runs that show a disagreement (each checks one property, which fails):
`tcp_stall`, `tcp_resend`, `tcp_overrun`, `dhcp_offer`, `resolver_ends`; see
section 6.

## 4. Fairness

Nothing in the stack runs by itself, so every liveness property rests on the
client's loop, as `docs/GUIDE-BASIC.md` asks of it ("Keep polling"): *the client goes on
calling `mn_api_poll`*. From it:

* frames that are under way are pulled in the end, a poll without a frame runs
  the transmitter, and the clock goes on (`Fairness` in `TcpConnection`; weak for
  the first two, strong for the last because it waits for the wire to be empty;
  written with the condition under which a poll changes something in place of `ENABLED`);
* the application reads what has arrived (`WF(Read)`): a reader that stops
  reading stops the stream, rightly;
* `Prompt = TRUE`: ticks pass only while no frame is under way. The timers are
  a second or more (`RTO_INITIAL`), and a network slower than them for ever would
  time any connection out;
* `Dhcp`: polls that find the clock advanced (`TimelyPoll`), finitely many
  messages, and from some time on no restart. A server that offers and refuses
  for ever keeps the client acquiring, and that is not an error of the client;
* `Net`: the client polls for ever. `Poll` is possible in every state, so weak
  fairness of it is `[]<><<Poll>>_vars`, and is written so. A station that is
  asked again and again finds room in the controller for its answer (`SF` of
  `StationAnswers`): a station that never answers is the case of `resolver_ends`;
* `Resolver`: time passes and polls go on (`Tick`, `PollQuiet`). Finitely many
  starts.

Beyond that no fairness is assumed of the network: a message need never arrive.

## 5. Proofs

Eight modules of proofs. Every safety property of a passing run, invariant or action
property, is a theorem in one of them, for every value of the constants
that satisfies the named assumptions; so is the refinement. What stays with TLC is
named at the end of this section.

`MnTcpProofs` has no theorem about a behaviour: it is what the three proofs about TCP
share. `Good(t)` (of `MnTcp`) is what holds of a socket between any two calls: its type,
`RingsHold`, `Books` and `Agrees`; one lemma for each function of `mn_tcp.c`
shows that the function keeps it, over the arithmetic of `SEQ_ADD` and
`SEQ_SUB` modulo `SeqSpace`.

`TcpSocketProofs`, from `TcpAssumption` (sizes are positive; `SeqSpace` is even
and more than twice either ring and two) and `SocketAssumption` (types of the inputs):

| Theorem | Says |
|---|---|
| `InvariantHolds` | `Spec => []IInv` |
| `TypeCorrect` | `[]TypeOK` |
| `BooksAlwaysBalance` | `[]BooksBalance` |
| `StateAlwaysAgrees` | `[]StateAgrees` |
| `ClosesForAReason` | `ClosedForAReason`, an action property |
| `EdgeStaysOpen` | `EdgeNeverRetreats`, an action property |
| `RingsAlwaysServe` | `[]RingsServe`, from `QueuesServed` of `RingProofs` |

The invariant `IInv` is `Good(t)`: the type of the socket, `RingsHold` (no ring
holds more than its size, `inflight` no more than the send ring), `Books` and
`Agrees`. None of these is inductive alone. `BooksBalance` needs the ring bounds,
because only a distance below half the sequence space makes `SEQ_LEQ` an order
and the acknowledgement in `handle_ack` a number of bytes of the ring; and it
needs `Agrees`, because what lies beyond the last byte is a FIN exactly in the
states that say so. The proof combines the lemmas of `MnTcpProofs` per action of
`Next`. The edge theorem uses the same lemmas with a second fact for each function: what it does to
`rcv_nxt` and the window an acknowledgement sent now would open.

`TcpConnectionProofs`, from `TcpAssumption` and `ConnectionAssumption` (types; a byte is
its position in its stream; both streams, a ring and four are together shorter than
half the sequence space):

| Theorem | Says |
|---|---|
| `InvariantHolds`, `TypeCorrect` | `[]IInv`, `[]TypeOK` |
| `EndsAgree` | `[]Synchronised` |
| `NothingRetiredEarly` | `[]RetiredIsTaken` |
| `CloseLosesNothing` | `[]CloseIsComplete` |
| `WindowsAreKept` | `[]WindowIsKept` |
| `ConnectionIsTwoStreams` | `ImplementsStreams`: the refinement of `ByteStreams` |

They hold for rings, windows, segments and channels of any size and for any number of
lost, repeated, overtaking and refused frames, resets and stopped applications.
None of the properties is inductive: each speaks of two sockets, and what a socket
does depends on segments sent long before. The invariant is stated in *positions*,
what a sequence number is ahead of the initial one. `EndOK` says of one end what it has
numbered (`Sends`: everything taken from the application, in order, then the FIN) and
what it has taken (`Receives`: the beginning of the peer's stream). `Faces` compares
the ends: neither has more than the other has sent, and neither is believed
to have more than it has. `From` says of every segment under way that its sender could
have built it from what it has now: its bytes are those of their positions, it acknowledges no more than was taken, and its window
reaches no further than the sender of it now advertises. `From` survives
every step because no position of an end ever goes back (`Forward`), which is
what makes old segments harmless. One lemma per function shows that
it `Moves` an end so; `Hears` and `Polls` add what the peer's segment, or a
timer, does. Each action of `Next` is then one of four steps of one end, hearing, writing,
reading, or carrying (the network's faults), and the refinement maps these to
`Arrive`, `Accept`, `Give` and stuttering, with the end of a stream signalled only after
all of it.

The bound on the streams is stronger than the code's own (a TCP stream may be of
any length). The network here may hold a segment for ever, and a segment held while half
the sequence space goes by would be taken for a new one; the code relies, as TCP
does, on a segment not living that long.

`DhcpProofs`, from `DhcpAssumption` (positive constants, a short lease of two
minutes at least, the retry time within the tick):

| Theorem | Says |
|---|---|
| `InvariantHolds`, `TypeCorrect` | `[]IInv`, `[]TypeOK` |
| `AddressFollowsLease` | `[]AddressWhileBound` |
| `SocketGivenBack` | `[]SocketHeld` |
| `ClockLosesNothing` | `[]LeaseClockExact`, for every tick rate and every pace of polls |
| `RenewsOnTime` | `[]PhaseOnTime` |
| `LeaseIsKept` | `[]NeverPastLease` |
| `QuietBeforeT1` | `QuietUntilT1`, an action property |

Here `IInv` is `Sound(d)` with the address and clock parts: the type of the
client, `Terms` (0 < T1 < T2 <= lease, or no renewal at all), `Times` (the age is below
the lease and below the next deadline, and the phase is that of the last deadline
met), `Single` (only a bound client, which counts no tries, waits for a next hop:
an acquisition broadcasts), `Holds` (who holds the socket). The clock lemma is a statement
about two carries with remainders and rests on division with remainder only.

`QuietBeforeT1` needs more than the next-state relation: that a bound client's
next deadline is past its age (`Times`), so that a poll that sends had met a
deadline, which is T1 or later (lemma `QuietPoll`).

`ResolverProofs`, from `ResolverAssumption` (positive constants; the ports repeat within
the tick; `None` is no name and no socket):

| Theorem | Says |
|---|---|
| `InvariantHolds`, `TypeCorrect` | `[]IInv`, `[]TypeOK` |
| `SocketsHaveOneOwner` | `[]EverySocketOwned`, for any number of sockets |
| `PortsStayUnique` | `[]PortsUnique` |
| `MailIsForItsSocket` | `[]MailIsAddressed` |
| `AnswersAreOurs` | `[]AnswerIsOurs` |
| `SocketsGivenBack` | `[]GivenBack` |

The invariant `IInv` takes clients, sockets and queries as parameters (`Sound`), because one poll runs the
clients in turn over the same table, and the second starts from what the first
has left. It says who owns each socket, in both directions and by one owner
(`Owned`); that the port of a client's socket is the one its tick gives, which is why an
old port cannot be mistaken for a new one; that
a waiting mailbox holds mail for the port of now (`Addressed`), and an answer only to a query that left
(`Genuine`). `AnswerIsOurs` needs the last for mailboxes and not only for results: an
answer to an earlier query may lie in the mailbox while the client turns to the next, and only
the id then tells them apart.

`RingProofs`, from `Size \in Nat \ {0}` alone:

| Theorem | Says |
|---|---|
| `PutAppends` | data put into a ring with room for it comes after what is there |
| `PeekReads` | any span that is read is that span of the sequence |
| `OldestRetires` | moving the head drops the oldest bytes and no other |
| `RingIsQueue`, `QueuesServed` | every ring serves as a queue, so every sequence that fits is served |

Each is a split on which side of the end of the array a position falls: of the
head, of the first free byte, and of the end of the data. Reduction `% size` is the
subtraction `Wrap`, because no sum in the code passes twice the size. `RingsAlwaysServe` of
`TcpSocketProofs` uses them: the invariant of the socket says that the two queues fit
their rings, and `QueuesServed` the rest.

`NetProofs`, from `CacheAssumption` (a cache of at least one entry; the null
pointer is no entry), `NetAssumption` (types; stations have addresses of their own;
as many MACs as a station may move) and `FrameAssumption` (nothing in view is no frame):

| Theorem | Says |
|---|---|
| `LearnReplaces` | what is learned is what a lookup then answers; any other address is answered as before, or not at all; no address gets two entries |
| `TypeCorrect` | `[]TypeOK` |
| `CacheStaysCurrent` | `[]CacheIsCurrent`, for a cache of any size and any number of stations |
| `PacketsFindTheirHop` | `[]PacketsGoToTheirHop`, for any address plan and any services |
| `AskersAreAnswered` | `[]AnsweredOnTime`, for a receive ring of any size |

Its `IInv` has beside the types: no station has moved more often than odd things
have happened (so that its MAC is one of `Mac`); the cache is current; the frames of
the last step were aimed by it; and, because `AnsweredOnTime` says nothing while frames
wait, that every question not yet answered is still in the controller. The step of a
poll goes through three relations between what a call has and what it leaves:
`InputStep` (a frame is learned from and answered), `Sends` (whoever transmits leaves
address, cache and the frames before it alone, and aims its own) and `ServicesSend`,
that the services in turn are such a transmission. `Services` is a recursive function
over the conversations; the prover is given no induction, so `LeastNat` takes
the least conversation for which the claim fails, and `Unfolded` shows first that the
function satisfies its own equation.

`TcpSetProofs`, from `TcpAssumption` and `SetAssumption` (types; the behaviour starts at a
value of the clock; the ports that the sockets would
choose in one tick differ, `(NSockets - 1) * PortStride < PortRange`, in the code
7 * 37 < 4096):

| Theorem | Says |
|---|---|
| `InvariantHolds`, `TypeCorrect` | `[]SetInv`, `[]TypeOK` |
| `OwnersStayUnique` | `[]OwnersUnique`, for any number of sockets, listeners and callers |
| `TimeWaitIsKept` | `[]TimeWaitLasts`, across turns of either counter |
| `LinesAreKept` | `LineKept`, an action property |
| `ClockLosesNothing` | `[]ClockExact`, for a clock and a frame counter of any widths |

`SetInv` has four parts. `ClockInv` says that what the next `tick()` will find
(`Behind`) is `idle` modulo the frame counter, and that the clock is `passed - idle - missed`
modulo its own width. A call then adds `Behind` on one side and takes `idle` less its whole
turns on the other, which is the same number; all that is needed of arithmetic is that a sum may be reduced before or
after something is added (`SumRemainder`), here of two moduli and of differences that are
negative before they are reduced. `Typed` has `Good` of every socket. `Placed` joins state, address and origin of a socket: who
listens, or has been called, has a port of the application's, and who connected
the port of its tick. `Apart` is about two sockets: of two that own the same segments, the newer
connected. That is not inductive without `Placed`, nor without what the
dispatcher does first: a SYN goes to a listener only when no socket owns it
(`Dispatch`), so an accepted caller is nobody's already. That the two connected in
different ticks follows from `PortsOfOneTick`. `Waits` bounds the age of the
timer, and with it `Due`, the most that the next poll will add to it, by the frames that have passed since the
last FIN acknowledged: it speaks of real frames, and what keeps it is that a
difference modulo `TickSpace` grows by one at most with each of them (`Later`). It also needs a fact about
functions which the properties of one socket do not: nothing but an acknowledged FIN
sets that age back (`Untimed`, `Waited`), and a `Lead` is
never of a socket in TIME_WAIT. `LineKept` needs one more: a socket that the
handshake has just opened has no retries counted, so that the
timers of the same poll cannot end it (`Answered`, `Moved`). A poll is proved for one socket
(`PollStep`), given whatever the dispatcher made of it, and then for the set.

Only model-checked:

* all liveness, `NoSilentStall`, `CloseEnds`, `HandshakeEnds`, `AcquisitionEnds`,
  `EndsOnceHeard` and `EventuallySent`: it needs fairness and `ENABLED`, which are
  outside what the prover does;
* the properties of section 6, which are false of the code;
* that the constants of the code satisfy the assumptions is arithmetic on its
  `#define`s, and is nowhere computed by TLC, whose runs have small ones.

## 6. What was found

Five places where the code does something that a document, a comment or a test
of the repository says it does not. Each has a run whose counterexample shows it.

1. `tcp_stall`, `docs/ABI.md:117` "a slow reader never stalls the sender". If
   both ends have data queued behind closed windows, each owes the other a
   window update; `poll_one` goes into its transmit block because there is data,
   sends nothing because the window is closed, and returns before the update
   (`mn_tcp.c:646`). Both stand still for ever.
2. `tcp_resend`, `mn_tcp.c:624` "the oldest segment only". The timer runs while
   `fin_sent`, acknowledged or not: in FIN_WAIT_2 the FIN that the peer has
   acknowledged is sent again until the connection ends in TIMEOUT.
3. `tcp_overrun`, `mn_tcp.c:644`. The acknowledgement of an out-of-order segment
   retires data while its window is not read. The sender then believes in an old
   window and sends past the edge.
4. `dhcp_offer`, `test/test_dhcp.c:124,126`. A second server's OFFER that is
   ignored has already overwritten `server_id` (`mn_dhcp.c:163`): the REQUEST sent
   again names one server's address and the other's id.
5. `resolver_ends`, `docs/GUIDE-BASIC.md:279`, `test/test_dnsntp.c:123`. A send
   that is PENDING is never counted as a try (`mn_dns.c:69`, `mn_ntp.c:20`): when
   the next hop does not answer ARP, a query waits for ever.

Seen while modelling, stated by no run:

* a renewal that is PENDING when its ACK comes leaves `pending` set; the client,
  BOUND with its socket closed, sends one REQUEST more (`mn_dhcp.c:98`): the
  exception in `QuietUntilT1`;
* a lease of 2 to 7 minutes has T2 at its end and is renewed but never rebound;
  with a retry interval of one minute the clamp at `mn_dhcp.c:289` never bites;
* a DNS start that fails with a malformed name, or because no server is known,
  keeps the socket of the lookup before until the next start;
* two lookups started in the same tick share id and port (`mn_dns.c:87`);
* a SYN|ACK that arrives again is not acknowledged again;
* the retransmission timer that an acknowledgement restarts (`mn_tcp.c:368`) starts at the
  time of the last poll (`mn_tcp.c:557`), so the next retransmission is early by the time since;
* a TCP send that stays PENDING in the handshake counts no retry;
* from CLOSING, TIME_WAIT is timed by a stamp left from before (`mn_tcp.c:616`)
  and normally ends at the next poll, where `REQUIREMENTS.md:545` has two seconds:
  the exception in `TimeWaitLasts`;
* the ephemeral port is `now * 3 + mac[5] + index * 37` in 12 bits (`mn_tcp.c:208`):
  if socket 1 connects 1353 ticks (27 s) after socket 0 to the same end, and
  socket 0 is still open, both have one four-tuple and every segment goes to
  socket 0: the exception in `OwnersUnique`;
* a SYN for a four-tuple in TIME_WAIT gets no answer;
* `is_broadcast` does not look at the network part: a destination beyond the
  router whose host part, under our mask, is all ones is broadcast on our LAN
  (`mn_net.c:172`): the exception in `PacketsGoToTheirHop`;
* an ARP probe for our address is remembered as an entry for 0.0.0.0
  (`mn_net.c:126`); entries never expire, and an address that changes leaves them;
* with no gateway the next hop is 0.0.0.0, asked for without end (PENDING);
* a damaged frame is consumed and `POLL` answers 0, as if none had come
  (`mn_eth45e100.c:71`);
* `eth_tx` copies the frame to the transmit buffer before it waits for the
  transmitter to be idle (`mn_eth45e100.c:107`).

## 7. What is not modelled, and why

* Frame formats and checksums: stateless functions over bytes. A frame is a
  record of what its reader looks at; an invalid one is a lost one.
* The copy by DMA, and where in the pool each ring and mailbox lies: fixed once by
  `mn_tcp_init` and `mn_net_set_pool`. Mailboxes are single datagrams.
* Registers of the driver: padding, sizes, the bounded wait. A frame is taken or refused.
* Jump table and trampoline: assembly that maps memory and swaps the zero page.
* The whole host at once: TCP, DHCP and the resolver see ARP as the answer
  `PENDING` of any send, for any length of time, and `Net` sees them as
  conversations. So what a lost lease does to an open connection is not here.
* `LINK_TX` and `LINK_RX` (`api.c:227`), by which a client sends and takes raw
  frames itself: a client that calls `LINK_RX` takes frames that `POLL` would have pulled.
* `send_rst` to a segment that is nobody's changes no socket, and is not in `TcpSet`.
* `mn_ntp_civil`: a pure function from seconds to a date, which `test_dnsntp.c` checks
  against known dates around the end of the era.
* The entries of the API that only copy or set a register (`SET_RTC` among them), the counters of statistics, `ip_id`.
* `src/spike`, `tools`, tests: not part of the stack.

## 8. Plan

Order of the work; what is done is marked.

1. **Done.** `MnTcp`, `TcpSocket`, `TcpConnection`, `ByteStreams`, and
   `TcpSocketProofs`: TCP first, because it holds most of the logic and most of
   what a test cannot reach.
2. **Done.** `Dhcp`, `DhcpProofs`.
3. **Done.** `Resolver`, `ResolverProofs`.
4. **Done.** `ArpCache`, `Eth45E100`, `Net`, `NetProofs`.
5. **Done.** `TcpSet`, with the clock; `TcpSetProofs`.
6. **Done.** `Ring`, `RingProofs`, `TcpRings`. To come: the pool, that no two rings overlap.
7. `mn_ntp_civil` against a calendar that goes from day to day.
8. A host: DHCP's address, the sockets and the resolver over `Net`
   (what a lost lease does to open connections; who may starve whom of sockets).
9. **Done.** `TcpConnectionProofs`: that `TcpConnection` implements `ByteStreams`.

Running things by hand, in this directory:

    tlc -workers 2 -config tcp_safety.cfg TcpConnection
    tlc -workers 2 -config tcp_socket.cfg MCTcpSocket
    tlc -workers 2 -config dhcp.cfg Dhcp
    tlc -workers 2 -config resolver.cfg Resolver
    tlc -workers 2 -config net.cfg MCNet
    tlc -workers 2 -config tcp_set.cfg MCTcpSet
    tlapm MnTcpProofs.tla
    tlapm TcpSocketProofs.tla
    tlapm TcpConnectionProofs.tla
    tlapm ResolverProofs.tla
    tlapm DhcpProofs.tla
    tlapm NetProofs.tla
    tlapm TcpSetProofs.tla
    tlapm RingProofs.tla
