------------------------------- MODULE TcpSet -------------------------------
(***************************************************************************)
(* The set of sockets of src/net/mn_tcp.c under mn_api_poll: which socket  *)
(* a segment belongs to, which ports connect chooses, who waits on a port, *)
(* and the clock of src/abi/api.c that times them all.                     *)
(*                                                                         *)
(* What one socket does is in MnTcp; here no payload is queued, and the    *)
(* hosts at the other end send segments without data: the one a socket     *)
(* expects next, or the SYN again, or to nobody what starts a connection   *)
(* or is left of one.                                                      *)
(*                                                                         *)
(* Every time the code keeps is modulo TickSpace.  The ages of a socket    *)
(* are counted to the now of the last poll, set->now of the code; a        *)
(* connect between two polls stamps a later time (lead).  An age grows by  *)
(* what each poll finds to have passed, modulo TickSpace; it is counted on *)
(* where the difference the code takes, now less the stamp, comes round    *)
(* after TickSpace ticks.  A client that polls again before its timers are *)
(* TickSpace overdue sees no difference, except in the stamp an earlier    *)
(* connection left for CLOSING (TimeWaitLasts); where there is one the age *)
(* here is the greater.                                                    *)
(***************************************************************************)
EXTENDS MnTcp, FiniteSets

CONSTANTS
  NSockets,     \* the sockets of the set
  Ends,         \* the addresses and ports at the other end
  ListenPorts,  \* the ports the application listens on
  PortBase,     \* 49152
  PortRange,    \* 4096
  PortStride,   \* 37
  FrameSpace,   \* 256, the values of the frame counter
  TickSpace,    \* 65536, the values of a time
  StartTick,    \* the time at which the sockets, all of them idle, are watched
  Results,      \* what the link says to the frames of a poll
  InFlags,      \* the flags of a segment that arrives
  RemoteIss,    \* the initial sequence number of the other ends
  None,         \* no segment; no time
  MaxFrames,    \* bound on the video frames that pass, StartTick of them before
  MaxOpens,     \* bound on connects and listens
  MaxSegs       \* bound on segments that arrive

Tick == 0 .. TickSpace - 1

ASSUME SetAssumption ==
  /\ NSockets \in Nat \ {0}
  /\ FrameSpace \in Nat \ {0} /\ TickSpace \in Nat \ {0}
  /\ PortBase \in Nat \ {0} /\ PortRange \in Nat \ {0}
  /\ PortStride \in Nat \ {0}
  /\ (NSockets - 1) * PortStride < PortRange  \* the ports of one tick differ
  /\ ListenPorts \subseteq Nat \ {0}
  /\ Results \subseteq SendResult /\ InFlags \subseteq SUBSET SegFlags
  /\ RemoteIss \in SeqNo
  /\ StartTick \in Tick /\ StartTick <= MaxFrames
  /\ MaxFrames \in Nat /\ MaxOpens \in Nat /\ MaxSegs \in Nat

Index == 0 .. NSockets - 1
Port == ListenPorts \cup (PortBase .. PortBase + PortRange - 1)

VARIABLES
  sock,    \* the sockets
  addr,    \* of each, local_port and the end its remote_ip and remote_port are
  frame,   \* the frame counter
  clock,   \* ticks and last_frame of api.c, and set->now
  passed,  \* the frames that have passed
  idle,    \* of them, those since tick() was called
  missed,  \* and those it did not see, the counter having been round
  lead,    \* how far after the last poll each socket's connect is stamped
  opened,  \* how each socket was opened, at which tick, and how many were before
  fin_at,  \* the frames passed when each, in TIME_WAIT, acknowledged a FIN
  opens, segs

vars == <<sock, addr, frame, clock, passed, idle, missed, lead, opened, fin_at,
          opens, segs>>

(* mn_tcp_init, or any time after it at which no socket has been used yet. *)
Init ==
  /\ sock = [i \in Index |-> FreshSocket]
  /\ addr = [i \in Index |-> [port |-> 0, end |-> None]]
  /\ frame = 0
  /\ clock = [ticks |-> StartTick, last_frame |-> 0, now |-> StartTick]
  /\ passed = StartTick /\ idle = 0 /\ missed = 0
  /\ lead = [i \in Index |-> 0]
  /\ opened = [i \in Index |-> [how |-> None, tick |-> 0, nth |-> 0]]
  /\ fin_at = [i \in Index |-> None]
  /\ opens = 0 /\ segs = 0

----------------------------------------------------------------------------
(* The clock. *)

(* [mutant of ticked: the difference is not cut to the counter's width]    *)
ticked_NoWrap(c) ==
  [c EXCEPT !.ticks = (@ + (frame - c.last_frame)) % TickSpace,
            !.last_frame = frame]

(* tick(): the uint8_t difference of the frames, added in 16 bits          *)
ticked(c) ==
  [c EXCEPT !.ticks = (@ + ((frame - c.last_frame) % FrameSpace)) % TickSpace,
            !.last_frame = frame]

(* The whole turns of the frame counter since tick() was called.           *)
Turns == idle - (idle % FrameSpace)

TickCalled == idle' = 0 /\ missed' = missed + Turns

----------------------------------------------------------------------------
(* Whose segment. *)

(* [mutant of Live: a socket that listens owns what its last caller sends] *)
Live_Listening(t) == t.state # "CLOSED"
Live(t) == t.state \notin {"CLOSED", "LISTEN"}
First(S) == CHOOSE i \in S : \A j \in S : i <= j

Owners(s) ==
  {i \in Index : Live(sock[i]) /\ addr[i] = [port |-> s.port, end |-> s.end]}

(* [mutant of Owner: a SYN is for whoever listens, before its owner] *)
Owner_NotOfSyn(s) == IF "SYN" \in s.seg.fl THEN {} ELSE Owners(s)
Owner(s) == Owners(s)

Listeners(s) ==
  {i \in Index : /\ s.seg.fl \cap {"SYN", "ACK", "RST"} = {"SYN"}
                 /\ sock[i].state = "LISTEN" /\ addr[i].port = s.port}

(* Two sockets never have the same at one tick. *)
initial_seq(now, i) == (NSockets * now + i) % SeqSpace

(* mn_tcp_input.  A segment that is nobody's changes no socket: send_rst.  *)
Dispatched(s, r) ==
  IF s = None THEN sock
  ELSE IF Owner(s) # {}
  THEN [sock EXCEPT ![First(Owner(s))] = segment_input(@, s.seg)]
  ELSE IF Listeners(s) # {}
  THEN [sock EXCEPT ![First(Listeners(s))] =
          passive_open(@, s.seg, initial_seq(clock.now, First(Listeners(s))), r).t]
  ELSE sock

Accepts(s) == IF s = None \/ Owner(s) # {} THEN {} ELSE Listeners(s)

----------------------------------------------------------------------------
(* mn_api_poll: a segment or none, the clock, and every socket in turn.    *)

LinkOf(r) == [takes |-> IF r = "OK" THEN 1 ELSE 0,
              then  |-> IF r = "OK" THEN "FAILED" ELSE r]

(* A SYN that connect sent since the last poll is stamped later than the   *)
(* now of that poll; the next finds so much less time gone.                *)
Lead(i) == IF sock[i].state = "SYN_SENT" THEN lead[i] ELSE 0

Polled(u, i, d, r) ==
  poll_one([u EXCEPT !.timewait_age = Lesser(@ + Lead(i), TimeWaitTicks)],
           (d - Lead(i)) % TickSpace, LinkOf(r)).t

(* A FIN that reached a socket in TIME_WAIT, or took it there, is answered *)
(* by this poll.                                                           *)
FinAnswered(u, i) ==
  sock[i] # u /\ u.state = "TIME_WAIT" /\ u.ack_pending

PollWith(s, r) ==
  LET got == Dispatched(s, r)
      c   == ticked(clock)
  IN /\ sock' = [i \in Index |->
                   Polled(got[i], i, (c.ticks - clock.now) % TickSpace, r)]
     /\ clock' = [c EXCEPT !.now = c.ticks]
     /\ TickCalled
     /\ addr' = IF Accepts(s) = {} THEN addr
                ELSE [addr EXCEPT ![First(Accepts(s))].end = s.end]
     /\ fin_at' = [i \in Index |->
                     IF FinAnswered(got[i], i) THEN passed
                     ELSE IF got[i].state = "TIME_WAIT" THEN fin_at[i] ELSE None]
     /\ lead' = [i \in Index |-> 0]
     /\ UNCHANGED <<frame, passed, opened, opens>>

(* What can arrive: for a socket what it expects of its end, or the SYN    *)
(* again, acknowledging all it has sent or not the last of it; for nobody  *)
(* what starts a connection or is left of one.                             *)
Arriving(e, p, fl, seq, ack) ==
  [port |-> p, end |-> e,
   seg |-> [fl |-> fl, seq |-> seq, ack |-> IF "ACK" \in fl THEN ack ELSE 0,
            wnd |-> 1, mss |-> 0, data |-> << >>]]

Arrivals(e, p) ==
  LET owners == {i \in Index : Live(sock[i]) /\ addr[i] = [port |-> p, end |-> e]}
      first(fl, t) == IF "SYN" \in fl THEN RemoteIss ELSE t.rcv_nxt
  IN IF owners = {} THEN {Arriving(e, p, fl, RemoteIss, 0) : fl \in InFlags}
     ELSE UNION {{Arriving(e, p, fl, first(fl, sock[i]), a) :
                    fl \in InFlags, a \in {sock[i].snd_una, sock[i].snd_nxt}} :
                 i \in owners}

PollQuiet == \E r \in Results : PollWith(None, r) /\ UNCHANGED segs

PollSegment ==
  /\ segs < MaxSegs /\ segs' = segs + 1
  /\ \E e \in Ends, p \in {addr[i].port : i \in Index} \ {0} :
       \E s \in Arrivals(e, p), r \in Results : PollWith(s, r)

----------------------------------------------------------------------------
(* The application, between polls, and the screen. *)

Opened(i, how, tick) ==
  /\ opens < MaxOpens /\ opens' = opens + 1
  /\ opened' = [opened EXCEPT ![i] = [how |-> how, tick |-> tick, nth |-> opens]]
  /\ fin_at' = [fin_at EXCEPT ![i] = None]

(* [mutant of local_port: forgets the mask] *)
local_port_NoMask(now, i) == PortBase + now * 3 + i * PortStride
local_port(now, i) == PortBase + ((now * 3 + i * PortStride) % PortRange)

Connect(i) ==
  /\ sock[i].state = "CLOSED"
  /\ LET c == ticked(clock) IN
     /\ clock' = c /\ TickCalled
     /\ Opened(i, "connect", c.ticks)
     /\ \E e \in Ends, r \in Results :
          /\ sock' = [sock EXCEPT ![i] =
                        mn_tcp_connect(@, initial_seq(c.ticks, i), r).t]
          /\ addr' = [addr EXCEPT ![i] =
                        [port |-> local_port(c.ticks, i), end |-> e]]
     /\ lead' = [lead EXCEPT ![i] = (c.ticks - clock.now) % TickSpace]
  /\ UNCHANGED <<frame, passed, segs>>

Listen(i) ==
  /\ sock[i].state = "CLOSED"
  /\ Opened(i, "listen", clock.ticks)
  /\ sock' = [sock EXCEPT ![i] = mn_tcp_listen(@)]
  /\ \E p \in ListenPorts :
       addr' = [addr EXCEPT ![i].port = p]
  /\ UNCHANGED <<frame, clock, passed, idle, missed, lead, segs>>

Close(i) ==
  /\ sock' = [sock EXCEPT ![i] = mn_tcp_close(@)]
  /\ sock' # sock
  /\ UNCHANGED <<addr, frame, clock, passed, idle, missed, lead, opened, fin_at,
                 opens, segs>>

Abort(i) ==
  /\ \E r \in Results : sock' = [sock EXCEPT ![i] = mn_tcp_abort(@, r).t]
  /\ sock' # sock
  /\ fin_at' = [fin_at EXCEPT ![i] = None]
  /\ UNCHANGED <<addr, frame, clock, passed, idle, missed, lead, opened, opens,
                 segs>>

Frame ==
  /\ passed < MaxFrames /\ passed' = passed + 1
  /\ frame' = (frame + 1) % FrameSpace
  /\ idle' = idle + 1
  /\ UNCHANGED <<sock, addr, clock, missed, lead, opened, fin_at, opens, segs>>

Next ==
  \/ PollQuiet \/ PollSegment \/ Frame
  \/ \E i \in Index : Connect(i)
  \/ \E i \in Index : Listen(i)
  \/ \E i \in Index : Close(i)
  \/ \E i \in Index : Abort(i)

Spec == Init /\ [][Next]_vars

----------------------------------------------------------------------------
(* Properties. *)

(* Every variable has its type. *)
TypeOK ==
  /\ \A i \in Index :
       /\ sock[i] \in Socket
       /\ Live(sock[i]) => addr[i].port \in Port /\ addr[i].end \in Ends
       /\ sock[i].state = "LISTEN" => addr[i].port \in ListenPorts
  /\ frame \in 0 .. FrameSpace - 1
  /\ clock \in [ticks : Tick, last_frame : 0 .. FrameSpace - 1, now : Tick]
  /\ passed \in 0 .. MaxFrames /\ idle \in 0 .. passed
  /\ missed \in 0 .. passed - idle
  /\ lead \in [Index -> Tick]
  /\ opened \in [Index -> [how : {None, "connect", "listen"},
                           tick : Tick, nth : 0 .. MaxOpens]]
  /\ fin_at \in [Index -> 0 .. MaxFrames \cup {None}]
  /\ opens \in 0 .. MaxOpens /\ segs \in 0 .. MaxSegs

(* A segment has one owner: two sockets are never connected to the same    *)
(* end from the same port, whatever SYNs come twice or late for a port     *)
(* where several sockets listen.  Only a connect can break this, and not   *)
(* one in the same tick as the other: its port depends on the tick, and    *)
(* comes round (mn_tcp.c:208).                                             *)
OwnersUnique ==
  \A i, j \in Index :
    i # j /\ Live(sock[i]) /\ Live(sock[j]) /\ addr[i] = addr[j]
      /\ opened[i].nth > opened[j].nth
    => /\ opened[i].how = "connect"
       /\ opened[j].how = "connect" => opened[i].tick # opened[j].tick

(* Who waits on a port goes on waiting until a caller has completed the    *)
(* handshake: a caller that gives up, is reset or never answers does not   *)
(* close the line (docs/ABI.md, REQUIREMENTS.md 5.11); only the            *)
(* application does.                                                       *)
LineKept ==
  [][\A i \in Index :
       sock[i].state \in {"LISTEN", "SYN_RCVD"} =>
         \/ sock'[i].state \in {"LISTEN", "SYN_RCVD"} /\ addr'[i].port = addr[i].port
         \/ Synced(sock'[i]) /\ sock[i].state = "SYN_RCVD"
         \/ Close(i) \/ Abort(i)]_vars

(* A socket in TIME_WAIT stays for TIME_WAIT_TICKS frames after the last   *)
(* FIN it acknowledged there, unless it is reset or aborted                *)
(* (mn_tcp.c:611), although the clock that times it may miss frames.  One  *)
(* that came from CLOSING has acknowledged none there: its timer is what   *)
(* an earlier connection left, and no time is promised for it.             *)
TimeWaitLasts ==
  \A i \in Index :
    sock[i].state = "CLOSED" /\ fin_at[i] # None =>
      passed - fin_at[i] >= TimeWaitTicks

(* What tick() last returned is, in 16 bits, the number of frames that had *)
(* passed then but for whole turns of the frame counter between two calls  *)
(* of it: those are lost (api.c:59), and nothing else is, nor is any frame *)
(* counted twice, over any calls and any turns of the clock itself.        *)
ClockExact == clock.ticks = (passed - idle - missed) % TickSpace

============================================================================
