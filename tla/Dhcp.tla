-------------------------------- MODULE Dhcp --------------------------------
(***************************************************************************)
(* The DHCP client of mega-net (src/net/mn_dhcp.c), driven by mn_api_poll, *)
(* in an open environment: one or more servers that may answer anything at *)
(* any time, once, twice or never, and a link that may refuse a frame.     *)
(*                                                                         *)
(* mn_api_poll pulls a frame and then polls the client, and the client     *)
(* polls its socket whenever it has one, so a datagram for port 68 never   *)
(* waits in the mailbox from one call to the next: it is part of the step  *)
(* Poll.  Each server has one address to give, named after the server.     *)
(*                                                                         *)
(* A timestamp is its age, as in MnTcp; the lease clock is kept as in the  *)
(* code, ticks into seconds into minutes.                                  *)
(***************************************************************************)
EXTENDS Integers, FiniteSets

CONSTANTS
  Servers,     \* who may answer; each stands for its address as well
  None,        \* 0.0.0.0
  XidSpace,    \* how many transaction ids there are
  Leases,      \* the values of the lease option, in seconds
  TicksPerS,   \* TICKS_PER_S, 50
  SecPerM,     \* 60
  TickSpace,   \* 2^16
  ShortLease,  \* 120 s: a shorter lease is not renewed
  ForeverS,    \* LEASE_FOREVER_S
  RetryTicks,  \* RETRY_TICKS
  MaxTries,    \* MAX_TRIES
  RenewRetryM, \* RENEW_RETRY_M
  Ticks,       \* ticks that may pass between two polls
  MaxElapsed,  \* bound on the ticks that pass under one lease
  MaxMessages  \* bound on the datagrams that arrive

ASSUME DhcpAssumption ==
  /\ None \notin Servers
  /\ \A c \in {XidSpace, TicksPerS, SecPerM, TickSpace, RetryTicks, MaxTries,
            RenewRetryM} :
       c \in Nat \ {0}
  /\ ForeverS \in Nat /\ MaxElapsed \in Nat /\ MaxMessages \in Nat
  /\ Leases \subseteq Nat
  /\ ShortLease \in Nat /\ ShortLease >= 2 * SecPerM
  /\ RetryTicks < TickSpace
  /\ \A dt \in Ticks : dt \in Nat /\ dt + RetryTicks < TickSpace

States   == {"IDLE", "SELECTING", "REQUESTING", "BOUND", "FAILED"}
Phases   == {"BOUND", "RENEWING", "REBINDING"}
Acquiring == {"SELECTING", "REQUESTING"}
Types    == {"OFFER", "ACK", "NAK"}
Xids     == 0 .. XidSpace - 1

(* A reply: its transaction, its type, who sent it, the lease it names.    *)
Message == [xid : Xids, type : Types, server : Servers, lease : Leases]
Nothing == [xid |-> 0, type |-> "none", server |-> None, lease |-> 0]

(* What goes out: the type, whether to everyone, and the two options of a  *)
(* REQUEST that answers an offer.                                          *)
Silence == [type |-> "none", to |-> None, reqip |-> None, server |-> None]

Client ==
  [state : States, phase : Phases, sock : BOOLEAN, xid : Xids,
   offered_ip : Servers \cup {None}, server_id : Servers \cup {None},
   lease_s : Nat, age_m : Nat, t1_m : Nat, t2_m : Nat, next_m : Nat,
   lease_m : Nat, tick_acc : 0 .. TicksPerS - 1, sec_acc : 0 .. SecPerM - 1,
   tries : 0 .. MaxTries, pending : BOOLEAN,
   sent_age : 0 .. RetryTicks]

VARIABLES
  d,         \* the client
  ip,        \* the address of the network layer
  out,       \* what the last step transmitted
  elapsed,   \* ticks since the lease was granted
  messages   \* datagrams that have arrived

vars == <<d, ip, out, elapsed, messages>>

Least(a, b) == IF a < b THEN a ELSE b

(* The zeros of .bss, and the socket index api.c sets. *)
Fresh ==
  [state |-> "IDLE", phase |-> "BOUND", sock |-> FALSE, xid |-> 0,
   offered_ip |-> None, server_id |-> None, lease_s |-> 0,
   age_m |-> 0, t1_m |-> 0, t2_m |-> 0, next_m |-> 0, lease_m |-> 0,
   tick_acc |-> 0, sec_acc |-> 0, tries |-> 0, pending |-> FALSE,
   sent_age |-> 0]

Init ==
  /\ d = Fresh /\ ip = None /\ out = Silence /\ elapsed = 0 /\ messages = 0

----------------------------------------------------------------------------
(* transmit(): a send the link refused counts as a try, one that waits for *)
(* the next hop does not.                                                  *)

(* [mutant of Counts: only what has left the host is a try] *)
Counts_Sent(r) == r = "OK"
Counts(r) == r # "PENDING"

Transmitted(c, r) ==
  [c EXCEPT !.pending = r = "PENDING", !.sent_age = 0,
            !.tries = IF Counts(r) THEN @ + 1 ELSE @]

(* Renewing goes to the server that granted the lease, the rest to all;    *)
(* the broadcast address needs no ARP.                                     *)
Unicast(c) == c.state = "BOUND" /\ c.phase = "RENEWING"
Results(c) == {"OK", "FAILED"} \cup IF Unicast(c) THEN {"PENDING"} ELSE {}

Built(c, type) ==
  LET answers == type = "REQUEST" /\ c.state # "BOUND"
  IN [type   |-> type,
      to     |-> IF Unicast(c) THEN c.server_id ELSE None,
      reqip  |-> IF answers THEN c.offered_ip ELSE None,
      server |-> IF answers THEN c.server_id ELSE None]

(* The step ends with the client c having transmitted a message. *)
Transmit(c, type) ==
  \E r \in Results(c) :
    /\ d' = Transmitted(c, r)
    /\ out' = IF r = "OK" THEN Built(c, type) ELSE Silence

Rest(c) == d' = c /\ out' = Silence

(* What is sent again while acquiring. *)
Due(c) == IF c.state = "SELECTING" THEN "DISCOVER" ELSE "REQUEST"

----------------------------------------------------------------------------
(* parse(), granted(), the lease clock. *)

(* A reply to our transaction leaves its options in the client, accepted   *)
(* or not.                                                                 *)
Ours(c, m) == m # Nothing /\ m.xid = c.xid
Parsed(c, m) ==
  IF Ours(c, m) THEN [c EXCEPT !.server_id = m.server, !.lease_s = m.lease]
  ELSE c
TypeOf(c, m) == IF Ours(c, m) THEN m.type ELSE "none"

Renewable(s) == s >= ShortLease /\ s < ForeverS

(* [mutant of NextAtT1: the deadline of the last renewal is kept] *)
NextAtT1_Kept(c, m) == c.next_m
NextAtT1(c, m) == m \div 2

granted(c) ==
  LET m == IF Renewable(c.lease_s) THEN c.lease_s \div SecPerM ELSE 0
  IN [c EXCEPT !.phase = "BOUND", !.age_m = 0, !.tick_acc = 0, !.sec_acc = 0,
               !.lease_m = m, !.t1_m = m \div 2, !.t2_m = m - (m \div 8),
               !.next_m = NextAtT1(c, m)]

(* [mutant of SecondsIn: forgets the ticks left over from the last poll] *)
SecondsIn_NoCarry(c, delta) == delta \div TicksPerS
(* The seconds that delta ticks complete. *)
SecondsIn(c, delta) ==
  delta \div TicksPerS
  + (IF c.tick_acc + (delta % TicksPerS) >= TicksPerS THEN 1 ELSE 0)

(* [mutant of TicksLeft: whole seconds are not taken out] *)
TicksLeft_All(c, delta) == c.tick_acc + (delta % TicksPerS)
(* The ticks of a second not yet complete. *)
TicksLeft(c, delta) ==
  LET left == c.tick_acc + (delta % TicksPerS)
  IN IF left >= TicksPerS THEN left - TicksPerS ELSE left

clock_tick(c, dt) ==
  LET delta == dt % TickSpace
      secs  == c.sec_acc + SecondsIn(c, delta)
  IN [c EXCEPT !.tick_acc = TicksLeft(c, delta),
               !.sec_acc = secs % SecPerM,
               !.age_m = @ + (secs \div SecPerM)]

(* [mutant of Expired: one minute late] *)
Expired_Late(c) == c.age_m > c.lease_m
Expired(c) == c.age_m >= c.lease_m

(* The age at which the next REQUEST goes out. *)
NextAfter(c) ==
  LET n == c.age_m + RenewRetryM
  IN IF c.phase = "RENEWING" THEN Least(n, c.t2_m) ELSE n

(* [mutant of Phase: an off-by-one at T2] *)
Phase_Late(c) == IF c.age_m > c.t2_m THEN "REBINDING" ELSE "RENEWING"
Phase(c) == IF c.age_m >= c.t2_m THEN "REBINDING" ELSE "RENEWING"

----------------------------------------------------------------------------
(* The steps.  mn_net_udp_open may find no free socket: got is FALSE.      *)

Elapse(c, dt) == [c EXCEPT !.sent_age = Least(@ + dt, RetryTicks)]

(* mn_dhcp_start: from any state, whatever it was doing. *)
Start ==
  /\ \E got \in BOOLEAN, x \in Xids :
       Transmit([Fresh EXCEPT !.sock = got, !.xid = x, !.state = "SELECTING",
                              !.pending = d.pending, !.sent_age = d.sent_age],
                "DISCOVER")
  /\ ip' = None /\ elapsed' = 0
  /\ UNCHANGED messages

(* [mutant of Dropped: forgets the address of the network layer] *)
Dropped_Kept(a) == a
(* lost() takes the address away. *)
Dropped(a) == None

lost(c) ==
  /\ \E got \in BOOLEAN :
       Transmit([c EXCEPT !.state = "SELECTING", !.phase = "BOUND", !.tries = 0,
                          !.xid = (@ + 1) % XidSpace, !.sock = @ \/ got],
                "DISCOVER")
  /\ ip' = Dropped(ip)

(* [mutant of Released: the socket stays open when the lease is renewed] *)
Released_Kept(c) == c
Released(c) == [c EXCEPT !.sock = FALSE]

Accepted(c) == granted(Released(c))

(* poll_bound(), on a client whose clock has been advanced. *)
PollBound(c, m) ==
  LET type == TypeOf(c, m)
      p    == Parsed(c, m)
  IN IF c.t1_m = 0 THEN Rest(c) /\ UNCHANGED ip
     ELSE IF type = "ACK" THEN Rest(Accepted(p)) /\ UNCHANGED ip
     ELSE IF type = "NAK" \/ Expired(c) THEN lost(p)
     ELSE /\ UNCHANGED ip
          /\ IF c.age_m >= c.next_m
             THEN LET q == [p EXCEPT !.phase = Phase(c), !.tries = 0]
                  IN \E got \in BOOLEAN :
                       Transmit([q EXCEPT !.sock = @ \/ got,
                                          !.next_m = NextAfter(q)], "REQUEST")
             ELSE IF c.pending THEN Transmit(p, "REQUEST")
             ELSE Rest(p)

(* The reply the client was waiting for, ... *)
Answered(c, m) ==
  LET type == TypeOf(c, m)
      p    == Parsed(c, m)
  IN \/ /\ c.state = "SELECTING" /\ type = "OFFER"
        /\ Transmit([p EXCEPT !.offered_ip = m.server, !.state = "REQUESTING",
                              !.tries = 0], "REQUEST")
        /\ UNCHANGED ip
     \/ /\ c.state = "REQUESTING" /\ type = "ACK"
        /\ Rest(Accepted([p EXCEPT !.state = "BOUND"]))
        /\ ip' = m.server
     \/ /\ c.state = "REQUESTING" /\ type = "NAK"
        /\ Transmit([p EXCEPT !.state = "SELECTING", !.tries = 0], "DISCOVER")
        /\ UNCHANGED ip

Awaited(c, m) ==
  \/ c.state = "SELECTING" /\ TypeOf(c, m) = "OFFER"
  \/ c.state = "REQUESTING" /\ TypeOf(c, m) \in {"ACK", "NAK"}

(* ... or none: what is due is sent again, a bounded number of times. *)
Unanswered(c) ==
  /\ UNCHANGED ip
  /\ IF c.pending \/ (c.sent_age >= RetryTicks /\ c.tries < MaxTries)
     THEN Transmit(c, Due(c))
     ELSE Rest(IF c.sent_age < RetryTicks THEN c
               ELSE Released([c EXCEPT !.state = "FAILED"]))

(* mn_api_poll: a datagram for port 68 or none, and then the client. *)
PollWith(dt, m) ==
  LET c       == Elapse(d, dt)
      renewed == d.t1_m > 0 /\ TypeOf(c, m) = "ACK"
  IN /\ m # Nothing => d.sock
     /\ \/ /\ d.state \in Acquiring /\ Awaited(c, m)
           /\ Answered(c, m) /\ elapsed' = 0
        \/ /\ d.state \in Acquiring /\ ~Awaited(c, m)
           /\ Unanswered(Parsed(c, m)) /\ elapsed' = 0
        \/ /\ d.state = "BOUND"
           /\ PollBound(clock_tick(c, dt), m)
           /\ elapsed' = IF renewed \/ d'.state # "BOUND" THEN 0 ELSE elapsed + dt
        \/ /\ d.state \in {"IDLE", "FAILED"}
           /\ Rest(c) /\ UNCHANGED <<ip, elapsed>>

PollQuiet ==
  /\ \E dt \in Ticks : elapsed + dt <= MaxElapsed /\ PollWith(dt, Nothing)
  /\ UNCHANGED messages

(* A poll that finds the clock advanced. *)
TimelyPoll ==
  /\ \E dt \in Ticks \ {0} : elapsed + dt <= MaxElapsed /\ PollWith(dt, Nothing)
  /\ UNCHANGED messages

PollMessage ==
  /\ messages < MaxMessages /\ messages' = messages + 1
  /\ \E dt \in Ticks, m \in Message :
       elapsed + dt <= MaxElapsed /\ PollWith(dt, m)

Next == Start \/ PollQuiet \/ PollMessage

Spec == Init /\ [][Next]_vars

(* The client's loop goes on polling, time passes, and from some time on   *)
(* nobody starts the acquisition again.                                    *)
FairSpec ==
  /\ Spec
  /\ <>[][~Start]_vars
  /\ WF_vars(TimelyPoll)

----------------------------------------------------------------------------
(* Properties. *)

TypeOK ==
  /\ d \in Client /\ ip \in Servers \cup {None}
  /\ elapsed \in Nat /\ messages \in Nat

Leased(c) == c.state = "BOUND" /\ c.t1_m > 0

(* The network layer has an address exactly while the client says BOUND:   *)
(* no path into or out of a lease, renewal and loss included, leaves an    *)
(* address behind or a lease without one.                                  *)
AddressWhileBound == ip # None <=> d.state = "BOUND"

(* The socket on port 68 is one of four that the whole stack shares: the   *)
(* client holds it only while it may be answered, and no path of an        *)
(* acquisition, a renewal or a failure keeps it.                           *)
SocketHeld ==
  d.sock => \/ d.state \in Acquiring
            \/ Leased(d) /\ d.phase # "BOUND"

(* Renew at T1, rebind at T2, however late a poll comes and however many   *)
(* deadlines it meets at once ("rebind on time, not late").                *)
PhaseOnTime ==
  Leased(d) =>
    d.phase = IF d.age_m < d.t1_m THEN "BOUND"
              ELSE IF d.age_m < d.t2_m THEN "RENEWING" ELSE "REBINDING"

(* The lease clock counts every tick that passed since the lease was       *)
(* granted: "polled at least once every 21 minutes it never loses time".   *)
LeaseClockExact ==
  d.state = "BOUND" =>
    elapsed = (d.age_m * SecPerM + d.sec_acc) * TicksPerS + d.tick_acc

(* No address is used past its lease: the minutes of lease left that the   *)
(* API reports are 0 exactly when there is no lease.                       *)
lease_left(c) ==
  IF c.state # "BOUND" THEN 0
  ELSE IF c.t1_m = 0 THEN TickSpace - 1
  ELSE IF c.age_m < c.lease_m THEN c.lease_m - c.age_m ELSE 0

NeverPastLease == lease_left(d) = 0 <=> d.state # "BOUND"

(* Between the ACK and T1 nothing leaves the host (test_dhcp.c:203, "quiet *)
(* until T1"), whatever arrived before, during and after the renewal.  The *)
(* exception is what the code does when the ACK comes while the REQUEST    *)
(* still waits for its next hop: that REQUEST goes out all the same.       *)
QuietUntilT1 ==
  [][Leased(d) /\ Leased(d') /\ d'.age_m < d'.t1_m =>
       out' = Silence \/ (d.pending /\ out'.type = "REQUEST")]_vars

(* The client asks for the address that the server it names has offered    *)
(* (test_dhcp.c: "requested IP is the offer", "server id echoed").         *)
RequestNamesOffer == out.reqip # None => out.server = out.reqip

(* An acquisition ends, with a lease or with FAILED, even on a link that   *)
(* refuses every frame and with no socket to be answered on.               *)
AcquisitionEnds == d.state \in Acquiring ~> d.state \in {"BOUND", "FAILED"}

=============================================================================
