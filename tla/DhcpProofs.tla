----------------------------- MODULE DhcpProofs -----------------------------
(***************************************************************************)
(* What holds of the DHCP client for every number of servers, every set of *)
(* leases, every tick rate, retry limit and pace of polling: its types,    *)
(* the phases at T1 and T2, the exact lease clock, and that the address,   *)
(* the socket and the lease come and go together.                          *)
(***************************************************************************)
EXTENDS Dhcp, TLAPS

(* T1, T2 and the end of the lease come in this order, or there is none. *)
Terms(c) == c.t1_m = 0 \/ (0 < c.t1_m /\ c.t1_m < c.t2_m /\ c.t2_m <= c.lease_m)

(* The next deadline is ahead, and the phase is that of the last one met. *)
Times(c) ==
  Leased(c) =>
    /\ c.age_m < c.lease_m /\ c.age_m < c.next_m
    /\ c.phase = "BOUND" => c.next_m = c.t1_m
    /\ c.phase = "RENEWING" => c.t1_m <= c.age_m /\ c.next_m <= c.t2_m
    /\ c.phase = "REBINDING" => c.t2_m <= c.age_m

(* Only a renewal waits for the next hop, and not yet counted as a try. *)
Single(c) == c.pending => c.state = "BOUND" /\ c.tries = 0

Holds(c) == c.sock => c.state \in Acquiring \/ (Leased(c) /\ c.phase # "BOUND")

Sound(c) == c \in Client /\ Terms(c) /\ Times(c) /\ Single(c) /\ Holds(c)

(* The whole inductive invariant. *)
IInv ==
  /\ Sound(d)
  /\ ip \in Servers \cup {None} /\ elapsed \in Nat /\ messages \in Nat
  /\ AddressWhileBound
  /\ LeaseClockExact

(* A client that may transmit. *)
Ready(c) ==
  /\ c \in Client /\ Terms(c) /\ Times(c) /\ Holds(c)
  /\ c.tries < MaxTries
  /\ c.state = "BOUND" => c.tries = 0

(* Two clients that differ at most in what parse() writes. *)
Alike(c, p) ==
  /\ p.state = c.state /\ p.phase = c.phase /\ p.sock = c.sock /\ p.xid = c.xid
  /\ p.offered_ip = c.offered_ip
  /\ p.age_m = c.age_m /\ p.t1_m = c.t1_m /\ p.t2_m = c.t2_m
  /\ p.next_m = c.next_m /\ p.lease_m = c.lease_m
  /\ p.tick_acc = c.tick_acc /\ p.sec_acc = c.sec_acc
  /\ p.tries = c.tries /\ p.pending = c.pending /\ p.sent_age = c.sent_age

SameClock(c, p) ==
  p.age_m = c.age_m /\ p.sec_acc = c.sec_acc /\ p.tick_acc = c.tick_acc

Inputs == Message \cup {Nothing}

----------------------------------------------------------------------------
(* Arithmetic of the lease clock. *)

LEMMA DivMod ==
  ASSUME NEW a \in Nat, NEW b \in Nat \ {0}
  PROVE  /\ a \div b \in Nat /\ a % b \in 0 .. b - 1
         /\ a = (a \div b) * b + (a % b)
  BY SMT

LEMMA SmallMod ==
  ASSUME NEW a \in Nat, NEW b \in Nat \ {0}, a < b
  PROVE  a % b = a
  BY SMT

LEMMA Distribute ==
  ASSUME NEW a \in Nat, NEW b \in Nat, NEW c \in Nat
  PROVE  (a + b) * c = a * c + b * c
  BY SMT

(* The ticks of a client's clock since the lease was granted. *)
Clock(c) == (c.age_m * SecPerM + c.sec_acc) * TicksPerS + c.tick_acc

LEMMA ClockTick ==
  ASSUME NEW c \in Client, NEW dt \in Ticks
  PROVE  LET n == clock_tick(c, dt)
         IN /\ n \in Client /\ n.age_m >= c.age_m
            /\ Clock(n) = Clock(c) + dt
            /\ n.state = c.state /\ n.phase = c.phase /\ n.sock = c.sock
            /\ n.xid = c.xid /\ n.t1_m = c.t1_m /\ n.t2_m = c.t2_m
            /\ n.next_m = c.next_m /\ n.lease_m = c.lease_m
            /\ n.tries = c.tries /\ n.pending = c.pending
<1> DEFINE n == clock_tick(c, dt)
           q == dt \div TicksPerS
           r == dt % TicksPerS
           s == SecondsIn(c, dt)
           secs == c.sec_acc + s
           t == TicksLeft(c, dt)
           m == secs \div SecPerM
           z == secs % SecPerM
<1>0. /\ dt \in Nat /\ dt < TickSpace /\ TickSpace \in Nat \ {0}
  <2>1. dt \in Nat /\ dt + RetryTicks < TickSpace
    BY DhcpAssumption
  <2>2. TickSpace \in Nat \ {0} /\ RetryTicks \in Nat \ {0}
    BY DhcpAssumption
  <2> QED BY <2>1, <2>2
<1>1. /\ dt \in Nat /\ dt % TickSpace = dt
      /\ TicksPerS \in Nat \ {0} /\ SecPerM \in Nat \ {0}
      /\ c.tick_acc \in 0 .. TicksPerS - 1 /\ c.sec_acc \in 0 .. SecPerM - 1
      /\ c.age_m \in Nat
  <2>1. dt % TickSpace = dt
    BY <1>0, SmallMod
  <2>2. TicksPerS \in Nat \ {0} /\ SecPerM \in Nat \ {0}
    BY DhcpAssumption
  <2> QED BY <1>0, <2>1, <2>2 DEF Client
<1>2. q \in Nat /\ r \in 0 .. TicksPerS - 1 /\ dt = q * TicksPerS + r
  BY <1>1, DivMod
<1> HIDE DEF q, r
<1>3. s = q + (IF c.tick_acc + r >= TicksPerS THEN 1 ELSE 0)
  BY DEF SecondsIn, q, r
<1>4. t = IF c.tick_acc + r >= TicksPerS THEN c.tick_acc + r - TicksPerS
          ELSE c.tick_acc + r
  BY <1>1, <1>2 DEF TicksLeft, r, t
<1> HIDE DEF s, t
<1>5. s \in Nat /\ t \in 0 .. TicksPerS - 1
  BY <1>1, <1>2, <1>3, <1>4
<1>6. s * TicksPerS + t = dt + c.tick_acc
  <2>1. CASE c.tick_acc + r >= TicksPerS
    <3>1. s * TicksPerS = q * TicksPerS + 1 * TicksPerS
      BY <1>1, <1>2, <1>3, <2>1, Distribute
    <3> QED BY <3>1, <1>1, <1>2, <1>4, <2>1
  <2>2. CASE ~(c.tick_acc + r >= TicksPerS)
    <3>1. s = q
      BY <1>1, <1>2, <1>3, <2>2
    <3> QED BY <3>1, <1>1, <1>2, <1>4, <2>2
  <2> QED BY <2>1, <2>2
<1>7. secs \in Nat
  BY <1>1, <1>5
<1>8. m \in Nat /\ z \in 0 .. SecPerM - 1 /\ secs = m * SecPerM + z
  BY <1>1, <1>7, DivMod
<1>9. n = [c EXCEPT !.tick_acc = t, !.sec_acc = z, !.age_m = @ + m]
  BY <1>1 DEF clock_tick, s, t
<1> HIDE DEF m, z, n
<1>10. n.age_m = c.age_m + m /\ n.sec_acc = z /\ n.tick_acc = t
  BY <1>9 DEF Client
<1>11. Clock(n) = Clock(c) + dt
  <2> DEFINE A == c.age_m * SecPerM
             B == m * SecPerM
  <2>1. A \in Nat /\ B \in Nat
    BY <1>1, <1>8
  <2>2. (c.age_m + m) * SecPerM = A + B
    BY <1>1, <1>8, Distribute
  <2> HIDE DEF A, B
  <2>3. A + B + z = (A + c.sec_acc) + s
    BY <1>1, <1>5, <1>8, <2>1 DEF B
  <2>4. (A + B + z) * TicksPerS = (A + c.sec_acc) * TicksPerS + s * TicksPerS
    BY <1>1, <1>5, <2>1, <2>3, Distribute
  <2>5. Clock(n) = (A + B + z) * TicksPerS + t
    BY <1>10, <2>2 DEF Clock
  <2>6. Clock(c) = (A + c.sec_acc) * TicksPerS + c.tick_acc
    BY DEF Clock, A
  <2>7. /\ (A + c.sec_acc) * TicksPerS \in Nat /\ s * TicksPerS \in Nat
    BY <1>1, <1>5, <2>1
  <2> QED BY <2>4, <2>5, <2>6, <2>7, <1>1, <1>5, <1>6
<1>12. n \in Client
  <2>1. c.age_m + m \in Nat
    BY <1>1, <1>8
  <2> QED BY <2>1, <1>5, <1>8, <1>9 DEF Client
<1> QED BY <1>1, <1>8, <1>9, <1>10, <1>11, <1>12 DEF n, Client

----------------------------------------------------------------------------
(* What each function of mn_dhcp.c keeps. *)

LEMMA Fields ==
  /\ MaxTries \in Nat \ {0} /\ RetryTicks \in Nat \ {0}
  /\ TicksPerS \in Nat \ {0} /\ SecPerM \in Nat \ {0}
  /\ XidSpace \in Nat \ {0} /\ RenewRetryM \in Nat \ {0}
  /\ TickSpace \in Nat /\ TickSpace > 1
  /\ 0 \in 0 .. TicksPerS - 1 /\ 0 \in 0 .. SecPerM - 1
  /\ 0 \in 0 .. MaxTries /\ 0 \in 0 .. RetryTicks
  /\ 0 \in Xids
  /\ None \notin Servers
<1>1. /\ MaxTries \in Nat \ {0} /\ RetryTicks \in Nat \ {0}
      /\ TicksPerS \in Nat \ {0} /\ SecPerM \in Nat \ {0}
      /\ XidSpace \in Nat \ {0} /\ RenewRetryM \in Nat \ {0}
      /\ TickSpace \in Nat \ {0} /\ RetryTicks < TickSpace
      /\ None \notin Servers
  BY DhcpAssumption
<1> QED BY <1>1 DEF Xids

(* Freshly started, the client is typed and holds nothing. *)
LEMMA FreshTyped == Fresh \in Client
  BY Fields DEF Fresh, Client, States, Phases

(* transmit(): the tries stay within MAX_TRIES, and only a renewal waits. *)
LEMMA TransmitSound ==
  ASSUME NEW c, NEW type, Ready(c), Transmit(c, type)
  PROVE  Sound(d') /\ SameClock(c, d') /\ d'.state = c.state
<1>1. PICK r \in Results(c) : d' = Transmitted(c, r)
  BY DEF Transmit
<1>2. c \in Client
  BY DEF Ready
<1>3. c.tries + 1 \in 0 .. MaxTries /\ c.tries \in 0 .. MaxTries
  BY <1>2, Fields DEF Ready, Client
<1>4. d' \in Client
  BY <1>1, <1>2, <1>3, Fields DEF Transmitted, Client
<1>5. /\ d'.state = c.state /\ d'.phase = c.phase /\ d'.sock = c.sock
      /\ d'.age_m = c.age_m /\ d'.sec_acc = c.sec_acc /\ d'.tick_acc = c.tick_acc
      /\ d'.t1_m = c.t1_m /\ d'.t2_m = c.t2_m /\ d'.next_m = c.next_m
      /\ d'.lease_m = c.lease_m
      /\ d'.pending = (r = "PENDING")
      /\ d'.tries = IF r # "PENDING" THEN c.tries + 1 ELSE c.tries
  BY <1>1, <1>2 DEF Transmitted, Client, Counts
<1>6. Terms(d') /\ Times(d') /\ Holds(d')
  BY <1>5 DEF Ready, Terms, Times, Holds, Leased
<1>7. Single(d')
  <2> SUFFICES ASSUME d'.pending PROVE d'.state = "BOUND" /\ d'.tries = 0
    BY DEF Single
  <2>1. r = "PENDING"
    BY <1>5
  <2>2. Unicast(c)
    BY <1>1, <2>1 DEF Results
  <2> QED BY <1>5, <2>1, <2>2 DEF Unicast, Ready
<1> QED BY <1>4, <1>5, <1>6, <1>7 DEF Sound, SameClock

(* parse() writes the options it finds and nothing else. *)
LEMMA ParsedAlike ==
  ASSUME NEW c \in Client, NEW m \in Inputs
  PROVE  Parsed(c, m) \in Client /\ Alike(c, Parsed(c, m))
<1>1. CASE Ours(c, m)
  <2>1. m.server \in Servers /\ m.lease \in Nat
    BY <1>1, DhcpAssumption DEF Ours, Inputs, Message
  <2> QED BY <1>1, <2>1 DEF Parsed, Client, Alike
<1>2. CASE ~Ours(c, m)
  BY <1>2 DEF Parsed, Alike
<1> QED BY <1>1, <1>2

LEMMA AlikeKeeps ==
  ASSUME NEW c, NEW p, Alike(c, p)
  PROVE  /\ Terms(c) => Terms(p)
         /\ Times(c) => Times(p)
         /\ Single(c) => Single(p)
         /\ Holds(c) => Holds(p)
         /\ SameClock(c, p)
  BY DEF Alike, Terms, Times, Single, Holds, SameClock, Leased

LEMMA ElapseAlike ==
  ASSUME NEW c \in Client, NEW dt \in Nat
  PROVE  /\ Elapse(c, dt) \in Client
         /\ Elapse(c, dt).state = c.state /\ SameClock(c, Elapse(c, dt))
         /\ Terms(c) => Terms(Elapse(c, dt))
         /\ Times(c) => Times(Elapse(c, dt))
         /\ Single(c) => Single(Elapse(c, dt))
         /\ Holds(c) => Holds(Elapse(c, dt))
<1> DEFINE e == Elapse(c, dt)
           a == Least(c.sent_age + dt, RetryTicks)
<1>1. a \in 0 .. RetryTicks
  BY Fields DEF Least, Client
<1>2. e = [c EXCEPT !.sent_age = a]
  BY DEF Elapse
<1> HIDE DEF a
<1>3. e \in Client
  BY <1>1, <1>2 DEF Client
<1>4. /\ e.state = c.state /\ e.phase = c.phase /\ e.sock = c.sock
      /\ e.age_m = c.age_m /\ e.sec_acc = c.sec_acc /\ e.tick_acc = c.tick_acc
      /\ e.t1_m = c.t1_m /\ e.t2_m = c.t2_m /\ e.next_m = c.next_m
      /\ e.lease_m = c.lease_m /\ e.pending = c.pending /\ e.tries = c.tries
  BY <1>2 DEF Client
<1> QED BY <1>3, <1>4 DEF SameClock, Terms, Times, Single, Holds, Leased

(* T1 and T2 of a lease of m minutes. *)
LEMMA TermsOfLease ==
  ASSUME NEW m \in Nat, m = 0 \/ m >= 2
  PROVE  /\ m \div 2 \in Nat /\ m - (m \div 8) \in Nat
         /\ m = 0 => m \div 2 = 0
         /\ m # 0 => 0 < m \div 2 /\ m \div 2 < m - (m \div 8) /\ m - (m \div 8) <= m
  BY SMT

(* At least two minutes' worth of seconds is at least two minutes. *)
LEMMA TwoMinutes ==
  ASSUME NEW s \in Nat, s >= ShortLease
  PROVE  s \div SecPerM \in Nat /\ s \div SecPerM >= 2
<1> DEFINE m == s \div SecPerM
           z == s % SecPerM
<1>1. m \in Nat /\ z \in 0 .. SecPerM - 1 /\ s = m * SecPerM + z
  BY Fields, DivMod
<1>2. s >= 2 * SecPerM
  BY DhcpAssumption, Fields
<1> HIDE DEF m, z
<1>3. CASE m = 0
  BY <1>1, <1>2, <1>3, Fields
<1>4. CASE m = 1
  BY <1>1, <1>2, <1>4, Fields
<1> QED BY <1>1, <1>3, <1>4 DEF m

(* granted(): the deadlines of the new lease are ahead, its clock at 0. *)
LEMMA AcceptedSound ==
  ASSUME NEW c \in Client, Single(c), c.state = "BOUND"
  PROVE  Sound(Accepted(c)) /\ Clock(Accepted(c)) = 0 /\ Accepted(c).state = "BOUND"
<1> DEFINE m == IF Renewable(c.lease_s) THEN c.lease_s \div SecPerM ELSE 0
           g == Accepted(c)
<1>1. m \in Nat /\ (m = 0 \/ m >= 2)
  BY TwoMinutes DEF Renewable, Client
<1>2. g = [[c EXCEPT !.sock = FALSE]
           EXCEPT !.phase = "BOUND", !.age_m = 0, !.tick_acc = 0, !.sec_acc = 0,
                  !.lease_m = m, !.t1_m = m \div 2, !.t2_m = m - (m \div 8),
                  !.next_m = m \div 2]
  BY DEF Accepted, granted, NextAtT1, Released
<1> HIDE DEF m, g
<1>3. /\ m \in Nat /\ m \div 2 \in Nat /\ m - (m \div 8) \in Nat
      /\ m = 0 => m \div 2 = 0
      /\ m # 0 => 0 < m \div 2 /\ m \div 2 < m - (m \div 8) /\ m - (m \div 8) <= m
  BY <1>1, TermsOfLease
<1>4. g \in Client
  BY <1>1, <1>3, <1>2, Fields DEF Client, Phases
<1>5. /\ g.state = "BOUND" /\ g.phase = "BOUND" /\ g.sock = FALSE
      /\ g.age_m = 0 /\ g.tick_acc = 0 /\ g.sec_acc = 0
      /\ g.lease_m = m /\ g.t1_m = m \div 2 /\ g.t2_m = m - (m \div 8)
      /\ g.next_m = m \div 2 /\ g.tries = c.tries /\ g.pending = c.pending
  BY <1>2 DEF Client
<1>6. Terms(g) /\ Times(g) /\ Single(g) /\ Holds(g)
  BY <1>3, <1>5 DEF Terms, Times, Single, Holds, Leased
<1>7. Clock(g) = 0
  BY <1>5, Fields DEF Clock
<1> QED BY <1>4, <1>5, <1>6, <1>7 DEF Sound, g

(* A client in acquisition, with no try made, may transmit. *)
LEMMA AcquiringReady ==
  ASSUME NEW c \in Client, Terms(c), c.state \in Acquiring, c.tries < MaxTries
  PROVE  Ready(c)
  BY DEF Ready, Times, Holds, Leased, Acquiring

(* lost(): back to acquisition, without an address. *)
LEMMA LostSound ==
  ASSUME NEW c \in Client, Terms(c), lost(c)
  PROVE  Sound(d') /\ d'.state = "SELECTING" /\ ip' = None
<1>1. ip' = None
  BY DEF lost, Dropped
<1>2. PICK got \in BOOLEAN :
        Transmit([c EXCEPT !.state = "SELECTING", !.phase = "BOUND", !.tries = 0,
                           !.xid = (@ + 1) % XidSpace, !.sock = @ \/ got],
                 "DISCOVER")
  BY DEF lost
<1> DEFINE x == (c.xid + 1) % XidSpace
           s == c.sock \/ got
           n == [c EXCEPT !.state = "SELECTING", !.phase = "BOUND", !.tries = 0,
                          !.xid = x, !.sock = s]
<1>3. x \in Xids
  <2>1. c.xid + 1 \in Nat
    BY DEF Client, Xids
  <2> QED BY <2>1, Fields, DivMod DEF Xids
<1>4. s \in BOOLEAN
  BY DEF Client
<1>5. Transmit(n, "DISCOVER")
  BY <1>2
<1> HIDE DEF x, s
<1>6. n \in Client
  BY <1>3, <1>4, Fields DEF Client, States, Phases
<1>7. /\ n.state = "SELECTING" /\ n.tries = 0
      /\ n.t1_m = c.t1_m /\ n.t2_m = c.t2_m /\ n.lease_m = c.lease_m
  BY DEF Client
<1>8. Ready(n)
  <2>1. Terms(n) /\ n.state \in Acquiring
    BY <1>7 DEF Terms, Acquiring
  <2>2. n.tries < MaxTries
    BY <1>7, Fields
  <2> HIDE DEF n
  <2> QED BY <1>6, <2>1, <2>2, AcquiringReady
<1> QED BY <1>1, <1>5, <1>7, <1>8, TransmitSound

(* What remains of Times when the clock has moved on. *)
Behind(c) ==
  Leased(c) =>
    /\ c.phase = "BOUND" => c.next_m = c.t1_m
    /\ c.phase = "RENEWING" => c.t1_m <= c.age_m /\ c.next_m <= c.t2_m
    /\ c.phase = "REBINDING" => c.t2_m <= c.age_m

(* The REQUEST of a renewal or rebinding that has come due. *)
LEMMA DueReady ==
  ASSUME NEW c \in Client, c.state = "BOUND", c.t1_m # 0, Terms(c), Behind(c),
         c.age_m < c.lease_m, c.age_m >= c.next_m,
         NEW p \in Client, Alike(c, p), NEW got \in BOOLEAN
  PROVE  LET q == [p EXCEPT !.phase = Phase(c), !.tries = 0]
             n == [q EXCEPT !.sock = @ \/ got, !.next_m = NextAfter(q)]
         IN Ready(n) /\ n.state = "BOUND" /\ SameClock(c, n)
<1> DEFINE q == [p EXCEPT !.phase = Phase(c), !.tries = 0]
           x == NextAfter(q)
           s == q.sock \/ got
           n == [q EXCEPT !.sock = s, !.next_m = x]
<1>1. Phase(c) \in Phases
  BY DEF Phase, Phases
<1>2. /\ q.state = "BOUND" /\ q.phase = Phase(c) /\ q.tries = 0
      /\ q.age_m = c.age_m /\ q.sec_acc = c.sec_acc /\ q.tick_acc = c.tick_acc
      /\ q.t1_m = c.t1_m /\ q.t2_m = c.t2_m /\ q.lease_m = c.lease_m
  BY DEF Client, Alike
<1>3. q \in Client
  BY <1>1, Fields DEF Client
<1>4. /\ c.age_m \in Nat /\ c.t1_m \in Nat /\ c.t2_m \in Nat /\ c.lease_m \in Nat
      /\ c.next_m \in Nat
  BY DEF Client
<1>5. c.t1_m < c.t2_m /\ c.t1_m <= c.age_m
  <2>1. c.phase \in Phases
    BY DEF Client
  <2> QED BY <2>1, <1>4 DEF Terms, Behind, Leased, Phases
<1> HIDE DEF q
<1>6. /\ x \in Nat /\ c.age_m < x
      /\ Phase(c) = "RENEWING" => x <= c.t2_m
      /\ Phase(c) = "REBINDING" => c.t2_m <= c.age_m
  <2>1. CASE Phase(c) = "RENEWING"
    <3>1. c.age_m < c.t2_m
      BY <2>1, <1>4 DEF Phase
    <3> QED BY <2>1, <3>1, <1>2, <1>4, Fields DEF NextAfter, Least
  <2>2. CASE Phase(c) # "RENEWING"
    <3>1. c.age_m >= c.t2_m
      BY <2>2 DEF Phase
    <3> QED BY <2>2, <3>1, <1>2, <1>4, Fields DEF NextAfter
  <2> QED BY <2>1, <2>2
<1>7. s \in BOOLEAN
  BY <1>3 DEF Client
<1> HIDE DEF x, s
<1>8. n \in Client
  BY <1>3, <1>6, <1>7 DEF Client
<1>9. /\ n.state = "BOUND" /\ n.phase = Phase(c) /\ n.tries = 0
      /\ n.age_m = c.age_m /\ n.sec_acc = c.sec_acc /\ n.tick_acc = c.tick_acc
      /\ n.t1_m = c.t1_m /\ n.t2_m = c.t2_m /\ n.lease_m = c.lease_m
      /\ n.next_m = x
  BY <1>2, <1>3 DEF Client
<1>10. Times(n) /\ Terms(n) /\ Holds(n)
  <2>1. Phase(c) # "BOUND"
    BY DEF Phase
  <2> QED BY <2>1, <1>4, <1>5, <1>6, <1>9 DEF Times, Terms, Holds, Leased
<1>11. Ready(n)
  BY <1>8, <1>9, <1>10, Fields DEF Ready
<1> QED BY <1>9, <1>11 DEF SameClock, x, s, q

(* poll_bound(): the lease goes on, is renewed, or is lost with the address. *)
LEMMA PollBoundSound ==
  ASSUME NEW c \in Client, NEW m \in Inputs, c.state = "BOUND",
         Terms(c), Behind(c), Single(c), Holds(c), PollBound(c, m)
  PROVE  /\ Sound(d')
         /\ d'.state = "BOUND" =>
              /\ UNCHANGED ip
              /\ Clock(d') = IF c.t1_m > 0 /\ TypeOf(c, m) = "ACK" THEN 0 ELSE Clock(c)
         /\ d'.state # "BOUND" => ip' = None
<1> DEFINE p == Parsed(c, m)
           type == TypeOf(c, m)
<1>1. /\ p \in Client /\ Alike(c, p) /\ Terms(p) /\ Single(p) /\ Holds(p)
      /\ SameClock(c, p) /\ p.state = "BOUND"
  BY ParsedAlike, AlikeKeeps DEF Alike
<1> HIDE DEF p, type
<1>2. CASE c.t1_m = 0
  <2>1. d' = c /\ UNCHANGED ip
    BY <1>2 DEF PollBound, Rest
  <2>2. Times(c)
    BY <1>2 DEF Times, Leased
  <2> QED BY <2>1, <2>2, <1>2 DEF Sound
<1>3. CASE c.t1_m # 0 /\ type = "ACK"
  <2>1. d' = Accepted(p) /\ UNCHANGED ip
    BY <1>3 DEF PollBound, Rest, p, type
  <2>2. c.t1_m > 0
    BY <1>3 DEF Client
  <2> QED BY <2>1, <2>2, <1>1, <1>3, AcceptedSound DEF type
<1>4. CASE c.t1_m # 0 /\ type # "ACK" /\ (type = "NAK" \/ Expired(c))
  <2>1. lost(p)
    BY <1>4 DEF PollBound, p, type
  <2> QED BY <2>1, <1>1, LostSound
<1>5. CASE c.t1_m # 0 /\ type # "ACK" /\ ~(type = "NAK" \/ Expired(c))
  <2>1. c.age_m < c.lease_m
    BY <1>5 DEF Expired, Client
  <2>2. UNCHANGED ip
    BY <1>5 DEF PollBound, p, type
  <2>3. CASE c.age_m >= c.next_m
    <3> DEFINE q == [p EXCEPT !.phase = Phase(c), !.tries = 0]
    <3>1. PICK got \in BOOLEAN :
            Transmit([q EXCEPT !.sock = @ \/ got, !.next_m = NextAfter(q)], "REQUEST")
      BY <1>5, <2>3 DEF PollBound, p, type
    <3> DEFINE n == [q EXCEPT !.sock = @ \/ got, !.next_m = NextAfter(q)]
    <3>2. Ready(n) /\ n.state = "BOUND" /\ SameClock(c, n)
      BY <1>1, <1>5, <2>1, <2>3, DueReady
    <3>3. Transmit(n, "REQUEST")
      BY <3>1
    <3> HIDE DEF n
    <3>4. Sound(d') /\ SameClock(n, d') /\ d'.state = "BOUND"
      BY <3>2, <3>3, TransmitSound
    <3> QED BY <3>2, <3>4, <1>5, <2>2 DEF SameClock, Clock, type
  <2>4. ASSUME ~(c.age_m >= c.next_m) PROVE Times(c) /\ Times(p)
    <3>1. Times(c)
      BY <2>1, <2>4 DEF Times, Behind, Client
    <3> QED BY <3>1, <1>1, AlikeKeeps
  <2>5. CASE ~(c.age_m >= c.next_m) /\ c.pending
    <3>1. Transmit(p, "REQUEST")
      BY <1>5, <2>5 DEF PollBound, p, type
    <3>2. p.tries = 0
      BY <1>1, <2>5 DEF Alike, Single
    <3>3. Ready(p)
      BY <3>2, <1>1, <2>4, <2>5, Fields DEF Ready
    <3>4. Sound(d') /\ SameClock(p, d') /\ d'.state = "BOUND"
      BY <3>1, <3>3, <1>1, TransmitSound
    <3> QED BY <3>4, <1>1, <1>5, <2>2 DEF SameClock, Clock, type
  <2>6. CASE ~(c.age_m >= c.next_m) /\ ~c.pending
    <3>1. d' = p
      BY <1>5, <2>6 DEF PollBound, Rest, p, type
    <3> QED BY <3>1, <1>1, <1>5, <2>2, <2>4, <2>6 DEF Sound, SameClock, Clock, type
  <2> QED BY <2>3, <2>5, <2>6
<1> QED BY <1>2, <1>3, <1>4, <1>5

(* A step of the acquisition that does not lead to a lease transmits, or    *)
(* rests, or gives up: the address is untouched.                           *)
LEMMA UnansweredSound ==
  ASSUME NEW c \in Client, c.state \in Acquiring, Terms(c), Single(c), Unanswered(c)
  PROVE  Sound(d') /\ d'.state # "BOUND" /\ UNCHANGED ip
<1>1. UNCHANGED ip /\ ~c.pending
  BY DEF Unanswered, Single, Acquiring
<1>2. CASE c.sent_age >= RetryTicks /\ c.tries < MaxTries
  <2>1. Transmit(c, Due(c))
    BY <1>2 DEF Unanswered
  <2>2. Ready(c)
    BY <1>2, AcquiringReady
  <2> QED BY <2>1, <2>2, <1>1, TransmitSound DEF Acquiring
<1>3. CASE ~(c.sent_age >= RetryTicks /\ c.tries < MaxTries)
  <2>1. d' = IF c.sent_age < RetryTicks THEN c
             ELSE Released([c EXCEPT !.state = "FAILED"])
    BY <1>1, <1>3 DEF Unanswered, Rest
  <2>2. CASE c.sent_age < RetryTicks
    BY <2>1, <2>2, <1>1 DEF Sound, Times, Holds, Leased, Acquiring
  <2>3. CASE ~(c.sent_age < RetryTicks)
    <3>1. d' = [[c EXCEPT !.state = "FAILED"] EXCEPT !.sock = FALSE]
      BY <2>1, <2>3 DEF Released
    <3>2. d' \in Client
      BY <3>1 DEF Client, States
    <3>3. /\ d'.state = "FAILED" /\ d'.sock = FALSE /\ d'.pending = c.pending
          /\ d'.t1_m = c.t1_m /\ d'.t2_m = c.t2_m /\ d'.lease_m = c.lease_m
      BY <3>1 DEF Client
    <3> QED BY <3>2, <3>3, <1>1 DEF Sound, Terms, Times, Single, Holds, Leased
  <2> QED BY <2>2, <2>3
<1> QED BY <1>2, <1>3

LEMMA AnsweredSound ==
  ASSUME NEW c \in Client, NEW m \in Inputs, c.state \in Acquiring,
         Terms(c), Single(c), Awaited(c, m), Answered(c, m)
  PROVE  /\ Sound(d')
         /\ d'.state # "BOUND" => UNCHANGED ip
         /\ d'.state = "BOUND" => ip' \in Servers /\ Clock(d') = 0
<1> DEFINE p == Parsed(c, m)
<1>1. /\ p \in Client /\ Terms(p) /\ Single(p) /\ p.state = c.state
  BY ParsedAlike, AlikeKeeps DEF Alike
<1>2. m.server \in Servers
  <2>1. m # Nothing
    BY DEF Awaited, TypeOf, Ours
  <2> QED BY <2>1 DEF Inputs, Message
<1> HIDE DEF p
<1>3. CASE /\ c.state = "SELECTING"
           /\ Transmit([p EXCEPT !.offered_ip = m.server, !.state = "REQUESTING",
                                 !.tries = 0], "REQUEST")
           /\ UNCHANGED ip
  <2> DEFINE n == [p EXCEPT !.offered_ip = m.server, !.state = "REQUESTING",
                            !.tries = 0]
  <2>1. n \in Client
    BY <1>1, <1>2, Fields DEF Client, States
  <2>2. /\ n.state = "REQUESTING" /\ n.tries = 0
        /\ n.t1_m = p.t1_m /\ n.t2_m = p.t2_m /\ n.lease_m = p.lease_m
    BY <1>1 DEF Client
  <2>3. Transmit(n, "REQUEST")
    BY <1>3
  <2> HIDE DEF n
  <2>4. Ready(n)
    <3>1. Terms(n) /\ n.state \in Acquiring /\ n.tries < MaxTries
      BY <2>2, <1>1, Fields DEF Terms, Acquiring
    <3> QED BY <3>1, <2>1, AcquiringReady
  <2> QED BY <1>3, <2>2, <2>3, <2>4, TransmitSound
<1>4. CASE /\ Rest(Accepted([p EXCEPT !.state = "BOUND"]))
           /\ ip' = m.server
  <2> DEFINE n == [p EXCEPT !.state = "BOUND"]
  <2>1. n \in Client /\ n.state = "BOUND" /\ n.pending = p.pending
    BY <1>1 DEF Client, States
  <2>2. Single(n)
    BY <2>1, <1>1 DEF Single, Acquiring
  <2>3. d' = Accepted(n)
    BY <1>4 DEF Rest
  <2> HIDE DEF n
  <2> QED BY <1>2, <1>4, <2>1, <2>2, <2>3, AcceptedSound
<1>5. CASE /\ Transmit([p EXCEPT !.state = "SELECTING", !.tries = 0], "DISCOVER")
           /\ UNCHANGED ip
  <2> DEFINE n == [p EXCEPT !.state = "SELECTING", !.tries = 0]
  <2>1. n \in Client
    BY <1>1, Fields DEF Client, States
  <2>2. /\ n.state = "SELECTING" /\ n.tries = 0
        /\ n.t1_m = p.t1_m /\ n.t2_m = p.t2_m /\ n.lease_m = p.lease_m
    BY <1>1 DEF Client
  <2>3. Transmit(n, "DISCOVER")
    BY <1>5
  <2> HIDE DEF n
  <2>4. Ready(n)
    <3>1. Terms(n) /\ n.state \in Acquiring /\ n.tries < MaxTries
      BY <2>2, <1>1, Fields DEF Terms, Acquiring
    <3> QED BY <3>1, <2>1, AcquiringReady
  <2> QED BY <1>5, <2>2, <2>3, <2>4, TransmitSound
<1> QED BY <1>3, <1>4, <1>5 DEF Answered, p

----------------------------------------------------------------------------
(* The invariant. *)

LEMMA InitHolds == Init => IInv
<1> SUFFICES ASSUME Init PROVE IInv
  OBVIOUS
<1>1. d = Fresh /\ ip = None /\ elapsed = 0 /\ messages = 0
  BY DEF Init
<1>2. Sound(d)
  BY <1>1, FreshTyped DEF Fresh, Sound, Terms, Times, Single, Holds, Leased
<1> QED BY <1>1, <1>2 DEF IInv, AddressWhileBound, LeaseClockExact, Fresh

LEMMA StartStep == IInv /\ Start => IInv'
<1> SUFFICES ASSUME IInv, Start PROVE IInv'
  OBVIOUS
<1>1. PICK got \in BOOLEAN, x \in Xids :
        Transmit([Fresh EXCEPT !.sock = got, !.xid = x, !.state = "SELECTING",
                               !.pending = d.pending, !.sent_age = d.sent_age],
                 "DISCOVER")
  BY DEF Start
<1> DEFINE n == [Fresh EXCEPT !.sock = got, !.xid = x, !.state = "SELECTING",
                              !.pending = d.pending, !.sent_age = d.sent_age]
<1>2. d.pending \in BOOLEAN /\ d.sent_age \in 0 .. RetryTicks
  BY DEF IInv, Sound, Client
<1>3. n \in Client
  BY <1>2, FreshTyped DEF Client, States
<1>4. n.state = "SELECTING" /\ n.tries = 0 /\ n.t1_m = 0
  BY DEF Fresh
<1>5. Transmit(n, "DISCOVER")
  BY <1>1
<1> HIDE DEF n
<1>6. Terms(n) /\ n.state \in Acquiring /\ n.tries < MaxTries
  BY <1>4, Fields DEF Terms, Acquiring
<1>7. Sound(d') /\ d'.state = "SELECTING"
  BY <1>3, <1>4, <1>5, <1>6, AcquiringReady, TransmitSound
<1>8. ip' = None /\ elapsed' = 0 /\ messages' = messages
  BY DEF Start
<1> QED BY <1>7, <1>8 DEF IInv, AddressWhileBound, LeaseClockExact

LEMMA PollStep ==
  ASSUME IInv, NEW dt \in Ticks, NEW m \in Inputs, PollWith(dt, m),
         messages' \in Nat
  PROVE  IInv'
<1> DEFINE c == Elapse(d, dt)
           renewed == d.t1_m > 0 /\ TypeOf(c, m) = "ACK"
<1>1. d \in Client /\ Terms(d) /\ Times(d) /\ Single(d) /\ Holds(d)
  BY DEF IInv, Sound
<1>2. dt \in Nat
  BY DhcpAssumption
<1>3. /\ c \in Client /\ c.state = d.state /\ SameClock(d, c)
      /\ Terms(c) /\ Times(c) /\ Single(c) /\ Holds(c) /\ c.t1_m = d.t1_m
  <2>1. c.t1_m = d.t1_m
    BY <1>1 DEF Elapse, Client
  <2> QED BY <2>1, <1>1, <1>2, ElapseAlike
<1>4. ip \in Servers \cup {None} /\ elapsed \in Nat /\ (ip # None <=> d.state = "BOUND")
  BY DEF IInv, AddressWhileBound
<1> HIDE DEF c
<1>5. ASSUME d.state \in Acquiring, Awaited(c, m), Answered(c, m), elapsed' = 0
      PROVE  IInv'
  <2>1. /\ Sound(d')
        /\ d'.state # "BOUND" => UNCHANGED ip
        /\ d'.state = "BOUND" => ip' \in Servers /\ Clock(d') = 0
    BY <1>3, <1>5, AnsweredSound
  <2>2. ip = None
    BY <1>4, <1>5 DEF Acquiring
  <2> QED BY <2>1, <2>2, <1>5, Fields
          DEF IInv, AddressWhileBound, LeaseClockExact, Clock
<1>6. ASSUME d.state \in Acquiring, Unanswered(Parsed(c, m)), elapsed' = 0
      PROVE  IInv'
  <2> DEFINE p == Parsed(c, m)
  <2>1. p \in Client /\ p.state \in Acquiring /\ Terms(p) /\ Single(p)
    BY <1>3, <1>6, ParsedAlike, AlikeKeeps DEF Alike
  <2>2. Sound(d') /\ d'.state # "BOUND" /\ UNCHANGED ip
    BY <2>1, <1>6, UnansweredSound
  <2> QED BY <2>2, <1>4, <1>6 DEF IInv, AddressWhileBound, LeaseClockExact, Acquiring
<1>7. ASSUME d.state = "BOUND", PollBound(clock_tick(c, dt), m),
             elapsed' = IF renewed \/ d'.state # "BOUND" THEN 0 ELSE elapsed + dt
      PROVE  IInv'
  <2> DEFINE n == clock_tick(c, dt)
  <2>1. /\ n \in Client /\ n.age_m >= c.age_m /\ Clock(n) = Clock(c) + dt
        /\ n.state = "BOUND" /\ n.phase = c.phase /\ n.sock = c.sock
        /\ n.xid = c.xid /\ n.t1_m = c.t1_m /\ n.t2_m = c.t2_m
        /\ n.next_m = c.next_m /\ n.lease_m = c.lease_m
        /\ n.tries = c.tries /\ n.pending = c.pending
    BY <1>3, <1>7, ClockTick
  <2>2. PollBound(n, m)
    BY <1>7
  <2>3. TypeOf(n, m) = TypeOf(c, m)
    BY <2>1 DEF TypeOf, Ours
  <2> HIDE DEF n
  <2>4. Terms(n) /\ Single(n) /\ Holds(n)
    BY <2>1, <1>3, <1>7 DEF Terms, Single, Holds, Leased
  <2>5. Behind(n)
    BY <2>1, <1>3, <1>7 DEF Behind, Times, Leased, Client
  <2>6. /\ Sound(d')
        /\ d'.state = "BOUND" =>
             /\ UNCHANGED ip
             /\ Clock(d') = IF n.t1_m > 0 /\ TypeOf(n, m) = "ACK" THEN 0 ELSE Clock(n)
        /\ d'.state # "BOUND" => ip' = None
    BY <2>1, <2>2, <2>4, <2>5, PollBoundSound
  <2>7. Clock(c) = elapsed
    BY <1>3, <1>7 DEF IInv, LeaseClockExact, Clock, SameClock
  <2>8. d'.state = "BOUND" => elapsed' = Clock(d')
    BY <2>1, <2>3, <2>6, <2>7, <1>3, <1>7
  <2>9. elapsed' \in Nat
    BY <1>2, <1>4, <1>7
  <2> QED BY <2>6, <2>8, <2>9, <1>4, <1>7
          DEF IInv, AddressWhileBound, LeaseClockExact, Clock
<1>8. ASSUME d.state \in {"IDLE", "FAILED"}, Rest(c), UNCHANGED <<ip, elapsed>>
      PROVE  IInv'
  <2>1. d' = c
    BY <1>8 DEF Rest
  <2> QED BY <2>1, <1>3, <1>4, <1>8
          DEF IInv, Sound, AddressWhileBound, LeaseClockExact
<1> QED BY <1>5, <1>6, <1>7, <1>8 DEF PollWith, c

LEMMA NextHolds == IInv /\ [Next]_vars => IInv'
<1> SUFFICES ASSUME IInv, [Next]_vars PROVE IInv'
  OBVIOUS
<1>0. messages \in Nat
  BY DEF IInv
<1>1. CASE Start
  BY <1>1, StartStep
<1>2. CASE PollQuiet
  <2>1. PICK dt \in Ticks : PollWith(dt, Nothing)
    BY <1>2 DEF PollQuiet
  <2> QED BY <2>1, <1>0, <1>2, PollStep DEF PollQuiet, Inputs
<1>3. CASE PollMessage
  <2>1. PICK dt \in Ticks, m \in Message : PollWith(dt, m)
    BY <1>3 DEF PollMessage
  <2>2. messages' \in Nat
    BY <1>0, <1>3 DEF PollMessage
  <2> QED BY <2>1, <2>2, PollStep DEF Inputs
<1>4. CASE UNCHANGED vars
  BY <1>4 DEF vars, IInv, AddressWhileBound, LeaseClockExact
<1> QED BY <1>1, <1>2, <1>3, <1>4 DEF Next

(* The invariant holds in every reachable state of the client. *)
THEOREM InvariantHolds == Spec => []IInv
  BY InitHolds, NextHolds, PTL DEF Spec

----------------------------------------------------------------------------
(* What it says. *)

(* Every field stays in its range; the tries of an acquisition never pass  *)
(* MAX_TRIES and the carries of the clock never pass a second or a minute. *)
THEOREM TypeCorrect == Spec => []TypeOK
<1>1. IInv => TypeOK
  BY DEF IInv, Sound, TypeOK
<1> QED BY <1>1, InvariantHolds, PTL

(* The address is there exactly while the client says BOUND. *)
THEOREM AddressFollowsLease == Spec => []AddressWhileBound
<1>1. IInv => AddressWhileBound
  BY DEF IInv
<1> QED BY <1>1, InvariantHolds, PTL

(* The borrowed socket is given back on every path. *)
THEOREM SocketGivenBack == Spec => []SocketHeld
<1>1. IInv => SocketHeld
  BY DEF IInv, Sound, Holds, SocketHeld
<1> QED BY <1>1, InvariantHolds, PTL

(* The clock loses no tick, however irregular the polls. *)
THEOREM ClockLosesNothing == Spec => []LeaseClockExact
<1>1. IInv => LeaseClockExact
  BY DEF IInv
<1> QED BY <1>1, InvariantHolds, PTL

(* Renewing from T1 and rebinding from T2, however late the poll. *)
THEOREM RenewsOnTime == Spec => []PhaseOnTime
<1>1. ASSUME IInv PROVE PhaseOnTime
  <2>1. /\ d.age_m \in Nat /\ d.t1_m \in Nat /\ d.t2_m \in Nat /\ d.next_m \in Nat
        /\ d.phase \in Phases /\ Terms(d) /\ Times(d)
    BY <1>1 DEF IInv, Sound, Client
  <2> QED BY <2>1 DEF PhaseOnTime, Terms, Times, Leased, Phases
<1> QED BY <1>1, InvariantHolds, PTL

(* No address is used past its lease. *)
THEOREM LeaseIsKept == Spec => []NeverPastLease
<1>1. ASSUME IInv PROVE NeverPastLease
  <2>1. /\ d.age_m \in Nat /\ d.t1_m \in Nat /\ d.lease_m \in Nat /\ Times(d)
    BY <1>1 DEF IInv, Sound, Client
  <2> QED BY <2>1, Fields DEF NeverPastLease, lease_left, Times, Leased
<1> QED BY <1>1, InvariantHolds, PTL

(* A poll of a client that keeps its lease, before T1: what leaves the     *)
(* host is what was pending.                                               *)
LEMMA QuietPoll ==
  ASSUME NEW c \in Client, NEW m \in Inputs, c.t1_m # 0,
         PollBound(c, m), d'.state = "BOUND", d'.phase = "BOUND"
  PROVE  out' = Silence \/ (c.pending /\ out'.type = "REQUEST")
<1> DEFINE p == Parsed(c, m)
<1>1. p \in Client /\ Alike(c, p)
  BY ParsedAlike
<1>2. CASE TypeOf(c, m) = "ACK"
  BY <1>2 DEF PollBound, Rest
<1>3. CASE TypeOf(c, m) # "ACK" /\ (TypeOf(c, m) = "NAK" \/ Expired(c))
  <2>1. lost(p)
    BY <1>3 DEF PollBound
  <2>2. PICK got \in BOOLEAN :
          Transmit([p EXCEPT !.state = "SELECTING", !.phase = "BOUND", !.tries = 0,
                             !.xid = (@ + 1) % XidSpace, !.sock = @ \/ got],
                   "DISCOVER")
    BY <2>1 DEF lost
  <2>3. d'.state = "SELECTING"
    BY <2>2, <1>1 DEF Transmit, Transmitted, Client
  <2> QED BY <2>3
<1>4. CASE TypeOf(c, m) # "ACK" /\ ~(TypeOf(c, m) = "NAK" \/ Expired(c))
           /\ c.age_m >= c.next_m
  <2> DEFINE q == [p EXCEPT !.phase = Phase(c), !.tries = 0]
  <2>1. PICK got \in BOOLEAN :
          Transmit([q EXCEPT !.sock = @ \/ got, !.next_m = NextAfter(q)], "REQUEST")
    BY <1>4 DEF PollBound
  <2>2. d'.phase = Phase(c)
    BY <2>1, <1>1 DEF Transmit, Transmitted, Client
  <2> QED BY <2>2 DEF Phase
<1>5. CASE TypeOf(c, m) # "ACK" /\ ~(TypeOf(c, m) = "NAK" \/ Expired(c))
           /\ ~(c.age_m >= c.next_m)
  <2>1. CASE c.pending
    <3>1. Transmit(p, "REQUEST")
      BY <1>5, <2>1 DEF PollBound
    <3>2. out' = Silence \/ out' = Built(p, "REQUEST")
      BY <3>1 DEF Transmit
    <3> QED BY <3>2, <2>1 DEF Built
  <2>2. CASE ~c.pending
    BY <1>5, <2>2 DEF PollBound, Rest
  <2> QED BY <2>1, <2>2
<1> QED BY <1>2, <1>3, <1>4, <1>5

(* Nothing is sent between the ACK and T1 but what was waiting.            *)
THEOREM QuietBeforeT1 == Spec => QuietUntilT1
<1> DEFINE G == Leased(d) /\ Leased(d') /\ d'.age_m < d'.t1_m =>
                  out' = Silence \/ (d.pending /\ out'.type = "REQUEST")
<1>1. IInv /\ IInv' /\ [Next]_vars => [G]_vars
  <2> SUFFICES ASSUME IInv, IInv', Next, Leased(d), Leased(d'), d'.age_m < d'.t1_m
               PROVE  out' = Silence \/ (d.pending /\ out'.type = "REQUEST")
    OBVIOUS
  <2>1. /\ d'.state = "BOUND" /\ d'.phase = "BOUND"
        /\ d.state = "BOUND" /\ d.t1_m # 0 /\ d \in Client
    <3>1. /\ d'.age_m \in Nat /\ d'.t1_m \in Nat /\ d'.t2_m \in Nat
          /\ d'.phase \in Phases /\ Terms(d') /\ Times(d')
      BY DEF IInv, Sound, Client
    <3> QED BY <3>1 DEF Leased, Terms, Times, Phases, IInv, Sound, Client
  <2>2. ASSUME NEW dt \in Ticks, NEW m \in Inputs, PollWith(dt, m)
        PROVE  out' = Silence \/ (d.pending /\ out'.type = "REQUEST")
    <3> DEFINE c == Elapse(d, dt)
               n == clock_tick(c, dt)
    <3>1. PollBound(n, m)
      BY <2>1, <2>2 DEF PollWith, Acquiring
    <3>2. dt \in Nat
      BY DhcpAssumption
    <3>3. c \in Client /\ c.t1_m = d.t1_m /\ c.pending = d.pending
      BY <2>1, <3>2, ElapseAlike DEF Elapse, Client
    <3>4. n \in Client /\ n.t1_m = d.t1_m /\ n.pending = d.pending
      BY <3>3, ClockTick
    <3> HIDE DEF n
    <3> QED BY <2>1, <3>1, <3>4, QuietPoll
  <2>3. CASE Start
    <3>1. PICK got \in BOOLEAN, x \in Xids :
        Transmit([Fresh EXCEPT !.sock = got, !.xid = x, !.state = "SELECTING",
                               !.pending = d.pending, !.sent_age = d.sent_age],
                 "DISCOVER")
      BY <2>3 DEF Start
    <3>2. d'.state = "SELECTING"
      BY <3>1 DEF Transmit, Transmitted, Fresh
    <3> QED BY <3>2, <2>1
  <2>4. CASE PollQuiet
    BY <2>4, <2>2 DEF PollQuiet, Inputs
  <2>5. CASE PollMessage
    BY <2>5, <2>2 DEF PollMessage, Inputs
  <2> QED BY <2>3, <2>4, <2>5 DEF Next
<1>2. IInv /\ [Next]_vars => IInv'
  BY NextHolds
<1> HIDE DEF IInv
<1>3. Spec => [][G]_vars
  BY <1>1, <1>2, InitHolds, PTL DEF Spec
<1> QED BY <1>3 DEF QuietUntilT1

=============================================================================
