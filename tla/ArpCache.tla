------------------------------ MODULE ArpCache ------------------------------
(***************************************************************************)
(* The ARP cache of src/net/mn_arp.c: CacheSize entries in an array, each  *)
(* free or holding what one address last said its MAC is.  An entry is     *)
(* never given up, only replaced, in turn.                                 *)
(***************************************************************************)
EXTENDS Integers

CONSTANTS
  CacheSize,   \* MN_ARP_CACHE
  Addr,        \* the IPv4 addresses
  Mac,         \* the hardware addresses of stations
  None         \* a free entry; the null pointer of a lookup

ASSUME CacheAssumption ==
  CacheSize \in Nat \ {0} /\ None \notin [ip : Addr, mac : Mac]

Slot == 0 .. CacheSize - 1
Entry == [ip : Addr, mac : Mac]
Cache == [e : [Slot -> Entry \cup {None}], next : Slot]

mn_arp_cache_init == [e |-> [i \in Slot |-> None], next |-> 0]

Free(c) == {i \in Slot : c.e[i] = None}
Known(c, ip) == {i \in Slot \ Free(c) : c.e[i].ip = ip}
First(S) == CHOOSE i \in S : \A j \in S : i <= j

mn_arp_cache_lookup(c, ip) ==
  IF Known(c, ip) = {} THEN None ELSE c.e[First(Known(c, ip))].mac

(* [mutant of Place: a new address goes to a free slot or is not kept]     *)
Place_NoTurn(c, ip) ==
  IF Known(c, ip) # {} THEN First(Known(c, ip))
  ELSE IF Free(c) # {} THEN First(Free(c)) ELSE CacheSize

(* [mutant of Place: a known address is not looked for first] *)
Place_NoRefresh(c, ip) == IF Free(c) # {} THEN First(Free(c)) ELSE c.next

(* Where a new word goes: over the old one, else to a free slot, else in   *)
(* turn.                                                                   *)
Place(c, ip) ==
  IF Known(c, ip) # {} THEN First(Known(c, ip))
  ELSE IF Free(c) # {} THEN First(Free(c)) ELSE c.next

InTurn(c, ip) == Known(c, ip) = {} /\ Free(c) = {}

(* [mutant of mn_arp_cache_learn: the turn never starts again] *)
mn_arp_cache_learn_NoWrap(c, ip, mac) ==
  [e    |-> [c.e EXCEPT ![Place(c, ip)] = [ip |-> ip, mac |-> mac]],
   next |-> IF InTurn(c, ip) THEN c.next + 1 ELSE c.next]

mn_arp_cache_learn(c, ip, mac) ==
  [e    |-> [c.e EXCEPT ![Place(c, ip)] = [ip |-> ip, mac |-> mac]],
   next |-> IF InTurn(c, ip) THEN (c.next + 1) % CacheSize ELSE c.next]

(* No address has two entries, so that a lookup, which stops at the first, *)
(* finds what was learned last.                                            *)
NoDuplicates(c) ==
  \A i, j \in Slot \ Free(c) : c.e[i].ip = c.e[j].ip => i = j

============================================================================
