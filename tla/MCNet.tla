------------------------------- MODULE MCNet -------------------------------
(* A small LAN: five bits of address, two of them the network's. *)
EXTENDS Net

Router == {5, 1}
Left   == {5, 2}
Us     == {5, 3}
Far    == {4, 1}

MCBits == 1 .. 5
MCAddr == SUBSET MCBits
MCMask == {4, 5}
MCConfigs == {[ip |-> Us, mask |-> MCMask, gw |-> Router], NoAddress}
MCStations == {Router, Left}
MCMac == MCStations \X (0 .. MaxOdd)
MCDests == <<Left, Far>>
MCAppDests == {MCBits}

============================================================================
