------------------------------ MODULE MCTcpSet ------------------------------
(* The other ends are alike. *)
EXTENDS TcpSet, TLC

MCEndsAlike == Permutations(Ends)

============================================================================
