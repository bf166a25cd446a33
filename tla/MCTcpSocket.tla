---------------------------- MODULE MCTcpSocket ----------------------------
(* A small instance of TcpRings: short payloads of one value, a link that *)
(* takes everything or stops after 0 or 1 frames.                        *)
EXTENDS TcpRings

MCWrites == {<<1>>}
MCPayloads == {<< >>, <<1>>}
MCLinks == {[takes |-> 3, then |-> "FAILED"], [takes |-> 0, then |-> "FAILED"],
            [takes |-> 1, then |-> "PENDING"]}

============================================================================
