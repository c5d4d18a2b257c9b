--------------------------- MODULE MCReplication ---------------------------
(* Instances of Replication for TLC: a minting transaction, one that moves *)
(* what it mints, one that fails half-way unless x has funds; f1 has       *)
(* priority over f2.                                                       *)
EXTENDS Replication

CONSTANTS p, f1, f2, x, y, t1, t2, t3

MCHigher == [f \in Followers |-> IF f = f2 THEN Followers \ {f2} ELSE {}]
MCInstrs == [t \in Txs |-> CASE t = t1 -> <<Mint(x, 1)>>
                             [] t = t2 -> <<Mint(x, 1), Move(x, y, 1)>>
                             [] t = t3 -> <<Mint(y, 1), Move(x, y, 1)>>]
=============================================================================
