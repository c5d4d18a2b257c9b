----------------------------- MODULE MCBitcoin -----------------------------
(* An instance of Bitcoin for TLC. *)
EXTENDS Bitcoin

\* Too few, just enough and all signers in several orders, one of them twice; the
\* fourth one has no share of the key.
MCOnline == {<<>>, <<1>>, <<1, 2>>, <<3, 1>>, <<1, 2, 3>>, <<2, 3, 1>>, <<3, 2, 1>>,
             <<4, 1, 2>>, <<1, 1, 2>>, <<4, 3, 2, 1>>}

\* Bound: signing reads nothing of the rest, so nothing is explored after it.
NotSigned == session = NoSession
=============================================================================
