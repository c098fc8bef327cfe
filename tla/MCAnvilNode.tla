---------------------------- MODULE MCAnvilNode ----------------------------
(***************************************************************************)
(* Instances of the node: the configurations choose the transactions among  *)
(* nonce 0 and two bids for nonce 1 of account a, and nonce 0 of b.         *)
(* A later nonce pays more, so that the order by fee and the order by nonce *)
(* differ.                                                                  *)
(***************************************************************************)
EXTENDS AnvilNode

CONSTANTS a, b, a0, a1, a1x, b0

MCSender == [h \in Hash |-> IF h = b0 THEN b ELSE a]
MCNonce  == [h \in Hash |-> CASE h \in {a0, b0} -> 0 [] h \in {a1, a1x} -> 1]
MCFee    == [h \in Hash |-> CASE h = a0 -> 1 [] h \in {a1, b0} -> 2 [] h = a1x -> 3]
MCGas    == [h \in Hash |-> 1]
NoTxs     == <<>>
ForcedTxs == <<a0>>

=============================================================================
