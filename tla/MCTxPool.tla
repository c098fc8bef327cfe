------------------------------ MODULE MCTxPool ------------------------------
(***************************************************************************)
(* The pool with one account and a second one that never waits: two bids    *)
(* for nonce 1 around nonces 0 and 2, so that replacement in both queues,   *)
(* chains of promotions and prunings in the middle of a chain all happen.   *)
(***************************************************************************)
EXTENDS TxPool, TLC

CONSTANTS a, b, a0, a1, a1x, a2, b0

MCAccount == {a, b}
MCHash    == {a0, a1, a1x, a2, b0}
MCSender  == [h \in MCHash |-> IF h = b0 THEN b ELSE a]
MCNonce   == a0 :> 0 @@ a1 :> 1 @@ a1x :> 1 @@ a2 :> 2 @@ b0 :> 0
MCFee     == a0 :> 1 @@ a1 :> 1 @@ a1x :> 2 @@ a2 :> 1 @@ b0 :> 1

\* Blocks of at most two transactions, in nonce order.
MCMarkerLists ==
  {<<>>} \cup {<<m>> : m \in {<<a, 0>>, <<a, 1>>, <<a, 2>>, <<b, 0>>}}
         \cup {<<<<a, 0>>, <<a, 1>>>>, <<<<a, 1>>, <<a, 2>>>>, <<<<b, 0>>, <<a, 0>>>>}

=============================================================================
