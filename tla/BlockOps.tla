------------------------------ MODULE BlockOps ------------------------------
(***************************************************************************)
(* Building a block from the ready queue: the order in which the iterator   *)
(* of the pool yields transactions (pool/transactions.rs) and what the      *)
(* execution of a list of them does (backend/executor.rs).                  *)
(*                                                                          *)
(* The EVM is reduced to what the pool and the miner can observe of it: a   *)
(* transaction runs if its nonce is the account's, uses its gas limit, and  *)
(* increments the nonce.  Deposit and Tempo transactions, which do not use  *)
(* the account's nonce, are left out.                                       *)
(***************************************************************************)
EXTENDS PoolOps, SequencesExt

CONSTANTS
  Order,           \* TransactionOrder: "fees" or "fifo"
  Gas,             \* [Hash -> Nat], gas_limit
  BlockGasLimit,
  Unfunded         \* transactions whose sender may be unable to pay when they run

ASSUME BlockAssumption ==
  /\ Order \in {"fees", "fifo"}
  /\ Gas \in [Hash -> Nat]
  /\ BlockGasLimit \in Nat
  /\ Unfunded \subseteq Hash

-----------------------------------------------------------------------------
(***************************************************************************)
(* Pool::ready_transactions                                                 *)
(***************************************************************************)

Priority(h) == IF Order = "fees" THEN Fee[h] ELSE 0

\* PoolTransactionRef::cmp: s is yielded before t.
Yields(R, s, t) ==
  \/ Priority(s) > Priority(t)
  \/ Priority(s) = Priority(t) /\ s \in R.ready_tx[t].older

\* Mutant of Exposed: every ready transaction is offered at once.
ExposedAll(R, done) == Ready(R) \ done

\* TransactionsIterator.independent after the transactions in done.
Exposed(R, done) ==
  {h \in Ready(R) \ done :
     h \in R.independent \/ \E t \in done : h \in R.ready_tx[t].unlocks}

\* TransactionsIterator::next until it ends, after the transactions in done.
ready_transactions(R) ==
  LET yield[done \in Seq(Hash)] ==
        LET open == Exposed(R, Range(done))
        IN  IF open = {} THEN done
            ELSE yield[Append(done, CHOOSE h \in open : \A o \in open \ {h} : Yields(R, h, o))]
  IN  yield[<<>>]

-----------------------------------------------------------------------------
(***************************************************************************)
(* PoolTransaction, as far as mining looks at it                            *)
(***************************************************************************)

\* A transaction of the pool provides the marker of its nonce.
Pooled(h) == [hash |-> h, provides |-> <<Provides(h)>>]

\* PoolTransaction::try_from, by which the forced transactions are made.
try_from(h) == [hash |-> h, provides |-> <<>>]

Entry == {Pooled(h) : h \in Hash} \cup {try_from(h) : h \in Hash}

Hashes(txs) == [i \in DOMAIN txs |-> txs[i].hash]

take(txs, n) == [i \in 1..Min({n, Len(txs)}) |-> Pooled(txs[i])]

-----------------------------------------------------------------------------
(***************************************************************************)
(* execute_pool_transactions                                                *)
(***************************************************************************)

NothingExecuted(nonce) ==
  [nonce |-> nonce, gas |-> 0, included |-> <<>>, invalid |-> {}, not_yet_valid |-> <<>>]

Include(block, tx) ==
  [block EXCEPT !.nonce[Sender[tx.hash]] = @ + 1, !.gas = @ + Gas[tx.hash],
                !.included = Append(@, tx)]

Invalidate(block, h) == [block EXCEPT !.invalid = @ \cup {h}]

\* A database error, or no room left in the block: neither run nor removed.
Skipped(block, h, failing) == h \in failing \/ block.gas + Gas[h] > BlockGasLimit

\* validate_pool_transaction_for at the account's state inside the block: the
\* nonce, and as an open choice everything that follows it.
Refused(block, h, broke) == Nonce[h] < block.nonce[Sender[h]] \/ h \in broke

\* Mutant of execute: the nonce is not compared with the account's.
execute_unchecked(block, tx, failing, broke, early) ==
  IF Skipped(block, tx.hash, failing) THEN block ELSE Include(block, tx)

\* One iteration: failing are the transactions that a database error skips,
\* broke the ones whose sender cannot pay, early the ones the EVM finds "not
\* valid yet".
execute(block, tx, failing, broke, early) ==
  LET h == tx.hash
  IN  IF Skipped(block, h, failing) THEN block
      ELSE IF Refused(block, h, broke) THEN Invalidate(block, h)
      ELSE IF h \in early THEN [block EXCEPT !.not_yet_valid = Append(@, h)]
      ELSE IF Nonce[h] = block.nonce[Sender[h]] THEN Include(block, tx)
      ELSE Invalidate(block, h)

execute_pool_transactions(nonce, txs, failing, broke, early) ==
  FoldLeft(LAMBDA block, tx : execute(block, tx, failing, broke, early), NothingExecuted(nonce), txs)

=============================================================================
