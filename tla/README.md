# Formal models of anvil

TLA+ models, model-checking runs and machine-checked proofs for the Foundry
toolchain in `src/`. The development starts at the part with the most
concurrency and the longest-lived state: the transaction pool of anvil and the
node that mines from it. The other components are listed below with the order
in which they are to follow.

## 1. The system

| Component | State | Operations | What is hard about it |
|---|---|---|---|
| Pool queues (`anvil/src/eth/pool/transactions.rs`) | ready queue with `provided_markers`, `unlocks`, `independent`; pending queue with `waiting_markers`, `required_markers` | add, replace, unlock, prune, remove with dependents, iterate | six redundant indices, assertions on all of them |
| Pool (`eth/pool/mod.rs`) | both queues under one lock, listeners | add, promotion loop, prune, remove, drop, clear | a loop that feeds itself under the lock; failure half way |
| Block execution (`eth/backend/executor.rs`) | nonces, gas | one list of transactions to one block | skip, invalid, not-yet-valid and include arms |
| Miner (`eth/miner.rs`) | mode, channel, `has_pending_txs`, forced transactions | poll, change of mode | lost wake-ups, a bounded channel |
| Node service (`service.rs`) | backlog, block being mined | poll loop | the same transactions queued twice |
| RPC calls (`eth/api.rs`) | none of their own | send, send raw, mine, drop, change mode | values read before an await and used after it |
| Chain storage (`eth/backend/mem`) | blocks, states, snapshots | mine, revert, rollback, reorg, reset | runs beside mining; bounded caches |
| Block time, fees, filters | offsets, intervals, history, deadlines | set, compute, evict | boundaries, timers |
| EVM backend (`evm/core`) | forks, snapshots, persistent accounts | create, select, roll, snapshot, revert | identifiers and indices over long call sequences |
| Script broadcast (`script`, `script-sequence`) | sequence, receipts, pending hashes, two files | send, retry, wait, save, resume | crash between send and save, answers out of order |
| Cheatcodes (`cheatcodes`) | expectations, pranks, broadcasts per call depth | start, stop, call hooks | nesting |
| Everything else | | | front ends, conversions, I/O; see `PROJECT.json` |

How the modelled parts interact: an RPC thread validates a transaction, reads
a nonce, adds the transaction under the pool's lock and afterwards sends a
notification. The service polls the miner, which drains the notifications and
takes ready transactions; the service appends them to the backlog of the
block producer. The producer mines one list at a time in a blocking task and
`on_mined_block` then removes what was invalid, prunes the markers of what was
included, promotes what they unlock, and announces it. `evm_mine` does the
same in its own thread.

Correctness means here: the indices agree with each other; no assertion fails;
a transaction is never lost, duplicated or left behind; a nonce is spent once
and in order; the miner does not sleep on work; what is ready gets mined.

## 2. Modules

| Module | Models | Remarks |
|---|---|---|
| `PoolOps` | the two queues as records, each method as an operator | no variables; used by all others |
| `TxPool` | `PoolInner` and `drop_transaction` | one step per loop iteration under the write lock; `pc = "idle"` means the lock is free |
| `BlockOps` | order of the iterator, what mining sees of a `PoolTransaction`, `execute_pool_transactions` | recursive function and a fold |
| `AnvilNode` | clients, miner, service, producer, `evm_mine` | instantiates `TxPool` on its own variables and changes them by its actions only |
| `MCTxPool`, `MCAnvilNode` | constants for TLC | |
| `PoolOps_proofs`, `TxPool_proofs` | lemmas and theorems | |

### Correspondence

`PROJECT.json` maps each definition to source lines; names follow the source.
In `PoolOps` and `TxPool`:

- a marker is the pair (account, nonce); `Provides(h)` is fixed by the
  transaction, what it requires (nothing, or its predecessor's marker) is an
  input, since it depends on the nonce the caller has read;
- `ready_tx[h].older` stands for the insertion ids: the transactions inserted
  before `h` that are still there;
- `queue` and `imports` are the transactions in flight in the loops. The
  code's queue is first in, first out and each iteration appends successors of
  the transaction it handles, so its front has the lowest nonce; the order of
  transactions unlocked together comes from a hash set and is left open.

In `AnvilNode` an await point, or a lock released and taken again, separates
two steps of a thread. While a pool loop runs no other step is taken: other
threads cannot reach the pool then and what else they do commutes with the
loop. The EVM is reduced to what pool and miner observe: a transaction runs if
its nonce is the account's, uses its gas limit and increments the nonce; a
database error, an unfunded sender and "not valid yet" are open choices for
the transactions in `Flaky`, `Unfunded` and `Early`. The channel is a count
bounded by `ListenerSize` (2048 in the code); the hashes in it are never read.

- A poll of the miner has up to three steps, during which the service holds the
  lock of the mode: `PollMiner` drains the channel, `TakeReady` reads the pool,
  and `PollTick`, in the modes with an interval, reads it again at a tick. The
  mixed mode joins the two readings (`Joined`). Draining is one step: a
  notification that arrives during the code's loop is either read by it or
  found by the next poll, as in the model.
- Listeners are told of one hash per step (`Announce`), so that a poll may come
  between two notifications of one call.
- `evm_setAutomine` is three steps: the mode is looked at, a receiver is
  registered, the mode is installed. `set_mining_mode` may come in between from
  another call. Its limit of transactions per block, 1000 in the code, is
  `AutoMineLimit`; the limit at the start is `MaxTransactions`.
- A transaction handed to the producer carries what it provides: the marker of
  its nonce if it comes from the pool (`Pooled`), nothing if it is a forced one
  (`try_from`), so that a mined forced transaction prunes nothing.

## 3. Runs

| Run | Configuration | Shows |
|---|---|---|
| `pool` | 5 transactions, 2 accounts, 3 nonces, 2 bids for one nonce | indices, links and queues consistent, no panic, rejection is pure, best bid kept, lock released |
| `node_auto` | 2 raw clients, instant mining, drop, clear, remove | the miner is awake, requirements, only spent nonces are invalid |
| `node_manual` | `eth_sendTransaction`, `evm_mine` beside the service, a forced transaction, database errors, unfunded sender | every nonce once and in order |
| `node_modes` | raw client, mixed, interval, automine on and off, not-yet-valid transactions | the miner is awake; the joined lists keep the order of nonces |
| `node_live` | raw client, competing bids | a transaction whose turn it is gets mined; nothing stays ready for ever; mining takes nothing out of the pool that could still be mined |

Seven runs show where the code departs from what its documentation says
(quoted in `PROJECT.json`, `findings`):

- `pool_drop`: `drop_transaction` does not remove a waiting transaction.
- `node_gas`: a transaction skipped for block gas stays ready while the miner
  takes the pool for drained, until the next notification.
- `node_send`: `eth_sendTransaction` uses the nonce after the pool's
  transactions as the one on chain. The transaction requires nothing and, with
  the order by fees, can be tried before its predecessor and removed.
- `node_lost`: with `evm_mine` beside the service the one that comes second
  removes a mined transaction as invalid, and its valid successor with it.
- `node_stale`: a block between the reading of the nonce and the addition
  leaves the transaction waiting for a marker already pruned.
- `node_forced`: with instant mining and an empty pool the miner is polled and
  keeps the forced transactions; they go into the block of the first other
  transaction.
- `node_unprovided`: a forced transaction provides no marker, so that what
  waits in the pool for its nonce stays there when it is mined.

`InvalidIsSpent`, `RequiresPredecessor` and `TurnIsTaken` therefore belong to
the configurations in which these situations do not arise: raw transactions,
no second miner, room in the block, and for liveness a single client.
`OnlySpentLeave` needs the same and no skipped predecessor. It fails with two
clients, one of which adds a transaction again that is already mined: removed
as invalid, it takes its valid successor along. It also fails when a
predecessor is skipped for a database error, because its successors in the
same list are then invalid and are removed. No comment in the code promises
otherwise, so neither is listed as a divergence.

### Bounds

Three nonces give a chain with a middle element, which removing, replacing and
pruning treat differently from both ends; two bids for one nonce give
replacement in either queue; a second account gives independent chains. In the
node two transactions already produce every finding (of one account, or of two
accounts for the block gas limit); a third (`a1x`) adds competing bids for
liveness. Forced transactions are in `node_manual` and not in `node_modes`:
going first, a forced `a0` would hide a wrong order of the joined lists. In
`node_modes` only `a1`, the last of its account, may be not valid yet, since a
skipped predecessor makes its successor invalid (see `OnlySpentLeave` above). `ListenerSize = 1` makes the channel
overflow. A limit of one transaction per block (`MaxTransactions` in
`node_modes`) makes `has_pending_txs` stay true after a block, and
`AutoMineLimit = 2` differs from it. `MaxQueued` bounds the backlog, which the
code does not bound; the miner is then polled only while there is room.
`MaxRenotify` bounds the announcements that wait for their second; a miner
with more to announce waits. No other counter is unbounded: the nonces are
bounded by the transactions.

### Fairness

A step of the pool's loop is weakly fair: the thread that holds the lock runs
on. The other steps of a call in progress, the service's polling and the block
task are strongly fair: they need locks that others take again and again, and
parking_lot's locks are fair to waiting threads, tokio's mutex is first in
first out. The announcement after a second is a timer. Nobody is obliged to
send or to call `evm_mine`, and no administrative call is fair.

## 4. Proofs

For every set of accounts and transactions and all nonces and fees,
`TxPool_proofs` proves `Spec => []P` for each safety invariant of the run
`pool` and the two action properties. The assumptions are the types of the
constants (`TxAssumption` in `PoolOps`).

The invariants are not inductive one by one. That the links are exact needs
the index of providers; that no assertion fails needs both and the pending
queue's index; that nothing waits for a provided marker needs to know, in the
middle of the promotion loop, which transactions are in flight. The inductive
invariant is the conjunction

    IInv == TypeOK /\ ReadyIndexed /\ LinksExact /\ PendingIndexed
            /\ NothingWaitsForProvided /\ OnePlace /\ LoopOK

where `LoopOK` says what the loops know of `new`, `queue`, `imports` and
`removed`. `PoolOps_proofs` has a lemma per operator saying that it preserves
the indices; `TxPool_proofs` has one per action. `IteratorComplete`,
`NoPanic` and `NeverCyclic` follow from `IInv`; that the iterator reaches
everything is an argument about a minimal nonce among the transactions it
misses.

Only model-checked: the liveness properties (`LockReleased`, `TurnIsTaken`,
`ReadyIsLeft`), which are outside what the prover does, and the properties of
`AnvilNode`. What is proved of `TxPool` carries over to the pool of the node in
so far as every step of `AnvilNode` that changes the pool is an action of
`TxPool`; this holds by construction and is not itself a theorem.

## 5. Not modelled, and the plan

Not modelled: transactions of Tempo with a two-dimensional nonce, whose marker
is their hash; deposit transactions, whose nonce is not checked; blob gas and the cap on transaction gas, which skip a
transaction as the block gas does; a transaction that uses less gas than its
limit; read-only RPC calls; logging. Command lines, compilers, formatters,
decoders, wallets and network transport are I/O or conversions.

Next, in this order:

1. `TimeManager`: offset, exact timestamp and interval; timestamps along the
   chain against what the comments promise.
2. `Chain`: snapshots, `evm_revert`, rollback, reorg and reset beside mining,
   composed with `AnvilNode`; the limits of `InMemoryBlockStates`.
3. `ScriptBroadcast`: batches, retries, receipts, checkpoints, crash and
   resume, as the implementation of an abstract specification in which each
   transaction is confirmed once and in order.
4. `MultiFork`: fork identifiers and tasks of the handler; select, roll,
   snapshot and revert of forks.
5. Filters, fee history and the expectation and prank cheatcodes.
6. Proofs: that the nonces in the blocks are consecutive
   for any number of miners; invariants of the modules above.
