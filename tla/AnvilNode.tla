------------------------------ MODULE AnvilNode ------------------------------
(***************************************************************************)
(* The node around the pool: RPC clients that submit transactions, the      *)
(* miner, the node service with its block producer, and calls of evm_mine   *)
(* that mine beside it (crates/anvil/src/eth/api.rs, eth/miner.rs,          *)
(* service.rs, eth/backend/mem/mod.rs do_mine_block).                       *)
(*                                                                          *)
(* The pool is the module TxPool, on the same variables.  Its loops hold    *)
(* the pool's write lock; what the other threads do meanwhile commutes with *)
(* them, so all other steps wait until the lock is free (pc = "idle").      *)
(* An await point, or a lock that is released and taken again, separates    *)
(* two steps of a thread.                                                   *)
(***************************************************************************)
EXTENDS BlockOps

CONSTANTS
  RawClients,      \* callers of eth_sendRawTransaction
  SendClients,     \* callers of eth_sendTransaction
  ManualMiners,    \* callers of evm_mine and anvil_mine
  Admin,           \* the administrative calls that may come
  InitialMode,     \* the MiningMode the node starts in
  MaxTransactions, \* max_transactions of the node's configuration
  AutoMineLimit,   \* max_transactions of evm_setAutomine (1_000)
  ListenerSize,    \* the capacity of the miner's notification channel
  Forced,          \* force_transactions
  Flaky,           \* transactions whose execution may meet a database error
  Early,           \* transactions that may be "not valid yet"
  MaxQueued,       \* bound: the lists of transactions that wait for the producer
  MaxRenotify      \* bound: the announcements that wait for their second

ASSUME NodeAssumption ==
  /\ MaxTransactions \in Nat \ {0}
  /\ AutoMineLimit \in Nat \ {0}
  /\ ListenerSize \in Nat \ {0}
  /\ MaxQueued \in Nat \ {0}
  /\ MaxRenotify \in Nat
  /\ Forced \in Seq(Hash)
  /\ InitialMode \in {"None", "Auto", "FixedBlockTime", "Mixed"}
  /\ Admin \subseteq {"drop", "clear", "remove", "automine", "interval"}

VARIABLES
  ready, pending, pc, new, queue, is_new_tx, promoted, removed,
  markers, next, imports, result,   \* the pool
  caller,           \* the thread that holds the pool's write lock
  client,           \* where each client's call is
  mode,             \* Miner.mode
  max_transactions, \* ReadyTransactionMiner: the limit of a block
  has_pending_txs,  \* ReadyTransactionMiner: {} unknown, {TRUE} or {FALSE}
  rx,               \* ReadyTransactionMiner: notifications in the channel
  forced,           \* Miner.force_transactions
  polling,          \* where the service is in Miner::poll, whose mode it locks
  setting,          \* where a call of anvil_set_auto_mine is
  queued,           \* BlockProducer.queued
  job,              \* what the service's producer and each manual miner do
  renotify,         \* how many not-yet-valid transactions are to be announced again
  nonce,            \* the accounts' nonces in the state database
  chain             \* the transactions of all blocks, in order

poolVars == <<ready, pending, pc, new, queue, is_new_tx, promoted, removed,
              markers, next, imports, result>>
minerVars == <<mode, max_transactions, has_pending_txs, rx, forced, polling, setting>>
backendVars == <<nonce, chain>>
nodeVars == <<client, minerVars, queued, job, renotify, backendVars>>
vars == <<poolVars, caller, nodeVars>>

Pool == INSTANCE TxPool WITH MarkerLists <- Seq(Marker)

Service == "service"
Nobody == "nobody"
Clients == RawClients \cup SendClients
Miners == {Service} \cup ManualMiners

Idle == [pc |-> "idle"]

Listening == mode \in {"Auto", "Mixed"}

\* Mutant of Announce: the channel has no bound.
AnnounceUnbounded ==
  /\ rx' = IF Listening THEN rx + 1 ELSE rx
  /\ UNCHANGED <<mode, max_transactions, has_pending_txs, forced, polling, setting>>

\* Pool::notify_listener: one hash for every receiver that still exists, the
\* mode's and the one a call of anvil_set_auto_mine is about to install.  The
\* hashes are never read; a full channel drops them.
Announce ==
  /\ rx' = IF Listening THEN Min({ListenerSize, rx + 1}) ELSE rx
  /\ setting' = IF setting.pc # "instant" THEN setting
                ELSE [setting EXCEPT !.rx = Min({ListenerSize, @ + 1})]
  /\ UNCHANGED <<mode, max_transactions, has_pending_txs, forced, polling>>

-----------------------------------------------------------------------------
(***************************************************************************)
(* eth_sendRawTransaction and eth_sendTransaction                           *)
(***************************************************************************)

\* Mutant of required_marker: < for <= in the comparison of the two nonces.
required_marker_lax(n, on_chain_nonce, from) ==
  IF n > on_chain_nonce + 1 THEN {to_marker(n - 1, from)} ELSE {}

required_marker(n, on_chain_nonce, from) ==
  IF n > on_chain_nonce THEN {to_marker(n - 1, from)} ELSE {}

Goes(c, state) == client' = [client EXCEPT ![c] = state]

\* send_raw_transaction up to the validation; a rejected call changes nothing.
SendRaw(c, h) ==
  /\ pc = "idle"
  /\ client[c] = Idle
  /\ Nonce[h] >= nonce[Sender[h]]
  /\ Goes(c, [pc |-> "validated", tx |-> h])
  /\ UNCHANGED <<poolVars, caller, minerVars, queued, job, renotify, backendVars>>

\* current_nonce is read again after the validation.
ReadNonce(c) ==
  /\ pc = "idle"
  /\ client[c].pc = "validated"
  /\ LET h == client[c].tx
     IN  Goes(c, [pc |-> "add", tx |-> h,
                  requires |-> required_marker(Nonce[h], nonce[Sender[h]], Sender[h])])
  /\ UNCHANGED <<poolVars, caller, minerVars, queued, job, renotify, backendVars>>

\* send_transaction: the nonces of the sender's ready transactions ...
RequestNonce(c, from) ==
  /\ pc = "idle"
  /\ client[c] = Idle
  /\ Goes(c, [pc |-> "counting", from |-> from,
              nonces |-> {Nonce[h] : h \in {t \in Range(ready_transactions(ready)) : Sender[t] = from}}])
  /\ UNCHANGED <<poolVars, caller, minerVars, queued, job, renotify, backendVars>>

\* ... or, without any, the account's, is the nonce of the new transaction
\* unless the request has one.
BuildTx(c, h) ==
  /\ pc = "idle"
  /\ client[c].pc = "counting"
  /\ Sender[h] = client[c].from
  /\ LET pool    == client[c].nonces
         highest == IF pool = {} THEN nonce[Sender[h]] ELSE Max(pool) + 1
     IN  Goes(c, [pc |-> "built", tx |-> h, highest |-> highest])
  /\ UNCHANGED <<poolVars, caller, minerVars, queued, job, renotify, backendVars>>

ValidateSend(c) ==
  /\ pc = "idle"
  /\ client[c].pc = "built"
  /\ LET h == client[c].tx
     IN  Goes(c, IF Nonce[h] < nonce[Sender[h]] THEN Idle
                 ELSE [pc |-> "add", tx |-> h,
                       requires |-> required_marker(Nonce[h], client[c].highest, Sender[h])])
  /\ UNCHANGED <<poolVars, caller, minerVars, queued, job, renotify, backendVars>>

\* Pool::add_transaction: the write lock is taken; a call that does not enter
\* the loop of add_ready_transaction returns at once.
Add(c) ==
  /\ client[c].pc = "add"
  /\ Pool!add_transaction(client[c].tx, client[c].requires)
  /\ IF pc' = "idle"
     THEN Goes(c, Idle) /\ UNCHANGED caller
     ELSE Goes(c, [pc |-> "adding"]) /\ caller' = c
  /\ UNCHANGED <<minerVars, queued, job, renotify, backendVars>>

\* Mutant of NotifyReady: nobody is told of the new transaction.
NotifyReadyNobody(c) ==
  /\ pc = "idle"
  /\ client[c].pc = "notify"
  /\ Goes(c, Idle)
  /\ UNCHANGED <<poolVars, caller, minerVars, queued, job, renotify, backendVars>>

\* Pool::notify_ready, after the lock is released, one hash at a time.
NotifyReady(c) ==
  /\ pc = "idle"
  /\ client[c].pc = "notify"
  /\ Announce
  /\ Goes(c, IF client[c].left = 1 THEN Idle ELSE [client[c] EXCEPT !.left = @ - 1])
  /\ UNCHANGED <<poolVars, caller, queued, job, renotify, backendVars>>

ClientStep(c) ==
  ReadNonce(c) \/ (\E h \in Hash : BuildTx(c, h)) \/ ValidateSend(c) \/ Add(c) \/ NotifyReady(c)

-----------------------------------------------------------------------------
(***************************************************************************)
(* The miner                                                                *)
(***************************************************************************)

\* Mutant of Drained: the notifications are read and ignored.
DrainedIgnored == has_pending_txs

\* ReadyTransactionMiner: has_pending_txs once the channel is drained.
Drained == IF rx > 0 THEN {TRUE} ELSE has_pending_txs

\* A poll is {} (Pending) or {txs} (Ready).  Ready goes to the end of the
\* producer's backlog, after the forced transactions if there still are any.
Deliver(poll) ==
  IF poll = {} THEN UNCHANGED <<queued, forced>>
  ELSE \E txs \in poll : queued' = Append(queued, forced \o txs) /\ forced' = <<>>

\* Where a poll of the mode goes on after its automatic part.
AfterAuto(auto) == IF mode = "Mixed" THEN [pc |-> "tick", auto |-> auto] ELSE Idle

\* The service's loop: the producer comes first, then the miner.  The channel
\* is drained; the pool is read only if it may have something.
PollMiner ==
  /\ pc = "idle"
  /\ polling = Idle
  /\ job[Service].pc \in {"idle", "exec", "mined"}
  /\ job[Service] = Idle => queued = <<>>
  /\ Len(queued) < MaxQueued
  /\ IF Listening
     THEN /\ rx' = 0
          /\ has_pending_txs' = Drained
          /\ polling' = IF Drained = {FALSE} THEN AfterAuto({}) ELSE [pc |-> "take"]
     ELSE /\ polling' = IF mode = "None" THEN Idle ELSE [pc |-> "tick", auto |-> {}]
          /\ UNCHANGED <<rx, has_pending_txs>>
  /\ UNCHANGED <<poolVars, caller, client, mode, max_transactions, forced, setting,
                 queued, job, renotify, backendVars>>

\* ReadyTransactionMiner::poll reads the pool.
TakeReady ==
  /\ pc = "idle"
  /\ polling.pc = "take"
  /\ LET txs  == take(ready_transactions(ready), max_transactions)
         auto == IF txs = <<>> THEN {} ELSE {txs}
     IN  /\ has_pending_txs' = {Len(txs) >= max_transactions}
         /\ polling' = AfterAuto(auto)
         /\ IF mode = "Mixed" THEN UNCHANGED <<queued, forced>> ELSE Deliver(auto)
  /\ UNCHANGED <<poolVars, caller, client, mode, max_transactions, rx, setting, job, renotify, backendVars>>

\* Mutant of Joined: the new transactions of the second list come first.
JoinedSwapped(auto, fixed) ==
  IF auto = {} \/ fixed = {} THEN auto \cup fixed
  ELSE {SelectSeq(second, LAMBDA tx : tx \notin Range(first)) \o first :
          first \in auto, second \in fixed}

\* MiningMode::poll for Mixed: the second list without what the first has.
Joined(auto, fixed) ==
  IF auto = {} \/ fixed = {} THEN auto \cup fixed
  ELSE {first \o SelectSeq(second, LAMBDA tx : tx \notin Range(first)) :
          first \in auto, second \in fixed}

\* FixedBlockTimeMiner::poll reads the pool once more, but only at a tick; a
\* tick yields a block even if nothing is ready.
PollTick(tick) ==
  /\ pc = "idle"
  /\ polling.pc = "tick"
  /\ LET txs == ready_transactions(ready)
     IN  Deliver(Joined(polling.auto, IF tick THEN {take(txs, Len(txs))} ELSE {}))
  /\ polling' = Idle
  /\ UNCHANGED <<poolVars, caller, client, mode, max_transactions, has_pending_txs, rx, setting,
                 job, renotify, backendVars>>

\* Miner::set_mining_mode: a new mode, and the old receiver is dropped.  The
\* lock of the mode is free unless the service polls.
set_mining_mode(new_mode, limit, notifications) ==
  /\ polling = Idle
  /\ mode' = new_mode
  /\ max_transactions' = limit
  /\ has_pending_txs' = {}
  /\ rx' = notifications
  /\ UNCHANGED <<poolVars, caller, client, forced, polling, queued, job, renotify, backendVars>>

\* anvil_set_auto_mine: the mode is looked at, ...
anvil_set_auto_mine(enable) ==
  /\ pc = "idle"
  /\ polling = Idle
  /\ setting = Idle
  /\ enable # (mode = "Auto")
  /\ setting' = [pc |-> IF enable THEN "listen" ELSE "none"]
  /\ UNCHANGED <<poolVars, caller, client, mode, max_transactions, has_pending_txs, rx, forced,
                 polling, queued, job, renotify, backendVars>>

\* ... a receiver is registered with the pool ...
add_ready_listener ==
  /\ pc = "idle"
  /\ setting.pc = "listen"
  /\ setting' = [pc |-> "instant", rx |-> 0]
  /\ UNCHANGED <<poolVars, caller, client, mode, max_transactions, has_pending_txs, rx, forced,
                 polling, queued, job, renotify, backendVars>>

\* ... and the new mode is installed.
InstallMode ==
  /\ pc = "idle"
  /\ \/ setting.pc = "none" /\ set_mining_mode("None", max_transactions, 0)
     \/ setting.pc = "instant" /\ set_mining_mode("Auto", AutoMineLimit, setting.rx)
  /\ setting' = Idle

anvil_set_interval_mining(secs) ==
  /\ pc = "idle"
  /\ set_mining_mode(IF secs = 0 THEN "None" ELSE "FixedBlockTime", max_transactions, 0)
  /\ UNCHANGED setting

-----------------------------------------------------------------------------
(***************************************************************************)
(* Mining a block                                                           *)
(***************************************************************************)

Works(p, state) == job' = [job EXCEPT ![p] = state]

\* BlockProducer::poll_next takes the next list if no block is being mined.
StartMining ==
  /\ pc = "idle"
  /\ polling = Idle
  /\ job[Service] = Idle
  /\ queued # <<>>
  /\ Works(Service, [pc |-> "exec", txs |-> Head(queued)])
  /\ queued' = Tail(queued)
  /\ UNCHANGED <<poolVars, caller, client, minerVars, renotify, backendVars>>

\* The service's own steps: block production and its loop.
ServiceStep == StartMining \/ PollMiner \/ TakeReady \/ (\E tick \in BOOLEAN : PollTick(tick))

\* mine_one reads the ready transactions and mines them itself.
MineOne(p) ==
  /\ pc = "idle"
  /\ job[p] = Idle
  /\ LET txs == ready_transactions(ready)
     IN  Works(p, [pc |-> "exec", txs |-> take(txs, Len(txs))])
  /\ UNCHANGED <<poolVars, caller, client, minerVars, queued, renotify, backendVars>>

\* do_mine_block: the state changes while the database is locked.
MineBlock(p) ==
  /\ pc = "idle"
  /\ job[p].pc = "exec"
  /\ LET hashes == Range(Hashes(job[p].txs))
     IN  \E failing \in SUBSET (Flaky \cap hashes), broke \in SUBSET (Unfunded \cap hashes),
            early \in SUBSET (Early \cap hashes) :
           LET block == execute_pool_transactions(nonce, job[p].txs, failing, broke, early)
           IN  /\ nonce' = block.nonce
               /\ chain' = chain \o Hashes(block.included)
               /\ Works(p, [pc |-> "mined", included |-> block.included, invalid |-> block.invalid,
                            not_yet_valid |-> block.not_yet_valid])
  /\ UNCHANGED <<poolVars, caller, client, minerVars, queued, renotify>>

\* The job of p after remove_invalid.  The service calls on_mined_block from
\* its loop, so not in the middle of a poll of the miner.
ToPrune(p) ==
  /\ job[p].pc = "mined"
  /\ p = Service => polling = Idle
  /\ Works(p, [pc |-> "prune", included |-> job[p].included, not_yet_valid |-> job[p].not_yet_valid])
  /\ UNCHANGED <<caller, client, minerVars, queued, renotify, backendVars>>

\* Mutant of RemoveInvalid: invalid transactions stay in the pool.
RemoveInvalidNothing(p) ==
  /\ pc = "idle"
  /\ ToPrune(p)
  /\ UNCHANGED poolVars

\* Mutant of RemoveInvalid: what was included is removed in the same way.
RemoveInvalidAndIncluded(p) ==
  /\ ToPrune(p)
  /\ LET gone == job[p].invalid \cup Range(Hashes(job[p].included))
     IN  IF gone = {} THEN pc = "idle" /\ UNCHANGED poolVars ELSE Pool!remove_invalid(gone)

\* on_mined_block, first lock: remove_invalid.
RemoveInvalid(p) ==
  /\ ToPrune(p)
  /\ IF job[p].invalid = {} THEN pc = "idle" /\ UNCHANGED poolVars
                            ELSE Pool!remove_invalid(job[p].invalid)

\* on_mined_block, second lock: the markers of the mined transactions.
Prune(p) ==
  /\ job[p].pc = "prune"
  /\ LET included == job[p].included
     IN  Pool!PruneMarkers(FlattenSeq([i \in DOMAIN included |-> included[i].provides]))
  /\ caller' = p
  /\ Works(p, [pc |-> "pruning", not_yet_valid |-> job[p].not_yet_valid])
  /\ UNCHANGED <<client, minerVars, queued, renotify, backendVars>>

\* What is left of on_mined_block after the pruning.
AfterPrune(left, not_yet_valid) ==
  IF left = 0 /\ not_yet_valid = <<>> THEN Idle
  ELSE [pc |-> "notify", left |-> left, not_yet_valid |-> not_yet_valid]

\* The promoted transactions are announced one by one ...
NotifyPruned(p) ==
  /\ pc = "idle"
  /\ job[p].pc = "notify"
  /\ job[p].left > 0
  /\ Announce
  /\ Works(p, AfterPrune(job[p].left - 1, job[p].not_yet_valid))
  /\ UNCHANGED <<poolVars, caller, client, queued, renotify, backendVars>>

\* ... and a task will announce the not-yet-valid ones after a second.
SpawnRenotify(p) ==
  /\ pc = "idle"
  /\ job[p].pc = "notify"
  /\ job[p].left = 0
  /\ renotify + Len(job[p].not_yet_valid) <= MaxRenotify
  /\ renotify' = renotify + Len(job[p].not_yet_valid)
  /\ Works(p, Idle)
  /\ UNCHANGED <<poolVars, caller, client, minerVars, queued, backendVars>>

MinerStep(p) == MineBlock(p) \/ RemoveInvalid(p) \/ Prune(p) \/ NotifyPruned(p) \/ SpawnRenotify(p)

\* Mutant of Renotify: the transaction is forgotten.
RenotifyNobody ==
  /\ pc = "idle"
  /\ renotify > 0
  /\ renotify' = renotify - 1
  /\ UNCHANGED <<poolVars, caller, client, minerVars, queued, job, backendVars>>

Renotify ==
  /\ pc = "idle"
  /\ renotify > 0
  /\ Announce
  /\ renotify' = renotify - 1
  /\ UNCHANGED <<poolVars, caller, client, queued, job, backendVars>>

-----------------------------------------------------------------------------
(***************************************************************************)
(* The pool's loops and the remaining calls                                 *)
(***************************************************************************)

\* A step of the loop under the write lock.  When the lock is released the
\* caller goes on to announce what became ready.
PoolContinue ==
  /\ Pool!Continue
  /\ IF pc' # "idle"
     THEN UNCHANGED <<caller, client, job>>
     ELSE /\ caller' = Nobody
          /\ client' = [c \in Clients |->
               IF c # caller THEN client[c]
               ELSE IF result'.notify = {} THEN Idle
               ELSE [pc |-> "notify", left |-> Cardinality(result'.notify)]]
          /\ job' = [p \in Miners |->
               IF p # caller THEN job[p]
               ELSE AfterPrune(Cardinality(result'.notify), job[p].not_yet_valid)]
  /\ UNCHANGED <<minerVars, queued, renotify, backendVars>>

AdminCall ==
  \/ /\ \/ "drop" \in Admin /\ \E h \in Hash : Pool!drop_transaction(h)
        \/ "clear" \in Admin /\ Pool!clear
        \/ "remove" \in Admin /\ \E a \in Account : Pool!remove_transactions_by_address(a)
     /\ UNCHANGED <<caller, nodeVars>>
  \/ "automine" \in Admin /\ \E enable \in BOOLEAN : anvil_set_auto_mine(enable)
  \/ add_ready_listener
  \/ InstallMode
  \/ "interval" \in Admin /\ \E secs \in {0, 1} : anvil_set_interval_mining(secs)

Init ==
  /\ Pool!Init
  /\ caller = Nobody
  /\ client = [c \in Clients |-> Idle]
  /\ mode = InitialMode
  /\ max_transactions = MaxTransactions
  /\ has_pending_txs = {}
  /\ rx = 0
  /\ forced = [i \in DOMAIN Forced |-> try_from(Forced[i])]
  /\ polling = Idle
  /\ setting = Idle
  /\ queued = <<>>
  /\ job = [p \in Miners |-> Idle]
  /\ renotify = 0
  /\ nonce = [a \in Account |-> 0]
  /\ chain = <<>>

Next ==
  \/ \E c \in RawClients, h \in Hash : SendRaw(c, h)
  \/ \E c \in SendClients, a \in Account : RequestNonce(c, a)
  \/ \E c \in Clients : ClientStep(c)
  \/ ServiceStep
  \/ \E p \in ManualMiners : MineOne(p)
  \/ \E p \in Miners : MinerStep(p)
  \/ Renotify
  \/ PoolContinue
  \/ AdminCall

\* A call that has started is carried on, the service keeps polling, blocks
\* are executed and time passes.  The locks are fair (parking_lot hands a
\* contended lock over), so a step that waits for the pool's lock is taken in
\* the end: strong fairness.  Nobody has to send or to mine by hand.
Fairness ==
  /\ WF_vars(PoolContinue)
  /\ SF_vars(ServiceStep)
  /\ \A p \in Miners : SF_vars(MinerStep(p))
  /\ \A c \in Clients : SF_vars(ClientStep(c))
  /\ SF_vars(Renotify)

Spec == Init /\ [][Next]_vars /\ Fairness

-----------------------------------------------------------------------------
(***************************************************************************)
(* Properties                                                               *)
(***************************************************************************)

\* The threads, the miner and the backend have their types.
NodeTypeOK ==
  /\ caller \in Clients \cup Miners \cup {Nobody}
  /\ client \in [Clients ->
       [pc : {"idle", "adding"}]
       \cup [pc : {"validated"}, tx : Hash]
       \cup [pc : {"counting"}, from : Account, nonces : SUBSET Range(Nonce)]
       \cup [pc : {"built"}, tx : Hash, highest : 0..(Max(Range(Nonce)) + 1)]
       \cup [pc : {"add"}, tx : Hash, requires : UNION {Requirements(h) : h \in Hash}]
       \cup [pc : {"notify"}, left : 1..Cardinality(Hash)]]
  /\ mode \in {"None", "Auto", "FixedBlockTime", "Mixed"}
  /\ max_transactions \in {MaxTransactions, AutoMineLimit}
  /\ has_pending_txs \in {{}, {TRUE}, {FALSE}}
  /\ rx \in 0..ListenerSize
  /\ forced \in Seq(Entry) /\ chain \in Seq(Hash)
  /\ polling.pc \in {"idle", "take", "tick"}
  /\ setting \in [pc : {"idle", "listen", "none"}] \cup [pc : {"instant"}, rx : 0..ListenerSize]
  /\ queued \in Seq(Seq(Entry)) /\ Len(queued) <= MaxQueued
  /\ DOMAIN job = Miners
  /\ \A p \in Miners : job[p].pc \in {"idle", "exec", "mined", "prune", "pruning", "notify"}
  /\ renotify \in 0..MaxRenotify
  /\ nonce \in [Account -> Nat]

ByAccount(a) == SelectSeq(chain, LAMBDA h : Sender[h] = a)

\* The blocks spend every nonce of an account once and in order, although the
\* same transaction may be handed to the block producer several times, and to
\* two miners at once: do_mine_block validates against the current state.
NoncesConsecutive ==
  \A a \in Account :
    /\ Len(ByAccount(a)) = nonce[a]
    /\ \A i \in 1..nonce[a] : Nonce[ByAccount(a)[i]] = i - 1

\* Nobody mines, promotes or is about to announce anything.
Quiet ==
  /\ pc = "idle" /\ queued = <<>> /\ renotify = 0 /\ polling = Idle
  /\ \A c \in Clients : client[c].pc # "notify"
  /\ \A p \in Miners : job[p] = Idle

\* The miner never sleeps on work: has_pending_txs, "whether there are pending
\* transactions (if known)", is only Some(false) with an empty channel and
\* nobody about to send if the ready queue is empty.
MinerAwake ==
  Quiet /\ Listening /\ has_pending_txs = {FALSE} /\ rx = 0 => Ready(ready) = {}

\* An accepted transaction with a nonce above the account's requires its
\* predecessor's marker, in the pool as when it was submitted.
RequiresPredecessor ==
  /\ \A h \in Ready(ready) : Nonce[h] > nonce[Sender[h]] => ready.ready_tx[h].requires # {}
  /\ \A h \in Waiting(pending) : Nonce[h] > nonce[Sender[h]] => pending.waiting_queue[h].requires # {}

\* A transaction is found invalid only when its nonce is spent: the order of
\* ready_transactions never puts a transaction before its predecessor.
InvalidIsSpent ==
  \A p \in Miners : job[p].pc = "mined" =>
    \A h \in job[p].invalid : Nonce[h] < nonce[Sender[h]]

\* When the node is at rest a waiting transaction waits for a transaction
\* that is really still to be mined.
NotStranded ==
  Quiet /\ (\A c \in Clients : client[c] = Idle) =>
    \A h \in Waiting(pending) : Nonce[h] > nonce[Sender[h]]

\* What on_mined_block removes as invalid, or because it depends on something
\* invalid, could not have been mined next: no transaction is lost that was
\* not part of the executed block and whose turn it is.
NoneLostToMining ==
  [][\A p \in Miners : RemoveInvalid(p) =>
       \A h \in Pool!Held : h \in job[p].invalid \/ Nonce[h] # nonce[Sender[h]] \/ h \in (Pool!Held)']_vars

NonceMarkers == {Provides(h) : h \in Hash}

\* When it is the turn of a ready transaction, it or another one of its
\* account with the same nonce will be mined: no notification is lost between
\* the pool, the miner and the producer.
TurnIsTaken ==
  \A m \in NonceMarkers :
    (\E h \in Ready(ready) : Provides(h) = m /\ Nonce[h] = nonce[Sender[h]]) ~> nonce[m[1]] > m[2]

\* No nonce stays occupied in the ready queue for ever, by whichever bids.
ReadyIsLeft ==
  \A m \in NonceMarkers :
    m \in DOMAIN ready.provided_markers ~> m \notin DOMAIN ready.provided_markers

\* The comment on with_forced_transactions, "a block to be mined with
\* transactions as soon as the miner is polled": once the miner has finished a
\* poll it has no forced transactions left.
ForcedOncePolled == polling = Idle /\ has_pending_txs # {} => forced = <<>>

\* What on_mined_block takes out of the pool under either of its two locks,
\* with everything that depends on it, has a spent nonce, or another bid for
\* its nonce stays.
OnlySpentLeave ==
  [][(\E p \in Miners : RemoveInvalid(p)) \/ (caller \in Miners /\ Pool!Continue) =>
       \A h \in Pool!Held \ (Pool!Held)' :
         \/ Nonce[h] < nonce[Sender[h]]
         \/ \E other \in (Pool!Held)' : Provides(other) = Provides(h)]_vars

=============================================================================
