------------------------------- MODULE TxPool -------------------------------
(***************************************************************************)
(* anvil's transaction pool (crates/anvil/src/eth/pool/mod.rs, PoolInner):  *)
(* the calls that take the pool's write lock, in any order.                 *)
(*                                                                          *)
(* The calls without a loop are one step.  add_ready_transaction and        *)
(* prune_markers are loops that run under the lock: one step per iteration, *)
(* with the loop's local variables as state and pc # "idle" while the lock  *)
(* is held, so that no other call can start in between.                     *)
(***************************************************************************)
EXTENDS PoolOps, Sequences

CONSTANT MarkerLists   \* the marker lists prune_markers is called with

ASSUME MarkerListsAssumption == MarkerLists \subseteq Seq(Marker)

VARIABLES
  ready,      \* PoolInner.ready_transactions
  pending,    \* PoolInner.pending_transactions
  pc,         \* who holds the write lock, and where it is
  new,        \* add_ready_transaction: {hash} of the call's transaction
  queue,      \* add_ready_transaction: tx_queue
  is_new_tx,  \* add_ready_transaction: still at the call's own transaction
  promoted,   \* add_ready_transaction: ready.promoted
  removed,    \* add_ready_transaction: ready.removed
  markers,    \* prune_markers: the markers of the mined transactions
  next,       \* prune_markers: position in markers
  imports,    \* prune_markers: transactions the markers unlocked
  result      \* what the last finished call returned

frame == <<new, queue, is_new_tx, promoted, removed>>
pruning == <<markers, next, imports>>
vars == <<ready, pending, pc, frame, pruning, result>>

\* A transaction on its way from the waiting queue to the ready queue.
PoolTx == [hash : Hash, requires : SUBSET Marker]

Outcome == {"none", "ready", "pending", "pruned", "removed", "dropped",
            "AlreadyImported", "ReplacementUnderpriced", "CyclicTransaction"}

\* The calls that return Err.
Rejections == {"AlreadyImported", "ReplacementUnderpriced", "CyclicTransaction"}

\* notify is what the caller announces to the listeners after the call.
Returns(outcome, notify) == result' = [outcome |-> outcome, notify |-> notify]

\* Mutant of contains: only the ready queue is searched.
contains_ready(h) == h \in Ready(ready)

contains(h) == h \in Ready(ready) \cup Waiting(pending)

-----------------------------------------------------------------------------
(***************************************************************************)
(* PoolInner::add_transaction                                               *)
(***************************************************************************)

AlreadyImported(h) ==
  /\ pc = "idle"
  /\ contains(h)
  /\ Returns("AlreadyImported", {})
  /\ UNCHANGED <<ready, pending, pc, frame, pruning>>

\* PendingPoolTransaction::new
Missing(req) == req \ DOMAIN ready.provided_markers

\* Mutant of AddPending: inserted before the price is compared.
AddPendingFirst(h, req) ==
  /\ pc = "idle"
  /\ ~contains(h)
  /\ Missing(req) # {}
  /\ pending' = pending_add(pending, h, req, Missing(req))
  /\ Returns(IF PendingUnderpriced(pending, h) THEN "ReplacementUnderpriced" ELSE "pending", {})
  /\ UNCHANGED <<ready, pc, frame, pruning>>

AddPending(h, req) ==
  /\ pc = "idle"
  /\ ~contains(h)
  /\ Missing(req) # {}
  /\ IF PendingUnderpriced(pending, h)
     THEN /\ Returns("ReplacementUnderpriced", {})
          /\ UNCHANGED pending
     ELSE /\ pending' = pending_add(pending, h, req, Missing(req))
          /\ Returns("pending", {})
  /\ UNCHANGED <<ready, pc, frame, pruning>>

\* Entering add_ready_transaction with the transaction tx.
EnterAddReady(tx) ==
  /\ new' = {tx.hash}
  /\ queue' = {tx}
  /\ is_new_tx' = TRUE
  /\ promoted' = {}
  /\ removed' = {}

AddReady(h, req) ==
  /\ pc = "idle"
  /\ ~contains(h)
  /\ Missing(req) = {}
  /\ EnterAddReady([hash |-> h, requires |-> req])
  /\ pc' = "add"
  /\ Returns("none", {})
  /\ UNCHANGED <<ready, pending, pruning>>

add_transaction(h, req) == AlreadyImported(h) \/ AddPending(h, req) \/ AddReady(h, req)

-----------------------------------------------------------------------------
(***************************************************************************)
(* PoolInner::add_ready_transaction, called by add_transaction ("add") and  *)
(* for every import of prune_markers ("promote").                           *)
(***************************************************************************)

\* The transactions that the marker m unlocks, as they leave the waiting queue.
UnlockedBy(m) ==
  {[hash |-> h, requires |-> pending.waiting_queue[h].requires] : h \in Unlocked(pending, m)}

\* tx_queue is first in, first out and one iteration appends the successors
\* (nonce + 1) of the transaction it handles, so the front of the queue is
\* the lowest nonce.  The order among equals is that of a HashSet: any.
Front == {tx \in queue : \A other \in queue : Nonce[tx.hash] <= Nonce[other.hash]}

InAddLoop == pc \in {"add", "promote"}

\* The caller goes on with what add_ready_transaction returned.
ReturnFromAdd(outcome, notify) ==
  /\ new' = {} /\ queue' = {} /\ is_new_tx' = FALSE /\ promoted' = {} /\ removed' = {}
  /\ IF pc = "add"
     THEN pc' = "idle" /\ Returns(outcome, notify)
     ELSE pc' = "import" /\ result' = [result EXCEPT !.notify = @ \cup notify]

\* Mutant of AddReadyInsert: the waiting queue is not told of the new marker.
AddReadyInsertOnly ==
  /\ InAddLoop
  /\ \E tx \in Front :
       /\ ~ReadyUnderpriced(ready, tx.hash)
       /\ ready' = ready_add(ready, tx.hash, tx.requires)
       /\ queue' = queue \ {tx}
       /\ promoted' = IF is_new_tx THEN promoted ELSE promoted \cup {tx.hash}
       /\ removed' = removed \cup Replaced(ready, tx.hash)
  /\ is_new_tx' = FALSE
  /\ UNCHANGED <<pending, pc, new, pruning, result>>

\* Ok arm: the transaction enters the ready queue.
AddReadyInsert ==
  /\ InAddLoop
  /\ \E tx \in Front :
       /\ ~ReadyUnderpriced(ready, tx.hash)
       /\ pending' = mark_and_unlock(pending, Provides(tx.hash))
       /\ ready' = ready_add(ready, tx.hash, tx.requires)
       /\ queue' = (queue \ {tx}) \cup UnlockedBy(Provides(tx.hash))
       /\ promoted' = IF is_new_tx THEN promoted ELSE promoted \cup {tx.hash}
       /\ removed' = removed \cup Replaced(ready, tx.hash)
  /\ is_new_tx' = FALSE
  /\ UNCHANGED <<pc, new, pruning, result>>

\* Err arm for the call's own transaction: the call returns at once, and with
\* it tx_queue and whatever mark_and_unlock has just moved there.
AddReadyReject ==
  /\ InAddLoop
  /\ is_new_tx
  /\ \E tx \in Front :
       /\ ReadyUnderpriced(ready, tx.hash)
       /\ pending' = mark_and_unlock(pending, Provides(tx.hash))
  /\ ReturnFromAdd("ReplacementUnderpriced", {})
  /\ UNCHANGED <<ready, pruning>>

\* Mutant of AddReadyDiscard: the transaction is put back into tx_queue.
AddReadyRequeue ==
  /\ InAddLoop
  /\ ~is_new_tx
  /\ \E tx \in Front :
       /\ ReadyUnderpriced(ready, tx.hash)
       /\ pending' = mark_and_unlock(pending, Provides(tx.hash))
       /\ queue' = queue \cup UnlockedBy(Provides(tx.hash))
  /\ UNCHANGED <<ready, pc, new, is_new_tx, promoted, removed, pruning, result>>

\* Err arm for an unlocked transaction: it is discarded and the loop goes on.
AddReadyDiscard ==
  /\ InAddLoop
  /\ ~is_new_tx
  /\ \E tx \in Front :
       /\ ReadyUnderpriced(ready, tx.hash)
       /\ pending' = mark_and_unlock(pending, Provides(tx.hash))
       /\ queue' = (queue \ {tx}) \cup UnlockedBy(Provides(tx.hash))
  /\ UNCHANGED <<ready, pc, new, is_new_tx, promoted, removed, pruning, result>>

AddReadyReturn ==
  /\ InAddLoop
  /\ queue = {}
  /\ IF new \subseteq removed
     THEN /\ ready' = remove_with_markers(ready, promoted, {})
          /\ ReturnFromAdd("CyclicTransaction", {})
     ELSE /\ ReturnFromAdd("ready", new \cup promoted)
          /\ UNCHANGED ready
  /\ UNCHANGED <<pending, pruning>>

add_ready_transaction ==
  AddReadyInsert \/ AddReadyReject \/ AddReadyDiscard \/ AddReadyReturn

-----------------------------------------------------------------------------
(***************************************************************************)
(* PoolInner::prune_markers                                                 *)
(***************************************************************************)

PruneMarkers(ms) ==
  /\ pc = "idle"
  /\ pc' = "prune"
  /\ markers' = ms /\ next' = 1 /\ imports' = {}
  /\ Returns("none", {})
  /\ UNCHANGED <<ready, pending, frame>>

PruneMarker ==
  /\ pc = "prune"
  /\ next <= Len(markers)
  /\ imports' = imports \cup UnlockedBy(markers[next])
  /\ pending' = mark_and_unlock(pending, markers[next])
  /\ ready' = prune_tags(ready, markers[next])
  /\ next' = next + 1
  /\ UNCHANGED <<pc, markers, frame, result>>

PruneMarkersEnd ==
  /\ pc = "prune"
  /\ next > Len(markers)
  /\ pc' = "import"
  /\ UNCHANGED <<ready, pending, frame, pruning, result>>

\* imports is in the order of the markers that unlocked its members, and in
\* any order among those one marker unlocked (a HashSet).
FirstImports ==
  {tx \in imports :
     \A other \in imports, j \in 1..Len(markers) :
        markers[j] \in other.requires => \E i \in 1..j : markers[i] \in tx.requires}

PruneImport ==
  /\ pc = "import"
  /\ \E tx \in FirstImports :
       /\ imports' = imports \ {tx}
       /\ EnterAddReady(tx)
  /\ pc' = "promote"
  /\ UNCHANGED <<ready, pending, markers, next, result>>

PruneReturn ==
  /\ pc = "import"
  /\ imports = {}
  /\ pc' = "idle"
  /\ markers' = <<>> /\ next' = 1
  /\ result' = [result EXCEPT !.outcome = "pruned"]
  /\ UNCHANGED <<ready, pending, frame, imports>>

prune_markers == PruneMarker \/ PruneMarkersEnd \/ PruneImport \/ PruneReturn

-----------------------------------------------------------------------------
(***************************************************************************)
(* The calls that only remove.                                              *)
(***************************************************************************)

RemoveFromBoth(hashes) ==
  /\ ready' = remove_with_markers(ready, hashes, {})
  /\ pending' = pending_remove(pending, hashes)
  /\ Returns("removed", {})
  /\ UNCHANGED <<pc, frame, pruning>>

remove_invalid(hashes) ==
  /\ pc = "idle"
  /\ hashes # {}
  /\ RemoveFromBoth(hashes)

transactions_by_sender(a) == {h \in Waiting(pending) \cup Visited(ready) : Sender[h] = a}

remove_transactions_by_address(a) ==
  /\ pc = "idle"
  /\ transactions_by_sender(a) # {}
  /\ RemoveFromBoth(transactions_by_sender(a))

\* A waiting transaction is left alone: only the ready queue is searched.
drop_transaction(h) ==
  /\ pc = "idle"
  /\ ready' = remove_with_markers(ready, {h}, {})
  /\ Returns("dropped", {})
  /\ UNCHANGED <<pending, pc, frame, pruning>>

clear ==
  /\ pc = "idle"
  /\ ready' = EmptyReady
  /\ pending' = EmptyPending
  /\ Returns("removed", {})
  /\ UNCHANGED <<pc, frame, pruning>>

-----------------------------------------------------------------------------

Init ==
  /\ ready = EmptyReady
  /\ pending = EmptyPending
  /\ pc = "idle"
  /\ new = {} /\ queue = {} /\ is_new_tx = FALSE /\ promoted = {} /\ removed = {}
  /\ markers = <<>> /\ next = 1 /\ imports = {}
  /\ result = [outcome |-> "none", notify |-> {}]

\* The calls that start: their callers choose them.
Call ==
  \/ \E h \in Hash : \E req \in Requirements(h) : add_transaction(h, req)
  \/ \E ms \in MarkerLists : PruneMarkers(ms)
  \/ \E hashes \in SUBSET Hash : remove_invalid(hashes)
  \/ \E a \in Account : remove_transactions_by_address(a)
  \/ \E h \in Hash : drop_transaction(h)
  \/ clear

\* The loops of the call that holds the lock.
Continue == add_ready_transaction \/ prune_markers

Next == Call \/ Continue

\* The thread that holds the lock keeps running; nobody has to call.
Spec == Init /\ [][Next]_vars /\ WF_vars(Continue)

-----------------------------------------------------------------------------
(***************************************************************************)
(* Properties                                                               *)
(***************************************************************************)

\* The pool's state and the loops' local variables have their types.
TypeOK ==
  /\ IsReady(ready)
  /\ IsPending(pending)
  /\ pc \in {"idle", "add", "promote", "prune", "import"}
  /\ new \subseteq Hash
  /\ \A tx \in queue \cup imports : tx \in PoolTx /\ tx.requires \in Requirements(tx.hash)
  /\ is_new_tx \in BOOLEAN
  /\ promoted \subseteq Hash
  /\ removed \subseteq Hash
  /\ markers \in Seq(Marker)
  /\ next \in Nat \ {0}
  /\ result \in [outcome : Outcome, notify : SUBSET Hash]

\* At every step provided_markers is exactly the index of ready_tx by
\* (nonce, account): no two ready transactions spend the same nonce of an
\* account, whatever replacements, prunings and removals came before.
ReadyIndexed == Indexed(ready)

\* The dependency links of the ready queue are exact: a transaction is
\* unlocked by another one only if it requires its marker, and a transaction
\* that is not independent hangs on one that is still in the queue.  Neither
\* link may dangle when the other end is replaced, pruned or removed.
LinksExact == Linked(ready)

\* The iterator behind ready_transactions() reaches every ready transaction:
\* none is in ready_tx without being offered to the miner.
IteratorComplete == Visited(ready) = Ready(ready)

\* required_markers is exactly the index of the waiting queue by missing
\* marker, and waiting_markers never names a transaction that has left.
PendingIndexed == WaitingIndexed(pending)

\* A transaction never waits for a marker that a ready transaction provides,
\* not even between two iterations of a loop: nothing promotable is left
\* behind in the waiting queue.
NothingWaitsForProvided ==
  DOMAIN pending.required_markers \cap DOMAIN ready.provided_markers = {}

InTransit == {tx.hash : tx \in queue \cup imports}

\* A transaction is in one place only: ready, waiting, or on its way between
\* the two in a local variable of the call that holds the lock.
OnePlace ==
  /\ Ready(ready) \cap Waiting(pending) = {}
  /\ InTransit \cap (Ready(ready) \cup Waiting(pending)) = {}
  /\ \A s, t \in queue \cup imports : s.hash = t.hash => s = t
  /\ queue \cap imports = {}

\* No assertion of transactions.rs can fail in the step about to be taken:
\* "tx is included;" (222, 226), "transaction already included" (618),
\* "hash included;" (635) and the marker assertion of prune_tags (542).
NoPanic ==
  /\ InAddLoop =>
       \A tx \in Front :
         /\ WaitingFor(pending, Provides(tx.hash)) \subseteq Waiting(pending)
         /\ tx.hash \notin Ready(ready)
         /\ LET Q == replaced_transactions(ready, tx.hash)
            IN  ~ReadyUnderpriced(ready, tx.hash) => Providers(Q, tx.requires) \subseteq Ready(Q)
  /\ pc = "prune" /\ next <= Len(markers) =>
       /\ WaitingFor(pending, markers[next]) \subseteq Waiting(pending)
       /\ \A m \in DOMAIN ready.provided_markers :
            ready.provided_markers[m] \in Ready(ready) => Provides(ready.provided_markers[m]) = m

\* The error arm for a cycle (mod.rs:409) is never taken: a promoted
\* transaction has a higher nonce than the one that promoted it.
NeverCyclic == result.outcome # "CyclicTransaction" /\ new \cap removed = {}

\* A call of add_transaction that returns an error leaves both queues as they
\* were, although it may have run mark_and_unlock before it failed.
RejectionChangesNothing ==
  [][result'.outcome \in Rejections => UNCHANGED <<ready, pending>>]_<<ready, pending, result>>

\* What the loops under the lock rely on: the call's own transaction comes
\* first and is alone in tx_queue, all that follow have a higher nonce, and
\* the local variables are empty outside their loop.
LoopOK ==
  /\ InAddLoop =>
       \E h \in Hash :
         /\ new = {h} /\ h \notin removed
         /\ \A tx \in queue : IF is_new_tx THEN tx.hash = h ELSE Nonce[tx.hash] > Nonce[h]
  /\ ~InAddLoop => queue = {} /\ new = {} /\ removed = {}
  /\ pc \in {"idle", "add"} => imports = {}
  /\ pc # "idle" => result.outcome = "none"
  /\ result.outcome # "CyclicTransaction"

Held == Ready(ready) \cup Waiting(pending) \cup InTransit

\* Adding and promoting never lose the best bid for a nonce: a transaction
\* that leaves the pool in such a step leaves one behind with the same marker
\* that pays at least as much.
BestBidKept ==
  [][add_ready_transaction \/ (\E h \in Hash : \E req \in Requirements(h) : add_transaction(h, req))
       => \A h \in Held : \E other \in Held' :
            Provides(other) = Provides(h) /\ Fee[other] >= Fee[h]]_vars

\* What the documentation of drop_transaction says: it removes a single
\* transaction from the pool, like remove_invalid.
DropRemoves == [][\A h \in Hash : drop_transaction(h) => ~contains(h)']_vars

\* Every call returns: the loops under the write lock terminate.
LockReleased == []<>(pc = "idle")

=============================================================================
