---------------------------- MODULE TxPool_proofs ----------------------------
(***************************************************************************)
(* The pool's invariants hold for every set of transactions and every       *)
(* sequence of calls.  Each one leans on the others, so they are proved     *)
(* together: IInv is inductive and implies them all.                        *)
(***************************************************************************)
EXTENDS TxPool, PoolOps_proofs

IInv ==
  /\ TypeOK
  /\ ReadyIndexed
  /\ LinksExact
  /\ PendingIndexed
  /\ NothingWaitsForProvided
  /\ OnePlace
  /\ LoopOK

\* The queues of a state that satisfies IInv are well formed.
LEMMA QueuesWellFormed ==
  IInv => WellFormedReady(ready) /\ WellFormedPending(pending)
BY DEF IInv, TypeOK, ReadyIndexed, LinksExact, PendingIndexed, WellFormedReady, WellFormedPending

\* The pool starts empty.
LEMMA InitIInv == Init => IInv
<1> SUFFICES ASSUME Init PROVE IInv
  OBVIOUS
<1> USE DEF Init
<1>1. /\ Ready(ready) = {} /\ DOMAIN ready.provided_markers = {}
      /\ Waiting(pending) = {} /\ DOMAIN pending.required_markers = {}
  BY EmptyQueues
<1>2. IsReady(ready) /\ ReadyIndexed /\ LinksExact
  BY EmptyQueues DEF WellFormedReady, ReadyIndexed, LinksExact
<1>3. IsPending(pending) /\ PendingIndexed
  BY EmptyQueues DEF WellFormedPending, PendingIndexed
<1>4. TypeOK
  <2>1. markers \in Seq(Marker)
    OBVIOUS
  <2>2. result \in [outcome : Outcome, notify : SUBSET Hash]
    BY DEF Outcome
  <2>3. is_new_tx \in BOOLEAN
    BY Zenon DEF Init
  <2>4. /\ pc \in {"idle", "add", "promote", "prune", "import"}
        /\ new \subseteq Hash /\ promoted \subseteq Hash /\ removed \subseteq Hash
        /\ queue \cup imports = {} /\ next \in Nat \ {0}
    OBVIOUS
  <2> HIDE DEF Init
  <2> QED BY <1>2, <1>3, <2>1, <2>2, <2>3, <2>4 DEF TypeOK
<1>5. NothingWaitsForProvided /\ OnePlace
  BY <1>1 DEF NothingWaitsForProvided, OnePlace, InTransit
<1>6. LoopOK
  BY DEF LoopOK, InAddLoop
<1> QED BY <1>2, <1>3, <1>4, <1>5, <1>6 DEF IInv

\* The transactions a marker unlocks leave the waiting queue as they entered it.
LEMMA UnlockedByFacts ==
  ASSUME WellFormedPending(pending), NEW m
  PROVE  /\ {tx.hash : tx \in UnlockedBy(m)} = Unlocked(pending, m)
         /\ \A tx \in UnlockedBy(m) : /\ tx \in PoolTx /\ tx.requires \in Requirements(tx.hash)
                                      /\ m \in tx.requires
         /\ \A s, t \in UnlockedBy(m) : s.hash = t.hash => s = t
<1>1. Unlocked(pending, m) = {h \in Waiting(pending) : m \in pending.waiting_queue[h].requires}
  BY MarkAndUnlock
<1>2. \A h \in Waiting(pending) :
        /\ h \in Hash
        /\ pending.waiting_queue[h].requires \in SUBSET Marker
        /\ pending.waiting_queue[h].requires \in Requirements(h)
  BY DEF WellFormedPending, IsPending, PendingEntry
<1>3. ASSUME NEW tx \in UnlockedBy(m)
      PROVE  \E h \in Unlocked(pending, m) :
               tx = [hash |-> h, requires |-> pending.waiting_queue[h].requires]
  BY DEF UnlockedBy
<1>4. ASSUME NEW h \in Unlocked(pending, m)
      PROVE  \E tx \in UnlockedBy(m) : tx.hash = h
  <2> DEFINE tx == [hash |-> h, requires |-> pending.waiting_queue[h].requires]
  <2>1. tx \in UnlockedBy(m)
    BY DEF UnlockedBy
  <2>2. tx.hash = h
    OBVIOUS
  <2> HIDE DEF tx
  <2> QED BY <2>1, <2>2
<1>5. {tx.hash : tx \in UnlockedBy(m)} = Unlocked(pending, m)
  <2>1. \A tx \in UnlockedBy(m) : tx.hash \in Unlocked(pending, m)
    BY <1>3
  <2> QED BY <2>1, <1>4
<1>6. ASSUME NEW tx \in UnlockedBy(m)
      PROVE  tx \in PoolTx /\ tx.requires \in Requirements(tx.hash) /\ m \in tx.requires
  BY <1>1, <1>2, <1>3 DEF PoolTx
<1>7. ASSUME NEW s \in UnlockedBy(m), NEW t \in UnlockedBy(m), s.hash = t.hash
      PROVE  s = t
  BY <1>3, <1>7
<1> QED BY <1>5, <1>6, <1>7

\* A step that moves only control and the transactions in transit.
LEMMA ControlStep ==
  ASSUME IInv, UNCHANGED <<ready, pending>>, TypeOK', LoopOK',
         queue' \cup imports' = queue \cup imports, queue' \cap imports' = {}
  PROVE  IInv'
<1>1. (ReadyIndexed /\ LinksExact /\ PendingIndexed /\ NothingWaitsForProvided)'
  BY DEF IInv, ReadyIndexed, LinksExact, PendingIndexed, NothingWaitsForProvided
<1>2. OnePlace'
  BY DEF IInv, OnePlace, InTransit
<1> QED BY <1>1, <1>2 DEF IInv

-----------------------------------------------------------------------------
(***************************************************************************)
(* add_transaction                                                          *)
(***************************************************************************)

\* A transaction that is put in the waiting queue waits for its one marker.
LEMMA AddPendingStep ==
  ASSUME IInv, NEW h \in Hash, NEW req \in Requirements(h), AddPending(h, req)
  PROVE  IInv'
<1> USE DEF AddPending
<1>1. CASE PendingUnderpriced(pending, h)
  <2>1. /\ UNCHANGED <<ready, pending, pc, new, queue, is_new_tx, promoted, removed, markers, next, imports>>
        /\ pc = "idle" /\ result' = [outcome |-> "ReplacementUnderpriced", notify |-> {}]
    BY <1>1 DEF frame, pruning, Returns
  <2>2. TypeOK'
    BY <2>1 DEF IInv, TypeOK, Outcome
  <2>3. LoopOK'
    BY <2>1 DEF IInv, LoopOK, InAddLoop
  <2>4. queue \cap imports = {}
    BY DEF IInv, OnePlace
  <2> QED BY <2>1, <2>2, <2>3, <2>4, ControlStep
<1>2. CASE ~PendingUnderpriced(pending, h)
  <2>1. Missing(req) = req /\ req # {} /\ req \cap DOMAIN ready.provided_markers = {}
    BY RequirementFacts DEF Missing
  <2>2. pending' = pending_add(pending, h, req, req)
    BY <1>2, <2>1
  <2>3. h \in Hash \ Waiting(pending) /\ h \notin Ready(ready)
    BY DEF contains
  <2>4. WellFormedPending(pending)
    BY QueuesWellFormed
  <2>5. /\ WellFormedPending(pending')
        /\ Waiting(pending') = Waiting(pending) \cup {h}
        /\ DOMAIN pending'.required_markers = DOMAIN pending.required_markers \cup req
    BY <2>1, <2>2, <2>3, <2>4, AddToPending
  <2>6. /\ UNCHANGED <<ready, pc, new, queue, is_new_tx, promoted, removed, markers, next, imports>>
        /\ result' = [outcome |-> "pending", notify |-> {}]
    BY <1>2 DEF frame, pruning, Returns
  <2>7. pc = "idle" /\ queue \cup imports = {}
    BY DEF IInv, LoopOK, InAddLoop
  <2>8. TypeOK'
    BY <2>5, <2>6 DEF IInv, TypeOK, Outcome, WellFormedPending
  <2>9. (ReadyIndexed /\ LinksExact /\ PendingIndexed)'
    BY <2>5, <2>6 DEF IInv, ReadyIndexed, LinksExact, PendingIndexed, WellFormedPending
  <2>10. NothingWaitsForProvided'
    BY <2>1, <2>5, <2>6 DEF IInv, NothingWaitsForProvided
  <2>11. OnePlace'
    BY <2>3, <2>5, <2>6, <2>7 DEF IInv, OnePlace, InTransit
  <2>12. LoopOK'
    BY <2>6, <2>7 DEF IInv, LoopOK, InAddLoop
  <2> QED BY <2>8, <2>9, <2>10, <2>11, <2>12 DEF IInv
<1> QED BY <1>1, <1>2

\* A transaction with nothing missing enters the loop of add_ready_transaction.
LEMMA AddReadyStep ==
  ASSUME IInv, NEW h \in Hash, NEW req \in Requirements(h), AddReady(h, req)
  PROVE  IInv'
<1> DEFINE tx == [hash |-> h, requires |-> req]
<1>1. /\ UNCHANGED <<ready, pending, markers, next, imports>>
      /\ new' = {h} /\ queue' = {tx} /\ is_new_tx' = TRUE /\ promoted' = {} /\ removed' = {}
      /\ pc = "idle" /\ pc' = "add"
      /\ result' = [outcome |-> "none", notify |-> {}]
      /\ h \notin Ready(ready) /\ h \notin Waiting(pending)
  BY DEF AddReady, EnterAddReady, Returns, pruning, contains
<1>2. tx \in PoolTx /\ tx.hash = h /\ tx.requires = req
  BY RequirementType DEF PoolTx
<1> HIDE DEF tx
<1>3. imports = {}
  BY <1>1 DEF IInv, LoopOK
<1>4. TypeOK'
  BY <1>1, <1>2, <1>3 DEF IInv, TypeOK, Outcome
<1>5. (ReadyIndexed /\ LinksExact /\ PendingIndexed /\ NothingWaitsForProvided)'
  BY <1>1 DEF IInv, ReadyIndexed, LinksExact, PendingIndexed, NothingWaitsForProvided
<1>6. OnePlace'
  BY <1>1, <1>2, <1>3 DEF IInv, OnePlace, InTransit
<1>7. LoopOK'
  BY <1>1, <1>2, <1>3 DEF IInv, LoopOK, InAddLoop
<1> QED BY <1>4, <1>5, <1>6, <1>7 DEF IInv

-----------------------------------------------------------------------------
(***************************************************************************)
(* add_ready_transaction                                                    *)
(***************************************************************************)

\* What the transaction at the front of tx_queue does to the waiting queue,
\* and how the transactions it unlocks relate to the call's own one.
LEMMA FrontFacts ==
  ASSUME IInv, InAddLoop, NEW tx \in Front
  PROVE  LET m == Provides(tx.hash)
         IN  /\ tx \in queue /\ tx.hash \in Hash /\ tx.requires \in Requirements(tx.hash)
             /\ tx.hash \notin Ready(ready) /\ tx.hash \notin Waiting(pending)
             /\ WellFormedPending(mark_and_unlock(pending, m))
             /\ Waiting(mark_and_unlock(pending, m)) = Waiting(pending) \ Unlocked(pending, m)
             /\ Unlocked(pending, m) \subseteq Waiting(pending)
             /\ DOMAIN mark_and_unlock(pending, m).required_markers =
                  DOMAIN pending.required_markers \ {m}
             /\ {t.hash : t \in UnlockedBy(m)} = Unlocked(pending, m)
             /\ \A t \in UnlockedBy(m) : /\ t \in PoolTx /\ t.requires \in Requirements(t.hash)
                                         /\ Nonce[t.hash] = Nonce[tx.hash] + 1
             /\ \A s, t \in UnlockedBy(m) : s.hash = t.hash => s = t
<1> DEFINE m == Provides(tx.hash)
<1>1. tx \in queue
  BY DEF Front
<1>2. tx.hash \in Hash /\ tx.requires \in Requirements(tx.hash)
  BY <1>1 DEF IInv, TypeOK, PoolTx
<1>3. tx.hash \notin Ready(ready) /\ tx.hash \notin Waiting(pending)
  BY <1>1 DEF IInv, OnePlace, InTransit
<1>4. WellFormedPending(pending)
  BY QueuesWellFormed
<1> HIDE DEF m
<1>5. /\ WellFormedPending(mark_and_unlock(pending, m))
      /\ Waiting(mark_and_unlock(pending, m)) = Waiting(pending) \ Unlocked(pending, m)
      /\ Unlocked(pending, m) \subseteq Waiting(pending)
      /\ DOMAIN mark_and_unlock(pending, m).required_markers = DOMAIN pending.required_markers \ {m}
  BY <1>4, MarkAndUnlock
<1>6. /\ {t.hash : t \in UnlockedBy(m)} = Unlocked(pending, m)
      /\ \A t \in UnlockedBy(m) : /\ t \in PoolTx /\ t.requires \in Requirements(t.hash)
                                  /\ m \in t.requires
      /\ \A s, t \in UnlockedBy(m) : s.hash = t.hash => s = t
  BY <1>4, UnlockedByFacts
<1>7. ASSUME NEW t \in UnlockedBy(m)
      PROVE  Nonce[t.hash] = Nonce[tx.hash] + 1
  <2>1. t.hash \in Hash /\ t.requires \in Requirements(t.hash) /\ Provides(tx.hash) \in t.requires
    BY <1>6 DEF PoolTx, m
  <2> QED BY <2>1, <1>2, RequirementFacts
<1> QED BY <1>1, <1>2, <1>3, <1>5, <1>6, <1>7 DEF m

\* One place only, after the front of tx_queue has left it and what it
\* unlocks has joined.
LEMMA QueueStep ==
  ASSUME IInv, InAddLoop, NEW tx \in Front,
         pending' = mark_and_unlock(pending, Provides(tx.hash)),
         queue' = (queue \ {tx}) \cup UnlockedBy(Provides(tx.hash)),
         UNCHANGED imports
  PROVE  /\ \A t \in queue' \cup imports' : t \in PoolTx /\ t.requires \in Requirements(t.hash)
         /\ tx.hash \notin InTransit'
         /\ InTransit' \cap Waiting(pending') = {}
         /\ InTransit' \cap Ready(ready) = {}
         /\ \A s, t \in queue' \cup imports' : s.hash = t.hash => s = t
         /\ queue' \cap imports' = {}
<1> DEFINE U == UnlockedBy(Provides(tx.hash))
           unlocked == Unlocked(pending, Provides(tx.hash))
<1>1. /\ tx \in queue /\ tx.hash \notin Waiting(pending)
      /\ Waiting(pending') = Waiting(pending) \ unlocked
      /\ unlocked \subseteq Waiting(pending)
      /\ \A t \in U : t \in PoolTx /\ t.requires \in Requirements(t.hash) /\ t.hash \in unlocked
      /\ \A s, t \in U : s.hash = t.hash => s = t
  <2>1. {t.hash : t \in U} = unlocked
    BY FrontFacts
  <2> QED BY <2>1, FrontFacts
<1>2. /\ \A t \in queue \cup imports : /\ t \in PoolTx /\ t.requires \in Requirements(t.hash)
                                       /\ t.hash \notin Ready(ready) /\ t.hash \notin Waiting(pending)
      /\ \A s, t \in queue \cup imports : s.hash = t.hash => s = t
      /\ queue \cap imports = {}
      /\ Ready(ready) \cap Waiting(pending) = {}
  BY DEF IInv, TypeOK, OnePlace, InTransit
<1>3. queue' = (queue \ {tx}) \cup U /\ imports' = imports
  OBVIOUS
<1> HIDE DEF U, unlocked
<1>4. \A t \in queue' \cup imports' :
        /\ t \in PoolTx /\ t.requires \in Requirements(t.hash)
        /\ t.hash # tx.hash /\ t.hash \notin Waiting(pending') /\ t.hash \notin Ready(ready)
  BY <1>1, <1>2, <1>3
<1>5. \A s, t \in queue' \cup imports' : s.hash = t.hash => s = t
  BY <1>1, <1>2, <1>3
<1>6. queue' \cap imports' = {}
  BY <1>1, <1>2, <1>3
<1> QED BY <1>4, <1>5, <1>6 DEF InTransit

\* The Ok arm.
LEMMA AddReadyInsertStep ==
  ASSUME IInv, AddReadyInsert
  PROVE  IInv'
<1>1. PICK tx \in Front :
        /\ pending' = mark_and_unlock(pending, Provides(tx.hash))
        /\ ready' = ready_add(ready, tx.hash, tx.requires)
        /\ queue' = (queue \ {tx}) \cup UnlockedBy(Provides(tx.hash))
        /\ promoted' = IF is_new_tx THEN promoted ELSE promoted \cup {tx.hash}
        /\ removed' = removed \cup Replaced(ready, tx.hash)
  BY Zenon DEF AddReadyInsert
<1>2. InAddLoop /\ is_new_tx' = FALSE /\ UNCHANGED <<pc, new, markers, next, imports, result>>
  BY DEF AddReadyInsert, pruning
<1>3. WellFormedReady(ready)
  BY QueuesWellFormed
<1>4. /\ tx \in queue /\ tx.hash \in Hash \ Ready(ready) /\ tx.requires \in Requirements(tx.hash)
      /\ tx.hash \notin Waiting(pending)
      /\ WellFormedPending(pending')
      /\ Waiting(pending') \subseteq Waiting(pending)
      /\ DOMAIN pending'.required_markers = DOMAIN pending.required_markers \ {Provides(tx.hash)}
      /\ \A t \in UnlockedBy(Provides(tx.hash)) : Nonce[t.hash] = Nonce[tx.hash] + 1
  BY <1>1, <1>2, FrontFacts
<1>5. /\ WellFormedReady(ready')
      /\ Ready(ready') = (Ready(ready) \ Replaced(ready, tx.hash)) \cup {tx.hash}
      /\ DOMAIN ready'.provided_markers = DOMAIN ready.provided_markers \cup {Provides(tx.hash)}
  BY <1>1, <1>3, <1>4, AddToReady
<1>6. /\ \A t \in queue' \cup imports' : t \in PoolTx /\ t.requires \in Requirements(t.hash)
      /\ tx.hash \notin InTransit'
      /\ InTransit' \cap Waiting(pending') = {}
      /\ InTransit' \cap Ready(ready) = {}
      /\ \A s, t \in queue' \cup imports' : s.hash = t.hash => s = t
      /\ queue' \cap imports' = {}
  BY <1>1, <1>2, QueueStep
<1>7. Replaced(ready, tx.hash) \subseteq Hash
  BY <1>3 DEF Replaced, WellFormedReady, IsReady
<1>8. TypeOK'
  <2>1. is_new_tx' \in BOOLEAN
    BY <1>2, Zenon
  <2>2. promoted' \subseteq Hash /\ removed' \subseteq Hash
    BY <1>1, <1>4, <1>7 DEF IInv, TypeOK
  <2> QED BY <2>1, <2>2, <1>2, <1>4, <1>5, <1>6
         DEF IInv, TypeOK, WellFormedReady, WellFormedPending
<1>9. (ReadyIndexed /\ LinksExact /\ PendingIndexed)'
  BY <1>4, <1>5 DEF ReadyIndexed, LinksExact, PendingIndexed, WellFormedReady, WellFormedPending
<1>10. NothingWaitsForProvided'
  BY <1>4, <1>5 DEF IInv, NothingWaitsForProvided
<1>11. OnePlace'
  <2>1. Ready(ready') \cap Waiting(pending') = {}
    BY <1>4, <1>5 DEF IInv, OnePlace
  <2>2. InTransit' \cap Ready(ready') = {}
    BY <1>5, <1>6
  <2> QED BY <2>1, <2>2, <1>6 DEF OnePlace
<1>12. LoopOK'
  <2>1. PICK h \in Hash :
          /\ new = {h} /\ h \notin removed
          /\ \A t \in queue : IF is_new_tx THEN t.hash = h ELSE Nonce[t.hash] > Nonce[h]
    BY <1>2 DEF IInv, LoopOK
  <2>2. Nonce[tx.hash] \in Nat /\ Nonce[h] \in Nat /\ Nonce[tx.hash] >= Nonce[h]
    BY <2>1, <1>4, TxAssumption
  <2>3. ASSUME NEW t \in queue'
        PROVE  Nonce[t.hash] > Nonce[h]
    <3>1. CASE t \in UnlockedBy(Provides(tx.hash))
      BY <3>1, <2>2, <1>4
    <3>2. CASE t \in queue \ {tx}
      <4>1. t.hash # tx.hash
        BY <3>2, <1>4 DEF IInv, OnePlace
      <4> QED BY <4>1, <3>2, <2>1, <1>4
    <3> QED BY <3>1, <3>2, <1>1
  <2>4. h \notin Replaced(ready, tx.hash)
    <3>1. CASE h = tx.hash
      BY <3>1, <1>4 DEF Replaced
    <3>2. CASE h # tx.hash
      <4>1. Nonce[tx.hash] > Nonce[h]
        BY <3>2, <2>1, <1>4
      <4>2. Provides(h) # Provides(tx.hash)
        BY <4>1, <2>2, <1>4, ProvidesFacts
      <4> QED BY <4>2, <1>3 DEF Replaced, Providers, WellFormedReady, Indexed
    <3> QED BY <3>1, <3>2
  <2>5. InAddLoop'
    BY <1>2 DEF InAddLoop
  <2>6. \E g \in Hash :
          /\ new' = {g} /\ g \notin removed'
          /\ \A t \in queue' : IF is_new_tx' THEN t.hash = g ELSE Nonce[t.hash] > Nonce[g]
    BY <2>1, <2>3, <2>4, <1>1, <1>2
  <2>7. /\ pc' \in {"idle", "add"} => imports' = {}
        /\ pc' # "idle" => result'.outcome = "none"
        /\ result'.outcome # "CyclicTransaction"
    BY <1>2 DEF IInv, LoopOK
  <2> QED BY <2>5, <2>6, <2>7 DEF LoopOK
<1> QED BY <1>8, <1>9, <1>10, <1>11, <1>12 DEF IInv

\* A bid the ready queue rejects provides a marker the ready queue already
\* provides, and for which therefore nothing waits.
LEMMA UnderpricedUnlocksNothing ==
  ASSUME IInv, InAddLoop, NEW tx \in Front, ReadyUnderpriced(ready, tx.hash)
  PROVE  mark_and_unlock(pending, Provides(tx.hash)) = pending
<1>1. Provides(tx.hash) \in DOMAIN ready.provided_markers
  BY DEF ReadyUnderpriced, Providers
<1>2. Provides(tx.hash) \notin DOMAIN pending.required_markers
  BY <1>1 DEF IInv, NothingWaitsForProvided
<1> QED BY <1>2, QueuesWellFormed, MarkAndUnlock

\* Leaving the loop leaves the queues to the caller as they are.
LEMMA ReturnStep ==
  ASSUME IInv, InAddLoop, UNCHANGED <<ready, pending, markers, next, imports>>,
         NEW outcome \in Outcome \ {"CyclicTransaction"}, NEW notify \in SUBSET Hash,
         ReturnFromAdd(outcome, notify)
  PROVE  IInv'
<1>1. /\ new' = {} /\ queue' = {} /\ is_new_tx' = FALSE /\ promoted' = {} /\ removed' = {}
  BY DEF ReturnFromAdd
<1>2. \/ pc = "add" /\ pc' = "idle" /\ result' = [outcome |-> outcome, notify |-> notify]
      \/ pc = "promote" /\ pc' = "import" /\ result' = [result EXCEPT !.notify = @ \cup notify]
  BY DEF ReturnFromAdd, Returns, InAddLoop
<1>3. /\ result' \in [outcome : Outcome, notify : SUBSET Hash]
      /\ pc' = "import" => result'.outcome = "none"
      /\ result'.outcome # "CyclicTransaction"
  <2>1. CASE pc = "add"
    BY <2>1, <1>2
  <2>2. CASE pc = "promote"
    BY <2>2, <1>2 DEF IInv, TypeOK, LoopOK
  <2> QED BY <2>1, <2>2, <1>2
<1>4. TypeOK'
  <2>1. is_new_tx' \in BOOLEAN
    BY <1>1, Zenon
  <2> QED BY <2>1, <1>1, <1>2, <1>3 DEF IInv, TypeOK
<1>5. (ReadyIndexed /\ LinksExact /\ PendingIndexed /\ NothingWaitsForProvided)'
  BY DEF IInv, ReadyIndexed, LinksExact, PendingIndexed, NothingWaitsForProvided
<1>6. OnePlace'
  BY <1>1 DEF IInv, OnePlace, InTransit
<1>7. LoopOK'
  BY <1>1, <1>2, <1>3 DEF IInv, LoopOK, InAddLoop
<1> QED BY <1>4, <1>5, <1>6, <1>7 DEF IInv

\* The Err arm for the call's own transaction.
LEMMA AddReadyRejectStep ==
  ASSUME IInv, AddReadyReject
  PROVE  IInv' /\ UNCHANGED <<ready, pending>>
<1>1. pending' = pending
  BY UnderpricedUnlocksNothing DEF AddReadyReject
<1>2. InAddLoop /\ UNCHANGED <<ready, pending, markers, next, imports>>
  BY <1>1 DEF AddReadyReject, pruning
<1>3. ReturnFromAdd("ReplacementUnderpriced", {})
  BY DEF AddReadyReject
<1>4. "ReplacementUnderpriced" \in Outcome \ {"CyclicTransaction"}
  BY DEF Outcome
<1> QED BY <1>2, <1>3, <1>4, ReturnStep

\* The Err arm for an unlocked transaction.
LEMMA AddReadyDiscardStep ==
  ASSUME IInv, AddReadyDiscard
  PROVE  IInv'
<1>1. PICK tx \in Front :
        /\ ReadyUnderpriced(ready, tx.hash)
        /\ pending' = mark_and_unlock(pending, Provides(tx.hash))
        /\ queue' = (queue \ {tx}) \cup UnlockedBy(Provides(tx.hash))
  BY DEF AddReadyDiscard
<1>2. /\ InAddLoop /\ ~is_new_tx
      /\ UNCHANGED <<ready, pc, new, is_new_tx, promoted, removed, markers, next, imports, result>>
  BY DEF AddReadyDiscard, pruning
<1>3. pending' = pending
  BY <1>1, <1>2, UnderpricedUnlocksNothing
<1>4. /\ \A t \in queue' \cup imports' : t \in PoolTx /\ t.requires \in Requirements(t.hash)
      /\ InTransit' \cap Waiting(pending') = {}
      /\ InTransit' \cap Ready(ready) = {}
      /\ \A s, t \in queue' \cup imports' : s.hash = t.hash => s = t
      /\ queue' \cap imports' = {}
  BY <1>1, <1>2, QueueStep
<1>5. TypeOK'
  BY <1>2, <1>3, <1>4 DEF IInv, TypeOK
<1>6. (ReadyIndexed /\ LinksExact /\ PendingIndexed /\ NothingWaitsForProvided)'
  BY <1>2, <1>3 DEF IInv, ReadyIndexed, LinksExact, PendingIndexed, NothingWaitsForProvided
<1>7. OnePlace'
  BY <1>2, <1>3, <1>4 DEF IInv, OnePlace
<1>8. LoopOK'
  <2>1. PICK h \in Hash :
          /\ new = {h} /\ h \notin removed
          /\ \A t \in queue : Nonce[t.hash] > Nonce[h]
    BY <1>2 DEF IInv, LoopOK
  <2>2. /\ tx \in queue /\ tx.hash \in Hash
        /\ \A t \in UnlockedBy(Provides(tx.hash)) : Nonce[t.hash] = Nonce[tx.hash] + 1
    BY <1>1, <1>2, FrontFacts
  <2>3. \A t \in queue' : Nonce[t.hash] > Nonce[h]
    BY <2>1, <2>2, <1>1, TxAssumption
  <2> QED BY <2>1, <2>3, <1>2 DEF IInv, LoopOK, InAddLoop
<1> QED BY <1>5, <1>6, <1>7, <1>8 DEF IInv

\* The end of the loop; the cyclic case does not arise.
LEMMA AddReadyReturnStep ==
  ASSUME IInv, AddReadyReturn
  PROVE  IInv'
<1>1. InAddLoop /\ UNCHANGED <<pending, markers, next, imports>>
  BY DEF AddReadyReturn, pruning
<1>2. ~(new \subseteq removed)
  BY <1>1 DEF IInv, LoopOK
<1>3. ready' = ready /\ ReturnFromAdd("ready", new \cup promoted)
  BY <1>2 DEF AddReadyReturn
<1>4. new \cup promoted \in SUBSET Hash /\ "ready" \in Outcome \ {"CyclicTransaction"}
  BY DEF IInv, TypeOK, Outcome
<1> QED BY <1>1, <1>3, <1>4, ReturnStep

-----------------------------------------------------------------------------
(***************************************************************************)
(* prune_markers                                                            *)
(***************************************************************************)

\* A marker of a mined transaction: what it unlocks joins the imports, what
\* provides it leaves the ready queue.
LEMMA PruneMarkerStep ==
  ASSUME IInv, PruneMarker
  PROVE  IInv'
<1> DEFINE m == markers[next]
<1>1. /\ pc = "prune"
      /\ imports' = imports \cup UnlockedBy(m)
      /\ pending' = mark_and_unlock(pending, m)
      /\ ready' = prune_tags(ready, m)
      /\ next' = next + 1
      /\ UNCHANGED <<pc, markers, new, queue, is_new_tx, promoted, removed, result>>
  BY DEF PruneMarker, frame
<1>2. WellFormedReady(ready) /\ WellFormedPending(pending)
  BY QueuesWellFormed
<1> HIDE DEF m
<1>3. /\ WellFormedReady(ready')
      /\ Ready(ready') \subseteq Ready(ready)
      /\ DOMAIN ready'.provided_markers \subseteq DOMAIN ready.provided_markers
  BY <1>1, <1>2, PruneReady
<1>4. /\ WellFormedPending(pending')
      /\ Waiting(pending') = Waiting(pending) \ Unlocked(pending, m)
      /\ Unlocked(pending, m) \subseteq Waiting(pending)
      /\ DOMAIN pending'.required_markers \subseteq DOMAIN pending.required_markers
  BY <1>1, <1>2, MarkAndUnlock
<1>5. /\ \A t \in UnlockedBy(m) : /\ t \in PoolTx /\ t.requires \in Requirements(t.hash)
                                  /\ t.hash \in Unlocked(pending, m)
      /\ \A s, t \in UnlockedBy(m) : s.hash = t.hash => s = t
  BY <1>2, UnlockedByFacts
<1>6. queue = {}
  BY <1>1 DEF IInv, LoopOK, InAddLoop
<1>7. TypeOK'
  BY <1>1, <1>3, <1>4, <1>5 DEF IInv, TypeOK, WellFormedReady, WellFormedPending
<1>8. (ReadyIndexed /\ LinksExact /\ PendingIndexed /\ NothingWaitsForProvided)'
  BY <1>3, <1>4 DEF IInv, ReadyIndexed, LinksExact, PendingIndexed, NothingWaitsForProvided,
                    WellFormedReady, WellFormedPending
<1>9. OnePlace'
  <2>1. /\ \A t \in imports : t.hash \notin Ready(ready) /\ t.hash \notin Waiting(pending)
        /\ \A s, t \in imports : s.hash = t.hash => s = t
        /\ Ready(ready) \cap Waiting(pending) = {}
    BY DEF IInv, OnePlace, InTransit
  <2>2. \A t \in imports' : t.hash \notin Ready(ready') /\ t.hash \notin Waiting(pending')
    BY <2>1, <1>1, <1>3, <1>4, <1>5
  <2>3. \A s, t \in imports' : s.hash = t.hash => s = t
    BY <2>1, <1>1, <1>4, <1>5
  <2> QED BY <2>1, <2>2, <2>3, <1>1, <1>3, <1>4, <1>6 DEF OnePlace, InTransit
<1>10. LoopOK'
  BY <1>1 DEF IInv, LoopOK, InAddLoop
<1> QED BY <1>7, <1>8, <1>9, <1>10 DEF IInv

\* The other steps of prune_markers only move its local variables.
LEMMA PruneControlStep ==
  ASSUME IInv,
         PruneMarkersEnd \/ PruneImport \/ PruneReturn \/ (\E ms \in MarkerLists : PruneMarkers(ms))
  PROVE  IInv'
<1>2. queue \cap imports = {}
  BY DEF IInv, OnePlace
<1>3. CASE PruneMarkersEnd
  <2>1. /\ pc = "prune" /\ pc' = "import"
        /\ UNCHANGED <<ready, pending, new, queue, is_new_tx, promoted, removed, markers, next, imports, result>>
    BY <1>3 DEF PruneMarkersEnd, frame, pruning
  <2>2. TypeOK'
    BY <2>1 DEF IInv, TypeOK
  <2>3. LoopOK'
    BY <2>1 DEF IInv, LoopOK, InAddLoop
  <2> QED BY <1>2, <2>1, <2>2, <2>3, ControlStep
<1>4. CASE PruneImport
  <2>1. PICK tx \in imports :
          /\ imports' = imports \ {tx}
          /\ new' = {tx.hash} /\ queue' = {tx} /\ is_new_tx' = TRUE /\ promoted' = {} /\ removed' = {}
    BY <1>4 DEF PruneImport, FirstImports, EnterAddReady
  <2>2. pc = "import" /\ pc' = "promote" /\ UNCHANGED <<ready, pending, markers, next, result>>
    BY <1>4 DEF PruneImport
  <2>3. tx.hash \in Hash /\ queue = {}
    BY <2>2 DEF IInv, TypeOK, LoopOK, InAddLoop, PoolTx
  <2>4. queue' \cup imports' = queue \cup imports /\ queue' \cap imports' = {}
    BY <2>1, <2>3
  <2>5. TypeOK'
    <3>1. is_new_tx' \in BOOLEAN
      BY <2>1, Zenon
    <3> QED BY <3>1, <2>1, <2>2, <2>3, <2>4 DEF IInv, TypeOK
  <2>6. LoopOK'
    BY <2>1, <2>2, <2>3 DEF IInv, LoopOK, InAddLoop
  <2> QED BY <2>2, <2>4, <2>5, <2>6, ControlStep
<1>5. CASE PruneReturn
  <2>1. /\ pc = "import" /\ imports = {} /\ pc' = "idle" /\ markers' = <<>> /\ next' = 1
        /\ result' = [result EXCEPT !.outcome = "pruned"]
        /\ UNCHANGED <<ready, pending, new, queue, is_new_tx, promoted, removed, imports>>
    BY <1>5 DEF PruneReturn, frame
  <2>2. result' \in [outcome : Outcome, notify : SUBSET Hash] /\ result'.outcome = "pruned"
    BY <2>1 DEF IInv, TypeOK, Outcome
  <2>3. markers' \in Seq(Marker)
    BY <2>1
  <2>4. TypeOK'
    BY <2>1, <2>2, <2>3 DEF IInv, TypeOK
  <2>5. LoopOK'
    BY <2>1, <2>2 DEF IInv, LoopOK, InAddLoop
  <2> QED BY <1>2, <2>1, <2>4, <2>5, ControlStep
<1>6. ASSUME NEW ms \in MarkerLists, PruneMarkers(ms)
      PROVE  IInv'
  <2>1. /\ pc = "idle" /\ pc' = "prune" /\ markers' = ms /\ next' = 1 /\ imports' = {}
        /\ result' = [outcome |-> "none", notify |-> {}]
        /\ UNCHANGED <<ready, pending, new, queue, is_new_tx, promoted, removed>>
    BY <1>6 DEF PruneMarkers, Returns, frame
  <2>2. markers' \in Seq(Marker)
    BY <2>1, MarkerListsAssumption
  <2>3. result' \in [outcome : Outcome, notify : SUBSET Hash] /\ result'.outcome = "none"
    BY <2>1 DEF Outcome
  <2>4. imports = {}
    BY <2>1 DEF IInv, LoopOK
  <2>5. TypeOK'
    BY <2>1, <2>2, <2>3, <2>4 DEF IInv, TypeOK
  <2>6. LoopOK'
    BY <2>1, <2>3 DEF IInv, LoopOK, InAddLoop
  <2> QED BY <2>1, <2>4, <2>5, <2>6, ControlStep
<1> QED BY <1>3, <1>4, <1>5, <1>6

-----------------------------------------------------------------------------
(***************************************************************************)
(* The calls that only remove, and the theorems                             *)
(***************************************************************************)

\* Every call that removes shrinks well-formed queues to well-formed queues.
LEMMA ShrinkStep ==
  ASSUME IInv, pc = "idle", WellFormedReady(ready'), WellFormedPending(pending'),
         Ready(ready') \subseteq Ready(ready), Waiting(pending') \subseteq Waiting(pending),
         DOMAIN ready'.provided_markers \subseteq DOMAIN ready.provided_markers,
         DOMAIN pending'.required_markers \subseteq DOMAIN pending.required_markers,
         NEW outcome \in {"removed", "dropped"},
         Returns(outcome, {}), UNCHANGED <<pc, frame, pruning>>
  PROVE  IInv'
<1>1. /\ UNCHANGED <<pc, new, queue, is_new_tx, promoted, removed, markers, next, imports>>
      /\ result' = [outcome |-> outcome, notify |-> {}]
  BY DEF frame, pruning, Returns
<1>2. TypeOK'
  BY <1>1 DEF IInv, TypeOK, Outcome, WellFormedReady, WellFormedPending
<1>3. (ReadyIndexed /\ LinksExact /\ PendingIndexed /\ NothingWaitsForProvided)'
  BY DEF IInv, ReadyIndexed, LinksExact, PendingIndexed, NothingWaitsForProvided,
         WellFormedReady, WellFormedPending
<1>4. OnePlace'
  BY <1>1 DEF IInv, OnePlace, InTransit
<1>5. LoopOK'
  BY <1>1 DEF IInv, LoopOK, InAddLoop
<1> QED BY <1>2, <1>3, <1>4, <1>5 DEF IInv

\* remove_invalid and remove_transactions_by_address.
LEMMA RemoveFromBothStep ==
  ASSUME IInv, pc = "idle", NEW hashes, RemoveFromBoth(hashes)
  PROVE  IInv'
<1>1. /\ ready' = remove_with_markers(ready, hashes, {})
      /\ pending' = pending_remove(pending, hashes)
      /\ Returns("removed", {}) /\ UNCHANGED <<pc, frame, pruning>>
  BY DEF RemoveFromBoth
<1>2. WellFormedReady(ready) /\ WellFormedPending(pending)
  BY QueuesWellFormed
<1>3. /\ WellFormedReady(ready') /\ Ready(ready') \subseteq Ready(ready)
      /\ DOMAIN ready'.provided_markers \subseteq DOMAIN ready.provided_markers
  BY <1>1, <1>2, RemoveReady
<1>4. /\ WellFormedPending(pending') /\ Waiting(pending') \subseteq Waiting(pending)
      /\ DOMAIN pending'.required_markers \subseteq DOMAIN pending.required_markers
  BY <1>1, <1>2, RemoveFromPending
<1> QED BY <1>1, <1>3, <1>4, ShrinkStep

\* drop_transaction: the waiting queue stays.
LEMMA DropStep ==
  ASSUME IInv, NEW h, drop_transaction(h)
  PROVE  IInv'
<1>1. /\ pc = "idle" /\ ready' = remove_with_markers(ready, {h}, {})
      /\ pending' = pending
      /\ Returns("dropped", {}) /\ UNCHANGED <<pc, frame, pruning>>
  BY DEF drop_transaction
<1>2. WellFormedReady(ready) /\ WellFormedPending(pending)
  BY QueuesWellFormed
<1>3. /\ WellFormedReady(ready') /\ Ready(ready') \subseteq Ready(ready)
      /\ DOMAIN ready'.provided_markers \subseteq DOMAIN ready.provided_markers
  BY <1>1, <1>2, RemoveReady
<1> QED BY <1>1, <1>2, <1>3, ShrinkStep

\* clear
LEMMA ClearStep ==
  ASSUME IInv, clear
  PROVE  IInv'
BY EmptyQueues, ShrinkStep DEF clear

\* IInv is inductive.
LEMMA NextIInv == IInv /\ [Next]_vars => IInv'
<1> SUFFICES ASSUME IInv, [Next]_vars PROVE IInv'
  OBVIOUS
<1>1. ASSUME NEW h \in Hash, NEW req \in Requirements(h), add_transaction(h, req)
      PROVE  IInv'
  <2>1. CASE AlreadyImported(h)
    <3>1. /\ UNCHANGED <<ready, pending, pc, new, queue, is_new_tx, promoted, removed, markers, next, imports>>
          /\ pc = "idle" /\ result' = [outcome |-> "AlreadyImported", notify |-> {}]
      BY <2>1 DEF AlreadyImported, frame, pruning, Returns
    <3>2. TypeOK'
      BY <3>1 DEF IInv, TypeOK, Outcome
    <3>3. LoopOK'
      BY <3>1 DEF IInv, LoopOK, InAddLoop
    <3>4. queue \cap imports = {}
      BY DEF IInv, OnePlace
    <3> QED BY <3>1, <3>2, <3>3, <3>4, ControlStep
  <2> QED BY <1>1, <2>1, AddPendingStep, AddReadyStep DEF add_transaction
<1>2. CASE \E ms \in MarkerLists : PruneMarkers(ms)
  BY <1>2, PruneControlStep
<1>3. ASSUME NEW hashes \in SUBSET Hash, remove_invalid(hashes)
      PROVE  IInv'
  BY <1>3, RemoveFromBothStep DEF remove_invalid
<1>4. ASSUME NEW a \in Account, remove_transactions_by_address(a)
      PROVE  IInv'
  BY <1>4, RemoveFromBothStep DEF remove_transactions_by_address
<1>5. ASSUME NEW h \in Hash, drop_transaction(h)
      PROVE  IInv'
  BY <1>5, DropStep
<1>6. CASE clear
  BY <1>6, ClearStep
<1>7. CASE add_ready_transaction
  BY <1>7, AddReadyInsertStep, AddReadyRejectStep, AddReadyDiscardStep, AddReadyReturnStep
     DEF add_ready_transaction
<1>8. CASE prune_markers
  BY <1>8, PruneMarkerStep, PruneControlStep DEF prune_markers
<1>9. CASE UNCHANGED vars
  <2>1. UNCHANGED <<ready, pending, pc, new, queue, is_new_tx, promoted, removed, markers, next, imports, result>>
    BY <1>9 DEF vars, frame, pruning
  <2>2. TypeOK'
    BY <2>1 DEF IInv, TypeOK
  <2>3. LoopOK'
    BY <2>1 DEF IInv, LoopOK, InAddLoop
  <2>4. queue \cap imports = {}
    BY DEF IInv, OnePlace
  <2> QED BY <2>1, <2>2, <2>3, <2>4, ControlStep
<1> QED BY <1>1, <1>2, <1>3, <1>4, <1>5, <1>6, <1>7, <1>8, <1>9 DEF Next, Call, Continue

\* The inductive invariant holds in every state of the pool.
THEOREM PoolInvariant == Spec => []IInv
BY InitIInv, NextIInv, PTL DEF Spec

\* The pool's state has its type: in particular every ready or waiting
\* transaction requires at most the marker before its own.
THEOREM TypeCorrect == Spec => []TypeOK
<1>1. IInv => TypeOK
  BY DEF IInv
<1> QED BY <1>1, PoolInvariant, PTL

\* No two ready transactions ever compete for one nonce of an account, and
\* the marker index finds every ready transaction.
THEOREM OneProviderPerMarker == Spec => []ReadyIndexed
<1>1. IInv => ReadyIndexed
  BY DEF IInv
<1> QED BY <1>1, PoolInvariant, PTL

\* No dependency link of the ready queue dangles.
THEOREM NoDanglingLink == Spec => []LinksExact
<1>1. IInv => LinksExact
  BY DEF IInv
<1> QED BY <1>1, PoolInvariant, PTL

\* The miner is offered every ready transaction.
THEOREM AllReadyOffered == Spec => []IteratorComplete
<1>1. IInv => IteratorComplete
  BY QueuesWellFormed, VisitsAll DEF IteratorComplete
<1> QED BY <1>1, PoolInvariant, PTL

\* The indexes of the waiting queue are exact.
THEOREM WaitingQueueIndexed == Spec => []PendingIndexed
<1>1. IInv => PendingIndexed
  BY DEF IInv
<1> QED BY <1>1, PoolInvariant, PTL

\* Nothing promotable stays in the waiting queue.
THEOREM NothingLeftBehind == Spec => []NothingWaitsForProvided
<1>1. IInv => NothingWaitsForProvided
  BY DEF IInv
<1> QED BY <1>1, PoolInvariant, PTL

\* No transaction is in two places of the pool at once.
THEOREM NeverDuplicated == Spec => []OnePlace
<1>1. IInv => OnePlace
  BY DEF IInv
<1> QED BY <1>1, PoolInvariant, PTL

\* The error arm for cyclic transactions is dead code.
THEOREM CycleArmDead == Spec => []NeverCyclic
<1>1. IInv => NeverCyclic
  BY DEF IInv, LoopOK, NeverCyclic
<1> QED BY <1>1, PoolInvariant, PTL

\* None of the assertions and expects of transactions.rs can fail.
THEOREM AssertionsHold == Spec => []NoPanic
<1>1. IInv => NoPanic
  <2> SUFFICES ASSUME IInv PROVE NoPanic
    OBVIOUS
  <2>1. WellFormedReady(ready) /\ WellFormedPending(pending)
    BY QueuesWellFormed
  <2>2. \A m : WaitingFor(pending, m) \subseteq Waiting(pending)
    BY <2>1, MarkAndUnlock
  <2>3. ASSUME InAddLoop, NEW tx \in Front
        PROVE  /\ tx.hash \in Hash /\ tx.hash \notin Ready(ready)
               /\ tx.requires \in Requirements(tx.hash)
    BY <2>3, FrontFacts
  <2>4. ASSUME InAddLoop, NEW tx \in Front
        PROVE  LET Q == replaced_transactions(ready, tx.hash)
               IN  Providers(Q, tx.requires) \subseteq Ready(Q)
    <3> DEFINE Q == replaced_transactions(ready, tx.hash)
    <3>1. tx.hash \in Hash /\ tx.requires \in Requirements(tx.hash)
      BY <2>3, <2>4
    <3>2. /\ Q.provided_markers = ready.provided_markers
          /\ Ready(Q) = Ready(ready) \ Replaced(ready, tx.hash)
      BY <2>1, <3>1, ReplaceReady
    <3> HIDE DEF Q
    <3>3. SUFFICES ASSUME NEW m \in tx.requires, m \in DOMAIN ready.provided_markers
                   PROVE  ready.provided_markers[m] \in Ready(Q)
      BY <3>2 DEF Providers, Q
    <3>4. m # Provides(tx.hash)
      BY <3>1, <3>3, RequirementFacts
    <3>5. PICK a \in Ready(ready) : m = Provides(a) /\ ready.provided_markers[m] = a
      BY <2>1, <3>3 DEF WellFormedReady, Indexed
    <3>6. a \notin Replaced(ready, tx.hash)
      BY <2>1, <3>4, <3>5 DEF Replaced, Providers, WellFormedReady, Indexed
    <3> QED BY <3>2, <3>5, <3>6
  <2>5. \A m \in DOMAIN ready.provided_markers : Provides(ready.provided_markers[m]) = m
    BY <2>1 DEF WellFormedReady, Indexed
  <2> QED BY <2>2, <2>3, <2>4, <2>5 DEF NoPanic
<1> QED BY <1>1, PoolInvariant, PTL

\* A rejected submission changes neither queue.
THEOREM RejectionIsPure == Spec => RejectionChangesNothing
<1>1. IInv /\ [Next]_vars =>
        [result'.outcome \in Rejections => UNCHANGED <<ready, pending>>]_<<ready, pending, result>>
  <2> SUFFICES ASSUME IInv, [Next]_vars, result'.outcome \in Rejections,
                      ~UNCHANGED <<ready, pending, result>>
               PROVE  UNCHANGED <<ready, pending>>
    OBVIOUS
  <2> USE DEF Rejections, Returns
  <2>1. ASSUME NEW h \in Hash, NEW req \in Requirements(h), add_transaction(h, req)
        PROVE  UNCHANGED <<ready, pending>>
    <3>1. CASE AlreadyImported(h)
      BY <3>1 DEF AlreadyImported
    <3>2. CASE AddPending(h, req)
      <4>1. CASE PendingUnderpriced(pending, h)
        BY <3>2, <4>1 DEF AddPending
      <4>2. CASE ~PendingUnderpriced(pending, h)
        <5>1. result'.outcome = "pending"
          BY <3>2, <4>2 DEF AddPending
        <5> QED BY <5>1
      <4> QED BY <4>1, <4>2
    <3>3. CASE AddReady(h, req)
      BY <3>3 DEF AddReady
    <3> QED BY <2>1, <3>1, <3>2, <3>3 DEF add_transaction
  <2>2. ASSUME NEW ms \in MarkerLists, PruneMarkers(ms) PROVE FALSE
    BY <2>2 DEF PruneMarkers
  <2>3. ASSUME NEW hashes, RemoveFromBoth(hashes) PROVE FALSE
    BY <2>3 DEF RemoveFromBoth
  <2>4. ASSUME NEW h, drop_transaction(h) PROVE FALSE
    BY <2>4 DEF drop_transaction
  <2>5. ASSUME clear PROVE FALSE
    BY <2>5 DEF clear
  <2>6. CASE add_ready_transaction
    <3>1. CASE AddReadyInsert
      BY <3>1 DEF AddReadyInsert, IInv, LoopOK, InAddLoop
    <3>2. CASE AddReadyReject
      BY <3>2, AddReadyRejectStep
    <3>3. CASE AddReadyDiscard
      BY <3>3 DEF AddReadyDiscard, IInv, LoopOK, InAddLoop
    <3>4. CASE AddReadyReturn
      <4>1. ~(new \subseteq removed)
        BY <3>4 DEF AddReadyReturn, IInv, LoopOK
      <4> QED BY <3>4, <4>1 DEF AddReadyReturn
    <3> QED BY <2>6, <3>1, <3>2, <3>3, <3>4 DEF add_ready_transaction
  <2>7. CASE prune_markers
    <3>1. CASE PruneMarker
      BY <3>1 DEF PruneMarker, IInv, LoopOK
    <3> QED BY <2>7, <3>1 DEF prune_markers, PruneMarkersEnd, PruneImport, PruneReturn
  <2> QED BY <2>1, <2>2, <2>3, <2>4, <2>5, <2>6, <2>7
         DEF Next, Call, Continue, vars, remove_invalid, remove_transactions_by_address
<1>2. Spec => [][Next]_vars
  BY PTL DEF Spec
<1> QED BY <1>1, <1>2, PoolInvariant, PTL DEF RejectionChangesNothing

\* Neither adding nor promoting loses the best bid for a nonce.
THEOREM BestBidNeverLost == Spec => BestBidKept
<1> DEFINE Adds == add_ready_transaction \/
                     (\E h \in Hash : \E req \in Requirements(h) : add_transaction(h, req))
           Kept(h) == \E other \in Held' : Provides(other) = Provides(h) /\ Fee[other] >= Fee[h]
<1>1. IInv /\ [Next]_vars => [Adds => \A h \in Held : Kept(h)]_vars
  <2> SUFFICES ASSUME IInv, Adds, NEW h \in Held PROVE Kept(h)
    OBVIOUS
  <2>1. h \in Hash /\ Fee[h] \in Nat
    BY TxAssumption DEF Held, InTransit, IInv, TypeOK, IsReady, IsPending, PoolTx
  <2>2. h \in Held' => Kept(h)
    BY <2>1
  <2> HIDE DEF Kept, Adds
  <2>3. ASSUME NEW g \in Hash, NEW req \in Requirements(g), add_transaction(g, req)
        PROVE  Kept(h)
    <3>1. CASE AlreadyImported(g)
      BY <3>1, <2>2 DEF AlreadyImported, Held, InTransit, frame, pruning
    <3>2. CASE AddPending(g, req)
      <4>1. Waiting(pending) \subseteq Waiting(pending')
        BY <3>2 DEF AddPending, pending_add, Waiting, Put
      <4>2. UNCHANGED <<ready, queue, imports>>
        BY <3>2 DEF AddPending, frame, pruning
      <4> QED BY <4>1, <4>2, <2>2 DEF Held, InTransit
    <3>3. CASE AddReady(g, req)
      <4>1. queue = {}
        BY <3>3 DEF AddReady, IInv, LoopOK, InAddLoop
      <4>2. UNCHANGED <<ready, pending, imports>>
        BY <3>3 DEF AddReady, pruning
      <4> QED BY <4>1, <4>2, <2>2 DEF Held, InTransit
    <3> QED BY <2>3, <3>1, <3>2, <3>3 DEF add_transaction
  <2>4. CASE AddReadyInsert
    <3>1. PICK tx \in Front :
            /\ ~ReadyUnderpriced(ready, tx.hash)
            /\ pending' = mark_and_unlock(pending, Provides(tx.hash))
            /\ ready' = ready_add(ready, tx.hash, tx.requires)
            /\ queue' = (queue \ {tx}) \cup UnlockedBy(Provides(tx.hash))
      BY <2>4 DEF AddReadyInsert
    <3>2. InAddLoop /\ UNCHANGED imports
      BY <2>4 DEF AddReadyInsert, pruning
    <3>3. /\ tx.hash \in Hash \ Ready(ready) /\ tx.requires \in Requirements(tx.hash)
          /\ Waiting(pending') = Waiting(pending) \ Unlocked(pending, Provides(tx.hash))
          /\ {t.hash : t \in UnlockedBy(Provides(tx.hash))} = Unlocked(pending, Provides(tx.hash))
      BY Zenon, <3>1, <3>2, FrontFacts
    <3>4. WellFormedReady(ready)
      BY QueuesWellFormed
    <3>5. Ready(ready') = (Ready(ready) \ Replaced(ready, tx.hash)) \cup {tx.hash}
      BY Zenon, <3>1, <3>3, <3>4, AddToReady
    <3>6. tx.hash \in Held'
      BY <3>5 DEF Held
    <3>7. CASE h \in Replaced(ready, tx.hash)
      <4>1. Provides(h) = Provides(tx.hash)
        BY <3>4, <3>7 DEF Replaced, Providers, WellFormedReady, Indexed
      <4>2. ~(Fee[tx.hash] <= Fee[h])
        BY <3>1, <3>7 DEF ReadyUnderpriced, Replaced
      <4>3. Fee[tx.hash] \in Nat
        BY <3>3, TxAssumption
      <4>4. Fee[tx.hash] >= Fee[h]
        BY <4>2, <4>3, <2>1
      <4> QED BY <3>6, <4>1, <4>4 DEF Kept
    <3>8. CASE h \notin Replaced(ready, tx.hash)
      <4>1. CASE h \in Ready(ready)
        BY <4>1, <3>5, <3>8, <2>2 DEF Held
      <4>2. CASE h \in Waiting(pending)
        BY Zenon, <4>2, <3>1, <3>3, <2>2 DEF Held, InTransit
      <4>3. CASE h \in InTransit
        <5>1. h = tx.hash \/ h \in InTransit'
          BY Zenon, <4>3, <3>1, <3>2 DEF InTransit
        <5> QED BY <5>1, <3>6, <2>2 DEF Held
      <4> QED BY <4>1, <4>2, <4>3 DEF Held
    <3> QED BY <3>7, <3>8
  <2>5. ASSUME InAddLoop, NEW tx \in Front, ReadyUnderpriced(ready, tx.hash), h = tx.hash,
               UNCHANGED ready
        PROVE  Kept(h)
    <3>1. PICK other \in Ready(ready) : /\ other \in Providers(ready, {Provides(h)})
                                        /\ Fee[h] <= Fee[other]
      BY <2>5 DEF ReadyUnderpriced
    <3>2. Provides(other) = Provides(h) /\ other \in Hash
      BY <3>1, QueuesWellFormed DEF Providers, WellFormedReady, Indexed, IsReady
    <3>3. Fee[other] >= Fee[h] /\ other \in Held'
      BY <3>1, <3>2, <2>1, <2>5, TxAssumption DEF Held
    <3> QED BY <3>2, <3>3 DEF Kept
  <2>6. CASE AddReadyReject
    <3>1. PICK tx \in Front : ReadyUnderpriced(ready, tx.hash)
      BY <2>6 DEF AddReadyReject
    <3>2. InAddLoop /\ is_new_tx /\ UNCHANGED <<ready, pending, imports>>
      BY <2>6, AddReadyRejectStep DEF AddReadyReject, pruning
    <3>3. \A t \in queue : t.hash = tx.hash
      BY <3>1, <3>2 DEF IInv, LoopOK, Front
    <3>4. CASE h = tx.hash
      BY <3>1, <3>2, <3>4, <2>5
    <3>5. CASE h # tx.hash
      BY <3>2, <3>3, <3>5, <2>2 DEF Held, InTransit
    <3> QED BY <3>4, <3>5
  <2>7. CASE AddReadyDiscard
    <3>1. PICK tx \in Front :
            /\ ReadyUnderpriced(ready, tx.hash)
            /\ pending' = mark_and_unlock(pending, Provides(tx.hash))
            /\ queue' = (queue \ {tx}) \cup UnlockedBy(Provides(tx.hash))
      BY <2>7 DEF AddReadyDiscard
    <3>2. InAddLoop /\ UNCHANGED <<ready, imports>>
      BY <2>7 DEF AddReadyDiscard, pruning
    <3>3. pending' = pending
      BY <3>1, <3>2, UnderpricedUnlocksNothing
    <3>4. CASE h = tx.hash
      BY <3>1, <3>2, <3>4, <2>5
    <3>5. CASE h # tx.hash
      <4>1. h \in InTransit => h \in InTransit'
        BY <3>1, <3>2, <3>5 DEF InTransit
      <4> QED BY <4>1, <3>2, <3>3, <2>2 DEF Held
    <3> QED BY <3>4, <3>5
  <2>8. CASE AddReadyReturn
    <3>1. ~(new \subseteq removed)
      BY <2>8 DEF AddReadyReturn, IInv, LoopOK
    <3>2. queue = {} /\ UNCHANGED <<ready, pending, imports>>
      BY <2>8, <3>1 DEF AddReadyReturn, pruning
    <3> QED BY <3>2, <2>2 DEF Held, InTransit
  <2> QED BY <2>3, <2>4, <2>6, <2>7, <2>8 DEF Adds, add_ready_transaction
<1>2. Spec => [][Next]_vars
  BY PTL DEF Spec
<1> QED BY <1>1, <1>2, PoolInvariant, PTL DEF BestBidKept

=============================================================================
