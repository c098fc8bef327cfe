------------------------------ MODULE PoolOps ------------------------------
(***************************************************************************)
(* The two queues of anvil's transaction pool as data, and the operations   *)
(* on them (crates/anvil/src/eth/pool/transactions.rs).                     *)
(*                                                                          *)
(* A transaction is its hash; its sender, nonce and max_fee_per_gas are     *)
(* functions of the hash.  Every transaction the RPC layer puts in the pool *)
(* provides exactly one marker and requires at most one (api.rs:2213, 2299, *)
(* 3195), so `provides` is an operator on hashes and `requires` a set of at *)
(* most one marker.  `requires` is fixed at submission time and is part of  *)
(* the pool's state: the same hash may return with another one.             *)
(*                                                                          *)
(* The u64 `id` of a ready transaction only orders it among the ready ones, *)
(* so it is kept as `older`, the ready transactions inserted before it.     *)
(***************************************************************************)
EXTENDS Naturals, Functions

CONSTANTS
  Hash,      \* transaction hashes
  Account,   \* senders
  Sender,    \* [Hash -> Account]
  Nonce,     \* [Hash -> Nat]
  Fee        \* [Hash -> Nat], max_fee_per_gas

ASSUME TxAssumption ==
  /\ Sender \in [Hash -> Account]
  /\ Nonce \in [Hash -> Nat]
  /\ Fee \in [Hash -> Nat]

Marker == Account \X Nat

to_marker(nonce, from) == <<from, nonce>>

Provides(h) == to_marker(Nonce[h], Sender[h])

\* Mutant of Requirements: the transaction's own marker (no saturating_sub).
RequirementsOwn(h) == {{}, {Provides(h)}}

\* The value of `requires` a submission of h may carry: nothing, or the
\* marker of the preceding nonce (api.rs required_marker).
Requirements(h) ==
  {{}} \cup (IF Nonce[h] > 0 THEN {{to_marker(Nonce[h] - 1, Sender[h])}} ELSE {})

NumRequired(req) == IF req = {} THEN 0 ELSE 1

\* HashMap::insert
Put(f, k, v) == [x \in DOMAIN f \cup {k} |-> IF x = k THEN v ELSE f[x]]

\* HashMap::remove of every key in ks
Without(f, ks) == Restrict(f, DOMAIN f \ ks)

-----------------------------------------------------------------------------
(***************************************************************************)
(* PendingTransactions: the transactions that wait for a marker.            *)
(***************************************************************************)

PendingEntry == [requires : SUBSET Marker, missing : SUBSET Marker]

EmptyPending ==
  [required_markers |-> [m \in {} |-> {}],
   waiting_markers  |-> [m \in {} |-> {}],
   waiting_queue    |-> [h \in {} |-> {}]]

Waiting(P) == DOMAIN P.waiting_queue

\* The transactions that wait for marker m.
WaitingFor(P, m) ==
  IF m \in DOMAIN P.required_markers THEN P.required_markers[m] ELSE {}

\* The waiting transactions for which m is the last missing marker.
Unlocked(P, m) ==
  {h \in WaitingFor(P, m) : P.waiting_queue[h].missing \ {m} = {}}

\* Mutant of mark_and_unlock: the satisfied marker stays in required_markers.
mark_and_unlock_keeping(P, m) ==
  LET unlocked == Unlocked(P, m)
  IN  [required_markers |-> P.required_markers,
       waiting_markers  |-> Without(P.waiting_markers, {Provides(h) : h \in unlocked}),
       waiting_queue    |-> Without(P.waiting_queue, unlocked)]

mark_and_unlock(P, m) ==
  LET unlocked == Unlocked(P, m)
  IN  [required_markers |-> Without(P.required_markers, {m}),
       waiting_markers  |-> Without(P.waiting_markers, {Provides(h) : h \in unlocked}),
       waiting_queue    |->
         [h \in Waiting(P) \ unlocked |->
            [requires |-> P.waiting_queue[h].requires,
             missing  |-> P.waiting_queue[h].missing \
                            (IF h \in WaitingFor(P, m) THEN {m} ELSE {})]]]

\* A waiting transaction with the same marker that pays at least as much.
PendingUnderpriced(P, h) ==
  /\ Provides(h) \in DOMAIN P.waiting_markers
  /\ LET other == P.waiting_markers[Provides(h)]
     IN  other \in Waiting(P) /\ Fee[h] <= Fee[other]

\* The replaced transaction, if any, stays in required_markers and
\* waiting_queue: only its entry in waiting_markers is overwritten.
pending_add(P, h, req, missing) ==
  [required_markers |->
     [m \in DOMAIN P.required_markers \cup missing |->
        WaitingFor(P, m) \cup (IF m \in missing THEN {h} ELSE {})],
   waiting_markers  |-> Put(P.waiting_markers, Provides(h), h),
   waiting_queue    |-> Put(P.waiting_queue, h, [requires |-> req, missing |-> missing])]

\* Mutant of pending_remove: an empty set is left behind in required_markers.
pending_remove_leaving(P, hashes) ==
  LET removed == hashes \cap Waiting(P)
  IN  [required_markers |-> [m \in DOMAIN P.required_markers |-> P.required_markers[m] \ removed],
       waiting_markers  |-> Without(P.waiting_markers, {Provides(h) : h \in removed}),
       waiting_queue    |-> Without(P.waiting_queue, removed)]

pending_remove(P, hashes) ==
  LET removed   == hashes \cap Waiting(P)
      left(m)   == {h \in P.required_markers[m] :
                      ~(h \in removed /\ m \in P.waiting_queue[h].missing)}
      kept      == {m \in DOMAIN P.required_markers :
                      left(m) # {} \/ left(m) = P.required_markers[m]}
  IN  [required_markers |-> [m \in kept |-> left(m)],
       waiting_markers  |-> Without(P.waiting_markers, {Provides(h) : h \in removed}),
       waiting_queue    |-> Without(P.waiting_queue, removed)]

-----------------------------------------------------------------------------
(***************************************************************************)
(* ReadyTransactions: the transactions that may go into the next block.     *)
(***************************************************************************)

ReadyEntry ==
  [requires : SUBSET Marker, unlocks : SUBSET Hash, requires_offset : Nat, older : SUBSET Hash]

EmptyReady ==
  [provided_markers |-> [m \in {} |-> {}],
   ready_tx         |-> [h \in {} |-> {}],
   independent      |-> {}]

Ready(R) == DOMAIN R.ready_tx

\* The transactions registered as providers of the markers in ms.
Providers(R, ms) == {R.provided_markers[m] : m \in ms \cap DOMAIN R.provided_markers}

\* The entry of a surviving transaction once the set gone has left the queue.
Survivor(R, a, gone) ==
  [R.ready_tx[a] EXCEPT
     !.unlocks = {b \in @ : ~(b \in gone /\ a \in Providers(R, R.ready_tx[b].requires))},
     !.older   = @ \ gone]

\* What the work list of remove_with_markers ends up removing: the given
\* transactions and, through a transaction whose marker is not in keep, all
\* it unlocks.  The list is a least fixed point: the smallest such set.
Dependents(R, hashes, keep) ==
  {h \in Ready(R) :
     \A S \in SUBSET Ready(R) :
        /\ hashes \cap Ready(R) \subseteq S
        /\ \A t \in S : Provides(t) \notin keep => R.ready_tx[t].unlocks \cap Ready(R) \subseteq S
        => h \in S}

\* Mutant of remove_with_markers: provided_markers is not cleaned.
remove_with_markers_kept(R, hashes, keep) ==
  LET gone == Dependents(R, hashes, keep)
  IN  [R EXCEPT !.ready_tx = [a \in Ready(R) \ gone |-> Survivor(R, a, gone)],
                !.independent = @ \ gone]

remove_with_markers(R, hashes, keep) ==
  LET gone == Dependents(R, hashes, keep)
  IN  [provided_markers |-> Without(R.provided_markers, {Provides(h) : h \in gone} \ keep),
       ready_tx         |-> [a \in Ready(R) \ gone |-> Survivor(R, a, gone)],
       independent      |-> R.independent \ gone]

\* The provider of t's required marker, when t is the last one it unlocks.
Previous(R, t) ==
  {a \in Providers(R, R.ready_tx[t].requires) \cap Ready(R) : R.ready_tx[a].unlocks \subseteq {t}}

\* What the work list of prune_tags removes: the provider of m and the
\* chain of transactions that lead to it.
Pruned(R, m) ==
  {h \in Ready(R) :
     \A S \in SUBSET Ready(R) :
        /\ Providers(R, {m}) \cap Ready(R) \subseteq S
        /\ \A t \in S : Previous(R, t) \subseteq S
        => h \in S}

\* Mutant of prune_tags: what the pruned transactions unlocked is not added
\* to the independent transactions.
prune_tags_dependent(R, m) ==
  LET gone      == Pruned(R, m)
      freed(b)  == \E h \in gone : b \in R.ready_tx[h].unlocks
      offset(b) == R.ready_tx[b].requires_offset + (IF freed(b) THEN 1 ELSE 0)
  IN  [provided_markers |-> Without(R.provided_markers, {m} \cup {Provides(h) : h \in gone}),
       ready_tx         |-> [a \in Ready(R) \ gone |->
                               [Survivor(R, a, gone) EXCEPT !.requires_offset = offset(a)]],
       independent      |-> R.independent \ gone]

\* Mutant of prune_tags: requires_offset counts down.
prune_tags_down(R, m) ==
  LET gone     == Pruned(R, m)
      freed(b) == \E h \in gone : b \in R.ready_tx[h].unlocks
  IN  [provided_markers |-> Without(R.provided_markers, {m} \cup {Provides(h) : h \in gone}),
       ready_tx         |-> [a \in Ready(R) \ gone |->
                               [Survivor(R, a, gone) EXCEPT
                                  !.requires_offset = IF freed(a) THEN @ - 1 ELSE @]],
       independent      |-> (R.independent \ gone) \cup {b \in Ready(R) \ gone : freed(b)}]

\* A transaction requires at most one marker, so at most one pruned
\* transaction unlocks it and requires_offset grows by at most one.
prune_tags(R, m) ==
  LET gone      == Pruned(R, m)
      rest      == Ready(R) \ gone
      freed     == {b \in rest : \E h \in gone : b \in R.ready_tx[h].unlocks}
      offset(b) == R.ready_tx[b].requires_offset + (IF b \in freed THEN 1 ELSE 0)
  IN  [provided_markers |-> Without(R.provided_markers, {m} \cup {Provides(h) : h \in gone}),
       ready_tx         |-> [a \in rest |-> [Survivor(R, a, gone) EXCEPT !.requires_offset = offset(a)]],
       independent      |-> (R.independent \ gone) \cup
                              {b \in freed : offset(b) = NumRequired(R.ready_tx[b].requires)}]

\* Mutant of ReadyUnderpriced: the price check is dropped.
ReadyUnderpricedNever(R, h) == FALSE

\* A ready transaction with the same marker that pays at least as much.
ReadyUnderpriced(R, h) ==
  \E other \in Providers(R, {Provides(h)}) \cap Ready(R) : Fee[h] <= Fee[other]

\* The ready transactions that adding h removes.
Replaced(R, h) == Providers(R, {Provides(h)}) \cap Ready(R)

replaced_transactions(R, h) ==
  IF Providers(R, {Provides(h)}) = {}
  THEN R
  ELSE remove_with_markers(R, Providers(R, {Provides(h)}), {Provides(h)})

\* Mutant of ready_add: what the replaced transaction unlocked is forgotten.
ready_add_forgetting(R, h, req) ==
  LET Q         == replaced_transactions(R, h)
      inherited == req \cap DOMAIN Q.provided_markers
      entry     == [requires |-> req, unlocks |-> {}, older |-> Ready(Q),
                    requires_offset |-> NumRequired(req \ inherited)]
      link(a)   == [Q.ready_tx[a] EXCEPT
                      !.unlocks = @ \cup (IF a \in Providers(Q, req) THEN {h} ELSE {})]
  IN  [provided_markers |-> Put(Q.provided_markers, Provides(h), h),
       ready_tx         |-> Put([a \in Ready(Q) |-> link(a)], h, entry),
       independent      |-> Q.independent \cup (IF inherited = {} THEN {h} ELSE {})]

ready_add(R, h, req) ==
  LET Q         == replaced_transactions(R, h)
      unlocked  == UNION {R.ready_tx[o].unlocks : o \in Replaced(R, h)}
      inherited == req \cap DOMAIN Q.provided_markers
      entry     == [requires |-> req, unlocks |-> unlocked, older |-> Ready(Q),
                    requires_offset |-> NumRequired(req \ inherited)]
      link(a)   == [Q.ready_tx[a] EXCEPT
                      !.unlocks = @ \cup (IF a \in Providers(Q, req) THEN {h} ELSE {})]
  IN  [provided_markers |-> Put(Q.provided_markers, Provides(h), h),
       ready_tx         |-> Put([a \in Ready(Q) |-> link(a)], h, entry),
       independent      |-> Q.independent \cup (IF inherited = {} THEN {h} ELSE {})]

\* What TransactionsIterator visits: the independent transactions and, with
\* one required marker each, all that a visited transaction unlocks.
Visited(R) ==
  {h \in Ready(R) :
     \A S \in SUBSET Ready(R) :
        /\ R.independent \cap Ready(R) \subseteq S
        /\ \A t \in S : R.ready_tx[t].unlocks \cap Ready(R) \subseteq S
        => h \in S}

-----------------------------------------------------------------------------
(***************************************************************************)
(* What it means for the two structures to be well formed.                  *)
(***************************************************************************)

IsReady(R) ==
  /\ R = [provided_markers |-> R.provided_markers, ready_tx |-> R.ready_tx,
          independent |-> R.independent]
  /\ R.provided_markers \in [DOMAIN R.provided_markers -> Hash]
  /\ DOMAIN R.provided_markers \subseteq Marker
  /\ R.ready_tx \in [Ready(R) -> ReadyEntry]
  /\ Ready(R) \subseteq Hash
  /\ \A h \in Ready(R) : R.ready_tx[h].requires \in Requirements(h)
  /\ R.independent \subseteq Hash

IsPending(P) ==
  /\ P = [required_markers |-> P.required_markers, waiting_markers |-> P.waiting_markers,
          waiting_queue |-> P.waiting_queue]
  /\ P.required_markers \in [DOMAIN P.required_markers -> SUBSET Hash]
  /\ DOMAIN P.required_markers \subseteq Marker
  /\ P.waiting_markers \in [DOMAIN P.waiting_markers -> Hash]
  /\ DOMAIN P.waiting_markers \subseteq Marker
  /\ P.waiting_queue \in [Waiting(P) -> PendingEntry]
  /\ Waiting(P) \subseteq Hash
  /\ \A h \in Waiting(P) : P.waiting_queue[h].requires \in Requirements(h)

\* provided_markers is the index of ready_tx by marker.
Indexed(R) ==
  /\ DOMAIN R.provided_markers = {Provides(h) : h \in Ready(R)}
  /\ \A h \in Ready(R) : R.provided_markers[Provides(h)] = h

\* independent and unlocks say which transactions still wait for another one.
Linked(R) ==
  /\ R.independent =
       {h \in Ready(R) : R.ready_tx[h].requires_offset = NumRequired(R.ready_tx[h].requires)}
  /\ \A a \in Ready(R) : \A b \in R.ready_tx[a].unlocks :
       /\ b \in Ready(R) \ R.independent
       /\ R.ready_tx[b].requires = {Provides(a)}
  /\ \A b \in Ready(R) \ R.independent :
       /\ R.ready_tx[b].requires_offset = 0
       /\ \E a \in Ready(R) : b \in R.ready_tx[a].unlocks

\* required_markers is the index of the waiting queue by missing marker and
\* waiting_markers names waiting transactions by the marker they provide.
WaitingIndexed(P) ==
  /\ \A h \in Waiting(P) :
       /\ P.waiting_queue[h].missing = P.waiting_queue[h].requires
       /\ P.waiting_queue[h].missing # {}
  /\ DOMAIN P.required_markers = UNION {P.waiting_queue[h].missing : h \in Waiting(P)}
  /\ \A m \in DOMAIN P.required_markers :
       P.required_markers[m] = {h \in Waiting(P) : m \in P.waiting_queue[h].missing}
  /\ \A m \in DOMAIN P.waiting_markers :
       P.waiting_markers[m] \in Waiting(P) /\ Provides(P.waiting_markers[m]) = m

=============================================================================
