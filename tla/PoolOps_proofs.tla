--------------------------- MODULE PoolOps_proofs ---------------------------
(***************************************************************************)
(* What every operation on the two queues preserves, for any number of      *)
(* transactions and accounts: lemmas about the operators of PoolOps.        *)
(***************************************************************************)
EXTENDS PoolOps, WellFoundedInduction, TLAPS

WellFormedReady(R) == IsReady(R) /\ Indexed(R) /\ Linked(R)

WellFormedPending(P) == IsPending(P) /\ WaitingIndexed(P)

-----------------------------------------------------------------------------
(***************************************************************************)
(* Markers                                                                  *)
(***************************************************************************)

\* to_marker yields a marker, and the same one only for the same sender and
\* nonce.
LEMMA ProvidesFacts ==
  ASSUME NEW g \in Hash, NEW h \in Hash
  PROVE  /\ Provides(h) \in Marker
         /\ Provides(g) = Provides(h) <=> Nonce[g] = Nonce[h] /\ Sender[g] = Sender[h]
BY TxAssumption DEF Provides, to_marker, Marker

\* A submission requires at most one marker: its own sender's previous nonce.
LEMMA RequirementFacts ==
  ASSUME NEW h \in Hash, NEW req \in Requirements(h), NEW m \in req
  PROVE  /\ m \in Marker
         /\ req = {m}
         /\ m # Provides(h)
         /\ \A g \in Hash : m = Provides(g) => Nonce[h] = Nonce[g] + 1 /\ Sender[h] = Sender[g]
BY TxAssumption DEF Requirements, Provides, to_marker, Marker

\* Requirements are sets of markers.
LEMMA RequirementType ==
  ASSUME NEW h \in Hash, NEW req \in Requirements(h)
  PROVE  req \in SUBSET Marker
BY RequirementFacts

\* The empty queues are well formed.
LEMMA EmptyQueues ==
  /\ WellFormedReady(EmptyReady) /\ WellFormedPending(EmptyPending)
  /\ Ready(EmptyReady) = {} /\ Waiting(EmptyPending) = {}
  /\ DOMAIN EmptyReady.provided_markers = {} /\ DOMAIN EmptyPending.required_markers = {}
<1>1. /\ Ready(EmptyReady) = {} /\ DOMAIN EmptyReady.provided_markers = {}
      /\ EmptyReady.independent = {}
      /\ Waiting(EmptyPending) = {} /\ DOMAIN EmptyPending.required_markers = {}
      /\ DOMAIN EmptyPending.waiting_markers = {}
  BY DEF EmptyReady, EmptyPending, Ready, Waiting
<1>2. IsReady(EmptyReady)
  BY <1>1 DEF EmptyReady, IsReady, Ready
<1>3. IsPending(EmptyPending)
  BY <1>1 DEF EmptyPending, IsPending, Waiting
<1>4. Indexed(EmptyReady) /\ Linked(EmptyReady) /\ WaitingIndexed(EmptyPending)
  BY <1>1 DEF Indexed, Linked, WaitingIndexed
<1> QED BY <1>1, <1>2, <1>3, <1>4 DEF WellFormedReady, WellFormedPending

-----------------------------------------------------------------------------
(***************************************************************************)
(* Removing from the ready queue                                            *)
(***************************************************************************)

\* The work list of remove_with_markers is closed under unlocks.
LEMMA DependentsFacts ==
  ASSUME NEW R, NEW hashes, NEW keep
  PROVE  /\ Dependents(R, hashes, keep) \subseteq Ready(R)
         /\ hashes \cap Ready(R) \subseteq Dependents(R, hashes, keep)
         /\ \A t \in Dependents(R, hashes, keep) :
              Provides(t) \notin keep =>
                R.ready_tx[t].unlocks \cap Ready(R) \subseteq Dependents(R, hashes, keep)
<1>1. Dependents(R, hashes, keep) \subseteq Ready(R)
  BY DEF Dependents
<1>2. hashes \cap Ready(R) \subseteq Dependents(R, hashes, keep)
  BY DEF Dependents
<1>3. ASSUME NEW t \in Dependents(R, hashes, keep), Provides(t) \notin keep,
             NEW u \in R.ready_tx[t].unlocks \cap Ready(R)
      PROVE  u \in Dependents(R, hashes, keep)
  BY <1>3 DEF Dependents
<1> QED BY <1>1, <1>2, <1>3

\* A survivor keeps its fields, except that it forgets what has gone.
LEMMA SurvivorFacts ==
  ASSUME NEW R, IsReady(R), NEW gone, NEW a \in Ready(R)
  PROVE  /\ Survivor(R, a, gone) \in ReadyEntry
         /\ Survivor(R, a, gone).requires = R.ready_tx[a].requires
         /\ Survivor(R, a, gone).requires_offset = R.ready_tx[a].requires_offset
         /\ Survivor(R, a, gone).unlocks =
              {b \in R.ready_tx[a].unlocks :
                 ~(b \in gone /\ a \in Providers(R, R.ready_tx[b].requires))}
BY DEF Survivor, ReadyEntry, IsReady

\* A transaction that leaves the queue with all it unlocks leaves well-formed
\* indexes and links behind.
LEMMA RemoveReady ==
  ASSUME NEW R, WellFormedReady(R), NEW hashes
  PROVE  /\ WellFormedReady(remove_with_markers(R, hashes, {}))
         /\ Ready(remove_with_markers(R, hashes, {})) = Ready(R) \ Dependents(R, hashes, {})
         /\ DOMAIN remove_with_markers(R, hashes, {}).provided_markers
              \subseteq DOMAIN R.provided_markers
<1> DEFINE gone == Dependents(R, hashes, {})
           Q == remove_with_markers(R, hashes, {})
<1> USE DEF WellFormedReady
<1>1. /\ gone \subseteq Ready(R)
      /\ \A t \in gone : R.ready_tx[t].unlocks \cap Ready(R) \subseteq gone
  BY DependentsFacts
<1>2. Q = [provided_markers |-> Without(R.provided_markers, {Provides(h) : h \in gone}),
           ready_tx         |-> [a \in Ready(R) \ gone |-> Survivor(R, a, gone)],
           independent      |-> R.independent \ gone]
  BY DEF remove_with_markers
<1> HIDE DEF gone, Q
<1>3. /\ Ready(Q) = Ready(R) \ gone
      /\ \A a \in Ready(Q) : Q.ready_tx[a] = Survivor(R, a, gone)
      /\ Q.independent = R.independent \ gone
      /\ DOMAIN Q.provided_markers = DOMAIN R.provided_markers \ {Provides(h) : h \in gone}
      /\ \A m \in DOMAIN Q.provided_markers : Q.provided_markers[m] = R.provided_markers[m]
  BY <1>2 DEF Ready, Without, Restrict
<1>4. \A a \in Ready(R) \ gone :
        /\ Survivor(R, a, gone) \in ReadyEntry
        /\ Survivor(R, a, gone).requires = R.ready_tx[a].requires
        /\ Survivor(R, a, gone).requires_offset = R.ready_tx[a].requires_offset
        /\ Survivor(R, a, gone).unlocks =
             {b \in R.ready_tx[a].unlocks :
                ~(b \in gone /\ a \in Providers(R, R.ready_tx[b].requires))}
  BY SurvivorFacts
<1>5. IsReady(Q)
  <2>1. /\ Q = [provided_markers |-> Q.provided_markers, ready_tx |-> Q.ready_tx,
                independent |-> Q.independent]
        /\ Q.ready_tx = [a \in Ready(Q) |-> Survivor(R, a, gone)]
        /\ Q.provided_markers = [m \in DOMAIN Q.provided_markers |-> R.provided_markers[m]]
    BY <1>2 DEF Ready, Without, Restrict
  <2>2. Q.ready_tx \in [Ready(Q) -> ReadyEntry]
    BY <2>1, <1>3, <1>4
  <2>3. Q.provided_markers \in [DOMAIN Q.provided_markers -> Hash]
    BY <2>1, <1>3 DEF IsReady
  <2>4. \A h \in Ready(Q) : Q.ready_tx[h].requires \in Requirements(h)
    BY <1>3, <1>4 DEF IsReady
  <2> QED BY <2>1, <2>2, <2>3, <2>4, <1>3 DEF IsReady
<1>6. Indexed(Q)
  BY <1>1, <1>3 DEF Indexed
<1>7. Linked(Q)
  <2>1. Q.independent =
          {h \in Ready(Q) : Q.ready_tx[h].requires_offset = NumRequired(Q.ready_tx[h].requires)}
    BY <1>3, <1>4 DEF Linked
  <2>2. ASSUME NEW a \in Ready(Q), NEW b \in Q.ready_tx[a].unlocks
        PROVE  /\ b \in Ready(Q) \ Q.independent
               /\ Q.ready_tx[b].requires = {Provides(a)}
    <3>1. /\ a \in Ready(R) \ gone
          /\ b \in R.ready_tx[a].unlocks
          /\ b \in Ready(R) \ R.independent
          /\ R.ready_tx[b].requires = {Provides(a)}
      BY <1>3, <1>4, <2>2 DEF Linked
    <3>2. a \in Providers(R, R.ready_tx[b].requires)
      BY <3>1 DEF Providers, Indexed
    <3>3. b \notin gone
      BY <3>2, <1>3, <1>4, <2>2, <3>1
    <3> QED BY <3>1, <3>3, <1>3, <1>4
  <2>3. ASSUME NEW b \in Ready(Q) \ Q.independent
        PROVE  /\ Q.ready_tx[b].requires_offset = 0
               /\ \E a \in Ready(Q) : b \in Q.ready_tx[a].unlocks
    <3>1. b \in Ready(R) \ R.independent /\ b \notin gone
      BY <1>3
    <3>2. PICK a \in Ready(R) : b \in R.ready_tx[a].unlocks
      BY <3>1 DEF Linked
    <3>3. a \notin gone
      BY <1>1, <3>1, <3>2
    <3> QED BY <3>1, <3>2, <3>3, <1>3, <1>4 DEF Linked
  <2> QED BY <2>1, <2>2, <2>3 DEF Linked
<1>8. DOMAIN Q.provided_markers \subseteq DOMAIN R.provided_markers
  BY <1>3
<1> QED BY <1>3, <1>5, <1>6, <1>7, <1>8 DEF gone, Q

-----------------------------------------------------------------------------
(***************************************************************************)
(* Pruning the ready queue                                                  *)
(***************************************************************************)

\* Pruning takes ready transactions, the provider of the marker among them.
LEMMA PrunedFacts ==
  ASSUME NEW R, NEW m
  PROVE  /\ Pruned(R, m) \subseteq Ready(R)
         /\ Providers(R, {m}) \cap Ready(R) \subseteq Pruned(R, m)
BY DEF Pruned

\* Pruning frees what the pruned transactions unlock and leaves well-formed
\* indexes and links behind; afterwards nothing provides the marker.
LEMMA PruneReady ==
  ASSUME NEW R, WellFormedReady(R), NEW m
  PROVE  /\ WellFormedReady(prune_tags(R, m))
         /\ Ready(prune_tags(R, m)) = Ready(R) \ Pruned(R, m)
         /\ DOMAIN prune_tags(R, m).provided_markers \subseteq DOMAIN R.provided_markers \ {m}
<1> DEFINE gone == Pruned(R, m)
           rest == Ready(R) \ gone
           freed == {b \in rest : \E h \in gone : b \in R.ready_tx[h].unlocks}
           offset(b) == R.ready_tx[b].requires_offset + (IF b \in freed THEN 1 ELSE 0)
           Q == prune_tags(R, m)
<1> USE DEF WellFormedReady
<1>1. gone \subseteq Ready(R) /\ Providers(R, {m}) \cap Ready(R) \subseteq gone
  BY PrunedFacts
<1>2. Q = [provided_markers |-> Without(R.provided_markers, {m} \cup {Provides(h) : h \in gone}),
           ready_tx         |-> [a \in rest |-> [Survivor(R, a, gone) EXCEPT !.requires_offset = offset(a)]],
           independent      |-> (R.independent \ gone) \cup
                                  {b \in freed : offset(b) = NumRequired(R.ready_tx[b].requires)}]
  BY DEF prune_tags
<1>3. \A a \in rest :
        /\ Survivor(R, a, gone) \in ReadyEntry
        /\ Survivor(R, a, gone).requires = R.ready_tx[a].requires
        /\ Survivor(R, a, gone).requires_offset = R.ready_tx[a].requires_offset
        /\ Survivor(R, a, gone).unlocks =
             {b \in R.ready_tx[a].unlocks :
                ~(b \in gone /\ a \in Providers(R, R.ready_tx[b].requires))}
  BY SurvivorFacts
<1>4. \A b \in rest : offset(b) \in Nat
  BY DEF IsReady, ReadyEntry
<1> HIDE DEF gone, Q, rest, freed, offset
<1>5. /\ Ready(Q) = rest
      /\ \A a \in rest : Q.ready_tx[a] = [Survivor(R, a, gone) EXCEPT !.requires_offset = offset(a)]
      /\ Q.independent = (R.independent \ gone) \cup
                           {b \in freed : offset(b) = NumRequired(R.ready_tx[b].requires)}
      /\ DOMAIN Q.provided_markers =
           DOMAIN R.provided_markers \ ({m} \cup {Provides(h) : h \in gone})
      /\ \A k \in DOMAIN Q.provided_markers : Q.provided_markers[k] = R.provided_markers[k]
  BY <1>2 DEF Ready, Without, Restrict
<1>6. \A a \in rest :
        /\ Q.ready_tx[a] \in ReadyEntry
        /\ Q.ready_tx[a].requires = R.ready_tx[a].requires
        /\ Q.ready_tx[a].requires_offset = offset(a)
        /\ Q.ready_tx[a].unlocks =
             {b \in R.ready_tx[a].unlocks :
                ~(b \in gone /\ a \in Providers(R, R.ready_tx[b].requires))}
  <2>1. ASSUME NEW s \in ReadyEntry, NEW o \in Nat, NEW e, e = [s EXCEPT !.requires_offset = o]
        PROVE  /\ e \in ReadyEntry /\ e.requires = s.requires
               /\ e.requires_offset = o /\ e.unlocks = s.unlocks
    BY <2>1 DEF ReadyEntry
  <2> SUFFICES ASSUME NEW a \in rest
               PROVE  /\ Q.ready_tx[a] \in ReadyEntry
                      /\ Q.ready_tx[a].requires = Survivor(R, a, gone).requires
                      /\ Q.ready_tx[a].requires_offset = offset(a)
                      /\ Q.ready_tx[a].unlocks = Survivor(R, a, gone).unlocks
    BY <1>3
  <2> DEFINE s == Survivor(R, a, gone)
             e == Q.ready_tx[a]
  <2>2. s \in ReadyEntry /\ offset(a) \in Nat /\ e = [s EXCEPT !.requires_offset = offset(a)]
    BY <1>3, <1>4, <1>5
  <2> HIDE DEF s, e
  <2>3. /\ e \in ReadyEntry /\ e.requires = s.requires
        /\ e.requires_offset = offset(a) /\ e.unlocks = s.unlocks
    BY <2>1, <2>2
  <2> QED BY <2>3 DEF s, e
<1>7. IsReady(Q)
  <2>1. /\ Q = [provided_markers |-> Q.provided_markers, ready_tx |-> Q.ready_tx,
                independent |-> Q.independent]
        /\ Q.ready_tx = [a \in rest |-> Q.ready_tx[a]]
        /\ Q.provided_markers = [k \in DOMAIN Q.provided_markers |-> R.provided_markers[k]]
    BY <1>2 DEF Ready, Without, Restrict
  <2>2. Q.ready_tx \in [Ready(Q) -> ReadyEntry]
    BY <2>1, <1>5, <1>6
  <2>3. Q.provided_markers \in [DOMAIN Q.provided_markers -> Hash]
    BY <2>1, <1>5 DEF IsReady
  <2>4. /\ \A h \in Ready(Q) : Q.ready_tx[h].requires \in Requirements(h)
        /\ Ready(Q) \subseteq Hash
        /\ Q.independent \subseteq Hash
    BY <1>5, <1>6 DEF IsReady, rest, freed
  <2> QED BY <2>1, <2>2, <2>3, <2>4, <1>5 DEF IsReady
<1>8. Indexed(Q)
  <2>1. \A h \in Ready(R) : Provides(h) = m => h \in gone
    BY <1>1 DEF Indexed, Providers
  <2> QED BY <2>1, <1>1, <1>5 DEF Indexed, rest
<1>9. \A b \in rest : b \in freed => /\ b \notin R.independent
                                     /\ offset(b) = 1
                                     /\ NumRequired(R.ready_tx[b].requires) = 1
  BY <1>1 DEF Linked, freed, offset, NumRequired, rest
<1>10. \A b \in rest : b \notin freed => offset(b) = R.ready_tx[b].requires_offset
  BY DEF offset, IsReady, ReadyEntry, rest
<1>11. Linked(Q)
  <2>1. Q.independent =
          {h \in Ready(Q) : Q.ready_tx[h].requires_offset = NumRequired(Q.ready_tx[h].requires)}
    BY <1>5, <1>6, <1>9, <1>10 DEF Linked, rest, freed
  <2>2. ASSUME NEW a \in Ready(Q), NEW b \in Q.ready_tx[a].unlocks
        PROVE  /\ b \in Ready(Q) \ Q.independent
               /\ Q.ready_tx[b].requires = {Provides(a)}
    <3>1. /\ a \in Ready(R) \ gone
          /\ b \in R.ready_tx[a].unlocks
          /\ b \in Ready(R) \ R.independent
          /\ R.ready_tx[b].requires = {Provides(a)}
      BY <1>5, <1>6, <2>2 DEF Linked, rest
    <3>2. a \in Providers(R, R.ready_tx[b].requires)
      BY <3>1 DEF Providers, Indexed
    <3>3. b \in rest
      BY <3>2, <1>5, <1>6, <2>2, <3>1 DEF rest
    <3>4. b \notin freed
      <4>1. SUFFICES ASSUME NEW h \in gone, b \in R.ready_tx[h].unlocks PROVE FALSE
        BY DEF freed
      <4>2. Provides(h) = Provides(a)
        BY <4>1, <3>1, <1>1 DEF Linked
      <4>3. h = a
        BY <4>2, <3>1, <1>1 DEF Indexed
      <4> QED BY <4>3, <3>1
    <3> QED BY <3>1, <3>3, <3>4, <1>5, <1>6
  <2>3. ASSUME NEW b \in Ready(Q) \ Q.independent
        PROVE  /\ Q.ready_tx[b].requires_offset = 0
               /\ \E a \in Ready(Q) : b \in Q.ready_tx[a].unlocks
    <3>1. b \in rest /\ b \notin freed /\ b \notin R.independent
      BY <1>5, <1>9, <2>3 DEF rest
    <3>2. PICK a \in Ready(R) : b \in R.ready_tx[a].unlocks
      BY <3>1 DEF Linked, rest
    <3>3. a \in rest
      BY <3>1, <3>2 DEF freed, rest
    <3> QED BY <3>1, <3>2, <3>3, <1>5, <1>6, <1>10 DEF Linked, rest
  <2> QED BY <2>1, <2>2, <2>3 DEF Linked
<1> QED BY <1>5, <1>7, <1>8, <1>11 DEF gone, Q, rest

-----------------------------------------------------------------------------
(***************************************************************************)
(* Adding to the ready queue                                                *)
(***************************************************************************)

\* Making room for h removes the transaction that provides the same marker,
\* and only that one: its dependents stay.
LEMMA ReplaceReady ==
  ASSUME NEW R, WellFormedReady(R), NEW h \in Hash
  PROVE  LET Q == replaced_transactions(R, h)
         IN  /\ Q = [provided_markers |-> R.provided_markers,
                     ready_tx         |-> Q.ready_tx,
                     independent      |-> R.independent \ Replaced(R, h)]
             /\ Ready(Q) = Ready(R) \ Replaced(R, h)
             /\ Q.ready_tx \in [Ready(Q) -> ReadyEntry]
             /\ \A a \in Ready(Q) :
                  /\ Q.ready_tx[a].requires = R.ready_tx[a].requires
                  /\ Q.ready_tx[a].requires_offset = R.ready_tx[a].requires_offset
                  /\ Q.ready_tx[a].unlocks = R.ready_tx[a].unlocks \ Replaced(R, h)
<1> DEFINE Q == replaced_transactions(R, h)
           old == Replaced(R, h)
           gone == Dependents(R, Providers(R, {Provides(h)}), {Provides(h)})
<1> USE DEF WellFormedReady
<1>1. CASE Providers(R, {Provides(h)}) = {}
  <2>1. Q = R /\ old = {}
    BY <1>1 DEF replaced_transactions, Replaced
  <2> QED BY <2>1 DEF IsReady
<1>2. CASE Providers(R, {Provides(h)}) # {}
  <2>1. /\ old = Providers(R, {Provides(h)})
        /\ \A o \in old : o \in Ready(R) /\ Provides(o) = Provides(h)
    BY DEF Replaced, Providers, Indexed
  <2>2. gone = old
    <3>1. old \subseteq gone
      BY <2>1, DependentsFacts
    <3>2. gone \subseteq old
      BY <2>1 DEF Dependents
    <3> QED BY <3>1, <3>2
  <2>3. {Provides(o) : o \in gone} \ {Provides(h)} = {}
    BY <2>1, <2>2
  <2>4. Q = [provided_markers |-> Without(R.provided_markers, {}),
             ready_tx         |-> [a \in Ready(R) \ old |-> Survivor(R, a, old)],
             independent      |-> R.independent \ old]
    BY <1>2, <2>2, <2>3 DEF replaced_transactions, remove_with_markers
  <2>5. Without(R.provided_markers, {}) = R.provided_markers
    BY DEF Without, Restrict, IsReady
  <2>6. \A a \in Ready(R) \ old :
          /\ Survivor(R, a, old) \in ReadyEntry
          /\ Survivor(R, a, old).requires = R.ready_tx[a].requires
          /\ Survivor(R, a, old).requires_offset = R.ready_tx[a].requires_offset
          /\ Survivor(R, a, old).unlocks =
               {b \in R.ready_tx[a].unlocks :
                  ~(b \in old /\ a \in Providers(R, R.ready_tx[b].requires))}
    BY SurvivorFacts
  <2>7. \A a \in Ready(R) : \A b \in R.ready_tx[a].unlocks : a \in Providers(R, R.ready_tx[b].requires)
    BY DEF Linked, Indexed, Providers
  <2> HIDE DEF old, Q
  <2>8. /\ Ready(Q) = Ready(R) \ old
        /\ Q.ready_tx = [a \in Ready(Q) |-> Survivor(R, a, old)]
        /\ \A a \in Ready(Q) : Q.ready_tx[a] = Survivor(R, a, old)
    BY <2>4 DEF Ready
  <2>9. Q.ready_tx \in [Ready(Q) -> ReadyEntry]
    BY <2>6, <2>8
  <2>10. \A a \in Ready(Q) : Q.ready_tx[a].unlocks = R.ready_tx[a].unlocks \ old
    BY <2>6, <2>7, <2>8
  <2> QED BY <2>4, <2>5, <2>6, <2>8, <2>9, <2>10 DEF old, Q
<1> QED BY <1>1, <1>2

\* Adding h, whether it replaces a transaction or not, keeps indexes and
\* links well formed, and h inherits what the replaced transaction unlocked.
LEMMA AddToReady ==
  ASSUME NEW R, WellFormedReady(R), NEW h \in Hash \ Ready(R), NEW req \in Requirements(h)
  PROVE  /\ WellFormedReady(ready_add(R, h, req))
         /\ Ready(ready_add(R, h, req)) = (Ready(R) \ Replaced(R, h)) \cup {h}
         /\ DOMAIN ready_add(R, h, req).provided_markers =
              DOMAIN R.provided_markers \cup {Provides(h)}
<1> DEFINE old == Replaced(R, h)
           Q == replaced_transactions(R, h)
           unlocked == UNION {R.ready_tx[o].unlocks : o \in old}
           inherited == req \cap DOMAIN Q.provided_markers
           entry == [requires |-> req, unlocks |-> unlocked, older |-> Ready(Q),
                     requires_offset |-> NumRequired(req \ inherited)]
           link(a) == [Q.ready_tx[a] EXCEPT
                         !.unlocks = @ \cup (IF a \in Providers(Q, req) THEN {h} ELSE {})]
           A == ready_add(R, h, req)
<1> USE DEF WellFormedReady
<1>1. /\ Q.provided_markers = R.provided_markers
      /\ Q.independent = R.independent \ old
      /\ Ready(Q) = Ready(R) \ old
      /\ Q.ready_tx \in [Ready(Q) -> ReadyEntry]
      /\ \A a \in Ready(Q) :
           /\ Q.ready_tx[a].requires = R.ready_tx[a].requires
           /\ Q.ready_tx[a].requires_offset = R.ready_tx[a].requires_offset
           /\ Q.ready_tx[a].unlocks = R.ready_tx[a].unlocks \ old
  BY ReplaceReady
<1>2. A = [provided_markers |-> Put(Q.provided_markers, Provides(h), h),
           ready_tx         |-> Put([a \in Ready(Q) |-> link(a)], h, entry),
           independent      |-> Q.independent \cup (IF inherited = {} THEN {h} ELSE {})]
  BY DEF ready_add
<1>3. \A o \in Ready(R) : o \in old <=> Provides(o) = Provides(h)
  BY DEF Replaced, Providers, Indexed
<1>4. old \subseteq Ready(R)
  BY DEF Replaced
<1>5. Providers(Q, req) = Providers(R, req) /\ inherited = req \cap DOMAIN R.provided_markers
  BY <1>1 DEF Providers
<1>6. unlocked \subseteq Ready(R) \ R.independent
  BY <1>4 DEF Linked
<1>7. entry \in ReadyEntry
  BY <1>1, <1>4, <1>6, RequirementType DEF ReadyEntry, IsReady, NumRequired
<1>8. /\ entry.requires = req /\ entry.unlocks = unlocked
      /\ entry.requires_offset = NumRequired(req \ inherited)
  OBVIOUS
<1>9. \A a \in Ready(Q) :
        /\ link(a) \in ReadyEntry
        /\ link(a).requires = R.ready_tx[a].requires
        /\ link(a).requires_offset = R.ready_tx[a].requires_offset
        /\ link(a).unlocks = (R.ready_tx[a].unlocks \ old) \cup (IF a \in Providers(R, req) THEN {h} ELSE {})
  <2>1. ASSUME NEW s \in ReadyEntry, NEW U \in SUBSET Hash, NEW e,
               e = [s EXCEPT !.unlocks = @ \cup U]
        PROVE  /\ e \in ReadyEntry /\ e.requires = s.requires
               /\ e.requires_offset = s.requires_offset /\ e.unlocks = s.unlocks \cup U
    BY <2>1 DEF ReadyEntry
  <2> SUFFICES ASSUME NEW a \in Ready(Q)
               PROVE  /\ link(a) \in ReadyEntry
                      /\ link(a).requires = Q.ready_tx[a].requires
                      /\ link(a).requires_offset = Q.ready_tx[a].requires_offset
                      /\ link(a).unlocks = Q.ready_tx[a].unlocks \cup
                                            (IF a \in Providers(Q, req) THEN {h} ELSE {})
    BY <1>1, <1>5
  <2>2. Q.ready_tx[a] \in ReadyEntry /\ (IF a \in Providers(Q, req) THEN {h} ELSE {}) \in SUBSET Hash
    BY <1>1
  <2> DEFINE s == Q.ready_tx[a]
             U == IF a \in Providers(Q, req) THEN {h} ELSE {}
             e == link(a)
  <2>3. s \in ReadyEntry /\ U \in SUBSET Hash /\ e = [s EXCEPT !.unlocks = @ \cup U]
    BY <2>2
  <2> HIDE DEF s, U, e
  <2>4. /\ e \in ReadyEntry /\ e.requires = s.requires
        /\ e.requires_offset = s.requires_offset /\ e.unlocks = s.unlocks \cup U
    BY <2>1, <2>3
  <2> QED BY <2>4 DEF s, U, e
<1> HIDE DEF old, Q, unlocked, inherited, entry, link, A
<1>10. /\ Ready(A) = Ready(Q) \cup {h}
       /\ A.ready_tx[h] = entry
       /\ \A a \in Ready(Q) : A.ready_tx[a] = link(a)
       /\ A.independent = Q.independent \cup (IF inherited = {} THEN {h} ELSE {})
       /\ DOMAIN A.provided_markers = DOMAIN R.provided_markers \cup {Provides(h)}
       /\ A.provided_markers[Provides(h)] = h
       /\ \A m \in DOMAIN R.provided_markers :
            m # Provides(h) => A.provided_markers[m] = R.provided_markers[m]
       /\ h \notin Ready(Q)
  BY <1>1, <1>2 DEF Ready, Put
<1>11. IsReady(A)
  <2>1. /\ A = [provided_markers |-> A.provided_markers, ready_tx |-> A.ready_tx,
                independent |-> A.independent]
        /\ A.ready_tx = [a \in Ready(A) |-> A.ready_tx[a]]
        /\ A.provided_markers = [m \in DOMAIN A.provided_markers |-> A.provided_markers[m]]
    BY <1>2 DEF Ready, Put
  <2>2. A.ready_tx \in [Ready(A) -> ReadyEntry]
    BY <2>1, <1>7, <1>9, <1>10
  <2>3. /\ A.provided_markers \in [DOMAIN A.provided_markers -> Hash]
        /\ DOMAIN A.provided_markers \subseteq Marker
    BY <2>1, <1>10, ProvidesFacts DEF IsReady
  <2>4. /\ \A a \in Ready(A) : A.ready_tx[a].requires \in Requirements(a)
        /\ Ready(A) \subseteq Hash
        /\ A.independent \subseteq Hash
    BY <1>1, <1>8, <1>9, <1>10 DEF IsReady
  <2> QED BY <2>1, <2>2, <2>3, <2>4 DEF IsReady
<1>12. Indexed(A)
  <2>1. \A a \in Ready(Q) : Provides(a) # Provides(h)
    BY <1>1, <1>3
  <2>2. {Provides(a) : a \in Ready(A)} = {Provides(a) : a \in Ready(R)} \cup {Provides(h)}
    BY <1>1, <1>3, <1>10
  <2> QED BY <2>1, <2>2, <1>1, <1>10 DEF Indexed
<1>13. Linked(A)
  <2>1. A.independent =
          {a \in Ready(A) : A.ready_tx[a].requires_offset = NumRequired(A.ready_tx[a].requires)}
    <3>1. inherited = {} <=> NumRequired(req \ inherited) = NumRequired(req)
      BY <1>5, RequirementFacts DEF NumRequired
    <3>2. \A a \in Ready(Q) : a \in A.independent <=> a \in R.independent
      BY <1>1, <1>10
    <3>3. h \in A.independent <=> inherited = {}
      BY <1>1, <1>10 DEF Linked
    <3> QED BY <3>1, <3>2, <3>3, <1>1, <1>8, <1>9, <1>10 DEF Linked
  <2>2. ASSUME NEW b \in Ready(A) \ A.independent
        PROVE  /\ A.ready_tx[b].requires_offset = 0
               /\ \E a \in Ready(A) : b \in A.ready_tx[a].unlocks
    <3>1. CASE b = h
      <4>1. inherited # {}
        BY <2>2, <3>1, <1>10
      <4>2. PICK m \in req : m \in DOMAIN R.provided_markers
        BY <4>1, <1>5
      <4>3. req = {m} /\ m # Provides(h)
        BY <4>2, RequirementFacts
      <4>4. PICK a \in Ready(R) : m = Provides(a) /\ R.provided_markers[m] = a
        BY <4>2 DEF Indexed
      <4>5. a \in Ready(Q) /\ a \in Providers(R, req)
        BY <4>2, <4>3, <4>4, <1>1, <1>3 DEF Providers
      <4>6. req \ inherited = {}
        BY <4>2, <4>3, <1>5
      <4> QED BY <4>5, <4>6, <3>1, <1>8, <1>9, <1>10 DEF NumRequired
    <3>2. CASE b \in Ready(Q)
      <4>1. b \in Ready(R) \ R.independent /\ b \notin old
        BY <3>2, <2>2, <1>1, <1>10
      <4>2. PICK a \in Ready(R) : b \in R.ready_tx[a].unlocks
        BY <4>1 DEF Linked
      <4>3. CASE a \in old
        BY <4>2, <4>3, <4>1, <3>2, <1>8, <1>9, <1>10 DEF unlocked, Linked
      <4>4. CASE a \notin old
        BY <4>1, <4>2, <4>4, <3>2, <1>1, <1>9, <1>10 DEF Linked
      <4> QED BY <4>3, <4>4
    <3> QED BY <3>1, <3>2, <1>10
  <2>3. ASSUME NEW a \in Ready(A), NEW b \in A.ready_tx[a].unlocks
        PROVE  /\ b \in Ready(A) \ A.independent
               /\ A.ready_tx[b].requires = {Provides(a)}
    <3>1. CASE a = h
      <4>1. PICK o \in old : b \in R.ready_tx[o].unlocks
        BY <2>3, <3>1, <1>8, <1>10 DEF unlocked
      <4>2. /\ b \in Ready(R) \ R.independent
            /\ R.ready_tx[b].requires = {Provides(o)}
            /\ Provides(o) = Provides(h)
        BY <4>1, <1>3, <1>4 DEF Linked
      <4>3. b \notin old
        BY <4>2, <1>3, RequirementFacts DEF IsReady
      <4> QED BY <4>2, <4>3, <3>1, <1>1, <1>9, <1>10
    <3>2. CASE a \in Ready(Q) /\ b # h
      <4>1. b \in R.ready_tx[a].unlocks \ old
        BY <3>2, <2>3, <1>9, <1>10
      <4> QED BY <4>1, <3>2, <1>1, <1>9, <1>10 DEF Linked
    <3>3. CASE a \in Ready(Q) /\ b = h
      <4>1. a \in Providers(R, req)
        BY <3>3, <2>3, <1>1, <1>9, <1>10 DEF Linked
      <4>2. PICK m \in req : m \in DOMAIN R.provided_markers /\ a = R.provided_markers[m]
        BY <4>1 DEF Providers
      <4>3. req = {m} /\ m = Provides(a) /\ inherited # {}
        BY <4>2, RequirementFacts, <1>5 DEF Indexed
      <4> QED BY <4>3, <3>3, <1>1, <1>8, <1>10 DEF Linked
    <3> QED BY <3>1, <3>2, <3>3, <1>10
  <2> QED BY <2>1, <2>2, <2>3 DEF Linked
<1> QED BY <1>1, <1>10, <1>11, <1>12, <1>13 DEF A, old

-----------------------------------------------------------------------------
(***************************************************************************)
(* Iterating over the ready queue                                           *)
(***************************************************************************)

\* The iterator leaves nothing out: a transaction that is not independent
\* hangs on one with a lower nonce, so the least nonce that the iterator
\* would miss cannot exist.
LEMMA VisitsAll ==
  ASSUME NEW R, WellFormedReady(R)
  PROVE  Visited(R) = Ready(R)
<1> USE DEF WellFormedReady
<1>1. SUFFICES ASSUME NEW S \in SUBSET Ready(R),
                      R.independent \cap Ready(R) \subseteq S,
                      \A t \in S : R.ready_tx[t].unlocks \cap Ready(R) \subseteq S,
                      NEW h \in Ready(R), h \notin S
               PROVE  FALSE
  BY DEF Visited
<1> DEFINE T == {Nonce[g] : g \in Ready(R) \ S}
<1>2. T \subseteq Nat /\ T # {}
  BY <1>1, TxAssumption DEF IsReady
<1>3. PICK n \in T : \A k \in T : ~(<<k, n>> \in OpToRel(<, Nat))
  BY <1>2, NatLessThanWellFounded, WFMin
<1>4. \A k \in T : ~(k < n)
  BY <1>2, <1>3 DEF OpToRel
<1>5. PICK b \in Ready(R) \ S : Nonce[b] = n
  BY <1>3
<1>6. PICK a \in Ready(R) : b \in R.ready_tx[a].unlocks
  BY <1>1, <1>5 DEF Linked
<1>7. a \notin S
  BY <1>1, <1>5, <1>6
<1>8. /\ R.ready_tx[b].requires = {Provides(a)}
      /\ R.ready_tx[b].requires \in Requirements(b)
      /\ a \in Hash /\ b \in Hash
  BY <1>5, <1>6 DEF Linked, IsReady
<1>9. Nonce[b] = Nonce[a] + 1
  BY <1>8, RequirementFacts
<1>10. Nonce[a] \in T /\ Nonce[a] < n
  BY <1>5, <1>7, <1>8, <1>9, TxAssumption
<1> QED BY <1>4, <1>10

-----------------------------------------------------------------------------
(***************************************************************************)
(* The waiting queue                                                        *)
(***************************************************************************)

\* Checking off a marker unlocks exactly the transactions that require it.
LEMMA MarkAndUnlock ==
  ASSUME NEW P, WellFormedPending(P), NEW m
  PROVE  /\ WellFormedPending(mark_and_unlock(P, m))
         /\ Unlocked(P, m) = {h \in Waiting(P) : m \in P.waiting_queue[h].requires}
         /\ Unlocked(P, m) = WaitingFor(P, m)
         /\ Waiting(mark_and_unlock(P, m)) = Waiting(P) \ Unlocked(P, m)
         /\ DOMAIN mark_and_unlock(P, m).required_markers = DOMAIN P.required_markers \ {m}
         /\ m \notin DOMAIN P.required_markers => mark_and_unlock(P, m) = P
<1> DEFINE Q == mark_and_unlock(P, m)
           U == Unlocked(P, m)
<1> USE DEF WellFormedPending
<1>1. \A h \in Waiting(P) : /\ P.waiting_queue[h].missing = P.waiting_queue[h].requires
                            /\ m \in P.waiting_queue[h].requires => P.waiting_queue[h].requires = {m}
                            /\ P.waiting_queue[h].requires # {}
  BY RequirementFacts DEF IsPending, WaitingIndexed
<1>2. WaitingFor(P, m) = {h \in Waiting(P) : m \in P.waiting_queue[h].requires}
  BY <1>1 DEF WaitingFor, WaitingIndexed
<1>3. U = WaitingFor(P, m)
  BY <1>1, <1>2 DEF Unlocked
<1>4. [h \in Waiting(P) \ U |->
         [requires |-> P.waiting_queue[h].requires,
          missing  |-> P.waiting_queue[h].missing \ (IF h \in WaitingFor(P, m) THEN {m} ELSE {})]]
      = [h \in Waiting(P) \ U |-> P.waiting_queue[h]]
  <2>1. SUFFICES ASSUME NEW h \in Waiting(P) \ U
                 PROVE  [requires |-> P.waiting_queue[h].requires,
                         missing  |-> P.waiting_queue[h].missing \
                                        (IF h \in WaitingFor(P, m) THEN {m} ELSE {})]
                        = P.waiting_queue[h]
    OBVIOUS
  <2>2. h \notin WaitingFor(P, m) /\ P.waiting_queue[h] \in PendingEntry
    BY <1>3 DEF IsPending
  <2> QED BY <2>2 DEF PendingEntry
<1>5. Q = [required_markers |-> Without(P.required_markers, {m}),
           waiting_markers  |-> Without(P.waiting_markers, {Provides(h) : h \in U}),
           waiting_queue    |-> [h \in Waiting(P) \ U |-> P.waiting_queue[h]]]
  BY <1>4 DEF mark_and_unlock
<1> HIDE DEF U, Q
<1>6. /\ Waiting(Q) = Waiting(P) \ U
      /\ \A h \in Waiting(Q) : Q.waiting_queue[h] = P.waiting_queue[h]
      /\ DOMAIN Q.required_markers = DOMAIN P.required_markers \ {m}
      /\ \A k \in DOMAIN Q.required_markers : Q.required_markers[k] = P.required_markers[k]
      /\ DOMAIN Q.waiting_markers = DOMAIN P.waiting_markers \ {Provides(h) : h \in U}
      /\ \A k \in DOMAIN Q.waiting_markers : Q.waiting_markers[k] = P.waiting_markers[k]
  BY <1>5 DEF Waiting, Without, Restrict
<1>7. IsPending(Q)
  <2>1. /\ Q = [required_markers |-> Q.required_markers, waiting_markers |-> Q.waiting_markers,
                waiting_queue |-> Q.waiting_queue]
        /\ Q.required_markers = [k \in DOMAIN Q.required_markers |-> P.required_markers[k]]
        /\ Q.waiting_markers = [k \in DOMAIN Q.waiting_markers |-> P.waiting_markers[k]]
        /\ Q.waiting_queue = [h \in Waiting(Q) |-> P.waiting_queue[h]]
    BY <1>5 DEF Waiting, Without, Restrict
  <2>2. Q.required_markers \in [DOMAIN Q.required_markers -> SUBSET Hash]
    BY <2>1, <1>6 DEF IsPending
  <2>3. Q.waiting_markers \in [DOMAIN Q.waiting_markers -> Hash]
    BY <2>1, <1>6 DEF IsPending
  <2>4. Q.waiting_queue \in [Waiting(Q) -> PendingEntry]
    BY <2>1, <1>6 DEF IsPending
  <2> QED BY <2>1, <2>2, <2>3, <2>4, <1>6 DEF IsPending
<1>8. WaitingIndexed(Q)
  <2>1. \A h \in Waiting(Q) : m \notin Q.waiting_queue[h].missing
    BY <1>1, <1>2, <1>3, <1>6
  <2>2. DOMAIN Q.required_markers = UNION {Q.waiting_queue[h].missing : h \in Waiting(Q)}
    BY <2>1, <1>1, <1>2, <1>3, <1>6 DEF WaitingIndexed
  <2>3. ASSUME NEW k \in DOMAIN Q.required_markers
        PROVE  Q.required_markers[k] = {h \in Waiting(Q) : k \in Q.waiting_queue[h].missing}
    BY <1>1, <1>2, <1>3, <1>6 DEF WaitingIndexed
  <2>4. ASSUME NEW k \in DOMAIN Q.waiting_markers
        PROVE  Q.waiting_markers[k] \in Waiting(Q) /\ Provides(Q.waiting_markers[k]) = k
    BY <1>6 DEF WaitingIndexed
  <2> QED BY <2>2, <2>3, <2>4, <1>1, <1>6 DEF WaitingIndexed
<1>9. ASSUME m \notin DOMAIN P.required_markers PROVE Q = P
  <2>1. U = {}
    BY <1>3, <1>9 DEF WaitingFor
  <2>2. /\ Without(P.required_markers, {m}) = P.required_markers
        /\ Without(P.waiting_markers, {Provides(h) : h \in U}) = P.waiting_markers
        /\ [h \in Waiting(P) \ U |-> P.waiting_queue[h]] = P.waiting_queue
    BY <2>1, <1>9 DEF Without, Restrict, IsPending
  <2> QED BY <2>2, <1>5 DEF IsPending
<1> QED BY <1>2, <1>3, <1>6, <1>7, <1>8, <1>9 DEF U, Q

\* A transaction that waits for all it requires is indexed when it is added.
LEMMA AddToPending ==
  ASSUME NEW P, WellFormedPending(P), NEW h \in Hash \ Waiting(P),
         NEW req \in Requirements(h), req # {}
  PROVE  /\ WellFormedPending(pending_add(P, h, req, req))
         /\ Waiting(pending_add(P, h, req, req)) = Waiting(P) \cup {h}
         /\ DOMAIN pending_add(P, h, req, req).required_markers = DOMAIN P.required_markers \cup req
<1> DEFINE Q == pending_add(P, h, req, req)
<1> USE DEF WellFormedPending
<1>1. /\ Waiting(Q) = Waiting(P) \cup {h}
      /\ Q.waiting_queue[h] = [requires |-> req, missing |-> req]
      /\ \A g \in Waiting(P) : Q.waiting_queue[g] = P.waiting_queue[g]
      /\ Q.waiting_queue = [g \in Waiting(Q) |-> Q.waiting_queue[g]]
      /\ DOMAIN Q.required_markers = DOMAIN P.required_markers \cup req
      /\ Q.required_markers = [m \in DOMAIN P.required_markers \cup req |->
                                 WaitingFor(P, m) \cup (IF m \in req THEN {h} ELSE {})]
      /\ DOMAIN Q.waiting_markers = DOMAIN P.waiting_markers \cup {Provides(h)}
      /\ Q.waiting_markers = [m \in DOMAIN Q.waiting_markers |->
                                IF m = Provides(h) THEN h ELSE P.waiting_markers[m]]
      /\ Q = [required_markers |-> Q.required_markers, waiting_markers |-> Q.waiting_markers,
              waiting_queue |-> Q.waiting_queue]
  BY DEF pending_add, Waiting, Put
<1> HIDE DEF Q
<1>2. req \in SUBSET Marker /\ Provides(h) \in Marker
  BY RequirementType, ProvidesFacts
<1>3. \A m : WaitingFor(P, m) = {g \in Waiting(P) : m \in P.waiting_queue[g].missing}
  BY DEF WaitingFor, WaitingIndexed
<1>4. IsPending(Q)
  <2>1. Q.required_markers \in [DOMAIN Q.required_markers -> SUBSET Hash]
    BY <1>1, <1>3 DEF IsPending
  <2>2. Q.waiting_markers \in [DOMAIN Q.waiting_markers -> Hash]
    BY <1>1 DEF IsPending
  <2>3. Q.waiting_queue \in [Waiting(Q) -> PendingEntry]
    BY <1>1, <1>2 DEF IsPending, PendingEntry
  <2>4. \A g \in Waiting(Q) : Q.waiting_queue[g].requires \in Requirements(g)
    BY <1>1 DEF IsPending
  <2> QED BY <2>1, <2>2, <2>3, <2>4, <1>1, <1>2 DEF IsPending
<1>5. WaitingIndexed(Q)
  <2>1. \A g \in Waiting(Q) :
          Q.waiting_queue[g].missing = Q.waiting_queue[g].requires /\ Q.waiting_queue[g].missing # {}
    BY <1>1 DEF WaitingIndexed
  <2>2. DOMAIN Q.required_markers = UNION {Q.waiting_queue[g].missing : g \in Waiting(Q)}
    <3>1. Q.waiting_queue[h].missing = req
      BY <1>1
    <3>2. \A g \in Waiting(P) : Q.waiting_queue[g].missing = P.waiting_queue[g].missing
      BY <1>1
    <3>3. ASSUME NEW k
          PROVE  (\E g \in Waiting(Q) : k \in Q.waiting_queue[g].missing) <=>
                   k \in DOMAIN P.required_markers \cup req
      <4>1. k \in DOMAIN P.required_markers <=>
              \E g \in Waiting(P) : k \in P.waiting_queue[g].missing
        BY DEF WaitingIndexed
      <4>2. Waiting(Q) = Waiting(P) \cup {h}
        BY <1>1
      <4> QED BY <3>1, <3>2, <4>1, <4>2
    <3>4. DOMAIN Q.required_markers = DOMAIN P.required_markers \cup req
      BY <1>1
    <3> QED BY <3>3, <3>4
  <2>3. ASSUME NEW m \in DOMAIN Q.required_markers
        PROVE  Q.required_markers[m] = {g \in Waiting(Q) : m \in Q.waiting_queue[g].missing}
    BY <1>1, <1>3
  <2>4. ASSUME NEW m \in DOMAIN Q.waiting_markers
        PROVE  Q.waiting_markers[m] \in Waiting(Q) /\ Provides(Q.waiting_markers[m]) = m
    BY <1>1 DEF WaitingIndexed
  <2> QED BY <2>1, <2>2, <2>3, <2>4 DEF WaitingIndexed
<1> QED BY <1>1, <1>4, <1>5 DEF Q

\* Removing transactions from the waiting queue removes them from its indexes.
LEMMA RemoveFromPending ==
  ASSUME NEW P, WellFormedPending(P), NEW hashes
  PROVE  /\ WellFormedPending(pending_remove(P, hashes))
         /\ Waiting(pending_remove(P, hashes)) = Waiting(P) \ hashes
         /\ DOMAIN pending_remove(P, hashes).required_markers \subseteq DOMAIN P.required_markers
<1> DEFINE gone == hashes \cap Waiting(P)
           left(m) == {h \in P.required_markers[m] :
                         ~(h \in gone /\ m \in P.waiting_queue[h].missing)}
           kept == {m \in DOMAIN P.required_markers :
                      left(m) # {} \/ left(m) = P.required_markers[m]}
           Q == pending_remove(P, hashes)
<1> USE DEF WellFormedPending
<1>1. Q = [required_markers |-> [m \in kept |-> left(m)],
           waiting_markers  |-> Without(P.waiting_markers, {Provides(h) : h \in gone}),
           waiting_queue    |-> Without(P.waiting_queue, gone)]
  BY DEF pending_remove
<1>2. \A m \in DOMAIN P.required_markers :
        /\ left(m) = P.required_markers[m] \ gone
        /\ P.required_markers[m] # {}
        /\ left(m) \subseteq Hash
  BY DEF WaitingIndexed, IsPending
<1>3. kept = {m \in DOMAIN P.required_markers : left(m) # {}}
  BY <1>2
<1> HIDE DEF left, kept, Q, gone
<1>4. /\ Waiting(Q) = Waiting(P) \ gone
      /\ \A h \in Waiting(Q) : Q.waiting_queue[h] = P.waiting_queue[h]
      /\ DOMAIN Q.required_markers = kept
      /\ \A m \in kept : Q.required_markers[m] = P.required_markers[m] \ gone
      /\ DOMAIN Q.waiting_markers = DOMAIN P.waiting_markers \ {Provides(h) : h \in gone}
      /\ \A m \in DOMAIN Q.waiting_markers : Q.waiting_markers[m] = P.waiting_markers[m]
      /\ kept \subseteq DOMAIN P.required_markers
  BY <1>1, <1>2, <1>3 DEF Waiting, Without, Restrict
<1>5. IsPending(Q)
  <2>1. /\ Q = [required_markers |-> Q.required_markers, waiting_markers |-> Q.waiting_markers,
                waiting_queue |-> Q.waiting_queue]
        /\ Q.required_markers = [m \in kept |-> left(m)]
        /\ Q.waiting_markers = [m \in DOMAIN Q.waiting_markers |-> P.waiting_markers[m]]
        /\ Q.waiting_queue = [h \in Waiting(Q) |-> P.waiting_queue[h]]
    BY <1>1 DEF Waiting, Without, Restrict
  <2>2. Q.required_markers \in [DOMAIN Q.required_markers -> SUBSET Hash]
    BY <2>1, <1>2, <1>4
  <2>3. Q.waiting_markers \in [DOMAIN Q.waiting_markers -> Hash]
    BY <2>1, <1>4 DEF IsPending
  <2>4. Q.waiting_queue \in [Waiting(Q) -> PendingEntry]
    BY <2>1, <1>4 DEF IsPending
  <2> QED BY <2>1, <2>2, <2>3, <2>4, <1>4 DEF IsPending
<1>6. WaitingIndexed(Q)
  <2>1. DOMAIN Q.required_markers = UNION {Q.waiting_queue[h].missing : h \in Waiting(Q)}
    BY <1>2, <1>3, <1>4 DEF WaitingIndexed
  <2>2. ASSUME NEW m \in DOMAIN Q.required_markers
        PROVE  Q.required_markers[m] = {h \in Waiting(Q) : m \in Q.waiting_queue[h].missing}
    BY <1>4 DEF WaitingIndexed
  <2>3. ASSUME NEW m \in DOMAIN Q.waiting_markers
        PROVE  Q.waiting_markers[m] \in Waiting(Q) /\ Provides(Q.waiting_markers[m]) = m
    BY <1>4 DEF WaitingIndexed
  <2> QED BY <2>1, <2>2, <2>3, <1>4 DEF WaitingIndexed
<1> QED BY <1>4, <1>5, <1>6 DEF gone, Q

=============================================================================
