-------------------------- MODULE KvetchQueryProofs --------------------------
(* Proofs about KvetchQuery, for any processes, readers, shards, schema    *)
(* and inputs, on top of what KvetchProofs proves of the mutations.        *)
EXTENDS KvetchQuery, KvetchProofs, OrdersProofs

(* The queries take no part in the store: every step of the composition    *)
(* is a step of Kvetch or leaves Kvetch alone.                             *)
LEMMA QueriesOnlyRead == [QNext]_qvars => [Next]_vars
<1> SUFFICES ASSUME QNext PROVE [Next]_vars
  BY DEF qvars, vars
<1>1. ASSUME NEW p \in Procs, MutationStep(p) PROVE Next
  BY <1>1 DEF MutationStep, Next, Fault
<1>2. ASSUME NEW p \in Readers, QueryStep(p) PROVE UNCHANGED vars
  BY <1>2 DEF QueryStep, AskIndex, AskEdges, ScanShard, Lookup, ReadEdges, FetchShard, Answer
<1> QED BY <1>1, <1>2 DEF QNext

(* Beside queries the mutations are those of Kvetch, and keep its          *)
(* invariants.                                                             *)
THEOREM QueriesKeepStore == QSpec => [](TypeOK /\ IInv /\ DerivedFromCanonical)
<1>1. QInit => Init
  BY DEF QInit
<1>2. Spec => []DerivedFromCanonical
  BY DerivedFromCanonicalCorrect
<1> QED BY <1>1, <1>2, QueriesOnlyRead, Invariance, PTL DEF QSpec, Spec

-----------------------------------------------------------------------------
(* What is asked of a query's record as it changes.                        *)

(* A query record of typed fields is a query.                              *)
LEMMA QueryFields ==
  ASSUME NEW phase \in {"entries", "objects"}, NEW kind \in {"scan", "lookup", "assoc"},
         NEW d \in Def, NEW value \in Values, NEW at \in Shards, NEW due \in SUBSET Ids,
         NEW todo \in SUBSET Ids, NEW got \in SUBSET Ids, NEW gone \in SUBSET Ids
  PROVE  [phase |-> phase, kind |-> kind, def |-> d, value |-> value, at |-> at, due |-> due,
          todo |-> todo, got |-> got, gone |-> gone] \in Query
  BY DEF Query

(* A reader that is in a query is in a typed one.                          *)
LEMMA InQuery ==
  ASSUME QueryTypeOK, NEW p \in Readers, query[p].phase # "none"
  PROVE  query[p] \in Query /\ query[p] # NoQuery
  BY DEF QueryTypeOK, NoQuery

(* Without a step of the store a query's invariant is what it was.         *)
LEMMA StoreStill ==
  ASSUME UNCHANGED vars, NEW r, QueryInv(r)
  PROVE  QueryInv(r)'
  BY DEF vars, QueryInv, Matches, ScanAhead, EdgesAhead, NoneDropped, EdgesFollowed, EdgeTargets,
         NothingYet, Live, Row

(* Objects keep what they were inserted with.                              *)
LEMMA MatchesKept ==
  ASSUME BornStays, NEW r, NEW id \in Ids, Matches(r, id)
  PROVE  Matches(r, id)'
  BY DEF BornStays, Matches

(* Edges stay, so a source keeps what its edges lead to.                   *)
LEMMA TargetsKept ==
  ASSUME EdgesGrow, NEW d, NEW from \in Ids
  PROVE  EdgeTargets(d, from) \subseteq EdgeTargets(d, from)'
<1>1. ShardOf(from) \in Shards /\ ShardOf(from)' = ShardOf(from)
  BY ShardOfId DEF ShardOf
<1> QED BY <1>1 DEF EdgesGrow, EdgeTargets

(* Whatever another process does, what a query counts on stays true: its   *)
(* due objects keep their edges, and their index entries while they are    *)
(* there; one that was gone does not come back.                            *)
LEMMA QueryKept ==
  ASSUME TypeOK, IInv, NEW q \in Procs, Action(q), NEW r \in Query, QueryInv(r)
  PROVE  QueryInv(r)'
<1>a. EdgesGrow /\ BornStays /\ DeadStays /\ EntriesStay
  BY StepFactsHold DEF StepFacts
<1>b. /\ r.due \subseteq Ids
      /\ r.todo \subseteq Ids
      /\ r.gone \subseteq Ids
      /\ r.value \in Values
  BY DEF Query
<1>1. \A id \in r.due : /\ Matches(r, id)
                        /\ Matches(r, id)'
                        /\ born'[id] = born[id]
                        /\ Live(id)' => Live(id)
  BY <1>a, <1>b, MatchesKept DEF QueryInv, Matches, BornStays, DeadStays
<1>2. ScanAhead(r)'
  <2> SUFFICES ASSUME r.phase = "entries", r.kind = "scan",
                      NEW id \in r.due, Live(id)', id \notin r.todo
               PROVE  \E s \in Shards : /\ r.at <= s
                                        /\ IndexRow(r.def, born'[id], id) \in indexes'[s]
    BY DEF ScanAhead
  <2>1. PICK s \in Shards : r.at <= s /\ IndexRow(r.def, born[id], id) \in indexes[s]
    BY <1>1 DEF QueryInv, ScanAhead
  <2>2. IndexRow(r.def, born[id], id).target = id
    BY DEF IndexRow
  <2>3. IndexRow(r.def, born[id], id) \in indexes'[s]
    BY <1>a, <1>1, <2>1, <2>2 DEF EntriesStay, Matches
  <2> QED BY <1>1, <2>1, <2>3
<1>3. EdgesAhead(r)'
  <2> SUFFICES ASSUME r.phase = "entries", r.kind = "assoc"
               PROVE  /\ r.value \in Ids
                      /\ \A id \in r.due :
                           EdgeRow(r.def, born'[id], id) \in edges'[ShardOf(r.value)]
    BY DEF EdgesAhead
  <2>1. r.value \in Ids /\ \A id \in r.due :
                              EdgeRow(r.def, born[id], id) \in edges[ShardOf(r.value)]
    BY DEF QueryInv, EdgesAhead
  <2>2. ShardOf(r.value) \in Shards
    BY <2>1, ShardOfId
  <2> QED BY <1>a, <1>1, <2>1, <2>2 DEF EdgesGrow
<1>4. NoneDropped(r)'
  BY <1>1 DEF QueryInv, NoneDropped
<1>5. EdgesFollowed(r)'
  <2> SUFFICES ASSUME r.phase = "objects", r.kind = "assoc"
               PROVE  EdgesFollowed(r)'
    BY DEF EdgesFollowed
  <2>1. EdgesFollowed(r)
    BY DEF QueryInv
  <2>2. EdgeTargets(r.def, r.value) \subseteq EdgeTargets(r.def, r.value)'
    BY <1>a, <2>1, TargetsKept DEF EdgesFollowed
  <2>3. \A id \in r.gone : born'[id] # Null /\ ~Live(id)'
    BY <1>a, <1>b, <2>1 DEF EdgesFollowed, BornStays, DeadStays
  <2> QED BY <2>1, <2>2, <2>3 DEF EdgesFollowed
<1>6. NothingYet(r)'
  BY DEF QueryInv, NothingYet
<1> QED BY <1>1, <1>2, <1>3, <1>4, <1>5, <1>6 DEF QueryInv

-----------------------------------------------------------------------------
(* The steps of a query, on its record: each keeps what the query counts on *)
(* in the store as it is.                                                  *)

(* A query starts with its due objects' entries, or edges, all ahead of it. *)
LEMMA AskInv ==
  ASSUME TypeOK, IInv, QueryTypeOK, QIInv, NEW p \in Readers,
         AskIndex(p) \/ AskEdges(p)
  PROVE  query'[p] \in Query /\ QueryInv(query'[p])
<1>0. 0 \in Shards
  BY ConstantsAssumption DEF Shards
<1>1. ASSUME NEW kind \in {"scan", "lookup", "assoc"}, NEW d \in Def, NEW value \in Values,
             Ask(p, kind, d, value),
             kind = "assoc" => value \in Ids /\ \E j \in DOMAIN EdgeDefs : d = EdgeDefs[j],
             kind # "assoc" => \E j \in DOMAIN IndexDefs : d = IndexDefs[j]
      PROVE  query'[p] \in Query /\ QueryInv(query'[p])
  <2> DEFINE r == [phase |-> "entries", kind |-> kind, def |-> d, value |-> value, at |-> 0,
                   due |-> Due(d, value), todo |-> {}, got |-> {}, gone |-> {}]
  <2>1. query'[p] = r
    BY <1>1 DEF Ask, QueryTypeOK
  <2>2. Due(d, value) \in SUBSET Ids
    BY DEF Due
  <2>3. r \in Query
    BY <1>0, <2>2, QueryFields
  <2>4. ASSUME NEW id \in Due(d, value)
        PROVE  /\ Matches(r, id)
               /\ Applicable(d, born[id])
               /\ how[id] = "done" /\ Live(id)
    <3>1. how[id] = "done" /\ Live(id) /\ born[id].type = d.type /\ born[id].data[d.attr] = value
      BY DEF Due
    <3>2. born[id] # Null
      BY <2>2, <3>1 DEF IInv, HistoryInv
    <3>3. value \notin {Absent, Falsy}
      BY ConstantsAssumption
    <3> QED BY <3>1, <3>2, <3>3 DEF Matches, Applicable
  <2>5. ScanAhead(r)
    <3> SUFFICES ASSUME kind = "scan", NEW id \in Due(d, value)
                 PROVE  \E s \in Shards : 0 <= s /\ IndexRow(d, born[id], id) \in indexes[s]
      BY DEF ScanAhead
    <3>1. PICK j \in DOMAIN IndexDefs : d = IndexDefs[j]
      BY <1>1
    <3>2. HasEntry(id, j)
      BY <2>2, <2>4 DEF IInv, IndexesComplete, HasIndexEntries
    <3>3. PICK s \in Shards : IndexRow(d, born[id], id) \in indexes[s]
      BY <2>4, <3>1, <3>2 DEF HasEntry
    <3> QED BY <3>3, ConstantsAssumption DEF Shards
  <2>6. EdgesAhead(r)
    <3> SUFFICES ASSUME kind = "assoc", NEW id \in Due(d, value)
                 PROVE  EdgeRow(d, born[id], id) \in edges[ShardOf(value)]
      BY <1>1 DEF EdgesAhead
    <3>1. PICK j \in DOMAIN EdgeDefs : d = EdgeDefs[j]
      BY <1>1
    <3>2. HasEdge(id, j)
      BY <2>2, <2>4 DEF IInv, EdgesComplete, HasEdges
    <3>3. EdgeRow(d, born[id], id).from = value
      BY <2>4 DEF Matches, EdgeRow
    <3> QED BY <2>4, <3>1, <3>2, <3>3 DEF HasEdge
  <2>7. NoneDropped(r) /\ EdgesFollowed(r) /\ NothingYet(r)
    BY DEF NoneDropped, EdgesFollowed, NothingYet
  <2> QED BY <2>1, <2>3, <2>4, <2>5, <2>6, <2>7 DEF QueryInv
<1>2. CASE AskIndex(p)
  <2>1. PICK kind \in Queries \cap {"scan", "lookup"}, j \in DOMAIN IndexDefs,
             value \in Values \ Ids : Ask(p, kind, IndexDefs[j], value)
    BY <1>2 DEF AskIndex
  <2> QED BY <1>1, <2>1, DefsTyped
<1>3. CASE AskEdges(p)
  <2>1. PICK j \in DOMAIN EdgeDefs, from \in Ids \ Unborn : Ask(p, "assoc", EdgeDefs[j], from)
    BY <1>3 DEF AskEdges
  <2>2. from \in Values
    BY <2>1, ConstantsAssumption
  <2> QED BY <1>1, <2>1, <2>2, DefsTyped
<1> QED BY <1>2, <1>3

(* Index entries and edges lead to ids.                                    *)
LEMMA TargetsTyped ==
  ASSUME TypeOK, NEW s \in Shards, NEW d, NEW value
  PROVE  /\ IndexTargets(s, d, value) \subseteq Ids
         /\ value \in Ids => EdgeTargets(d, value) \subseteq Ids
<1>1. IndexTargets(s, d, value) \subseteq Ids
  BY DEF IndexTargets, TypeOK, StoresOK
<1>2. ASSUME value \in Ids PROVE EdgeTargets(d, value) \subseteq Ids
  BY <1>2, ShardOfId DEF EdgeTargets, TypeOK, StoresOK
<1> QED BY <1>1, <1>2

(* The scan of one shard takes its entries along, so the rest of the due   *)
(* objects' entries is on the shards after it.                             *)
LEMMA ScanShardInv ==
  ASSUME TypeOK, QueryTypeOK, QIInv, NEW p \in Readers, ScanShard(p)
  PROVE  query'[p] \in Query /\ QueryInv(query'[p])
<1> DEFINE r == query[p]
           ids == r.todo \cup IndexTargets(r.at, r.def, r.value)
           next == [r EXCEPT !.todo = ids, !.at = r.at + 1]
           last == [r EXCEPT !.todo = ids, !.phase = "objects"]
<1>1. r \in Query /\ QueryInv(r) /\ r.phase = "entries" /\ r.kind = "scan"
  BY InQuery DEF ScanShard, Reading, QIInv
<1>2. /\ r.at \in Shards /\ r.at \in Nat /\ NumShards \in Nat
      /\ r.due \subseteq Ids /\ r.todo \subseteq Ids
  BY <1>1, ConstantsAssumption DEF Query, Shards
<1>3. query'[p] = IF r.at + 1 < NumShards THEN next ELSE last
  BY DEF ScanShard, Fetch, Extend, QueryTypeOK
<1>4. ids \subseteq Ids
  BY <1>2, TargetsTyped
<1>5. ASSUME NEW id \in r.due, Live(id), id \notin ids
      PROVE  \E s \in Shards : r.at + 1 <= s /\ IndexRow(r.def, born[id], id) \in indexes[s]
  <2>1. PICK s \in Shards : r.at <= s /\ IndexRow(r.def, born[id], id) \in indexes[s]
    BY <1>1, <1>5 DEF QueryInv, ScanAhead
  <2>2. Matches(r, id)
    BY <1>1 DEF QueryInv
  <2>3. s # r.at
    <3> DEFINE row == IndexRow(r.def, born[id], id)
    <3>1. row.index = r.def.name /\ row.value = r.value /\ row.target = id
      BY <2>2 DEF IndexRow, Matches
    <3> QED BY <1>5, <2>1, <3>1 DEF IndexTargets
  <2>4. s \in Nat
    BY DEF Shards
  <2> QED BY <1>2, <2>1, <2>3, <2>4
<1>6. CASE r.at + 1 < NumShards
  <2>1. r.at + 1 \in Shards
    BY <1>2, <1>6 DEF Shards
  <2>2. /\ next \in Query
        /\ next.phase = "entries" /\ next.kind = "scan" /\ next.at = r.at + 1
        /\ next.todo = ids /\ next.due = r.due /\ next.got = r.got /\ next.gone = r.gone
        /\ next.def = r.def /\ next.value = r.value
    BY <1>1, <1>4, <2>1 DEF Query
  <2>3. \A id : Matches(next, id) <=> Matches(r, id)
    BY <2>2 DEF Matches
  <2>4. ScanAhead(next)
    BY <1>5, <2>2 DEF ScanAhead
  <2>5. NothingYet(next)
    BY <1>1, <2>2 DEF QueryInv, NothingYet
  <2>6. \A id \in next.due : Matches(next, id)
    BY <1>1, <2>2, <2>3 DEF QueryInv
  <2> QED BY <1>3, <1>6, <2>2, <2>4, <2>5, <2>6
          DEF QueryInv, EdgesAhead, NoneDropped, EdgesFollowed
<1>7. CASE ~(r.at + 1 < NumShards)
  <2>2. /\ last \in Query
        /\ last.phase = "objects" /\ last.kind = "scan"
        /\ last.todo = ids /\ last.due = r.due /\ last.got = r.got
        /\ last.def = r.def /\ last.value = r.value
    BY <1>1, <1>4 DEF Query
  <2>3. \A id : Matches(last, id) <=> Matches(r, id)
    BY <2>2 DEF Matches
  <2>4. NoneDropped(last)
    <3>1. \A s \in Shards : ~(r.at + 1 <= s)
      BY <1>2, <1>7 DEF Shards
    <3> QED BY <1>5, <2>2, <3>1 DEF NoneDropped
  <2>6. \A id \in last.due : Matches(last, id)
    BY <1>1, <2>2, <2>3 DEF QueryInv
  <2> QED BY <1>3, <1>7, <2>2, <2>4, <2>6
          DEF QueryInv, EdgesAhead, ScanAhead, EdgesFollowed, NothingYet
<1> QED BY <1>6, <1>7

(* The rows of a query in one phase that moves to fetching what it read.    *)
LEMMA FetchTyped ==
  ASSUME QueryTypeOK, NEW p \in Readers, query[p] \in Query, NEW ids \in SUBSET Ids,
         Fetch(p, ids)
  PROVE  /\ query'[p] \in Query
         /\ query'[p].phase = "objects"
         /\ query'[p].todo = ids
         /\ query'[p].kind = query[p].kind
         /\ query'[p].due = query[p].due
         /\ query'[p].got = query[p].got
         /\ query'[p].gone = query[p].gone
         /\ query'[p].def = query[p].def
         /\ query'[p].value = query[p].value
<1> DEFINE new == [query[p] EXCEPT !.todo = ids, !.phase = "objects"]
<1>1. query'[p] = new
  BY DEF Fetch, QueryTypeOK
<1>2. new \in Query
  BY DEF Query
<1> QED BY <1>1, <1>2 DEF Query

(* The one object of a lookup is of an entry.                              *)
LEMMA LookupInv ==
  ASSUME TypeOK, QueryTypeOK, QIInv, NEW p \in Readers, Lookup(p)
  PROVE  query'[p] \in Query /\ QueryInv(query'[p])
<1> DEFINE r == query[p]
           targets == IndexTargets(hash[p][r.value], r.def, r.value)
<1>1. r \in Query /\ QueryInv(r) /\ r.phase = "entries" /\ r.kind = "lookup"
  BY InQuery DEF Lookup, Reading, QIInv
<1>2. hash[p][r.value] \in Shards
  <2>1. p \in Procs /\ hash[p] \in Hashes
    BY QueryAssumption DEF TypeOK, HistoryOK
  <2>2. hash[p] \in [Values -> Shards] /\ r.value \in Values
    BY <1>1, <2>1, ConstantsAssumption DEF Query
  <2> QED BY <2>2
<1>3. targets \subseteq Ids
  BY <1>2, TargetsTyped
<1>4. First(targets) \subseteq targets
  <2>1. targets # {} => Min(targets) \in targets
    BY <1>3, ConstantsAssumption, LeastNumber DEF Min
  <2> QED BY <2>1 DEF First
<1>5. Fetch(p, First(targets))
  BY DEF Lookup, SearchShard
<1>6. First(targets) \in SUBSET Ids
  BY <1>3, <1>4
<1>7. /\ query'[p] \in Query
      /\ query'[p].phase = "objects" /\ query'[p].kind = "lookup"
      /\ query'[p].todo = First(targets) /\ query'[p].due = r.due
      /\ query'[p].got = r.got /\ query'[p].def = r.def /\ query'[p].value = r.value
  BY <1>1, <1>5, <1>6, FetchTyped
<1>8. \A id : Matches(query'[p], id) <=> Matches(r, id)
  BY <1>7 DEF Matches
<1> QED BY <1>1, <1>7, <1>8 DEF QueryInv, ScanAhead, EdgesAhead, NoneDropped, EdgesFollowed,
                                NothingYet

(* The edges of a source lead to every due object.                         *)
LEMMA ReadEdgesInv ==
  ASSUME TypeOK, QueryTypeOK, QIInv, NEW p \in Readers, ReadEdges(p)
  PROVE  query'[p] \in Query /\ QueryInv(query'[p])
<1> DEFINE r == query[p]
           targets == EdgeTargets(r.def, r.value)
<1>1. r \in Query /\ QueryInv(r) /\ r.phase = "entries" /\ r.kind = "assoc"
  BY InQuery DEF ReadEdges, Reading, QIInv
<1>2. /\ r.value \in Ids
      /\ \A id \in r.due : EdgeRow(r.def, born[id], id) \in edges[ShardOf(r.value)]
  BY <1>1 DEF QueryInv, EdgesAhead
<1>3. targets \in SUBSET Ids
  BY <1>2, ShardOfId, TargetsTyped
<1>4. r.due \subseteq targets
  <2> SUFFICES ASSUME NEW id \in r.due PROVE id \in targets
    OBVIOUS
  <2> DEFINE row == EdgeRow(r.def, born[id], id)
  <2>1. row.edge = r.def.name /\ row.from = r.value /\ row.to = id
    BY <1>1 DEF EdgeRow, QueryInv, Matches
  <2> QED BY <1>2, <2>1 DEF EdgeTargets
<1>5. Fetch(p, targets)
  BY DEF ReadEdges
<1>7. /\ query'[p] \in Query
      /\ query'[p].phase = "objects" /\ query'[p].kind = "assoc"
      /\ query'[p].todo = targets /\ query'[p].due = r.due
      /\ query'[p].got = r.got /\ query'[p].gone = r.gone
      /\ query'[p].def = r.def /\ query'[p].value = r.value
  BY <1>1, <1>3, <1>5, FetchTyped
<1>8. \A id : Matches(query'[p], id) <=> Matches(r, id)
  BY <1>7 DEF Matches
<1>9. EdgesFollowed(query'[p])
  BY <1>1, <1>2, <1>4, <1>7 DEF QueryInv, NothingYet, EdgesFollowed
<1> QED BY <1>1, <1>7, <1>8, <1>9 DEF QueryInv, ScanAhead, EdgesAhead, NoneDropped, NothingYet

(* An edge leads to an object that was inserted.                           *)
LEMMA TargetsBorn ==
  ASSUME TypeOK, DerivedFromCanonical, NEW d, NEW from \in Ids, NEW id \in EdgeTargets(d, from)
  PROVE  born[id] # Null
<1>1. PICK row \in edges[ShardOf(from)] : row.to = id
  BY DEF EdgeTargets
<1> QED BY <1>1, ShardOfId DEF DerivedFromCanonical, EdgeFromCanonical

(* The objects of one shard that are there are fetched, and only an object  *)
(* that has been deleted is answered with None.                            *)
LEMMA FetchShardInv ==
  ASSUME TypeOK, DerivedFromCanonical, QueryTypeOK, QIInv, NEW p \in Readers, FetchShard(p)
  PROVE  query'[p] \in Query /\ QueryInv(query'[p])
<1> DEFINE r == query[p]
<1>1. r \in Query /\ QueryInv(r) /\ r.phase = "objects"
  BY InQuery DEF FetchShard, QIInv
<1>2. PICK here \in SUBSET r.todo, found \in SUBSET r.todo :
        /\ {id \in here : Live(id)} \subseteq found
        /\ query' = [query EXCEPT ![p].todo = r.todo \ here,
                                  ![p].got = r.got \cup found,
                                  ![p].gone = r.gone \cup (here \ found)]
  <2>1. PICK s \in {ShardOf(id) : id \in r.todo} :
          \E cached \in IF r.kind = "scan" THEN {{}}
                       ELSE SUBSET {id \in r.todo : ShardOf(id) = s} :
          LET here == {id \in r.todo : ShardOf(id) = s}
              found == {id \in here : Live(id)} \cup cached
          IN  query' = [query EXCEPT ![p].todo = @ \ here,
                                     ![p].got = @ \cup found,
                                     ![p].gone = @ \cup (here \ found)]
    BY DEF FetchShard
  <2> DEFINE here == {id \in r.todo : ShardOf(id) = s}
  <2>2. PICK cached \in SUBSET here :
          query' = [query EXCEPT ![p].todo = @ \ here,
                                 ![p].got = @ \cup ({id \in here : Live(id)} \cup cached),
                                 ![p].gone = @ \cup (here \ ({id \in here : Live(id)} \cup cached))]
    BY <2>1
  <2> QED BY <2>2
<1> DEFINE new == [r EXCEPT !.todo = r.todo \ here, !.got = r.got \cup found,
                            !.gone = r.gone \cup (here \ found)]
<1>3. query'[p] = new
  BY <1>2 DEF QueryTypeOK
<1>4. /\ new \in Query
      /\ new.phase = "objects" /\ new.kind = r.kind
      /\ new.todo = r.todo \ here /\ new.due = r.due /\ new.got = r.got \cup found
      /\ new.gone = r.gone \cup (here \ found) /\ new.def = r.def /\ new.value = r.value
  BY <1>1 DEF Query
<1>5. \A id : Matches(new, id) <=> Matches(r, id)
  BY <1>4 DEF Matches
<1>6. NoneDropped(new)
  BY <1>1, <1>2, <1>4 DEF QueryInv, NoneDropped
<1>7. EdgesFollowed(new)
  <2> SUFFICES ASSUME r.kind = "assoc"
               PROVE  EdgesFollowed(new)
    BY <1>4 DEF EdgesFollowed
  <2>1. EdgesFollowed(r)
    BY <1>1 DEF QueryInv
  <2>2. \A id \in here \ found : born[id] # Null /\ ~Live(id)
    BY <1>1, <1>2, <2>1, TargetsBorn DEF EdgesFollowed
  <2> QED BY <1>1, <1>4, <2>1, <2>2 DEF EdgesFollowed
<1> QED BY <1>1, <1>3, <1>4, <1>5, <1>6, <1>7 DEF QueryInv, ScanAhead, EdgesAhead, NothingYet

(* An answered query, or one whose process died, is over.                  *)
LEMMA QueryOver ==
  ASSUME QueryTypeOK, NEW p \in Readers, query' = [query EXCEPT ![p] = NoQuery]
  PROVE  /\ QueryTypeOK'
         /\ query'[p] = NoQuery
         /\ \A other \in Readers \ {p} : query'[other] = query[other]
  BY DEF QueryTypeOK

-----------------------------------------------------------------------------
(* Every step keeps the inductive invariant.                               *)
LEMMA QueryInvNext ==
  ASSUME TypeOK, IInv, DerivedFromCanonical, QueryTypeOK, QIInv, [QNext]_qvars
  PROVE  QueryTypeOK' /\ QIInv'
<1>1. CASE UNCHANGED qvars
  <2>1. UNCHANGED vars /\ query' = query
    BY <1>1 DEF qvars
  <2>2. ASSUME NEW p \in Readers, query'[p] # NoQuery PROVE QueryInv(query[p])'
    <3>1. PICK r : r = query[p]
      OBVIOUS
    <3>2. QueryInv(r)'
      BY <2>1, <2>2, <3>1, StoreStill DEF QIInv
    <3> QED BY <2>1, <3>1, <3>2
  <2>3. QueryTypeOK'
    BY <2>1 DEF QueryTypeOK
  <2>4. QIInv'
    BY <2>2 DEF QIInv
  <2> QED BY <2>3, <2>4
<1>2. ASSUME NEW q \in Procs, Action(q), NEW R \in SUBSET Readers,
             \A p \in R : query'[p] = query[p],
             \A p \in Readers \ R : query'[p] = NoQuery,
             QueryTypeOK'
      PROVE  QueryTypeOK' /\ QIInv'
  <2>1. ASSUME NEW p \in Readers, query'[p] # NoQuery PROVE QueryInv(query[p])'
    <3>1. PICK r \in Query : r = query[p]
      BY <1>2, <2>1 DEF QueryTypeOK
    <3>2. QueryInv(r)'
      BY <1>2, <2>1, <3>1, QueryKept DEF QIInv
    <3> QED BY <1>2, <2>1, <3>1, <3>2
  <2> QED BY <1>2, <2>1 DEF QIInv
<1>3. ASSUME NEW p \in Procs, MutationStep(p) PROVE QueryTypeOK' /\ QIInv'
  <2>1. Action(p)
    BY <1>3 DEF MutationStep, Action, Fault
  <2>2. CASE UNCHANGED query
    <3>1. QueryTypeOK'
      BY <2>2 DEF QueryTypeOK
    <3> QED BY <1>2, <2>1, <2>2, <3>1
  <2>3. CASE p \in Readers /\ query' = [query EXCEPT ![p] = NoQuery]
    BY <1>2, <2>1, <2>3, QueryOver
  <2> QED BY <1>3, <2>2, <2>3 DEF MutationStep
<1>4. ASSUME NEW p \in Readers, QueryStep(p) PROVE QueryTypeOK' /\ QIInv'
  <2>1. UNCHANGED vars
    BY <1>4 DEF QueryStep, AskIndex, AskEdges, ScanShard, Lookup, ReadEdges, FetchShard, Answer
  <2>2. /\ QueryTypeOK'
        /\ \A other \in Readers \ {p} : query'[other] = query[other]
        /\ query'[p] # NoQuery => query'[p] \in Query /\ QueryInv(query'[p])
    <3>1. CASE Answer(p)
      BY <3>1, QueryOver DEF Answer
    <3>2. CASE ~Answer(p)
      <4>1. query'[p] \in Query /\ QueryInv(query'[p])
        BY <1>4, <3>2, AskInv, ScanShardInv, LookupInv, ReadEdgesInv, FetchShardInv DEF QueryStep
      <4>2. \E new : query' = [query EXCEPT ![p] = new]
        BY <1>4, <3>2 DEF QueryStep, AskIndex, AskEdges, Ask, ScanShard, Lookup, ReadEdges,
                          FetchShard, Fetch
      <4> QED BY <4>1, <4>2 DEF QueryTypeOK
    <3> QED BY <3>1, <3>2
  <2>3. ASSUME NEW other \in Readers, query'[other] # NoQuery PROVE QueryInv(query[other])'
    <3>1. PICK r : r = query'[other]
      OBVIOUS
    <3>2. QueryInv(r)
      BY <2>2, <2>3, <3>1 DEF QIInv
    <3>3. QueryInv(r)'
      BY <2>1, <3>2, StoreStill
    <3> QED BY <3>1, <3>3
  <2> QED BY <2>2, <2>3 DEF QIInv
<1> QED BY <1>1, <1>3, <1>4 DEF QNext

(* No reader is in a query to begin with.                                  *)
LEMMA QueryInvInit == QInit => QueryTypeOK /\ QIInv
  BY DEF QInit, QueryTypeOK, QIInv

(* The inductive invariant holds in every reachable state, for any         *)
(* interleaving of queries with inserts, updates, deletes and faults.      *)
LEMMA QueryInvariance == QSpec => [](QueryTypeOK /\ QIInv)
<1>1. TypeOK /\ IInv /\ DerivedFromCanonical /\ QueryTypeOK /\ QIInv /\ [QNext]_qvars
        => QueryTypeOK' /\ QIInv'
  BY QueryInvNext
<1> QED BY <1>1, QueryInvInit, QueriesKeepStore, PTL DEF QSpec

(* Queries stay well-typed through every phase and every restart.          *)
THEOREM QueryTypeCorrect == QSpec => []QueryTypeOK
  BY QueryInvariance, PTL

(* An answered query has fetched everything it read.                       *)
LEMMA AnsweredQuery ==
  ASSUME QueryTypeOK, QIInv, NEW p \in Readers, Answered(p)
  PROVE  /\ query[p] \in Query /\ QueryInv(query[p])
         /\ query[p].phase = "objects" /\ query[p].todo = {}
  BY InQuery DEF Answered, QIInv

(* The scan of the shards one after the other finds every object that was  *)
(* indexed when it began and is there when it ends, whatever the hash      *)
(* functions, the other processes and the faults.                          *)
THEOREM ScanFindsAllCorrect == QSpec => []ScanFindsAll
<1>1. QueryTypeOK /\ QIInv => ScanFindsAll
  BY AnsweredQuery DEF ScanFindsAll, AnswerTo, QueryInv, NoneDropped
<1> QED BY <1>1, QueryInvariance, PTL

(* Following a source's edges finds every object that stored its id when   *)
(* the query began, or raises; and it raises only where an edge leads to an *)
(* object that has been deleted.                                           *)
THEOREM AssociationFindsAllCorrect == QSpec => []AssociationFindsAll
<1>1. QueryTypeOK /\ QIInv => AssociationFindsAll
  <2> SUFFICES ASSUME QueryTypeOK, QIInv, NEW p \in Readers,
                      Answered(p), query[p].kind = "assoc"
               PROVE  IF Raises(p)
                        THEN \E id \in EdgeTargets(query[p].def, query[p].value) :
                               born[id] # Null /\ ~Live(id)
                        ELSE query[p].due \subseteq query[p].got
    BY DEF AssociationFindsAll, AnswerTo
  <2>1. EdgesFollowed(query[p]) /\ query[p].phase = "objects" /\ query[p].todo = {}
    BY AnsweredQuery DEF QueryInv
  <2> QED BY <2>1 DEF EdgesFollowed, Raises
<1> QED BY <1>1, QueryInvariance, PTL
=============================================================================
