--------------------------- MODULE PentLoaderProofs ---------------------------
(* Proofs about PentLoader, for any tasks, ids, shards and bounds.         *)
EXTENDS PentLoader, OrdersProofs

USE DEF Shards

-----------------------------------------------------------------------------
(* Positions in a request, shards, and the orders of ids.                  *)

(* The first position of an element.                                       *)
LEMMA PositionIs ==
  ASSUME NEW S, NEW seq \in Seq(S), NEW x \in Range(seq)
  PROVE  /\ Position(seq, x) \in 1 .. Len(seq)
         /\ seq[Position(seq, x)] = x
         /\ \A j \in 1 .. Len(seq) : seq[j] = x => Position(seq, x) <= j
<1> DEFINE At == {i \in 1 .. Len(seq) : seq[i] = x}
<1>1. At \in SUBSET Nat /\ At # {}
  BY InSequence
<1>2. PICK i \in At : \A j \in At : i <= j
  BY <1>1, LeastNumber
<1>3. \E k \in DOMAIN seq : seq[k] = x /\ \A j \in DOMAIN seq : seq[j] = x => k <= j
  BY <1>2
<1> QED BY <1>3 DEF Position

(* An id's shard exists.                                                   *)
LEMMA ShardOfId == \A id \in Ids : ShardOf(id) \in Shards
  BY LoaderAssumption DEF ShardOf

(* The ids of a request are ordered by where they first occur in it.       *)
LEMMA RequestOrders ==
  ASSUME NEW S, NEW ids \in Seq(S)
  PROVE  StrictlyOrders(RequestOrder(ids), Range(ids))
<1>1. \A x \in Range(ids) : Position(ids, x) \in Nat /\ ids[Position(ids, x)] = x
  BY PositionIs
<1>2. \A x, y \in Range(ids) :
        <<x, y>> \in RequestOrder(ids) <=> Position(ids, x) < Position(ids, y)
  BY DEF RequestOrder
<1> QED BY <1>1, <1>2 DEF StrictlyOrders

(* The pents of a batch are ordered by shard, then by request.             *)
LEMMA PentsOrdered ==
  ASSUME NEW ids \in Seq(Ids)
  PROVE  StrictlyOrders(PentOrder(ids), Range(ids))
<1> DEFINE shards == [i \in DOMAIN ids |-> ShardOf(ids[i])]
           at(id) == Position(shards, ShardOf(id))
<1>1. shards \in Seq(Shards)
  <2>1. \A i \in 1 .. Len(ids) : ids[i] \in Ids
    OBVIOUS
  <2>2. shards \in [1 .. Len(ids) -> Shards] /\ Len(ids) \in Nat
    BY <2>1, ShardOfId
  <2> QED BY <2>2, FunctionIsSequence
<1>2. \A id \in Range(ids) : ShardOf(id) \in Range(shards)
  BY DEF Range
<1>3. \A id \in Range(ids) : at(id) \in Nat
  BY <1>1, <1>2, PositionIs
<1>4. \A x \in Range(ids) : Position(ids, x) \in Nat /\ ids[Position(ids, x)] = x
  BY PositionIs
<1>5. \A x, y \in Range(ids) :
        <<x, y>> \in PentOrder(ids) <=>
          at(x) < at(y) \/ (at(x) = at(y) /\ Position(ids, x) < Position(ids, y))
  BY DEF PentOrder, Before
<1> HIDE DEF at
<1> QED BY <1>3, <1>4, <1>5 DEF StrictlyOrders

-----------------------------------------------------------------------------
(* What the types say of loaders, futures, batches and tasks.              *)

(* A loader's cache and queue hold futures that exist; the current loader  *)
(* is one of the loaders.                                                  *)
LEMMA LoadersTyped ==
  ASSUME TypeOK
  PROVE  /\ loaders \in Seq(Loader) /\ Current \in Nat
         /\ DOMAIN loaders = 1 .. Current /\ Current \in DOMAIN loaders
         /\ \A l \in DOMAIN loaders :
              /\ loaders[l] \in Loader
              /\ loaders[l].cache \in [Ids -> Nat]
              /\ loaders[l].queue \in Seq(Nat)
              /\ Range(loaders[l].queue) \subseteq DOMAIN futures
              /\ \A id \in Ids : loaders[l].cache[id] \in DOMAIN futures \cup {0}
<1>1. /\ loaders \in Seq(Loader) /\ Current \in Nat
      /\ DOMAIN loaders = 1 .. Current /\ Current \in DOMAIN loaders
  BY DEF TypeOK, Current
<1>2. \A l \in DOMAIN loaders : loaders[l] \in Loader
  BY <1>1
<1>3. \A l \in DOMAIN loaders : /\ loaders[l].cache \in [Ids -> Nat]
                                /\ loaders[l].queue \in Seq(Nat)
  BY <1>2 DEF Loader
<1>4. \A l \in DOMAIN loaders :
        /\ Range(loaders[l].queue) \subseteq DOMAIN futures
        /\ Range(loaders[l].cache) \subseteq DOMAIN futures \cup {0}
  BY DEF TypeOK
<1>5. \A l \in DOMAIN loaders, id \in Ids : loaders[l].cache[id] \in DOMAIN futures \cup {0}
  BY <1>3, <1>4 DEF Range
<1> QED BY <1>1, <1>2, <1>3, <1>4, <1>5

(* A future has a key among the ids, and a value or none.                  *)
LEMMA FuturesTyped ==
  ASSUME TypeOK
  PROVE  /\ futures \in Seq(Future) /\ Len(futures) \in Nat
         /\ DOMAIN futures = 1 .. Len(futures)
         /\ \A f \in DOMAIN futures : /\ futures[f] \in Future
                                      /\ KeyOf(f) \in Ids
                                      /\ futures[f].value \in Value \cup {NoValue}
<1>1. /\ futures \in Seq(Future) /\ Len(futures) \in Nat
      /\ DOMAIN futures = 1 .. Len(futures)
  BY DEF TypeOK
<1>2. \A f \in DOMAIN futures : futures[f] \in Future
  BY <1>1
<1> QED BY <1>1, <1>2 DEF Future, KeyOf

(* A batch's futures exist, and its keys are theirs, one for each in the   *)
(* order of the queue.                                                     *)
LEMMA BatchesTyped ==
  ASSUME TypeOK, NEW b \in batches
  PROVE  /\ b \in Batch
         /\ b.futures \in Seq(Nat) /\ Range(b.futures) \subseteq DOMAIN futures
         /\ b.loader \in DOMAIN loaders /\ b.todo \subseteq Shards /\ b.got \subseteq Value
         /\ Keys(b) \in Seq(Ids) /\ DOMAIN Keys(b) = 1 .. Len(b.futures)
         /\ DOMAIN b.futures = 1 .. Len(b.futures) /\ Len(b.futures) \in Nat
         /\ Len(Keys(b)) = Len(b.futures)
         /\ \A i \in 1 .. Len(b.futures) : b.futures[i] \in DOMAIN futures
                                          /\ Keys(b)[i] = KeyOf(b.futures[i])
         /\ \A f \in Range(b.futures) : KeyOf(f) \in Range(Keys(b))
<1>1. /\ b \in Batch /\ Range(b.futures) \subseteq DOMAIN futures
      /\ b.loader \in DOMAIN loaders
  BY DEF TypeOK
<1>2. b.futures \in Seq(Nat) /\ b.todo \subseteq Shards /\ b.got \subseteq Value
  BY <1>1 DEF Batch
<1>3. DOMAIN b.futures = 1 .. Len(b.futures) /\ Len(b.futures) \in Nat
  BY <1>2
<1>4. \A i \in 1 .. Len(b.futures) : b.futures[i] \in DOMAIN futures
  BY <1>1, <1>2, <1>3, InSequence
<1>5. \A i \in 1 .. Len(b.futures) : KeyOf(b.futures[i]) \in Ids
  BY <1>4, FuturesTyped
<1>6. Keys(b) \in [1 .. Len(b.futures) -> Ids]
  BY <1>3, <1>5 DEF Keys
<1>7. \A i \in 1 .. Len(b.futures) : Keys(b)[i] = KeyOf(b.futures[i])
  BY <1>3 DEF Keys
<1>8. Keys(b) \in Seq(Ids) /\ DOMAIN Keys(b) = 1 .. Len(b.futures) /\ Len(Keys(b)) = Len(b.futures)
  BY <1>3, <1>6, FunctionIsSequence
<1>9. \A f \in Range(b.futures) : KeyOf(f) \in Range(Keys(b))
  BY <1>3, <1>7, <1>8 DEF Range
<1> QED BY <1>1, <1>2, <1>3, <1>4, <1>7, <1>8, <1>9

(* A task awaits futures that exist.                                       *)
LEMMA TasksTyped ==
  ASSUME TypeOK, NEW t \in Tasks
  PROVE  /\ task[t] \in Task
         /\ task[t].awaits \in Seq(Nat) /\ task[t].since \in [Ids -> Nat]
         /\ Range(task[t].awaits) \subseteq DOMAIN futures
         /\ \A i \in DOMAIN task[t].awaits : task[t].awaits[i] \in Range(task[t].awaits)
<1>1. task[t] \in Task /\ Range(task[t].awaits) \subseteq DOMAIN futures
  BY DEF TypeOK
<1>2. task[t].awaits \in Seq(Nat) /\ task[t].since \in [Ids -> Nat]
  BY <1>1 DEF Task
<1> QED BY <1>1, <1>2 DEF Range

-----------------------------------------------------------------------------
(* Loading.                                                                *)

(* The ids a load queues: those without a cached future, each once.        *)
NewIds(cache, ids) == InOrder({id \in Range(ids) : cache[id] = 0}, RequestOrder(ids))

(* A load queues exactly its ids that the cache lacks, and none twice.     *)
LEMMA NewIdsAre ==
  ASSUME NEW ids \in Seq(Ids), NEW cache
  PROVE  LET new == NewIds(cache, ids) IN
         /\ Len(new) \in Nat /\ new \in [1 .. Len(new) -> Ids] /\ new \in Seq(Ids)
         /\ \A i, j \in 1 .. Len(new) : new[i] = new[j] => i = j
         /\ \A id : id \in Range(new) <=> id \in Range(ids) /\ cache[id] = 0
<1> DEFINE S == {id \in Range(ids) : cache[id] = 0}
           new == NewIds(cache, ids)
           n == Cardinality(S)
<1>1. S \in SUBSET Range(ids) /\ S \subseteq Ids
  BY InSequence
<1>2. IsFiniteSet(S)
  BY <1>1, FiniteRange, FS_Subset
<1>3. StrictlyOrders(RequestOrder(ids), S)
  BY <1>1, RequestOrders DEF StrictlyOrders
<1>4. n \in Nat /\ new \in [1 .. n -> S] /\ IsInOrder(new, RequestOrder(ids))
  BY <1>2, <1>3, InOrderIs DEF NewIds
<1>a. \A id : id \in S <=> id \in Range(ids) /\ cache[id] = 0
  OBVIOUS
<1> HIDE DEF S, new
<1>5. /\ \A i, j \in 1 .. n : new[i] = new[j] => i = j
      /\ \A x \in S : \E i \in 1 .. n : new[i] = x
  BY <1>2, <1>3, <1>4, InOrderEnumerates
<1> HIDE DEF n
<1>6. new \in Seq(Ids) /\ Len(new) = n /\ new \in [1 .. n -> Ids]
  BY <1>1, <1>4
<1>7. \A id : id \in Range(new) <=> id \in S
  BY <1>4, <1>5 DEF Range
<1> QED BY <1>4, <1>5, <1>6, <1>7, <1>a DEF new

(* What a load leaves behind: futures pending for the new ids, cached and  *)
(* queued on the loader of the context, and a task that awaits the cached  *)
(* future of each of its ids.                                              *)
Loaded(t, op, cache, ids, new, after) ==
  /\ new \in Seq(Ids) /\ Len(new) \in Nat
  /\ \A i, j \in 1 .. Len(new) : new[i] = new[j] => i = j
  /\ \A i \in 1 .. Len(new) : cache[new[i]] = 0 /\ new[i] \in Range(ids)
  /\ futures' \in Seq(Future) /\ Len(futures') = Len(futures) + Len(new)
  /\ \A f \in 1 .. Len(futures) : futures'[f] = futures[f]
  /\ \A i \in 1 .. Len(new) : futures'[Len(futures) + i] = Pending(new[i])
  /\ after \in [Ids -> Nat]
  /\ \A id \in Ids : \/ after[id] = cache[id] /\ \A i \in 1 .. Len(new) : new[i] # id
                     \/ \E i \in 1 .. Len(new) : new[i] = id /\ after[id] = Len(futures) + i
  /\ \A i \in DOMAIN ids : after[ids[i]] # 0
  /\ loaders' \in Seq(Loader) /\ Len(loaders') = Len(loaders)
  /\ \A l \in 1 .. Len(loaders) : l # Current => loaders'[l] = loaders[l]
  /\ loaders'[Current].cache = after
  /\ Range(loaders'[Current].queue) =
       Range(loaders[Current].queue) \cup (Len(futures) + 1 .. Len(futures) + Len(new))
  /\ task' = [task EXCEPT ![t] = [op |-> op, awaits |-> [i \in DOMAIN ids |-> after[ids[i]]],
                                  since |-> written']]

(* Load does what Loaded says.                                             *)
LEMMA LoadIs ==
  ASSUME TypeOK, NEW t \in Tasks, NEW op, NEW cache \in [Ids -> Nat], NEW ids \in Seq(Ids),
         Load(t, op, cache, ids)
  PROVE  \E new, after : Loaded(t, op, cache, ids, new, after)
<1> DEFINE n == Len(futures)
           new == NewIds(cache, ids)
           m == Len(new)
           after == [id \in Ids |-> IF id \in Range(new) THEN n + Position(new, id) ELSE cache[id]]
           more == [i \in DOMAIN new |-> Pending(new[i])]
           queued == [i \in DOMAIN new |-> n + i]
<1>1. /\ futures \in Seq(Future) /\ n \in Nat
      /\ loaders \in Seq(Loader) /\ Current \in 1 .. Len(loaders)
      /\ loaders[Current] \in Loader /\ loaders[Current].queue \in Seq(Nat)
      /\ Range(loaders[Current].queue) \subseteq 1 .. n
  BY FuturesTyped, LoadersTyped DEF Current
<1>2. /\ m \in Nat /\ new \in [1 .. m -> Ids] /\ new \in Seq(Ids)
      /\ \A i, j \in 1 .. m : new[i] = new[j] => i = j
      /\ \A id : id \in Range(new) <=> id \in Range(ids) /\ cache[id] = 0
  BY NewIdsAre
<1>3. /\ futures' = futures \o more
      /\ loaders' = [loaders EXCEPT ![Current].cache = after,
                                    ![Current].queue = @ \o queued]
      /\ task' = [task EXCEPT ![t] = [op |-> op, awaits |-> [i \in DOMAIN ids |-> after[ids[i]]],
                                      since |-> written']]
  BY DEF Load, NewIds
<1> HIDE DEF new
<1>4. DOMAIN new = 1 .. m /\ \A i \in 1 .. m : new[i] \in Range(new)
  BY <1>2 DEF Range
<1>5. \A id \in Range(new) : Position(new, id) \in 1 .. m /\ new[Position(new, id)] = id
  BY <1>2, PositionIs
<1>6. \A i \in 1 .. m : Position(new, new[i]) = i
  BY <1>2, <1>4, <1>5
<1>7. /\ after \in [Ids -> Nat]
      /\ \A id \in Ids : \/ after[id] = cache[id] /\ \A i \in 1 .. m : new[i] # id
                         \/ \E i \in 1 .. m : new[i] = id /\ after[id] = n + i
      /\ \A i \in DOMAIN ids : after[ids[i]] # 0
  <2>1. \A id \in Ids : IF id \in Range(new) THEN n + Position(new, id) \in Nat
                                              ELSE cache[id] \in Nat
    BY <1>1, <1>2, <1>5
  <2>2. after \in [Ids -> Nat]
    BY <2>1
  <2>3. \A id \in Ids : id \in Range(new) =>
          \E i \in 1 .. m : new[i] = id /\ after[id] = n + i
    BY <1>5
  <2>4. \A id \in Ids : id \notin Range(new) =>
          after[id] = cache[id] /\ \A i \in 1 .. m : new[i] # id
    BY <1>4
  <2>5. ASSUME NEW i \in DOMAIN ids PROVE after[ids[i]] # 0
    <3>1. ids[i] \in Range(ids) /\ ids[i] \in Ids
      BY InSequence
    <3>2. CASE cache[ids[i]] = 0
      <4>1. ids[i] \in Range(new)
        BY <1>2, <3>1, <3>2
      <4> QED BY <1>1, <1>5, <3>1, <4>1
    <3>3. CASE cache[ids[i]] # 0
      BY <1>2, <3>1, <3>3
    <3> QED BY <3>2, <3>3
  <2>6. ASSUME NEW id \in Ids
        PROVE  \/ after[id] = cache[id] /\ \A i \in 1 .. m : new[i] # id
               \/ \E i \in 1 .. m : new[i] = id /\ after[id] = n + i
    <3> HIDE DEF after, m, n
    <3> QED BY <2>3, <2>4
  <2> HIDE DEF after, m, n
  <2> QED BY <2>2, <2>5, <2>6
<1> HIDE DEF after
<1>8. /\ futures' \in Seq(Future) /\ Len(futures') = n + m
      /\ \A f \in 1 .. n : futures'[f] = futures[f]
      /\ \A i \in 1 .. m : futures'[n + i] = Pending(new[i])
  <2>1. more \in [1 .. m -> Future] /\ \A i \in 1 .. m : more[i] = Pending(new[i])
    BY <1>2, <1>4 DEF Pending, Future
  <2> HIDE DEF more, m
  <2>2. /\ futures \o more \in Seq(Future)
        /\ Len(futures \o more) = Len(futures) + m
        /\ \A i \in 1 .. Len(futures) : (futures \o more)[i] = futures[i]
        /\ \A i \in 1 .. m : (futures \o more)[Len(futures) + i] = more[i]
    BY <1>1, <1>2, <2>1, Appended
  <2> QED BY <1>3, <2>1, <2>2
<1> DEFINE old == loaders[Current].queue
           queue == old \o queued
           next == [loaders[Current] EXCEPT !.cache = after, !.queue = queue]
<1>9. queued \in [1 .. m -> Nat] /\ \A i \in 1 .. m : queued[i] = n + i
  BY <1>1, <1>2, <1>4
<1>10. Range(queued) = n + 1 .. n + m
  <2>1. \A i \in n + 1 .. n + m : i - n \in 1 .. m /\ queued[i - n] = i
    BY <1>1, <1>2, <1>9
  <2>2. \A i \in 1 .. m : queued[i] \in n + 1 .. n + m
    BY <1>1, <1>2, <1>9
  <2>3. \A x : x \in Range(queued) <=> \E i \in 1 .. m : queued[i] = x
    BY <1>9 DEF Range
  <2> QED BY <2>1, <2>2, <2>3
<1>11. /\ queue \in Seq(Nat) /\ Len(queue) = Len(old) + m
       /\ \A i \in 1 .. Len(old) : queue[i] = old[i]
       /\ \A i \in 1 .. m : queue[Len(old) + i] = n + i
       /\ Range(queue) = Range(old) \cup (n + 1 .. n + m)
  <2>1. old \in Seq(Nat)
    BY <1>1
  <2> HIDE DEF old, queued, m, n
  <2>2. /\ old \o queued \in Seq(Nat) /\ Len(old \o queued) = Len(old) + m
        /\ \A i \in 1 .. Len(old) : (old \o queued)[i] = old[i]
        /\ \A i \in 1 .. m : (old \o queued)[Len(old) + i] = queued[i]
        /\ Range(old \o queued) = Range(old) \cup Range(queued)
    BY <1>2, <1>9, <2>1, Appended
  <2> QED BY <1>9, <1>10, <2>2
<1>13. /\ next \in Loader /\ next.cache = after /\ next.queue = queue
       /\ loaders' = [loaders EXCEPT ![Current] = next]
  <2> HIDE DEF old, queue, queued
  <2>1. next.cache = after /\ next.queue = queue /\ next \in Loader
    BY <1>1, <1>7, <1>11 DEF Loader
  <2> QED BY <1>3, <2>1 DEF old, queue
<1>14. /\ loaders' \in Seq(Loader) /\ Len(loaders') = Len(loaders)
       /\ \A l \in 1 .. Len(loaders) : l # Current => loaders'[l] = loaders[l]
       /\ loaders'[Current] = next
  <2> HIDE DEF next
  <2> QED BY <1>1, <1>13
<1> HIDE DEF next, queue, queued, more
<1>15. \A i \in 1 .. m : cache[new[i]] = 0 /\ new[i] \in Range(ids)
  BY <1>2, <1>4
<1>16. Loaded(t, op, cache, ids, new, after)
  BY <1>1, <1>2, <1>3, <1>7, <1>8, <1>11, <1>13, <1>14, <1>15 DEF Loaded
<1> QED BY <1>16

-----------------------------------------------------------------------------
(* Batches.                                                                *)

(* The values of a batch that has read all its keys: one for each of them, *)
(* with its id, in the order of PentDict.                                  *)
LEMMA ValuesAre ==
  ASSUME TypeOK, BatchesRead, NEW b \in batches, Fetched(b)
  PROVE  /\ PentDict(b) \in Seq(Ids)
         /\ Len(PentDict(b)) = Cardinality(Range(Keys(b)))
         /\ \A i \in 1 .. Len(PentDict(b)) : PentDict(b)[i] \in Range(Keys(b))
         /\ \A id \in Range(Keys(b)) :
              ValueOf(b, id) \in b.got /\ ValueOf(b, id) \in Value /\ ValueOf(b, id).id = id
<1> DEFINE R == Range(Keys(b))
<1>1. /\ Keys(b) \in Seq(Ids) /\ b.got \subseteq Value
  BY BatchesTyped
<1>2. IsFiniteSet(R) /\ StrictlyOrders(PentOrder(Keys(b)), R) /\ R \subseteq Ids
  BY <1>1, FiniteRange, PentsOrdered, InSequence
<1>3. \A id \in R : \E v \in b.got : v.id = id
  BY <1>2 DEF BatchesRead, Fetched
<1>4. \A id \in R : ValueOf(b, id) \in b.got /\ ValueOf(b, id).id = id
  BY <1>3 DEF ValueOf
<1>5. PentDict(b) = InOrder(R, PentOrder(Keys(b)))
  BY DEF PentDict
<1> HIDE DEF R
<1>6. Cardinality(R) \in Nat /\ PentDict(b) \in [1 .. Cardinality(R) -> R]
  BY <1>2, <1>5, InOrderIs
<1> QED BY <1>1, <1>2, <1>4, <1>6 DEF R

(* A batch that resolves gives each of its futures a value of its own      *)
(* reading, and changes no other.                                          *)
LEMMA ResolvedAre ==
  ASSUME TypeOK, BatchesRead, NEW b \in batches, ResolveBatch(b)
  PROVE  /\ futures' \in Seq(Future) /\ Len(futures') = Len(futures)
         /\ \A f \in DOMAIN futures :
              /\ futures'[f].key = futures[f].key
              /\ f \notin Range(b.futures) => futures'[f] = futures[f]
              /\ f \in Range(b.futures) =>
                   /\ futures'[f].state = "value"
                   /\ futures'[f].value = ValueOf(b, PentDict(b)[Position(b.futures, f)])
                   /\ futures'[f].value \in b.got
<1> DEFINE value(f) == ValueOf(b, PentDict(b)[Position(b.futures, f)])
           new(f) == IF f \in Range(b.futures)
                       THEN [futures[f] EXCEPT !.state = "value", !.value = value(f)]
                       ELSE futures[f]
<1>1. /\ b.futures \in Seq(Nat) /\ b.got \subseteq Value
      /\ futures \in Seq(Future) /\ Len(futures) \in Nat /\ DOMAIN futures = 1 .. Len(futures)
      /\ \A f \in DOMAIN futures : futures[f] \in Future
  BY BatchesTyped, FuturesTyped
<1>2. \A f \in Range(b.futures) : value(f) \in b.got /\ value(f) \in Value
  <2>1. TAKE f \in Range(b.futures)
  <2>2. Position(b.futures, f) \in 1 .. Len(b.futures)
    BY <1>1, PositionIs
  <2>3. Fetched(b) /\ Len(PentDict(b)) = Len(b.futures)
    BY DEF ResolveBatch, OnePerKey
  <2>4. PentDict(b)[Position(b.futures, f)] \in Range(Keys(b))
    BY <2>2, <2>3, ValuesAre
  <2> QED BY <2>3, <2>4, ValuesAre
<1> HIDE DEF value
<1>3. futures' = [f \in DOMAIN futures |-> new(f)]
  BY DEF ResolveBatch, value
<1>4. \A f \in DOMAIN futures :
        /\ new(f) \in Future
        /\ new(f).key = futures[f].key
        /\ f \in Range(b.futures) => new(f).state = "value" /\ new(f).value = value(f)
  BY <1>1, <1>2 DEF Future
<1>5. futures' \in [1 .. Len(futures) -> Future]
  BY <1>1, <1>3, <1>4
<1>6. futures' \in Seq(Future) /\ Len(futures') = Len(futures)
  BY <1>1, <1>5, FunctionIsSequence
<1>7. \A f \in DOMAIN futures :
        /\ futures'[f].key = futures[f].key
        /\ f \notin Range(b.futures) => futures'[f] = futures[f]
        /\ f \in Range(b.futures) => futures'[f].state = "value" /\ futures'[f].value = value(f)
  BY <1>3, <1>4
<1> QED BY <1>2, <1>6, <1>7 DEF value

(* A batch that fails fails its futures and forgets its ids.               *)
LEMMA FailedAre ==
  ASSUME TypeOK, NEW b \in batches, FailBatch(b)
  PROVE  /\ futures' \in Seq(Future) /\ Len(futures') = Len(futures)
         /\ \A f \in DOMAIN futures :
              /\ futures'[f].key = futures[f].key
              /\ f \notin Range(b.futures) => futures'[f] = futures[f]
              /\ f \in Range(b.futures) => futures'[f].state = "failed"
         /\ loaders' \in Seq(Loader) /\ Len(loaders') = Len(loaders)
         /\ \A l \in DOMAIN loaders :
              /\ loaders'[l].queue = loaders[l].queue
              /\ \A id \in Ids : loaders'[l].cache[id] \in {0, loaders[l].cache[id]}
<1> DEFINE new(f) == IF f \in Range(b.futures) THEN [futures[f] EXCEPT !.state = "failed"]
                                               ELSE futures[f]
           cache == [id \in Ids |-> IF id \in Range(Keys(b)) THEN 0
                                                            ELSE loaders[b.loader].cache[id]]
           next == [loaders[b.loader] EXCEPT !.cache = cache]
<1>1. /\ futures \in Seq(Future) /\ Len(futures) \in Nat /\ DOMAIN futures = 1 .. Len(futures)
      /\ \A f \in DOMAIN futures : futures[f] \in Future
  BY FuturesTyped
<1>2. /\ loaders \in Seq(Loader) /\ b.loader \in DOMAIN loaders
      /\ loaders[b.loader] \in Loader /\ loaders[b.loader].cache \in [Ids -> Nat]
  BY LoadersTyped, BatchesTyped
<1>3. futures' = [f \in DOMAIN futures |-> new(f)]
  BY DEF FailBatch
<1>4. \A f \in DOMAIN futures :
        /\ new(f) \in Future
        /\ new(f).key = futures[f].key
        /\ f \in Range(b.futures) => new(f).state = "failed"
  BY <1>1 DEF Future
<1>5. futures' \in [1 .. Len(futures) -> Future]
  BY <1>1, <1>3, <1>4
<1>6. futures' \in Seq(Future) /\ Len(futures') = Len(futures)
  BY <1>1, <1>5, FunctionIsSequence
<1>7. /\ loaders' = [loaders EXCEPT ![b.loader] = next]
      /\ cache \in [Ids -> Nat]
      /\ \A id \in Ids : cache[id] \in {0, loaders[b.loader].cache[id]}
  BY <1>2 DEF FailBatch
<1> HIDE DEF cache
<1>8. next \in Loader /\ next.cache = cache /\ next.queue = loaders[b.loader].queue
  BY <1>2, <1>7 DEF Loader
<1> HIDE DEF next
<1>9. /\ loaders' \in Seq(Loader) /\ Len(loaders') = Len(loaders)
      /\ \A l \in DOMAIN loaders : loaders'[l] = IF l = b.loader THEN next ELSE loaders[l]
  BY <1>2, <1>7, <1>8
<1> QED BY <1>2, <1>3, <1>4, <1>6, <1>7, <1>8, <1>9

-----------------------------------------------------------------------------
(* The types.                                                              *)

(* Sequences over DOMAIN futures still are when futures only grew.         *)
LEMMA Grown ==
  ASSUME TypeOK, futures' \in Seq(Future), Len(futures) <= Len(futures')
  PROVE  /\ DOMAIN futures \subseteq DOMAIN futures' /\ DOMAIN futures' = 1 .. Len(futures')
         /\ Len(futures') \in Nat
  BY FuturesTyped

(* A load keeps the types, and so the keys of the futures there are.       *)
LEMMA LoadTyped ==
  ASSUME TypeOK, NEW t \in Tasks, NEW op \in {"gen", "update", "create"},
         NEW cache \in [Ids -> Nat], \A id \in Ids : cache[id] \in DOMAIN futures \cup {0},
         NEW ids \in Seq(Ids), NEW new, NEW after, Loaded(t, op, cache, ids, new, after),
         version' \in [Ids -> Nat], live' \subseteq Ids, written' \in [Ids -> Nat],
         batches' = batches, faults' = faults
  PROVE  TypeOK'
<1> DEFINE n == Len(futures)
           m == Len(new)
           awaits == [i \in DOMAIN ids |-> after[ids[i]]]
<1>1. /\ n \in Nat /\ DOMAIN futures = 1 .. n /\ m \in Nat
      /\ futures' \in Seq(Future) /\ Len(futures') = n + m
      /\ loaders \in Seq(Loader) /\ Current \in DOMAIN loaders /\ DOMAIN loaders = 1 .. Len(loaders)
      /\ Len(loaders) \in Nat
      /\ loaders' \in Seq(Loader) /\ Len(loaders') = Len(loaders)
      /\ after \in [Ids -> Nat]
      /\ DOMAIN ids = 1 .. Len(ids) /\ Len(ids) \in Nat /\ \A i \in DOMAIN ids : ids[i] \in Ids
  BY FuturesTyped, LoadersTyped DEF Loaded, Current
<1>2. DOMAIN futures \subseteq DOMAIN futures' /\ DOMAIN futures' = 1 .. n + m
  BY <1>1
<1>3. \A id \in Ids : after[id] \in DOMAIN futures' \cup {0}
  <2>1. TAKE id \in Ids
  <2>2. after[id] = cache[id] \/ \E i \in 1 .. m : after[id] = n + i
    BY DEF Loaded
  <2>3. \A i \in 1 .. m : n + i \in DOMAIN futures'
    BY <1>1, <1>2
  <2> QED BY <1>2, <2>2, <2>3
<1>4. \A i \in DOMAIN ids : after[ids[i]] \in DOMAIN futures'
  BY <1>1, <1>3 DEF Loaded
<1>5. awaits \in Seq(Nat) /\ Range(awaits) \subseteq DOMAIN futures'
  <2>1. awaits \in [1 .. Len(ids) -> Nat]
    BY <1>1
  <2>2. Range(awaits) \subseteq DOMAIN futures'
    BY <1>4 DEF Range
  <2> QED BY <1>1, <2>1, <2>2, FunctionIsSequence
<1>6. /\ task' \in [Tasks -> Task]
      /\ \A s \in Tasks : Range(task'[s].awaits) \subseteq DOMAIN futures'
  <2> DEFINE new_task == [op |-> op, awaits |-> awaits, since |-> written']
  <2>1. task' = [task EXCEPT ![t] = new_task] /\ task \in [Tasks -> Task]
    BY DEF Loaded, TypeOK
  <2>2. new_task \in Task /\ new_task.awaits = awaits
    BY <1>5 DEF Task
  <2> HIDE DEF new_task
  <2>3. \A s \in Tasks : Range(task[s].awaits) \subseteq DOMAIN futures'
    BY <1>2, TasksTyped
  <2> QED BY <1>5, <2>1, <2>2, <2>3
<1>7. \A l \in DOMAIN loaders' : /\ Range(loaders'[l].queue) \subseteq DOMAIN futures'
                                 /\ Range(loaders'[l].cache) \subseteq DOMAIN futures' \cup {0}
  <2>1. TAKE l \in DOMAIN loaders'
  <2>2. l \in DOMAIN loaders
    BY <1>1
  <2>3. CASE l = Current
    <3>1. n + 1 .. n + m \subseteq DOMAIN futures'
      BY <1>1, <1>2
    <3>2. Range(loaders'[l].queue) \subseteq DOMAIN futures'
      BY <1>2, <2>2, <2>3, <3>1, LoadersTyped DEF Loaded
    <3>3. Range(after) \subseteq DOMAIN futures' \cup {0}
      BY <1>1, <1>3 DEF Range
    <3> QED BY <2>3, <3>2, <3>3 DEF Loaded
  <2>4. CASE l # Current
    <3>1. loaders'[l] = loaders[l]
      BY <1>1, <2>2, <2>4 DEF Loaded
    <3>2. /\ Range(loaders[l].queue) \subseteq DOMAIN futures
          /\ Range(loaders[l].cache) \subseteq DOMAIN futures \cup {0}
      BY <2>2 DEF TypeOK
    <3> QED BY <1>2, <3>1, <3>2
  <2> QED BY <2>3, <2>4
<1>8. \A b \in batches : /\ b \in Batch /\ b.loader \in DOMAIN loaders'
                         /\ Range(b.futures) \subseteq DOMAIN futures'
  BY <1>1, <1>2, BatchesTyped
<1>9. loaders' # <<>>
  BY <1>1
<1>10. faults' \in Nat
  BY DEF TypeOK
<1> QED BY <1>1, <1>6, <1>7, <1>8, <1>9, <1>10 DEF TypeOK

(* gen, update_pent and create_pent load, the last two after a write of    *)
(* one id whose future they have cleared, or that nobody has loaded.       *)
Written(id) ==
  /\ version' = [version EXCEPT ![id] = @ + 1]
  /\ written' = [written EXCEPT ![id] = version[id] + 1]
LoadedStayMissing ==
  \A f \in DOMAIN futures : KeyOf(f) \notin live => KeyOf(f) \notin live'
LoadStep(t, op, cache, ids, new, after) ==
  /\ Loaded(t, op, cache, ids, new, after)
  /\ \A i, j \in DOMAIN ids : ids[i] = ids[j] => i = j
  /\ \A id \in Ids : cache[id] \in {0, loaders[Current].cache[id]}
  /\ live' \subseteq Ids /\ LoadedStayMissing
  /\ batches' = batches /\ faults' = faults
  /\ \/ version' = version /\ written' = written
     \/ \E id \in Ids :
          Written(id) /\ (cache[id] = 0 \/ \A f \in DOMAIN futures : KeyOf(f) # id)

(* Versions stay numbers.                                                  *)
LEMMA WrittenTyped ==
  ASSUME TypeOK
  PROVE  \A id \in Ids : Written(id) => /\ version' \in [Ids -> Nat] /\ written' \in [Ids -> Nat]
                                        /\ version[id] \in Nat
  BY DEF TypeOK, Written

(* That is what they do.                                                   *)
LEMMA LoadSteps ==
  ASSUME TypeOK, NEW t \in Tasks, Gen(t) \/ Update(t) \/ Create(t)
  PROVE  \E op \in {"gen", "update", "create"}, cache \in [Ids -> Nat], ids \in Seq(Ids) :
           \E new, after : LoadStep(t, op, cache, ids, new, after)
<1> DEFINE cached == loaders[Current].cache
<1>1. cached \in [Ids -> Nat] /\ live \subseteq Ids
  BY LoadersTyped DEF TypeOK
<1>2. CASE Gen(t)
  <2>1. PICK ids \in IdLists : Load(t, "gen", cached, ids)
    BY <1>2 DEF Gen
  <2>2. ids \in Seq(Ids) /\ \A i, j \in DOMAIN ids : ids[i] = ids[j] => i = j
    <3>1. PICK n \in 1 .. 2 : ids \in [1 .. n -> Ids]
      BY <2>1 DEF IdLists
    <3>2. n \in Nat
      OBVIOUS
    <3>3. ids \in Seq(Ids)
      BY <3>1, <3>2, FunctionIsSequence
    <3> QED BY <2>1, <3>3 DEF IdLists, Distinct
  <2>3. PICK new, after : Loaded(t, "gen", cached, ids, new, after)
    BY <1>1, <2>1, <2>2, LoadIs
  <2>4. /\ version' = version /\ written' = written /\ live' = live
        /\ batches' = batches /\ faults' = faults /\ LoadedStayMissing
    BY <1>2 DEF Gen, store, LoadedStayMissing
  <2>5. LoadStep(t, "gen", cached, ids, new, after)
    BY <1>1, <2>2, <2>3, <2>4 DEF LoadStep
  <2> QED BY <1>1, <2>2, <2>5
<1>3. CASE Update(t)
  <2>1. PICK id \in live : WriteHere(id) /\ Load(t, "update", Clear(id), <<id>>)
    BY <1>3 DEF Update
  <2>2. <<id>> \in Seq(Ids) /\ \A i, j \in DOMAIN <<id>> : <<id>>[i] = <<id>>[j] => i = j
    BY <1>1, <2>1
  <2>3. /\ Clear(id) \in [Ids -> Nat] /\ Clear(id)[id] = 0
        /\ \A x \in Ids : Clear(id)[x] \in {0, cached[x]}
    BY <1>1, <2>1 DEF Clear
  <2>4. PICK new, after : Loaded(t, "update", Clear(id), <<id>>, new, after)
    BY <2>1, <2>2, <2>3, LoadIs
  <2>5. live' = live /\ batches' = batches /\ faults' = faults /\ LoadedStayMissing
    BY <1>3 DEF Update, LoadedStayMissing
  <2>6. Written(id)
    BY <2>1 DEF WriteHere, Write, Written
  <2>7. LoadStep(t, "update", Clear(id), <<id>>, new, after)
    BY <1>1, <2>1, <2>2, <2>3, <2>4, <2>5, <2>6 DEF LoadStep
  <2> QED BY <2>2, <2>3, <2>7
<1>4. CASE Create(t)
  <2>1. PICK id \in Ids : /\ \A f \in DOMAIN futures : KeyOf(f) # id
                          /\ WriteHere(id)
                          /\ live' = live \cup {id}
                          /\ Load(t, "create", cached, <<id>>)
    BY <1>4 DEF Create, IsNew
  <2>2. <<id>> \in Seq(Ids) /\ \A i, j \in DOMAIN <<id>> : <<id>>[i] = <<id>>[j] => i = j
    BY <1>1, <2>1
  <2>3. PICK new, after : Loaded(t, "create", cached, <<id>>, new, after)
    BY <1>1, <2>1, <2>2, LoadIs
  <2>4. live' \subseteq Ids /\ batches' = batches /\ faults' = faults /\ LoadedStayMissing
    BY <1>1, <1>4, <2>1 DEF Create, LoadedStayMissing
  <2>5. Written(id)
    BY <2>1 DEF WriteHere, Write, Written
  <2>6. LoadStep(t, "create", cached, <<id>>, new, after)
    BY <1>1, <2>1, <2>2, <2>3, <2>4, <2>5 DEF LoadStep
  <2> QED BY <1>1, <2>2, <2>6
<1> QED BY <1>2, <1>3, <1>4

(* While futures only gain elements, what refers to them still does.       *)
LEMMA ReferencesKept ==
  ASSUME TypeOK, futures' \in Seq(Future), Len(futures') = Len(futures)
  PROVE  DOMAIN futures' = DOMAIN futures
  BY FuturesTyped

(* Dispatch moves the queue of a loader into a batch of all its shards.    *)
LEMMA DispatchIs ==
  ASSUME TypeOK, NEW l \in DOMAIN loaders, Dispatch(l)
  PROVE  \E b \in Batch :
           /\ b.loader = l /\ b.futures = loaders[l].queue
           /\ b.got = {} /\ \A f \in Range(b.futures) : ShardOf(KeyOf(f)) \in b.todo
           /\ Range(b.futures) # {}
           /\ batches' = batches \cup {b}
           /\ loaders' \in Seq(Loader) /\ Len(loaders') = Len(loaders)
           /\ loaders'[l].queue = <<>>
           /\ \A k \in DOMAIN loaders : /\ loaders'[k].cache = loaders[k].cache
                                        /\ k # l => loaders'[k] = loaders[k]
<1> DEFINE fs == loaders[l].queue
           b == [loader |-> l, futures |-> fs, got |-> {},
                 todo |-> {ShardOf(KeyOf(f)) : f \in Range(fs)}]
           next == [loaders[l] EXCEPT !.queue = <<>>]
<1>1. /\ loaders \in Seq(Loader) /\ DOMAIN loaders \subseteq Nat /\ loaders[l] \in Loader
      /\ fs \in Seq(Nat) /\ fs # <<>> /\ Range(fs) \subseteq DOMAIN futures
  BY LoadersTyped DEF Dispatch
<1>2. b \in Batch
  <2>1. {ShardOf(KeyOf(f)) : f \in Range(fs)} \subseteq Shards
    BY <1>1, FuturesTyped, ShardOfId
  <2> QED BY <1>1, <2>1 DEF Batch
<1>3. Range(fs) # {}
  <2> HIDE DEF fs
  <2>1. 1 \in DOMAIN fs
    BY <1>1
  <2> QED BY <2>1 DEF Range
<1>4. batches' = batches \cup {b} /\ loaders' = [loaders EXCEPT ![l] = next]
  BY DEF Dispatch
<1>5. next \in Loader /\ next.queue = <<>> /\ next.cache = loaders[l].cache
  <2>1. <<>> \in Seq(Nat)
    OBVIOUS
  <2> QED BY <1>1, <2>1 DEF Loader
<1> HIDE DEF next
<1>6. /\ loaders' \in Seq(Loader) /\ Len(loaders') = Len(loaders)
      /\ loaders'[l].queue = <<>>
      /\ \A k \in DOMAIN loaders : /\ loaders'[k].cache = loaders[k].cache
                                   /\ k # l => loaders'[k] = loaders[k]
  BY <1>1, <1>4, <1>5
<1>7. \A f \in Range(b.futures) : ShardOf(KeyOf(f)) \in b.todo
  OBVIOUS
<1> QED BY <1>2, <1>3, <1>4, <1>6, <1>7

(* A shard's SELECT adds what it finds to its batch.                       *)
LEMMA FetchIs ==
  ASSUME TypeOK, NEW b \in batches, FetchShard(b)
  PROVE  \E c \in Batch, s \in b.todo :
           /\ c.loader = b.loader /\ c.futures = b.futures
           /\ c.todo = b.todo \ {s}
           /\ c.got = b.got \cup {Read(id) : id \in {k \in Range(Keys(b)) : ShardOf(k) = s}}
           /\ batches' = (batches \ {b}) \cup {c}
<1>1. PICK s \in b.todo :
        batches' = (batches \ {b}) \cup
          {[b EXCEPT !.todo = @ \ {s},
                     !.got = @ \cup {Read(id) : id \in {k \in Range(Keys(b)) : ShardOf(k) = s}}]}
  BY DEF FetchShard, Becomes
<1> DEFINE read == {Read(id) : id \in {k \in Range(Keys(b)) : ShardOf(k) = s}}
           c == [b EXCEPT !.todo = @ \ {s}, !.got = @ \cup read]
<1>2. b \in Batch /\ Range(Keys(b)) \subseteq Ids
  BY BatchesTyped, InSequence
<1>3. \A id \in Ids : Read(id) \in Value
  BY DEF Read, Value, TypeOK
<1>4. read \subseteq Value
  BY <1>2, <1>3
<1> HIDE DEF read
<1>5. c \in Batch
  BY <1>2, <1>4 DEF Batch
<1>6. /\ c.loader = b.loader /\ c.futures = b.futures
      /\ c.todo = b.todo \ {s} /\ c.got = b.got \cup read
  BY <1>2 DEF Batch
<1>7. batches' = (batches \ {b}) \cup {c}
  BY <1>1 DEF read
<1> HIDE DEF c
<1> QED BY <1>5, <1>6, <1>7 DEF read

(* delete_pent forgets one id, on the loader of the context.               *)
LEMMA DeleteIs ==
  ASSUME TypeOK, NEW t \in Tasks, Delete(t)
  PROVE  \E id \in Ids :
           /\ Written(id)
           /\ live' \subseteq Ids
           /\ loaders' \in Seq(Loader) /\ Len(loaders') = Len(loaders)
           /\ \A l \in DOMAIN loaders :
                /\ loaders'[l].queue = loaders[l].queue
                /\ \A x \in Ids : loaders'[l].cache[x] \in {0, loaders[l].cache[x]}
           /\ loaders'[Current].cache[id] = 0
<1>1. live \subseteq Ids
  BY DEF TypeOK
<1>2. PICK id \in live : /\ WriteHere(id) /\ live' = live \ {id}
                         /\ loaders' = [loaders EXCEPT ![Current].cache = Clear(id)]
  BY DEF Delete
<1>3. /\ loaders \in Seq(Loader) /\ Current \in DOMAIN loaders /\ loaders[Current] \in Loader
      /\ loaders[Current].cache \in [Ids -> Nat]
  BY LoadersTyped
<1> DEFINE next == [loaders[Current] EXCEPT !.cache = Clear(id)]
<1>4. /\ Clear(id) \in [Ids -> Nat] /\ Clear(id)[id] = 0
      /\ \A x \in Ids : Clear(id)[x] \in {0, loaders[Current].cache[x]}
  BY <1>1, <1>3 DEF Clear
<1>5. next \in Loader /\ next.cache = Clear(id) /\ next.queue = loaders[Current].queue
  BY <1>3, <1>4 DEF Loader
<1>6. loaders' = [loaders EXCEPT ![Current] = next]
  BY <1>2
<1> HIDE DEF next
<1>7. /\ loaders' \in Seq(Loader) /\ Len(loaders') = Len(loaders)
      /\ \A l \in DOMAIN loaders : loaders'[l] = IF l = Current THEN next ELSE loaders[l]
  BY <1>3, <1>5, <1>6
<1>8. \A l \in DOMAIN loaders :
        /\ loaders'[l].queue = loaders[l].queue
        /\ \A x \in Ids : loaders'[l].cache[x] \in {0, loaders[l].cache[x]}
  BY <1>4, <1>5, <1>7
<1>9. Written(id)
  BY <1>2 DEF WriteHere, Write, Written
<1> QED BY <1>1, <1>2, <1>3, <1>4, <1>5, <1>7, <1>8, <1>9

(* What another process does, and a mutation that raises, is a write of    *)
(* one row that neither clears nor loads anything.                         *)
StoreWrite ==
  /\ \E id \in Ids : version' = [version EXCEPT ![id] = @ + 1]
  /\ live' \subseteq Ids /\ LoadedStayMissing
  /\ faults' \in {faults, faults + 1}
  /\ UNCHANGED <<loaders, futures, batches, task, written>>

(* That is what they do: the id of a create that raises is new.            *)
LEMMA StoreWriteIs ==
  ASSUME TypeOK, Elsewhere \/ \E t \in Tasks : MutationRaises(t)
  PROVE  StoreWrite
<1>1. live \subseteq Ids
  BY DEF TypeOK
<1>2. CASE Elsewhere
  <2>1. PICK id \in live : Write(id) /\ (live' = live \/ live' = live \ {id})
    BY <1>2 DEF Elsewhere
  <2> QED BY <1>1, <1>2, <2>1 DEF Elsewhere, Write, StoreWrite, LoadedStayMissing
<1>3. ASSUME NEW t \in Tasks, MutationRaises(t)
      PROVE  StoreWrite
  <2>1. CASE UpdateRaises
    <3>1. PICK id \in live : Write(id) /\ live' = live
      BY <2>1 DEF UpdateRaises
    <3> QED BY <1>1, <1>3, <3>1 DEF MutationRaises, Write, StoreWrite, LoadedStayMissing
  <2>2. CASE CreateRaises
    <3>1. PICK id \in Ids : IsNew(id) /\ Write(id) /\ live' = live \cup {id}
      BY <2>2 DEF CreateRaises
    <3> QED BY <1>1, <1>3, <3>1 DEF MutationRaises, IsNew, Write, StoreWrite, LoadedStayMissing
  <2>3. CASE DeleteRaises
    <3>1. PICK id \in live : Write(id) /\ live' = live \ {id}
      BY <2>3 DEF DeleteRaises
    <3> QED BY <1>1, <1>3, <3>1 DEF MutationRaises, Write, StoreWrite, LoadedStayMissing
  <2> QED BY <1>3, <2>1, <2>2, <2>3 DEF MutationRaises
<1> QED BY <1>2, <1>3

(* Every step is one of these.                                             *)
LEMMA StepIs ==
  ASSUME TypeOK, [Next]_vars
  PROVE  \/ \E t \in Tasks : Gen(t) \/ Update(t) \/ Create(t)
         \/ \E t \in Tasks : Delete(t)
         \/ \E t \in Tasks : Finish(t)
         \/ \E l \in DOMAIN loaders : Dispatch(l)
         \/ \E b \in batches : FetchShard(b)
         \/ \E b \in batches : ResolveBatch(b)
         \/ \E b \in batches : RejectBatch(b) \/ FetchFails(b)
         \/ NewRequest
         \/ StoreWrite
         \/ UNCHANGED vars
  BY StoreWriteIs DEF Next, Step, Work

(* A new request brings an empty loader.                                   *)
LEMMA NewRequestIs ==
  ASSUME TypeOK, NewRequest
  PROVE  /\ loaders' \in Seq(Loader) /\ Len(loaders') = Current + 1 /\ Current' = Current + 1
         /\ \A l \in DOMAIN loaders : loaders'[l] = loaders[l] /\ l # Current'
         /\ loaders'[Current'].queue = <<>>
         /\ \A id \in Ids : loaders'[Current'].cache[id] = 0
         /\ DOMAIN loaders' = DOMAIN loaders \cup {Current'}
         /\ UNCHANGED <<store, futures, batches, task, written, faults>>
<1>1. /\ loaders \in Seq(Loader) /\ Current \in Nat /\ DOMAIN loaders = 1 .. Current
      /\ Current = Len(loaders)
  BY LoadersTyped DEF Current
<1>2. <<>> \in Seq(Nat)
  OBVIOUS
<1>3. NewLoader \in Loader /\ NewLoader.queue = <<>> /\ \A id \in Ids : NewLoader.cache[id] = 0
  BY <1>2 DEF NewLoader, Loader
<1>4. loaders' = Append(loaders, NewLoader)
  BY DEF NewRequest, AddLoader
<1>5. /\ loaders' \in Seq(Loader) /\ Len(loaders') = Current + 1 /\ Current' = Current + 1
      /\ \A l \in 1 .. Current : loaders'[l] = loaders[l]
      /\ loaders'[Current + 1] = NewLoader
  BY <1>1, <1>3, <1>4 DEF Current
<1>6. DOMAIN loaders' = DOMAIN loaders \cup {Current'} /\ \A l \in 1 .. Current : l # Current'
  BY <1>1, <1>5
<1> QED BY <1>1, <1>3, <1>5, <1>6 DEF NewRequest

(* Every step keeps the types; a batch resolves with values because it has *)
(* read its keys.                                                          *)
LEMMA TypeNext ==
  ASSUME TypeOK, BatchesRead, [Next]_vars
  PROVE  TypeOK'
<1>a. /\ version \in [Ids -> Nat] /\ live \subseteq Ids /\ written \in [Ids -> Nat]
      /\ task \in [Tasks -> Task] /\ faults \in Nat /\ loaders # <<>>
  BY DEF TypeOK
<1>1. ASSUME NEW t \in Tasks, Gen(t) \/ Update(t) \/ Create(t)
      PROVE  TypeOK'
  <2>0. PICK op \in {"gen", "update", "create"}, cache \in [Ids -> Nat], ids \in Seq(Ids) :
           \E new, after : LoadStep(t, op, cache, ids, new, after)
    BY <1>1, LoadSteps
  <2>1. PICK new, after : LoadStep(t, op, cache, ids, new, after)
    BY <2>0
  <2>2. version' \in [Ids -> Nat] /\ written' \in [Ids -> Nat]
    BY <1>a, <2>1, WrittenTyped DEF LoadStep
  <2>3. \A id \in Ids : cache[id] \in DOMAIN futures \cup {0}
    BY <2>1, LoadersTyped DEF LoadStep
  <2>4. live' \subseteq Ids /\ batches' = batches /\ faults' = faults /\ Loaded(t, op, cache, ids, new, after)
    BY <2>1 DEF LoadStep
  <2> QED BY <2>2, <2>3, <2>4, LoadTyped
<1>2. ASSUME NEW t \in Tasks, Delete(t)
      PROVE  TypeOK'
  <2>1. PICK id \in Ids :
           /\ Written(id)
           /\ live' \subseteq Ids
           /\ loaders' \in Seq(Loader) /\ Len(loaders') = Len(loaders)
           /\ \A l \in DOMAIN loaders :
                /\ loaders'[l].queue = loaders[l].queue
                /\ \A x \in Ids : loaders'[l].cache[x] \in {0, loaders[l].cache[x]}
    BY <1>2, DeleteIs
  <2>2. UNCHANGED <<futures, batches, task, faults>>
    BY <1>2 DEF Delete
  <2>3. version' \in [Ids -> Nat] /\ written' \in [Ids -> Nat]
    BY <1>a, <2>1, WrittenTyped
  <2>4. DOMAIN loaders' = DOMAIN loaders /\ loaders' # <<>> /\ \A l \in DOMAIN loaders : loaders'[l] \in Loader
    BY <2>1, LoadersTyped
  <2>5. \A l \in DOMAIN loaders : Range(loaders'[l].cache) \subseteq DOMAIN futures \cup {0}
    <3>1. TAKE l \in DOMAIN loaders
    <3>2. \A x \in Ids : loaders'[l].cache[x] \in DOMAIN futures \cup {0}
      BY <2>1, LoadersTyped
    <3>3. DOMAIN loaders'[l].cache = Ids
      BY <2>4 DEF Loader
    <3> QED BY <3>2, <3>3 DEF Range
  <2> QED BY <2>1, <2>2, <2>3, <2>4, <2>5 DEF TypeOK
<1>3. ASSUME NEW t \in Tasks, Finish(t)
      PROVE  TypeOK'
  <2>1. task' = [task EXCEPT ![t] = Idle] /\ UNCHANGED <<store, loaders, futures, batches, written, faults>>
    BY <1>3 DEF Finish
  <2>2. <<>> \in Seq(Nat) /\ Range(<<>>) = {}
    BY DEF Range
  <2>3. Idle \in Task /\ Range(Idle.awaits) = {}
    BY <2>2 DEF Idle, Task
  <2>4. task' \in [Tasks -> Task] /\ \A s \in Tasks : Range(task'[s].awaits) \subseteq DOMAIN futures
    BY <1>a, <2>1, <2>3, TasksTyped
  <2> QED BY <2>1, <2>4 DEF TypeOK, store
<1>4. ASSUME NEW l \in DOMAIN loaders, Dispatch(l)
      PROVE  TypeOK'
  <2>1. PICK b \in Batch :
           /\ b.loader = l /\ b.futures = loaders[l].queue
           /\ batches' = batches \cup {b}
           /\ loaders' \in Seq(Loader) /\ Len(loaders') = Len(loaders)
           /\ loaders'[l].queue = <<>>
           /\ \A k \in DOMAIN loaders : /\ loaders'[k].cache = loaders[k].cache
                                        /\ k # l => loaders'[k] = loaders[k]
    BY <1>4, DispatchIs
  <2>2. UNCHANGED <<store, futures, task, written, faults>>
    BY <1>4 DEF Dispatch
  <2>3. DOMAIN loaders' = DOMAIN loaders /\ loaders' # <<>>
    BY <2>1, LoadersTyped
  <2>4. Range(<<>>) = {}
    BY DEF Range
  <2>5. \A k \in DOMAIN loaders : /\ Range(loaders'[k].queue) \subseteq DOMAIN futures
                                  /\ Range(loaders'[k].cache) \subseteq DOMAIN futures \cup {0}
    BY <2>1, <2>4 DEF TypeOK
  <2>6. Range(b.futures) \subseteq DOMAIN futures
    BY <2>1, LoadersTyped
  <2> QED BY <2>1, <2>2, <2>3, <2>5, <2>6 DEF TypeOK, store
<1>5. ASSUME NEW b \in batches, FetchShard(b)
      PROVE  TypeOK'
  <2>1. PICK c \in Batch : /\ c.loader = b.loader /\ c.futures = b.futures
                           /\ batches' = (batches \ {b}) \cup {c}
    BY <1>5, FetchIs
  <2>2. UNCHANGED <<store, loaders, futures, task, written, faults>>
    BY <1>5 DEF FetchShard
  <2> QED BY <2>1, <2>2 DEF TypeOK, store
<1>6. ASSUME NEW b \in batches, ResolveBatch(b)
      PROVE  TypeOK'
  <2>1. futures' \in Seq(Future) /\ DOMAIN futures' = DOMAIN futures
    BY <1>6, ResolvedAre, ReferencesKept
  <2>2. batches' = batches \ {b} /\ UNCHANGED <<store, loaders, task, written, faults>>
    BY <1>6 DEF ResolveBatch
  <2> QED BY <2>1, <2>2 DEF TypeOK, store
<1>7. ASSUME NEW b \in batches, RejectBatch(b) \/ FetchFails(b)
      PROVE  TypeOK'
  <2>1. FailBatch(b) /\ batches' = batches \ {b} /\ faults' \in Nat /\ UNCHANGED <<store, task, written>>
    BY <1>a, <1>7 DEF RejectBatch, FetchFails
  <2>2. /\ futures' \in Seq(Future) /\ DOMAIN futures' = DOMAIN futures
        /\ loaders' \in Seq(Loader) /\ Len(loaders') = Len(loaders)
        /\ \A l \in DOMAIN loaders :
              /\ loaders'[l].queue = loaders[l].queue
              /\ \A id \in Ids : loaders'[l].cache[id] \in {0, loaders[l].cache[id]}
    BY <2>1, FailedAre, ReferencesKept
  <2>3. DOMAIN loaders' = DOMAIN loaders /\ loaders' # <<>> /\ \A l \in DOMAIN loaders : loaders'[l] \in Loader
    BY <2>2, LoadersTyped
  <2>4. \A l \in DOMAIN loaders : Range(loaders'[l].cache) \subseteq DOMAIN futures \cup {0}
    <3>1. TAKE l \in DOMAIN loaders
    <3>2. \A x \in Ids : loaders'[l].cache[x] \in DOMAIN futures \cup {0}
      BY <2>2, LoadersTyped
    <3>3. DOMAIN loaders'[l].cache = Ids
      BY <2>3 DEF Loader
    <3> QED BY <3>2, <3>3 DEF Range
  <2> QED BY <2>1, <2>2, <2>3, <2>4 DEF TypeOK, store
<1>8. ASSUME NewRequest
      PROVE  TypeOK'
  <2>1. /\ loaders' \in Seq(Loader)
        /\ \A l \in DOMAIN loaders : loaders'[l] = loaders[l]
        /\ loaders'[Current'].queue = <<>>
        /\ \A id \in Ids : loaders'[Current'].cache[id] = 0
        /\ DOMAIN loaders' = DOMAIN loaders \cup {Current'}
        /\ UNCHANGED <<store, futures, batches, task, written, faults>>
    BY <1>8, NewRequestIs
  <2>2. Range(<<>>) = {}
    BY DEF Range
  <2>3. \A l \in DOMAIN loaders' : loaders'[l] \in Loader
    <3>1. loaders' \in Seq(Loader)
      BY <2>1
    <3> QED BY <3>1, InSequence
  <2>4. Range(loaders'[Current'].cache) \subseteq {0}
    <3>1. loaders'[Current'] \in Loader
      BY <2>1, <2>3
    <3>2. DOMAIN loaders'[Current'].cache = Ids
      BY <3>1 DEF Loader
    <3> QED BY <2>1, <3>2 DEF Range
  <2>5. loaders' # <<>>
    BY <2>1
  <2> QED BY <2>1, <2>2, <2>4, <2>5 DEF TypeOK, store
<1>9. ASSUME StoreWrite
      PROVE  TypeOK'
  <2>1. version' \in [Ids -> Nat] /\ live' \subseteq Ids /\ faults' \in Nat
    BY <1>a, <1>9 DEF StoreWrite
  <2> QED BY <1>9, <2>1 DEF StoreWrite, TypeOK
<1>10. ASSUME UNCHANGED vars
       PROVE  TypeOK'
  BY <1>10 DEF TypeOK, vars
<1> QED BY <1>1, <1>2, <1>3, <1>4, <1>5, <1>6, <1>7, <1>8, <1>9, <1>10, StepIs

-----------------------------------------------------------------------------
(* What the batches have read.                                             *)

(* A future never loses its key.                                           *)
LEMMA KeysNext ==
  ASSUME TypeOK, BatchesRead, [Next]_vars
  PROVE  \A f \in DOMAIN futures : futures'[f].key = futures[f].key
<1>1. ASSUME NEW t \in Tasks, Gen(t) \/ Update(t) \/ Create(t)
      PROVE  \A f \in DOMAIN futures : futures'[f] = futures[f]
  BY <1>1, LoadSteps, FuturesTyped DEF LoadStep, Loaded
<1>2. ASSUME NEW b \in batches, ResolveBatch(b)
      PROVE  \A f \in DOMAIN futures : futures'[f].key = futures[f].key
  BY <1>2, ResolvedAre
<1>3. ASSUME NEW b \in batches, RejectBatch(b) \/ FetchFails(b)
      PROVE  \A f \in DOMAIN futures : futures'[f].key = futures[f].key
  BY <1>3, FailedAre DEF RejectBatch, FetchFails
<1>4. ASSUME NEW t \in Tasks, Delete(t) \/ Finish(t)
      PROVE  futures' = futures
  BY <1>4 DEF Delete, Finish
<1>5. ASSUME NEW l \in DOMAIN loaders, Dispatch(l)
      PROVE  futures' = futures
  BY <1>5 DEF Dispatch
<1>6. ASSUME NEW b \in batches, FetchShard(b)
      PROVE  futures' = futures
  BY <1>6 DEF FetchShard
<1>7. NewRequest \/ StoreWrite \/ UNCHANGED vars => futures' = futures
  BY DEF NewRequest, StoreWrite, vars
<1> QED BY <1>1, <1>2, <1>3, <1>4, <1>5, <1>6, <1>7, StepIs

(* So the keys of a batch stay what they are.                              *)
LEMMA KeysKept ==
  ASSUME TypeOK, NEW b, b.futures \in Seq(Nat), Range(b.futures) \subseteq DOMAIN futures,
         \A f \in DOMAIN futures : futures'[f].key = futures[f].key
  PROVE  Keys(b)' = Keys(b)
<1>1. \A i \in DOMAIN b.futures : b.futures[i] \in DOMAIN futures
  BY DEF Range
<1>2. \A i \in DOMAIN b.futures : futures'[b.futures[i]].key = futures[b.futures[i]].key
  BY <1>1
<1>3. \A i \in DOMAIN b.futures : KeyOf(b.futures[i])' = KeyOf(b.futures[i])
  BY <1>2 DEF KeyOf
<1>4. Keys(b)' = [i \in DOMAIN b.futures |-> KeyOf(b.futures[i])']
  BY DEF Keys
<1>5. Keys(b) = [i \in DOMAIN b.futures |-> KeyOf(b.futures[i])]
  BY DEF Keys
<1> QED BY <1>3, <1>4, <1>5, Zenon

(* A batch has read the keys of every shard that answered: a new batch     *)
(* still waits for all its shards, and a SELECT finds, or misses, every    *)
(* id it asks for.                                                         *)
LEMMA BatchesReadNext ==
  ASSUME TypeOK, BatchesRead, [Next]_vars
  PROVE  BatchesRead'
<1>1. \A b \in batches : Keys(b)' = Keys(b)
  BY BatchesTyped, KeysNext, KeysKept
<1>2. CASE batches' \subseteq batches
  BY <1>1, <1>2 DEF BatchesRead
<1>3. ASSUME NEW l \in DOMAIN loaders, Dispatch(l)
      PROVE  BatchesRead'
  <2>1. PICK b \in Batch :
           /\ b.loader = l /\ b.futures = loaders[l].queue
           /\ \A f \in Range(b.futures) : ShardOf(KeyOf(f)) \in b.todo
           /\ batches' = batches \cup {b}
    BY <1>3, DispatchIs
  <2>2. futures' = futures
    BY <1>3 DEF Dispatch
  <2>3. Keys(b)' = Keys(b)
    BY <2>2 DEF Keys, KeyOf
  <2>4. \A id \in Range(Keys(b)) : ShardOf(id) \in b.todo
    BY <2>1 DEF Range, Keys
  <2> QED BY <1>1, <2>1, <2>3, <2>4 DEF BatchesRead
<1>4. ASSUME NEW b \in batches, FetchShard(b)
      PROVE  BatchesRead'
  <2>1. PICK c \in Batch, s \in b.todo :
           /\ c.loader = b.loader /\ c.futures = b.futures
           /\ c.todo = b.todo \ {s}
           /\ c.got = b.got \cup {Read(id) : id \in {k \in Range(Keys(b)) : ShardOf(k) = s}}
           /\ batches' = (batches \ {b}) \cup {c}
    BY <1>4, FetchIs
  <2>2. futures' = futures
    BY <1>4 DEF FetchShard
  <2>3. Keys(c)' = Keys(b)
    BY <2>1, <2>2 DEF Keys, KeyOf
  <2>4. ASSUME NEW id \in Ids, id \in Range(Keys(b)), ShardOf(id) \notin c.todo
        PROVE  \E v \in c.got : v.id = id
    <3>1. CASE ShardOf(id) = s
      <4>1. Read(id) \in c.got /\ Read(id).id = id
        BY <2>1, <2>4, <3>1 DEF Read
      <4> QED BY <4>1
    <3>2. CASE ShardOf(id) # s
      BY <2>1, <2>4, <3>2 DEF BatchesRead
    <3> QED BY <3>1, <3>2
  <2>5. ASSUME NEW d \in batches', NEW id \in Ids, id \in Range(Keys(d)'), ShardOf(id) \notin d.todo
        PROVE  \E v \in d.got : v.id = id
    <3>1. CASE d = c
      BY <2>3, <2>4, <2>5, <3>1
    <3>2. CASE d # c
      BY <1>1, <2>1, <2>5, <3>2 DEF BatchesRead
    <3> QED BY <3>1, <3>2
  <2> QED BY <2>5 DEF BatchesRead
<1>5. ASSUME NEW t \in Tasks, Gen(t) \/ Update(t) \/ Create(t)
      PROVE  batches' = batches
  BY <1>5, LoadSteps DEF LoadStep
<1>6. ASSUME NEW t \in Tasks, Delete(t) \/ Finish(t)
      PROVE  batches' = batches
  BY <1>6 DEF Delete, Finish
<1>7. ASSUME NEW b \in batches, ResolveBatch(b) \/ RejectBatch(b) \/ FetchFails(b)
      PROVE  batches' \subseteq batches
  BY <1>7 DEF ResolveBatch, RejectBatch, FetchFails
<1>8. NewRequest \/ StoreWrite \/ UNCHANGED vars => batches' = batches
  BY DEF NewRequest, StoreWrite, vars
<1> QED BY <1>2, <1>3, <1>4, <1>5, <1>6, <1>7, <1>8, StepIs

-----------------------------------------------------------------------------
(* Where the futures are.                                                  *)

(* A step that leaves the queues, the batches and the states of futures    *)
(* alone moves nothing.                                                    *)
LEMMA PlacesKept ==
  ASSUME TypeOK, FuturesPlaced, DOMAIN loaders' = DOMAIN loaders, futures' = futures,
         batches' = batches, \A l \in DOMAIN loaders : loaders'[l].queue = loaders[l].queue
  PROVE  FuturesPlaced'
  BY DEF FuturesPlaced, OnePlace, Queued, InBatch, Resolved

(* A load places the futures it makes in the queue of the context's loader *)
(* and nowhere else.                                                       *)
LEMMA LoadPlaces ==
  ASSUME TypeOK, FuturesPlaced, NEW t, NEW op, NEW cache, NEW ids, NEW new, NEW after,
         Loaded(t, op, cache, ids, new, after), batches' = batches
  PROVE  FuturesPlaced'
<1> DEFINE n == Len(futures)
           m == Len(new)
<1>a. /\ n \in Nat /\ m \in Nat /\ DOMAIN futures = 1 .. n
      /\ futures' \in Seq(Future) /\ Len(futures') = n + m
  BY FuturesTyped DEF Loaded
<1>b. /\ \A f \in 1 .. n : futures'[f] = futures[f]
      /\ \A i \in 1 .. m : futures'[n + i] = Pending(new[i])
  BY DEF Loaded
<1>1. /\ n \in Nat /\ m \in Nat /\ DOMAIN futures = 1 .. n /\ DOMAIN futures' = 1 .. n + m
      /\ \A f \in 1 .. n : futures'[f] = futures[f]
      /\ \A i \in 1 .. m : futures'[n + i].state = "pending"
  <2>1. DOMAIN futures' = 1 .. n + m
    BY <1>a
  <2>2. \A i \in 1 .. m : Pending(new[i]).state = "pending"
    BY DEF Pending
  <2> HIDE DEF n, m
  <2> QED BY <1>a, <1>b, <2>1, <2>2
<1>2. /\ DOMAIN loaders' = DOMAIN loaders /\ Current \in DOMAIN loaders
      /\ \A l \in DOMAIN loaders : l # Current => loaders'[l] = loaders[l]
      /\ Range(loaders'[Current].queue) = Range(loaders[Current].queue) \cup (n + 1 .. n + m)
  BY LoadersTyped DEF Loaded, Current
<1>3. \A l \in DOMAIN loaders : Range(loaders[l].queue) \subseteq 1 .. n
  BY <1>1, LoadersTyped
<1>4. \A b \in batches : Range(b.futures) \subseteq 1 .. n
  BY <1>1, BatchesTyped
<1> HIDE DEF n, m
<1>5. ASSUME NEW f \in 1 .. n
      PROVE  OnePlace(f)'
  <2>1. OnePlace(f) /\ f \notin n + 1 .. n + m /\ f \in 1 .. n + m
    BY <1>1 DEF FuturesPlaced
  <2>2. \A l \in DOMAIN loaders : Queued(f, l)' <=> Queued(f, l)
    BY <1>2, <2>1 DEF Queued
  <2>3. \A b \in batches : InBatch(f, b)' <=> InBatch(f, b)
    BY DEF InBatch
  <2>4. Resolved(f)' <=> Resolved(f)
    BY <1>1 DEF Resolved
  <2> QED BY <1>2, <2>1, <2>2, <2>3, <2>4 DEF OnePlace
<1>6. ASSUME NEW f \in n + 1 .. n + m
      PROVE  OnePlace(f)'
  <2>1. f \notin 1 .. n /\ f - n \in 1 .. m /\ f = n + (f - n)
    BY <1>1
  <2>2. \A l \in DOMAIN loaders : Queued(f, l)' <=> l = Current
    BY <1>2, <1>3, <2>1 DEF Queued
  <2>3. \A b \in batches : ~InBatch(f, b)'
    BY <1>4, <2>1 DEF InBatch
  <2>4. ~Resolved(f)'
    BY <1>1, <2>1 DEF Resolved
  <2> QED BY <1>2, <2>2, <2>3, <2>4 DEF OnePlace
<1>7. \A f \in DOMAIN futures' : f \in 1 .. n \/ f \in n + 1 .. n + m
  BY <1>1
<1> QED BY <1>5, <1>6, <1>7 DEF FuturesPlaced

(* Dispatch takes the futures of a queue, all pending and in no other      *)
(* place, into a batch.                                                    *)
LEMMA DispatchPlaces ==
  ASSUME TypeOK, FuturesPlaced, NEW l \in DOMAIN loaders, Dispatch(l)
  PROVE  FuturesPlaced'
<1>1. PICK b \in Batch :
        /\ b.futures = loaders[l].queue
        /\ batches' = batches \cup {b}
        /\ loaders' \in Seq(Loader) /\ Len(loaders') = Len(loaders)
        /\ loaders'[l].queue = <<>>
        /\ \A k \in DOMAIN loaders : k # l => loaders'[k] = loaders[k]
  BY DispatchIs
<1>2. futures' = futures /\ DOMAIN loaders' = DOMAIN loaders
  BY <1>1, LoadersTyped DEF Dispatch
<1>3. Range(<<>>) = {}
  BY DEF Range
<1>4. ASSUME NEW f \in DOMAIN futures
      PROVE  OnePlace(f)'
  <2>1. OnePlace(f)
    BY DEF FuturesPlaced
  <2>2. \A k \in DOMAIN loaders : Queued(f, k)' <=> k # l /\ Queued(f, k)
    BY <1>1, <1>3 DEF Queued
  <2>3. InBatch(f, b)' <=> Queued(f, l)
    BY <1>1 DEF InBatch, Queued
  <2>4. \A c \in batches : InBatch(f, c)' <=> InBatch(f, c)
    BY DEF InBatch
  <2>5. Resolved(f)' <=> Resolved(f)
    BY <1>2 DEF Resolved
  <2> QED BY <1>1, <1>2, <2>1, <2>2, <2>3, <2>4, <2>5 DEF OnePlace
<1> QED BY <1>2, <1>4 DEF FuturesPlaced

(* A batch that has read a shard is the same place as before.              *)
LEMMA FetchPlaces ==
  ASSUME TypeOK, FuturesPlaced, NEW b \in batches, FetchShard(b)
  PROVE  FuturesPlaced'
<1>1. PICK c \in Batch : c.futures = b.futures /\ batches' = (batches \ {b}) \cup {c}
  BY FetchIs
<1>2. futures' = futures /\ loaders' = loaders
  BY DEF FetchShard
<1>3. ASSUME NEW f \in DOMAIN futures
      PROVE  OnePlace(f)'
  <2>1. OnePlace(f)
    BY DEF FuturesPlaced
  <2>2. \A k \in DOMAIN loaders : Queued(f, k)' <=> Queued(f, k)
    BY <1>2 DEF Queued
  <2>3. InBatch(f, c)' <=> InBatch(f, b)
    BY <1>1 DEF InBatch
  <2>4. \A d \in batches : InBatch(f, d)' <=> InBatch(f, d)
    BY DEF InBatch
  <2>5. Resolved(f)' <=> Resolved(f)
    BY <1>2 DEF Resolved
  <2>6. \A d, e \in batches' : InBatch(f, d)' /\ InBatch(f, e)' => d = e
    BY <1>1, <2>1, <2>3, <2>4 DEF OnePlace
  <2> QED BY <1>1, <1>2, <2>1, <2>2, <2>3, <2>4, <2>5, <2>6 DEF OnePlace
<1> QED BY <1>2, <1>3 DEF FuturesPlaced

(* A batch that ends, with values or without, resolves all its futures and *)
(* no other.                                                               *)
LEMMA BatchEndPlaces ==
  ASSUME TypeOK, FuturesPlaced, NEW b \in batches, batches' = batches \ {b},
         DOMAIN futures' = DOMAIN futures, DOMAIN loaders' = DOMAIN loaders,
         \A l \in DOMAIN loaders : loaders'[l].queue = loaders[l].queue,
         \A f \in DOMAIN futures :
           /\ f \notin Range(b.futures) => futures'[f] = futures[f]
           /\ f \in Range(b.futures) => futures'[f].state # "pending"
  PROVE  FuturesPlaced'
<1>1. ASSUME NEW f \in DOMAIN futures
      PROVE  OnePlace(f)'
  <2>1. OnePlace(f)
    BY DEF FuturesPlaced
  <2>2. \A k \in DOMAIN loaders : Queued(f, k)' <=> Queued(f, k)
    BY DEF Queued
  <2>3. \A c \in batches : InBatch(f, c)' <=> InBatch(f, c)
    BY DEF InBatch
  <2>4. Resolved(f)' <=> Resolved(f) \/ InBatch(f, b)
    BY <2>1 DEF Resolved, InBatch, OnePlace
  <2> QED BY <2>1, <2>2, <2>3, <2>4 DEF OnePlace
<1> QED BY <1>1 DEF FuturesPlaced

(* No step strands or duplicates a future.                                 *)
LEMMA PlacedNext ==
  ASSUME TypeOK, BatchesRead, FuturesPlaced, [Next]_vars
  PROVE  FuturesPlaced'
<1>1. ASSUME NEW t \in Tasks, Gen(t) \/ Update(t) \/ Create(t)
      PROVE  FuturesPlaced'
  BY <1>1, LoadSteps, LoadPlaces DEF LoadStep
<1>2. ASSUME NEW t \in Tasks, Delete(t)
      PROVE  FuturesPlaced'
  <2>1. futures' = futures /\ batches' = batches
    BY <1>2 DEF Delete
  <2>2. /\ DOMAIN loaders' = DOMAIN loaders
        /\ \A l \in DOMAIN loaders : loaders'[l].queue = loaders[l].queue
    BY <1>2, DeleteIs, LoadersTyped
  <2> QED BY <2>1, <2>2, PlacesKept
<1>3. ASSUME NEW t \in Tasks, Finish(t)
      PROVE  FuturesPlaced'
  BY <1>3, PlacesKept DEF Finish
<1>4. ASSUME NEW b \in batches, ResolveBatch(b)
      PROVE  FuturesPlaced'
  <2>1. /\ DOMAIN futures' = DOMAIN futures
        /\ \A f \in DOMAIN futures :
             /\ f \notin Range(b.futures) => futures'[f] = futures[f]
             /\ f \in Range(b.futures) => futures'[f].state # "pending"
    BY <1>4, ResolvedAre, ReferencesKept
  <2>2. batches' = batches \ {b} /\ loaders' = loaders
    BY <1>4 DEF ResolveBatch
  <2> QED BY <2>1, <2>2, BatchEndPlaces
<1>5. ASSUME NEW b \in batches, RejectBatch(b) \/ FetchFails(b)
      PROVE  FuturesPlaced'
  <2>1. FailBatch(b) /\ batches' = batches \ {b}
    BY <1>5 DEF RejectBatch, FetchFails
  <2>2. /\ DOMAIN futures' = DOMAIN futures
        /\ \A f \in DOMAIN futures :
             /\ f \notin Range(b.futures) => futures'[f] = futures[f]
             /\ f \in Range(b.futures) => futures'[f].state # "pending"
    BY <2>1, FailedAre, ReferencesKept
  <2>3. /\ DOMAIN loaders' = DOMAIN loaders
        /\ \A l \in DOMAIN loaders : loaders'[l].queue = loaders[l].queue
    BY <2>1, FailedAre, LoadersTyped
  <2> QED BY <2>1, <2>2, <2>3, BatchEndPlaces
<1>6. ASSUME NewRequest
      PROVE  FuturesPlaced'
  <2>1. /\ DOMAIN loaders' = DOMAIN loaders \cup {Current'}
        /\ \A l \in DOMAIN loaders : loaders'[l] = loaders[l]
        /\ loaders'[Current'].queue = <<>>
        /\ futures' = futures /\ batches' = batches
    BY <1>6, NewRequestIs
  <2>2. Range(<<>>) = {}
    BY DEF Range
  <2>3. ASSUME NEW f \in DOMAIN futures
        PROVE  OnePlace(f)'
    <3>1. OnePlace(f)
      BY DEF FuturesPlaced
    <3>2. \A l \in DOMAIN loaders' : Queued(f, l)' <=> l \in DOMAIN loaders /\ Queued(f, l)
      BY <2>1, <2>2 DEF Queued
    <3>3. \A b \in batches : InBatch(f, b)' <=> InBatch(f, b)
      BY DEF InBatch
    <3>4. Resolved(f)' <=> Resolved(f)
      BY <2>1 DEF Resolved
    <3> QED BY <2>1, <3>1, <3>2, <3>3, <3>4 DEF OnePlace
  <2> QED BY <2>1, <2>3 DEF FuturesPlaced
<1>7. StoreWrite \/ UNCHANGED vars => FuturesPlaced'
  BY PlacesKept DEF StoreWrite, vars
<1> QED BY <1>1, <1>2, <1>3, <1>4, <1>5, <1>6, <1>7, DispatchPlaces, FetchPlaces, StepIs

-----------------------------------------------------------------------------
(* How old the futures are.                                                *)

(* Versions never go back, and nothing is written here that the store does *)
(* not get.                                                                *)
LEMMA VersionsNext ==
  ASSUME TypeOK, CachesFresh, [Next]_vars
  PROVE  /\ version' \in [Ids -> Nat] /\ written' \in [Ids -> Nat]
         /\ \A id \in Ids : /\ version[id] <= version'[id] /\ written[id] <= written'[id]
                            /\ written'[id] <= version'[id]
<1> DEFINE Good == /\ version' \in [Ids -> Nat] /\ written' \in [Ids -> Nat]
                   /\ \A id \in Ids : /\ version[id] <= version'[id] /\ written[id] <= written'[id]
                                      /\ written'[id] <= version'[id]
<1>1. /\ version \in [Ids -> Nat] /\ written \in [Ids -> Nat] /\ live \subseteq Ids
      /\ \A id \in Ids : written[id] <= version[id]
  BY DEF TypeOK, CachesFresh
<1>2. ASSUME version' = version, written' = written
      PROVE  Good
  BY <1>1, <1>2
<1>3. ASSUME NEW id \in Ids, Written(id)
      PROVE  Good
  BY <1>1, <1>3 DEF Written
<1>4. ASSUME NEW t \in Tasks, Gen(t) \/ Update(t) \/ Create(t)
      PROVE  Good
  <2> HIDE DEF Good
  <2> QED BY <1>2, <1>3, <1>4, LoadSteps DEF LoadStep
<1>5. ASSUME NEW t \in Tasks, Delete(t)
      PROVE  Good
  BY <1>3, <1>5, DeleteIs
<1>6. ASSUME StoreWrite
      PROVE  Good
  <2>1. PICK id \in Ids : version' = [version EXCEPT ![id] = @ + 1] /\ written' = written
    BY <1>6 DEF StoreWrite
  <2> QED BY <1>1, <2>1
<1>7. ASSUME NEW t \in Tasks, Finish(t)
      PROVE  Good
  BY <1>2, <1>7 DEF Finish, store
<1>8. ASSUME NEW l \in DOMAIN loaders, Dispatch(l)
      PROVE  Good
  BY <1>2, <1>8 DEF Dispatch, store
<1>9. ASSUME NEW b \in batches, FetchShard(b) \/ ResolveBatch(b) \/ RejectBatch(b) \/ FetchFails(b)
      PROVE  Good
  BY <1>2, <1>9 DEF FetchShard, ResolveBatch, RejectBatch, FetchFails, store
<1>10. NewRequest \/ UNCHANGED vars => Good
  BY <1>2 DEF NewRequest, vars, store
<1> HIDE DEF Good
<1>11. Good
  BY <1>4, <1>5, <1>6, <1>7, <1>8, <1>9, <1>10, StepIs
<1> QED BY <1>11 DEF Good

(* A future no older than a version the store has reached stays so,        *)
(* whatever is read or resolved.                                           *)
LEMMA NoOlderNext ==
  ASSUME TypeOK, BatchesRead, [Next]_vars, NEW f \in DOMAIN futures, NEW n \in Nat,
         n <= version[KeyOf(f)], NoOlder(f, n)
  PROVE  NoOlder(f, n)'
<1>a. KeyOf(f)' = KeyOf(f) /\ KeyOf(f) \in Ids
  BY KeysNext, FuturesTyped DEF KeyOf
<1>1. CASE futures'[f] = futures[f] /\ batches' \subseteq batches
  BY <1>1 DEF NoOlder, InBatch, KeyOf
<1>2. ASSUME NEW t \in Tasks, Gen(t) \/ Update(t) \/ Create(t)
      PROVE  NoOlder(f, n)'
  BY <1>1, <1>2, LoadSteps, FuturesTyped DEF LoadStep, Loaded
<1>3. ASSUME NEW l \in DOMAIN loaders, Dispatch(l)
      PROVE  NoOlder(f, n)'
  <2>1. futures' = futures
    BY <1>3 DEF Dispatch
  <2>2. \E b : b.got = {} /\ batches' = batches \cup {b}
    BY <1>3, DispatchIs
  <2> QED BY <2>1, <2>2 DEF NoOlder, InBatch, KeyOf
<1>4. ASSUME NEW b \in batches, FetchShard(b)
      PROVE  NoOlder(f, n)'
  <2>1. PICK c \in Batch, s \in b.todo :
           /\ c.futures = b.futures
           /\ c.got = b.got \cup {Read(id) : id \in {k \in Range(Keys(b)) : ShardOf(k) = s}}
           /\ batches' = (batches \ {b}) \cup {c}
    BY <1>4, FetchIs
  <2>2. futures' = futures
    BY <1>4 DEF FetchShard
  <2>3. \A id : Read(id).id = KeyOf(f) => n <= Read(id).version
    BY DEF Read
  <2>4. InBatch(f, c) => \A v \in c.got : v.id = KeyOf(f) => n <= v.version
    BY <2>1, <2>3 DEF NoOlder, InBatch
  <2> QED BY <2>1, <2>2, <2>4 DEF NoOlder, InBatch, KeyOf
<1>5. ASSUME NEW b \in batches, ResolveBatch(b)
      PROVE  NoOlder(f, n)'
  <2>1. /\ f \notin Range(b.futures) => futures'[f] = futures[f]
        /\ f \in Range(b.futures) => futures'[f].value \in b.got
    BY <1>5, ResolvedAre
  <2>2. batches' \subseteq batches
    BY <1>5 DEF ResolveBatch
  <2> QED BY <1>1, <1>a, <2>1, <2>2 DEF NoOlder, InBatch
<1>6. ASSUME NEW b \in batches, RejectBatch(b) \/ FetchFails(b)
      PROVE  NoOlder(f, n)'
  <2>1. FailBatch(b) /\ batches' \subseteq batches
    BY <1>6 DEF RejectBatch, FetchFails
  <2>2. /\ f \notin Range(b.futures) => futures'[f] = futures[f]
        /\ f \in Range(b.futures) => futures'[f].state = "failed"
    BY <2>1, FailedAre
  <2> QED BY <1>1, <1>a, <2>1, <2>2 DEF NoOlder, InBatch
<1>7. ASSUME NEW t \in Tasks, Delete(t) \/ Finish(t)
      PROVE  NoOlder(f, n)'
  BY <1>1, <1>7 DEF Delete, Finish
<1>8. NewRequest \/ StoreWrite \/ UNCHANGED vars => NoOlder(f, n)'
  BY <1>1 DEF NewRequest, StoreWrite, vars
<1> QED BY <1>2, <1>3, <1>4, <1>5, <1>6, <1>7, <1>8, StepIs

(* A task that goes on waiting, or goes idle, awaits nothing too old.      *)
LEMMA TaskFresh ==
  ASSUME TypeOK, BatchesRead, CachesFresh, [Next]_vars, NEW s \in Tasks,
         task'[s] = task[s] \/ task'[s] = Idle
  PROVE  /\ \A id \in Ids : task'[s].since[id] <= written'[id]
         /\ \A f \in Range(task'[s].awaits) : NoOlder(f, task[s].since[KeyOf(f)])'
<1>1. /\ version' \in [Ids -> Nat] /\ written' \in [Ids -> Nat]
      /\ version \in [Ids -> Nat] /\ written \in [Ids -> Nat]
      /\ \A id \in Ids : written[id] <= written'[id] /\ written[id] <= version[id]
  BY VersionsNext DEF TypeOK, CachesFresh
<1>2. CASE task'[s] = Idle
  <2>1. Range(<<>>) = {}
    BY DEF Range
  <2> QED BY <1>1, <1>2, <2>1 DEF Idle
<1>3. CASE task'[s] = task[s]
  <2>1. \A id \in Ids : task[s].since[id] \in Nat /\ task[s].since[id] <= written[id]
    BY TasksTyped DEF CachesFresh
  <2>2. ASSUME NEW f \in Range(task[s].awaits)
        PROVE  NoOlder(f, task[s].since[KeyOf(f)])'
    <3>1. f \in DOMAIN futures /\ KeyOf(f) \in Ids
      BY TasksTyped, FuturesTyped
    <3>2. /\ task[s].since[KeyOf(f)] \in Nat
          /\ task[s].since[KeyOf(f)] <= version[KeyOf(f)]
          /\ NoOlder(f, task[s].since[KeyOf(f)])
      BY <1>1, <2>1, <3>1 DEF CachesFresh
    <3>3. PICK n \in Nat : n = task[s].since[KeyOf(f)]
      BY <3>2
    <3>4. KeyOf(f)' = KeyOf(f)
      BY <3>1, KeysNext DEF KeyOf
    <3>5. task'[s].since[KeyOf(f)'] = n
      BY <1>3, <3>3, <3>4
    <3>6. NoOlder(f, n)'
      BY <3>1, <3>2, <3>3, NoOlderNext
    <3> QED BY <3>5, <3>6
  <2> QED BY <1>1, <1>3, <2>1, <2>2
<1> QED BY <1>2, <1>3

(* A future that stays cached keeps its key, and on the loader of the      *)
(* context it is as fresh as what was written, unless its id is written.   *)
LEMMA CachedKept ==
  ASSUME TypeOK, BatchesRead, CachesFresh, [Next]_vars, NEW l \in DOMAIN loaders, NEW id \in Ids,
         NEW f, f = loaders[l].cache[id], f # 0
  PROVE  /\ f \in DOMAIN futures /\ KeyOf(f) = id /\ KeyOf(f)' = id
         /\ l = Current /\ written'[id] = written[id] => NoOlder(f, written[id])'
<1>1. f \in DOMAIN futures /\ KeyOf(f) = id
  BY LoadersTyped DEF CachesFresh
<1>2. KeyOf(f)' = id
  BY <1>1, KeysNext DEF KeyOf
<1>3. ASSUME l = Current, written'[id] = written[id]
      PROVE  NoOlder(f, written[id])'
  <2>1. NoOlder(f, written[id]) /\ written[id] <= version[KeyOf(f)]
    BY <1>1, <1>3 DEF CachesFresh
  <2>2. PICK n \in Nat : n = written[id]
    BY DEF TypeOK
  <2>3. NoOlder(f, n)'
    BY <1>1, <2>1, <2>2, NoOlderNext
  <2> QED BY <1>3, <2>2, <2>3
<1> QED BY <1>1, <1>2, <1>3

(* Steps that only clear cached futures, those of written ids among them,  *)
(* keep the caches fresh.                                                  *)
LEMMA ClearedFresh ==
  ASSUME TypeOK, BatchesRead, CachesFresh, [Next]_vars,
         DOMAIN loaders' = DOMAIN loaders, Current' = Current,
         \A l \in DOMAIN loaders, id \in Ids : loaders'[l].cache[id] \in {0, loaders[l].cache[id]},
         \A id \in Ids : written'[id] = written[id] \/ loaders'[Current].cache[id] = 0,
         \A t \in Tasks : task'[t] = task[t] \/ task'[t] = Idle
  PROVE  CachesFresh'
<1>1. \A id \in Ids : written'[id] <= version'[id]
  BY VersionsNext
<1>2. ASSUME NEW l \in DOMAIN loaders, NEW id \in Ids, loaders'[l].cache[id] # 0
      PROVE  /\ KeyOf(loaders[l].cache[id])' = id
             /\ l = Current' => NoOlder(loaders[l].cache[id], written[id])'
  <2>1. PICK f : f = loaders[l].cache[id]
    OBVIOUS
  <2>2. loaders'[l].cache[id] = f /\ f # 0
    BY <1>2, <2>1
  <2>3. KeyOf(f)' = id /\ (l = Current /\ written'[id] = written[id] => NoOlder(f, written[id])')
    BY <2>1, <2>2, CachedKept
  <2> QED BY <1>2, <2>2, <2>3
<1>3. \A t \in Tasks :
        /\ \A id \in Ids : task'[t].since[id] <= written'[id]
        /\ \A f \in Range(task'[t].awaits) : NoOlder(f, task[t].since[KeyOf(f)])'
  BY TaskFresh
<1> QED BY <1>1, <1>2, <1>3 DEF CachesFresh

(* A load shares futures of the context's loader that are fresh enough, or *)
(* makes new ones that nothing has been read for.                          *)
LEMMA LoadFresh ==
  ASSUME TypeOK, BatchesRead, CachesFresh, [Next]_vars, NEW t \in Tasks, NEW op,
         NEW cache \in [Ids -> Nat], NEW ids \in Seq(Ids), NEW new, NEW after,
         LoadStep(t, op, cache, ids, new, after)
  PROVE  CachesFresh'
<1> DEFINE n == Len(futures)
           m == Len(new)
<1>1. /\ n \in Nat /\ m \in Nat /\ DOMAIN futures = 1 .. n /\ batches' = batches
      /\ DOMAIN loaders' = DOMAIN loaders /\ Current' = Current /\ Current \in DOMAIN loaders
      /\ loaders'[Current].cache = after
      /\ \A l \in DOMAIN loaders : l # Current => loaders'[l] = loaders[l]
      /\ after \in [Ids -> Nat]
  BY FuturesTyped, LoadersTyped, SMTT(30) DEF LoadStep, Loaded, Current
<1>2. /\ version' \in [Ids -> Nat] /\ written' \in [Ids -> Nat]
      /\ \A id \in Ids : written'[id] <= version'[id] /\ written[id] <= written'[id]
  BY VersionsNext
<1>3. ASSUME NEW i \in 1 .. m, NEW f, f = n + i
      PROVE  KeyOf(f)' = new[i] /\ \A k : NoOlder(f, k)'
  <2>1. futures'[f] = Pending(new[i])
    BY <1>3 DEF LoadStep, Loaded
  <2>2. futures'[f].key = new[i] /\ futures'[f].state = "pending"
    BY <2>1 DEF Pending
  <2>3. f \notin DOMAIN futures
    BY <1>1, <1>3
  <2>4. \A b \in batches : ~InBatch(f, b)
    BY <2>3, BatchesTyped DEF InBatch
  <2> QED BY <1>1, <2>2, <2>4 DEF KeyOf, NoOlder, InBatch
<1>4. ASSUME NEW id \in Ids, cache[id] # 0
      PROVE  /\ cache[id] = loaders[Current].cache[id]
             /\ written'[id] = written[id]
  <2>1. cache[id] = loaders[Current].cache[id]
    BY <1>4 DEF LoadStep
  <2>2. cache[id] \in DOMAIN futures /\ KeyOf(cache[id]) = id
    BY <1>1, <1>4, <2>1, LoadersTyped DEF CachesFresh
  <2>3. CASE written' = written
    BY <2>1, <2>3
  <2>4. ASSUME NEW x \in Ids, Written(x), cache[x] = 0 \/ \A f \in DOMAIN futures : KeyOf(f) # x
        PROVE  written'[id] = written[id]
    <3>1. id # x
      BY <1>4, <2>2, <2>4
    <3> QED BY <2>4, <3>1 DEF Written, TypeOK
  <2> QED BY <2>1, <2>3, <2>4 DEF LoadStep
<1>5. ASSUME NEW id \in Ids, after[id] # 0
      PROVE  KeyOf(after[id])' = id /\ NoOlder(after[id], written[id])'
  <2>1. CASE after[id] = cache[id]
    <3>1. PICK f : f = cache[id]
      OBVIOUS
    <3>2. f # 0 /\ f = loaders[Current].cache[id] /\ written'[id] = written[id]
      BY <1>4, <1>5, <2>1, <3>1
    <3>3. KeyOf(f)' = id /\ NoOlder(f, written[id])'
      BY <1>1, <3>2, CachedKept
    <3>4. after[id] = f
      BY <2>1, <3>1
    <3> QED BY <3>3, <3>4
  <2>2. ASSUME NEW i \in 1 .. m, new[i] = id, after[id] = n + i
        PROVE  KeyOf(after[id])' = id /\ NoOlder(after[id], written[id])'
    <3>1. KeyOf(after[id])' = new[i] /\ \A k : NoOlder(after[id], k)'
      BY <1>3, <2>2
    <3>2. NoOlder(after[id], written[id])'
      BY <3>1
    <3> QED BY <2>2, <3>1, <3>2
  <2> QED BY <2>1, <2>2 DEF LoadStep, Loaded
<1>6. ASSUME NEW l \in DOMAIN loaders', NEW id \in Ids, loaders'[l].cache[id] # 0
      PROVE  /\ KeyOf(loaders[l].cache[id])' = id
             /\ l = Current' => NoOlder(loaders[l].cache[id], written[id])'
  <2>1. CASE l = Current
    BY <1>1, <1>5, <1>6, <2>1
  <2>2. CASE l # Current
    <3>1. loaders'[l] = loaders[l] /\ l \in DOMAIN loaders
      BY <1>1, <2>2
    <3>2. PICK f : f = loaders[l].cache[id]
      OBVIOUS
    <3>3. KeyOf(f)' = id
      BY <1>6, <3>1, <3>2, CachedKept
    <3> QED BY <1>1, <2>2, <3>1, <3>2, <3>3
  <2> QED BY <2>1, <2>2
<1>7. ASSUME NEW s \in Tasks
      PROVE  /\ \A id \in Ids : task'[s].since[id] <= written'[id]
             /\ \A f \in Range(task'[s].awaits) : NoOlder(f, task[s].since[KeyOf(f)])'
  <2>1. task' = [task EXCEPT ![t] = [op |-> op, awaits |-> [i \in DOMAIN ids |-> after[ids[i]]],
                                     since |-> written']] /\ task \in [Tasks -> Task]
    BY DEF LoadStep, Loaded, TypeOK
  <2>2. CASE s # t
    BY <2>1, <2>2, TaskFresh
  <2>3. CASE s = t
    <3>1. task'[s].since = written' /\ task'[s].awaits = [i \in DOMAIN ids |-> after[ids[i]]]
      BY <2>1, <2>3
    <3>2. \A id \in Ids : task'[s].since[id] <= written'[id]
      BY <1>2, <3>1
    <3>3. ASSUME NEW f \in Range(task'[s].awaits)
          PROVE  NoOlder(f, task[s].since[KeyOf(f)])'
      <4>1. PICK i \in DOMAIN ids : f = after[ids[i]]
        BY <3>1 DEF Range
      <4>2. ids[i] \in Ids /\ after[ids[i]] # 0
        BY InSequence DEF LoadStep, Loaded
      <4>3. KeyOf(f)' = ids[i] /\ NoOlder(f, written[ids[i]])'
        BY <1>5, <4>1, <4>2
      <4>4. task'[s].since[KeyOf(f)'] = written'[ids[i]]
        BY <3>1, <4>3
      <4> QED BY <4>3, <4>4
    <3> QED BY <3>2, <3>3
  <2> QED BY <2>2, <2>3
<1> QED BY <1>2, <1>6, <1>7 DEF CachesFresh

(* Every step keeps the caches and the waiting tasks fresh.                *)
LEMMA FreshNext ==
  ASSUME TypeOK, BatchesRead, CachesFresh, [Next]_vars
  PROVE  CachesFresh'
<1>a. DOMAIN loaders = 1 .. Len(loaders) /\ loaders \in Seq(Loader) /\ Current \in DOMAIN loaders
  BY LoadersTyped DEF Current
<1>b. CASE loaders' = loaders /\ written' = written /\ task' = task
  BY <1>b, ClearedFresh DEF Current
<1>1. ASSUME NEW t \in Tasks, Gen(t) \/ Update(t) \/ Create(t)
      PROVE  CachesFresh'
  BY <1>1, LoadSteps, LoadFresh
<1>2. ASSUME NEW t \in Tasks, Delete(t)
      PROVE  CachesFresh'
  <2>1. PICK id \in Ids :
           /\ Written(id)
           /\ loaders' \in Seq(Loader) /\ Len(loaders') = Len(loaders)
           /\ \A l \in DOMAIN loaders : \A x \in Ids : loaders'[l].cache[x] \in {0, loaders[l].cache[x]}
           /\ loaders'[Current].cache[id] = 0
    BY <1>2, DeleteIs
  <2>2. DOMAIN loaders' = DOMAIN loaders /\ Current' = Current
    BY <1>a, <2>1 DEF Current
  <2>3. \A x \in Ids : written'[x] = written[x] \/ loaders'[Current].cache[x] = 0
    BY <2>1 DEF Written, TypeOK
  <2>4. task' = task
    BY <1>2 DEF Delete
  <2> QED BY <2>1, <2>2, <2>3, <2>4, ClearedFresh
<1>3. ASSUME NEW t \in Tasks, Finish(t)
      PROVE  CachesFresh'
  <2>1. task' = [task EXCEPT ![t] = Idle] /\ loaders' = loaders /\ written' = written
    BY <1>3 DEF Finish
  <2>2. \A s \in Tasks : task'[s] = task[s] \/ task'[s] = Idle
    BY <2>1 DEF TypeOK
  <2> QED BY <2>1, <2>2, ClearedFresh DEF Current
<1>4. ASSUME NEW l \in DOMAIN loaders, Dispatch(l)
      PROVE  CachesFresh'
  <2>1. /\ loaders' \in Seq(Loader) /\ Len(loaders') = Len(loaders)
        /\ \A k \in DOMAIN loaders : loaders'[k].cache = loaders[k].cache
    BY <1>4, DispatchIs
  <2>2. DOMAIN loaders' = DOMAIN loaders /\ Current' = Current
    BY <1>a, <2>1 DEF Current
  <2>3. task' = task /\ written' = written
    BY <1>4 DEF Dispatch
  <2> QED BY <2>1, <2>2, <2>3, ClearedFresh
<1>5. ASSUME NEW b \in batches, FetchShard(b) \/ ResolveBatch(b)
      PROVE  CachesFresh'
  BY <1>5, <1>b DEF FetchShard, ResolveBatch
<1>6. ASSUME NEW b \in batches, RejectBatch(b) \/ FetchFails(b)
      PROVE  CachesFresh'
  <2>1. FailBatch(b) /\ written' = written /\ task' = task
    BY <1>6 DEF RejectBatch, FetchFails
  <2>2. /\ loaders' \in Seq(Loader) /\ Len(loaders') = Len(loaders)
        /\ \A l \in DOMAIN loaders, id \in Ids : loaders'[l].cache[id] \in {0, loaders[l].cache[id]}
    BY <2>1, FailedAre
  <2>3. DOMAIN loaders' = DOMAIN loaders /\ Current' = Current
    BY <1>a, <2>2 DEF Current
  <2> QED BY <2>1, <2>2, <2>3, ClearedFresh
<1>7. ASSUME NewRequest
      PROVE  CachesFresh'
  <2>1. /\ \A l \in DOMAIN loaders : loaders'[l] = loaders[l] /\ l # Current'
        /\ \A id \in Ids : loaders'[Current'].cache[id] = 0
        /\ DOMAIN loaders' = DOMAIN loaders \cup {Current'}
        /\ task' = task /\ written' = written
    BY <1>7, NewRequestIs
  <2>2. \A id \in Ids : written'[id] <= version'[id]
    BY VersionsNext
  <2>3. ASSUME NEW l \in DOMAIN loaders', NEW id \in Ids, loaders'[l].cache[id] # 0
        PROVE  KeyOf(loaders[l].cache[id])' = id /\ l # Current'
    <3>1. l \in DOMAIN loaders /\ loaders'[l] = loaders[l] /\ l # Current'
      BY <2>1, <2>3
    <3>2. PICK f : f = loaders[l].cache[id]
      OBVIOUS
    <3>3. KeyOf(f)' = id
      BY <2>3, <3>1, <3>2, CachedKept
    <3> QED BY <3>1, <3>2, <3>3
  <2>4. \A t \in Tasks :
          /\ \A id \in Ids : task'[t].since[id] <= written'[id]
          /\ \A f \in Range(task'[t].awaits) : NoOlder(f, task[t].since[KeyOf(f)])'
    BY <2>1, TaskFresh
  <2> QED BY <2>2, <2>3, <2>4 DEF CachesFresh
<1>8. StoreWrite \/ UNCHANGED vars => CachesFresh'
  BY <1>b DEF StoreWrite, vars
<1> QED BY <1>1, <1>2, <1>3, <1>4, <1>5, <1>6, <1>7, <1>8, StepIs

-----------------------------------------------------------------------------
(* What holds of every behaviour.                                          *)

(* A server starts with an empty loader.                                   *)
LEMMA LoaderInit == Init => TypeOK /\ LoaderInv
<1> SUFFICES ASSUME Init PROVE TypeOK /\ LoaderInv
  OBVIOUS
<1>1. /\ live \subseteq Ids /\ version \in [Ids -> Nat] /\ written = version
      /\ futures = <<>> /\ batches = {} /\ faults = 0
      /\ loaders = <<NewLoader>> /\ task = [t \in Tasks |-> Idle]
  BY LoaderAssumption DEF Init
<1>2. <<>> \in Seq(Nat) /\ Range(<<>>) = {} /\ <<>> \in Seq(Future) /\ DOMAIN <<>> = {}
  BY DEF Range
<1>3. /\ NewLoader \in Loader /\ NewLoader.queue = <<>>
      /\ \A id \in Ids : NewLoader.cache[id] = 0
      /\ NewLoader.cache \in [Ids -> Nat]
  BY <1>2 DEF NewLoader, Loader
<1>4. Range(NewLoader.cache) \subseteq {0}
  BY <1>3 DEF Range
<1>5. /\ loaders \in Seq(Loader) /\ loaders # <<>> /\ DOMAIN loaders = {1}
      /\ loaders[1] = NewLoader
  BY <1>1, <1>3
<1>6. Idle \in Task /\ Idle.awaits = <<>> /\ \A id \in Ids : Idle.since[id] = 0
  BY <1>2 DEF Idle, Task
<1>7. TypeOK
  BY <1>1, <1>2, <1>3, <1>4, <1>5, <1>6 DEF TypeOK
<1>8. BatchesRead
  BY <1>1 DEF BatchesRead
<1>9. FuturesPlaced
  BY <1>1, <1>2 DEF FuturesPlaced
<1>10. CachesFresh
  BY <1>1, <1>2, <1>3, <1>5, <1>6 DEF CachesFresh
<1> QED BY <1>7, <1>8, <1>9, <1>10 DEF LoaderInv

(* Every step keeps the invariant.                                         *)
LEMMA LoaderInvNext == TypeOK /\ LoaderInv /\ [Next]_vars => TypeOK' /\ LoaderInv'
  BY TypeNext, BatchesReadNext, PlacedNext, FreshNext DEF LoaderInv

(* Loaders, futures, batches and tasks keep their shapes; a future is in   *)
(* one queue or batch until it is resolved; a batch has read what its      *)
(* shards answered; and caches are as fresh as the mutations that returned *)
(* here, whichever others raised in between.                               *)
THEOREM LoaderInvariance == Spec => [](TypeOK /\ LoaderInv)
<1>1. Init => TypeOK /\ LoaderInv
  BY LoaderInit
<1>2. TypeOK /\ LoaderInv /\ [Next]_vars => (TypeOK /\ LoaderInv)'
  BY LoaderInvNext
<1> QED BY <1>1, <1>2, PTL DEF Spec

(* Every future, batch and task refers to what exists.                     *)
THEOREM LoaderTypeCorrect == Spec => []TypeOK
  BY LoaderInvariance, PTL

(* Fresh caches and tasks answer with no older data than the mutations     *)
(* that returned here before the load.                                     *)
LEMMA FreshIsSeen == TypeOK /\ LoaderInv => LocalWritesSeen
<1> SUFFICES ASSUME TypeOK, CachesFresh, NEW t \in Tasks, NEW i \in DOMAIN task[t].awaits
             PROVE  LET fut == futures[task[t].awaits[i]]
                    IN  fut.state = "value" /\ fut.value.id = fut.key =>
                          fut.value.version >= task[t].since[fut.key]
  BY DEF LoaderInv, LocalWritesSeen
<1> DEFINE f == task[t].awaits[i]
<1>1. f \in Range(task[t].awaits) /\ f \in DOMAIN futures
  BY TasksTyped
<1>2. NoOlder(f, task[t].since[KeyOf(f)])
  BY <1>1 DEF CachesFresh
<1>3. /\ KeyOf(f) \in Ids /\ task[t].since[KeyOf(f)] \in Nat
      /\ futures[f].value \in Value \cup {NoValue}
  BY <1>1, FuturesTyped, TasksTyped
<1>4. futures[f].value.version \in Nat
  BY <1>3 DEF Value, NoValue
<1> QED BY <1>2, <1>3, <1>4 DEF NoOlder, KeyOf

(* pent.py: update_pent and create_pent load after they write, and         *)
(* update_pent and delete_pent clear what they wrote when the write        *)
(* returns, so that no load answers with data older than the last mutation *)
(* of its object that had returned here.  Mutations may raise after their  *)
(* write at any time, without clearing anything: then the stale pent is    *)
(* served until another mutation of the object returns, and no longer.     *)
THEOREM LocalWritesSeenCorrect == Spec => []LocalWritesSeen
<1>1. TypeOK /\ LoaderInv => LocalWritesSeen
  BY FreshIsSeen
<1> QED BY <1>1, LoaderInvariance, PTL

(* One place for a pending future, none for another: counting the queues   *)
(* and batches it is in gives one, or none.                                *)
LEMMA PlacedIsQueued == TypeOK /\ LoaderInv => PendingIsQueued
<1> SUFFICES ASSUME TypeOK, FuturesPlaced, NEW f \in DOMAIN futures
             PROVE  Cardinality({<<"queue", l>> : l \in {k \in DOMAIN loaders : f \in Range(loaders[k].queue)}}
                      \cup {<<"batch", b>> : b \in {c \in batches : f \in Range(c.futures)}})
                      = IF Resolved(f) THEN 0 ELSE 1
  BY DEF LoaderInv, PendingIsQueued
<1> DEFINE queues == {k \in DOMAIN loaders : f \in Range(loaders[k].queue)}
           places == {c \in batches : f \in Range(c.futures)}
           all == {<<"queue", l>> : l \in queues} \cup {<<"batch", b>> : b \in places}
<1>1. OnePlace(f)
  BY DEF FuturesPlaced
<1>2. /\ \A l, k \in queues : l = k
      /\ \A b, c \in places : b = c
      /\ queues = {} \/ places = {}
      /\ Resolved(f) <=> queues = {} /\ places = {}
  BY <1>1 DEF OnePlace, Queued, InBatch
<1>3. CASE Resolved(f)
  <2>1. all = {}
    BY <1>2, <1>3
  <2> QED BY <1>3, <2>1, FS_EmptySet
<1>4. CASE ~Resolved(f)
  <2> HIDE DEF queues, places
  <2>1. \E x : all = {x}
    <3>1. ASSUME NEW l \in queues
          PROVE  all = {<<"queue", l>>}
      <4>1. queues = {l} /\ places = {}
        BY <1>2
      <4> QED BY <4>1
    <3>2. ASSUME NEW b \in places
          PROVE  all = {<<"batch", b>>}
      <4>1. places = {b} /\ queues = {}
        BY <1>2
      <4> QED BY <4>1
    <3> HIDE DEF all
    <3> QED BY <1>2, <1>4, <3>1, <3>2
  <2> HIDE DEF all
  <2>2. Cardinality(all) = 1
    BY <2>1, FS_Singleton
  <2> QED BY <1>4, <2>2 DEF all, queues, places
<1> QED BY <1>3, <1>4

(* Whatever replaces the loader, fails or is cleared, a pending future is  *)
(* in exactly one queue or batch, and a resolved one in none.              *)
THEOREM PendingIsQueuedCorrect == Spec => []PendingIsQueued
<1>1. TypeOK /\ LoaderInv => PendingIsQueued
  BY PlacedIsQueued
<1> QED BY <1>1, LoaderInvariance, PTL

-----------------------------------------------------------------------------
(* Answers on one shard.                                                   *)

(* A batch has one value per future only when its keys are distinct.       *)
LEMMA DistinctKeys ==
  ASSUME TypeOK, BatchesRead, NEW b \in batches, Fetched(b)
  PROVE  OnePerKey(b) <=> IsInjective(Keys(b))
<1>1. /\ Keys(b) \in Seq(Ids) /\ Len(Keys(b)) = Len(b.futures)
  BY BatchesTyped
<1>2. Len(PentDict(b)) = Cardinality(Range(Keys(b)))
  BY ValuesAre
<1> QED BY <1>1, <1>2, FiniteRange DEF OnePerKey

(* With one shard the order of the pents is that of distinct keys.         *)
LEMMA OneShardKeepsOrder ==
  ASSUME TypeOK, NumShards = 1, NEW b \in batches, IsInjective(Keys(b))
  PROVE  PentDict(b) = Keys(b)
<1> DEFINE ids == Keys(b)
           R == Range(ids)
           shards == [i \in DOMAIN ids |-> ShardOf(ids[i])]
<1>1. ids \in Seq(Ids) /\ Len(ids) \in Nat /\ DOMAIN ids = 1 .. Len(ids) /\ IsInjective(ids)
  BY BatchesTyped
<1> HIDE DEF ids
<1>2. /\ IsFiniteSet(R) /\ StrictlyOrders(PentOrder(ids), R) /\ R \subseteq Ids
      /\ Cardinality(R) = Len(ids)
  BY <1>1, FiniteRange, PentsOrdered, InSequence
<1>3. \A id \in R : ShardOf(id) = 0
  <2>1. \A k \in Nat : k % 1 = 0
    OBVIOUS
  <2>2. R \subseteq Nat
    BY <1>2, LoaderAssumption
  <2> HIDE DEF R
  <2> QED BY <2>1, <2>2 DEF ShardOf
<1>4. ASSUME NEW i \in DOMAIN ids, NEW j \in DOMAIN ids, i < j
      PROVE  <<ids[i], ids[j]>> \in PentOrder(ids)
  <2>1. ids[i] \in R /\ ids[j] \in R
    BY DEF Range
  <2>2. Position(ids, ids[i]) = i /\ Position(ids, ids[j]) = j
    <3>1. \A k \in DOMAIN ids : Position(ids, ids[k]) = k
      <4>1. TAKE k \in DOMAIN ids
      <4>2. ids[k] \in R
        BY DEF Range
      <4>3. Position(ids, ids[k]) \in DOMAIN ids /\ ids[Position(ids, ids[k])] = ids[k]
        BY <1>1, <4>2, PositionIs
      <4> QED BY <1>1, <4>3 DEF IsInjective
    <3> QED BY <3>1
  <2>3. Before(ids, ids[i], ids[j])
    BY <1>3, <1>4, <2>1, <2>2 DEF Before
  <2> QED BY <2>1, <2>3 DEF PentOrder
<1>5. ids \in [1 .. Cardinality(R) -> R]
  <2>1. \A i \in 1 .. Len(ids) : ids[i] \in R
    BY <1>1 DEF Range
  <2> HIDE DEF R
  <2>2. ids \in [1 .. Len(ids) -> R]
    BY <1>1, <2>1
  <2> QED BY <1>2, <2>2
<1>6. IsInOrder(ids, PentOrder(ids))
  BY <1>4 DEF IsInOrder
<1>7. InOrder(R, PentOrder(ids)) = ids
  BY <1>2, <1>5, <1>6, InOrderUnique
<1> QED BY <1>7 DEF PentDict, ids

(* A load adds pending futures only, so an answer stays what it is.        *)
LEMMA LoadedAnswers ==
  ASSUME TypeOK, NEW t \in Tasks, Gen(t) \/ Update(t) \/ Create(t)
  PROVE  /\ \A f \in DOMAIN futures' : futures'[f].state = "value" =>
              f \in DOMAIN futures /\ futures'[f] = futures[f]
         /\ batches' = batches /\ LoadedStayMissing
<1>1. PICK op, cache, ids, new, after : LoadStep(t, op, cache, ids, new, after)
  BY LoadSteps
<1> DEFINE n == Len(futures)
           m == Len(new)
<1>2. /\ n \in Nat /\ m \in Nat /\ DOMAIN futures = 1 .. n
      /\ futures' \in Seq(Future) /\ Len(futures') = n + m
      /\ \A f \in 1 .. n : futures'[f] = futures[f]
      /\ \A i \in 1 .. m : futures'[n + i] = Pending(new[i])
  BY <1>1, FuturesTyped DEF LoadStep, Loaded
<1>3. \A i \in 1 .. m : Pending(new[i]).state = "pending"
  BY DEF Pending
<1> HIDE DEF n, m
<1>4. ASSUME NEW f \in DOMAIN futures', futures'[f].state = "value"
      PROVE  f \in DOMAIN futures /\ futures'[f] = futures[f]
  <2>1. f \in 1 .. n \/ (f - n \in 1 .. m /\ f = n + (f - n))
    BY <1>2
  <2> QED BY <1>2, <1>3, <1>4, <2>1
<1> QED BY <1>1, <1>4 DEF LoadStep

(* Only ids that a future asks for are read, and no step brings one of     *)
(* them back.                                                              *)
LEMMA MissingNext ==
  ASSUME TypeOK, BatchesRead, [Next]_vars
  PROVE  LoadedStayMissing
<1>1. ASSUME NEW t \in Tasks, Gen(t) \/ Update(t) \/ Create(t)
      PROVE  LoadedStayMissing
  BY <1>1, LoadedAnswers
<1>2. live' \subseteq live => LoadedStayMissing
  BY DEF LoadedStayMissing
<1>3. ASSUME NEW t \in Tasks, Delete(t) \/ Finish(t)
      PROVE  live' \subseteq live
  BY <1>3 DEF Delete, Finish, store
<1>4. ASSUME NEW l \in DOMAIN loaders, Dispatch(l)
      PROVE  live' = live
  BY <1>4 DEF Dispatch, store
<1>5. ASSUME NEW b \in batches, FetchShard(b) \/ ResolveBatch(b) \/ RejectBatch(b) \/ FetchFails(b)
      PROVE  live' = live
  BY <1>5 DEF FetchShard, ResolveBatch, RejectBatch, FetchFails, store
<1>6. NewRequest \/ UNCHANGED vars => live' = live
  BY DEF NewRequest, vars, store
<1>7. StoreWrite => LoadedStayMissing
  BY DEF StoreWrite
<1> QED BY <1>1, <1>2, <1>3, <1>4, <1>5, <1>6, <1>7, StepIs

(* A batch's reads are of its own keys, and what they miss stays missing.  *)
ReadsMissing(b) == \A v \in b.got : v.id \in Range(Keys(b)) /\ (~v.live => v.id \notin live)
LEMMA ReadsMissingKept ==
  ASSUME TypeOK, BatchesRead, [Next]_vars, NEW b \in batches, ReadsMissing(b)
  PROVE  ReadsMissing(b)'
<1>1. Keys(b)' = Keys(b)
  BY BatchesTyped, KeysNext, KeysKept
<1>2. \A id \in Range(Keys(b)) : \E f \in DOMAIN futures : KeyOf(f) = id
  BY BatchesTyped DEF Range
<1>3. \A id \in Range(Keys(b)) : id \notin live => id \notin live'
  BY <1>2, MissingNext DEF LoadedStayMissing
<1> QED BY <1>1, <1>3 DEF ReadsMissing

(* So the i-th value is the one the i-th future asked for.                 *)
LEMMA MissingStayNext ==
  ASSUME NumShards = 1, TypeOK, BatchesRead, MissingStay, [Next]_vars
  PROVE  MissingStay'
<1> DEFINE Right(f) == futures[f].state = "value" =>
                         /\ futures[f].value.id = KeyOf(f)
                         /\ ~futures[f].value.live => KeyOf(f) \notin live
<1>a. \A b \in batches : ReadsMissing(b) /\ ReadsMissing(b)'
  BY ReadsMissingKept DEF MissingStay, ReadsMissing
<1>b. \A f \in DOMAIN futures : Right(f)
  BY DEF MissingStay
<1>c. \A f \in DOMAIN futures : futures'[f] = futures[f] => Right(f)'
  BY <1>b, MissingNext DEF LoadedStayMissing, KeyOf
<1> HIDE DEF Right
<1>d. ASSUME \A b \in batches' : ReadsMissing(b)', \A f \in DOMAIN futures' : Right(f)'
      PROVE  MissingStay'
  BY <1>d DEF MissingStay, ReadsMissing, Right
<1>e. ASSUME batches' \subseteq batches, DOMAIN futures' = DOMAIN futures,
             \A f \in DOMAIN futures : futures'[f] = futures[f] \/ futures'[f].state = "failed"
      PROVE  MissingStay'
  <2>1. \A f \in DOMAIN futures : futures'[f].state = "failed" => Right(f)'
    BY DEF Right
  <2> QED BY <1>a, <1>c, <1>d, <1>e, <2>1
<1>1. ASSUME NEW t \in Tasks, Gen(t) \/ Update(t) \/ Create(t)
      PROVE  MissingStay'
  <2>1. ASSUME NEW f \in DOMAIN futures' PROVE Right(f)'
    <3>1. CASE futures'[f].state = "value"
      BY <1>1, <1>c, <3>1, LoadedAnswers
    <3>2. CASE futures'[f].state # "value"
      BY <3>2 DEF Right
    <3> QED BY <3>1, <3>2
  <2> QED BY <1>1, <1>a, <1>d, <2>1, LoadedAnswers
<1>2. ASSUME NEW b \in batches, ResolveBatch(b)
      PROVE  MissingStay'
  <2>1. /\ DOMAIN futures' = DOMAIN futures
        /\ \A f \in DOMAIN futures :
              /\ futures'[f].key = futures[f].key
              /\ f \notin Range(b.futures) => futures'[f] = futures[f]
              /\ f \in Range(b.futures) =>
                   futures'[f].value = ValueOf(b, PentDict(b)[Position(b.futures, f)])
    BY <1>2, ResolvedAre, ReferencesKept
  <2>2. PentDict(b) = Keys(b)
    BY <1>2, DistinctKeys, OneShardKeepsOrder DEF ResolveBatch
  <2>3. live' = live
    BY <1>2 DEF ResolveBatch, store
  <2>4. ASSUME NEW f \in Range(b.futures)
        PROVE  Right(f)'
    <3>1. f \in DOMAIN futures /\ b.futures \in Seq(Nat)
      BY BatchesTyped
    <3>2. Position(b.futures, f) \in 1 .. Len(b.futures) /\ b.futures[Position(b.futures, f)] = f
      BY <3>1, PositionIs
    <3>3. Keys(b)[Position(b.futures, f)] = KeyOf(f) /\ KeyOf(f) \in Range(Keys(b))
      BY <3>2, BatchesTyped
    <3>4. ValueOf(b, KeyOf(f)).id = KeyOf(f) /\ ValueOf(b, KeyOf(f)) \in b.got
      BY <1>2, <3>3, ValuesAre DEF ResolveBatch
    <3>5. futures'[f].value = ValueOf(b, KeyOf(f)) /\ futures'[f].key = futures[f].key
      BY <2>1, <2>2, <3>1, <3>3
    <3>6. ~futures'[f].value.live => KeyOf(f) \notin live'
      BY <1>a, <2>3, <3>4, <3>5 DEF ReadsMissing
    <3> QED BY <3>4, <3>5, <3>6 DEF Right, KeyOf
  <2>5. batches' \subseteq batches
    BY <1>2 DEF ResolveBatch
  <2>6. \A f \in DOMAIN futures' : Right(f)'
    BY <1>c, <2>1, <2>4
  <2> QED BY <1>a, <1>d, <2>5, <2>6
<1>3. ASSUME NEW b \in batches, RejectBatch(b) \/ FetchFails(b)
      PROVE  MissingStay'
  <2>1. FailBatch(b) /\ batches' \subseteq batches
    BY <1>3 DEF RejectBatch, FetchFails
  <2> QED BY <1>e, <2>1, FailedAre, ReferencesKept
<1>4. ASSUME NEW t \in Tasks, Delete(t) \/ Finish(t)
      PROVE  MissingStay'
  BY <1>4, <1>e DEF Delete, Finish
<1>5. ASSUME NEW l \in DOMAIN loaders, Dispatch(l)
      PROVE  MissingStay'
  <2>1. PICK b : b.got = {} /\ batches' = batches \cup {b}
    BY <1>5, DispatchIs
  <2>2. ReadsMissing(b)'
    BY <2>1 DEF ReadsMissing
  <2>3. futures' = futures
    BY <1>5 DEF Dispatch
  <2> QED BY <1>a, <1>c, <1>d, <2>1, <2>2, <2>3
<1>6. ASSUME NEW b \in batches, FetchShard(b)
      PROVE  MissingStay'
  <2>1. PICK c \in Batch, s \in b.todo :
           /\ c.futures = b.futures
           /\ c.got = b.got \cup {Read(id) : id \in {k \in Range(Keys(b)) : ShardOf(k) = s}}
           /\ batches' = (batches \ {b}) \cup {c}
    BY <1>6, FetchIs
  <2>2. futures' = futures /\ live' = live
    BY <1>6 DEF FetchShard, store
  <2>3. Keys(c)' = Keys(b)
    BY <2>1, <2>2 DEF Keys, KeyOf
  <2>4. \A id : Read(id).id = id /\ (~Read(id).live => id \notin live)
    BY DEF Read
  <2>5. \A v \in c.got : v.id \in Range(Keys(b)) /\ (~v.live => v.id \notin live)
    BY <1>a, <2>1, <2>4 DEF ReadsMissing
  <2>6. ReadsMissing(c)'
    BY <2>2, <2>3, <2>5 DEF ReadsMissing
  <2> QED BY <1>a, <1>c, <1>d, <2>1, <2>2, <2>6
<1>7. NewRequest \/ StoreWrite \/ UNCHANGED vars => MissingStay'
  BY <1>e DEF NewRequest, StoreWrite, vars
<1> QED BY <1>1, <1>2, <1>3, <1>4, <1>5, <1>6, <1>7, StepIs

(* pent.py's _load_pents returns list(values()) and relies on its order:   *)
(* with one shard a load answers with the object it asked for, and with    *)
(* None only when that object is gone, whatever is written, cleared or     *)
(* fails meanwhile.  With more shards TLC finds it answer with another     *)
(* object.                                                                 *)
THEOREM AnswersRequestedCorrect == NumShards = 1 => (Spec => []AnswersRequested)
<1>1. Init => MissingStay
  BY DEF Init, MissingStay
<1>2. ASSUME NumShards = 1 PROVE Spec => []AnswersRequested
  <2>1. TypeOK /\ LoaderInv /\ MissingStay /\ [Next]_vars => MissingStay'
    BY <1>2, MissingStayNext DEF LoaderInv
  <2>2. MissingStay => AnswersRequested
    BY DEF MissingStay, AnswersRequested
  <2> QED BY <1>1, <2>1, <2>2, LoaderInvariance, PTL DEF Spec
<1> QED BY <1>2
===============================================================================
