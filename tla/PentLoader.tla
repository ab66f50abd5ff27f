----------------------------- MODULE PentLoader -----------------------------
(***************************************************************************)
(* The DataLoader of a server process as pent.py and server.py use it.     *)
(*                                                                         *)
(* One event loop runs the coroutines of all requests (Tasks) on the one   *)
(* PentContext.  Loads of ids that are not cached wait in the loader's     *)
(* queue; a job scheduled with the first of them hands the whole queue to  *)
(* _load_pents as one batch, which asks every shard in a task of its own   *)
(* and resolves the futures when the last one has answered.  A mutation    *)
(* writes, clears its id and loads it again without suspending, for the    *)
(* shard coroutines never do; one that raises after its write does neither.*)
(*                                                                         *)
(* Requests arrive at any time and a job passes through the loop's ready   *)
(* queue several times, so any step that is ready may be the next one.     *)
(* aiodataloader is external: load, clear, the queue and the resolution    *)
(* of a batch are modelled from how pent.py relies on them.                *)
(***************************************************************************)
EXTENDS Naturals, Sequences, FiniteSets, Functions, Orders

CONSTANTS
  Tasks,       \* the coroutines of the requests
  Ids,         \* UUIDs, as the numbers obj_id.int
  Initially,   \* the sets of ids that may have a row at first
  NumShards,
  Unknown,     \* ids of objects whose type the PentConfig does not know
  Ops,         \* the pent functions the tasks use
  MaxLoads,    \* bound: futures
  MaxVersion,  \* bound: writes of one object
  MaxLoaders,  \* bound: requests that bring a new loader
  MaxFaults    \* bound: statements that fail

ASSUME LoaderAssumption ==
  /\ NumShards \in Nat \ {0}
  /\ Ids \subseteq Nat
  /\ Initially \subseteq SUBSET Ids
  /\ MaxLoads \in Nat

VARIABLES
  version,  \* id -> the writes of its row so far, 0 before its insert
  live,     \* the ids that have a row
  loaders,  \* the loaders so far; the last one is context.loader
  futures,  \* the futures of all loads so far
  batches,  \* the batches _load_pents is working on
  task,     \* task -> the load it awaits
  written,  \* history: id -> its version after the last mutation here that returned
  faults
store == <<version, live>>
vars  == <<version, live, loaders, futures, batches, task, written, faults>>

Shards == 0 .. NumShards - 1
ShardOfOneBased(id) == (id % NumShards) + 1
ShardOf(id) == id % NumShards

\* What a SELECT finds: a row, or None, at that version.
Value == [id : Ids, version : Nat, live : BOOLEAN]
Read(id) == [id |-> id, version |-> version[id], live |-> id \in live]

NoValue == [id |-> 0, version |-> 0, live |-> FALSE]

\* A loader caches futures by id (0: none) and queues those to fetch.
Loader == [cache : [Ids -> Nat], queue : Seq(Nat)]
NewLoader == [cache |-> [id \in Ids |-> 0], queue |-> <<>>]

Future == [key : Ids, state : {"pending", "value", "failed"}, value : Value \cup {NoValue}]
Pending(id) == [key |-> id, state |-> "pending", value |-> NoValue]

Batch == [loader : Nat, futures : Seq(Nat), todo : SUBSET Shards, got : SUBSET Value]

Task == [op : {"none", "gen", "update", "create"}, awaits : Seq(Nat), since : [Ids -> Nat]]
Idle == [op |-> "none", awaits |-> <<>>, since |-> [id \in Ids |-> 0]]

Current == Len(loaders)
KeyOf(f) == futures[f].key
Keys(b) == [i \in DOMAIN b.futures |-> KeyOf(b.futures[i])]

Init ==
  /\ live \in Initially
  /\ version = [id \in Ids |-> IF id \in live THEN 1 ELSE 0]
  /\ loaders = <<NewLoader>>
  /\ futures = <<>>
  /\ batches = {}
  /\ task = [t \in Tasks |-> Idle]
  /\ written = version
  /\ faults = 0

-----------------------------------------------------------------------------
(* Loading.                                                                *)

\* Where x first occurs.
Position(seq, x) ==
  CHOOSE i \in DOMAIN seq : seq[i] = x /\ \A j \in DOMAIN seq : seq[j] = x => i <= j

RequestOrder(ids) ==
  {pair \in Range(ids) \X Range(ids) : Position(ids, pair[1]) < Position(ids, pair[2])}

\* DataLoader.load for the ids of a list of distinct ones, on context.loader
\* with the given cache: a cached future is shared, another one is queued.
Load(t, op, cache, ids) ==
  LET n     == Len(futures)
      new   == InOrder({id \in Range(ids) : cache[id] = 0}, RequestOrder(ids))
      after == [id \in Ids |-> IF id \in Range(new) THEN n + Position(new, id) ELSE cache[id]]
  IN  /\ n + Len(new) <= MaxLoads
      /\ futures' = futures \o [i \in DOMAIN new |-> Pending(new[i])]
      /\ loaders' = [loaders EXCEPT ![Current].cache = after,
                                    ![Current].queue = @ \o [i \in DOMAIN new |-> n + i]]
      /\ task' = [task EXCEPT ![t] = [op |-> op, awaits |-> [i \in DOMAIN ids |-> after[ids[i]]],
                                      since |-> written']]

Distinct(ids) == \A i, j \in DOMAIN ids : ids[i] = ids[j] => i = j
IdLists == {ids \in UNION {[1 .. n -> Ids] : n \in 1 .. 2} : Distinct(ids)}

\* Pent.gen, gen_list.
Gen(t) ==
  /\ "gen" \in Ops
  /\ task[t].op = "none"
  /\ UNCHANGED written
  /\ \E ids \in IdLists : Load(t, "gen", loaders[Current].cache, ids)
  /\ UNCHANGED <<store, batches, faults>>

\* The cache of context.loader once an id is cleared.
ClearNone(id) == loaders[Current].cache
Clear(id) == [loaders[Current].cache EXCEPT ![id] = 0]

Write(id) == /\ version[id] < MaxVersion
             /\ version' = [version EXCEPT ![id] = @ + 1]
WriteHere(id) == /\ Write(id)
                 /\ written' = [written EXCEPT ![id] = version[id] + 1]

\* update_pent: on an object that is not there the write raises.
Update(t) ==
  /\ "update" \in Ops
  /\ task[t].op = "none"
  /\ \E id \in live : /\ WriteHere(id)
                      /\ Load(t, "update", Clear(id), <<id>>)
  /\ UNCHANGED <<live, batches, faults>>

\* A new uuid4 was never written, and nobody has loaded it.
IsNew(id) == version[id] = 0 /\ \A f \in DOMAIN futures : KeyOf(f) # id

\* create_pent.
Create(t) ==
  /\ "create" \in Ops
  /\ task[t].op = "none"
  /\ \E id \in Ids : /\ IsNew(id)
                     /\ WriteHere(id)
                     /\ live' = live \cup {id}
                     /\ Load(t, "create", loaders[Current].cache, <<id>>)
  /\ UNCHANGED <<batches, faults>>

\* delete_pent, returning.
Delete(t) ==
  /\ "delete" \in Ops
  /\ task[t].op = "none"
  /\ \E id \in live : /\ WriteHere(id)
                      /\ live' = live \ {id}
                      /\ loaders' = [loaders EXCEPT ![Current].cache = Clear(id)]
  /\ UNCHANGED <<futures, batches, task, faults>>

\* A statement of a mutation raises when its row is written: the UPDATE itself,
\* an edge or index statement behind the row's INSERT, an index statement behind
\* its DELETE.  The pent function neither clears nor loads then.
UpdateRaises == "update" \in Ops /\ \E id \in live : Write(id) /\ live' = live
CreateRaises == "create" \in Ops /\ \E id \in Ids : /\ IsNew(id)
                                                   /\ Write(id)
                                                   /\ live' = live \cup {id}
DeleteRaises == "delete" \in Ops /\ \E id \in live : Write(id) /\ live' = live \ {id}

MutationRaises(t) ==
  /\ task[t].op = "none"
  /\ faults < MaxFaults
  /\ faults' = faults + 1
  /\ UpdateRaises \/ CreateRaises \/ DeleteRaises
  /\ UNCHANGED <<loaders, futures, batches, task, written>>

\* gen has its pent (or None), gen_list its pents; a failed future raises.
Resolved(f) == futures[f].state # "pending"
Answered(t) == /\ task[t].op # "none"
               /\ \/ \A i \in DOMAIN task[t].awaits : Resolved(task[t].awaits[i])
                  \/ \E i \in DOMAIN task[t].awaits : futures[task[t].awaits[i]].state = "failed"

Finish(t) == /\ Answered(t)
             /\ task' = [task EXCEPT ![t] = Idle]
             /\ UNCHANGED <<store, loaders, futures, batches, written, faults>>

-----------------------------------------------------------------------------
(* Batches.                                                                *)

\* The job of the first load in the queue starts a batch of all of it.
Dispatch(l) ==
  /\ loaders[l].queue # <<>>
  /\ LET fs == loaders[l].queue
     IN  batches' = batches \cup
           {[loader |-> l, futures |-> fs, got |-> {},
             todo |-> {ShardOf(KeyOf(f)) : f \in Range(fs)}]}
  /\ loaders' = [loaders EXCEPT ![l].queue = <<>>]
  /\ UNCHANGED <<store, futures, task, written, faults>>

Becomes(b, new) == batches' = (batches \ {b}) \cup {new}

\* gen_objects: one SELECT for all the ids of a shard.
FetchShard(b) ==
  /\ \E s \in b.todo :
       LET here == {id \in Range(Keys(b)) : ShardOf(id) = s}
       IN  Becomes(b, [b EXCEPT !.todo = @ \ {s}, !.got = @ \cup {Read(id) : id \in here}])
  /\ UNCHANGED <<store, loaders, futures, task, written, faults>>

\* The ids of _actual_load_pent_dict in the order of its values: shard by
\* shard as the shards first occur among the keys, then as requested.
Before(ids, x, y) ==
  LET shards == [i \in DOMAIN ids |-> ShardOf(ids[i])]
      at(id) == Position(shards, ShardOf(id))
  IN  at(x) < at(y) \/ (at(x) = at(y) /\ Position(ids, x) < Position(ids, y))
PentOrder(ids) == {pair \in Range(ids) \X Range(ids) : Before(ids, pair[1], pair[2])}
RowOrder(b) == Ascending(Range(Keys(b)))
FoundOnly(b) == InOrder({id \in Range(Keys(b)) : \E v \in b.got : v.id = id /\ v.live},
                        PentOrder(Keys(b)))
PentDict(b) == InOrder(Range(Keys(b)), PentOrder(Keys(b)))

ValueOf(b, id) == CHOOSE v \in b.got : v.id = id

\* Every load of the batch raises, and its id is forgotten.
FailBatch(b) ==
  /\ futures' = [f \in DOMAIN futures |->
                   IF f \in Range(b.futures) THEN [futures[f] EXCEPT !.state = "failed"]
                                             ELSE futures[f]]
  /\ loaders' = [loaders EXCEPT ![b.loader].cache =
                   [id \in Ids |-> IF id \in Range(Keys(b)) THEN 0 ELSE @[id]]]

Fetched(b) == b.todo = {}
TypesKnown(b) == \A v \in b.got : v.live => v.id \notin Unknown
OnePerKey(b) == Len(PentDict(b)) = Len(b.futures)

\* The i-th future gets the i-th value.
ResolveBatch(b) ==
  /\ Fetched(b)
  /\ TypesKnown(b)
  /\ OnePerKey(b)
  /\ futures' = [f \in DOMAIN futures |->
                   IF f \in Range(b.futures)
                     THEN [futures[f] EXCEPT !.state = "value",
                             !.value = ValueOf(b, PentDict(b)[Position(b.futures, f)])]
                     ELSE futures[f]]
  /\ batches' = batches \ {b}
  /\ UNCHANGED <<store, loaders, task, written, faults>>

\* get_type raises, or there are not as many values as keys.
RejectBatch(b) ==
  /\ Fetched(b)
  /\ ~TypesKnown(b) \/ ~OnePerKey(b)
  /\ FailBatch(b)
  /\ batches' = batches \ {b}
  /\ UNCHANGED <<store, task, written, faults>>

FetchFails(b) ==
  /\ b.todo # {}
  /\ faults < MaxFaults
  /\ faults' = faults + 1
  /\ FailBatch(b)
  /\ batches' = batches \ {b}
  /\ UNCHANGED <<store, task, written>>

-----------------------------------------------------------------------------
(* The surroundings.                                                       *)

\* root_factory: the context all requests share gets a new loader.
ResetLoader == [loaders EXCEPT ![Current] = NewLoader]
AddLoader == Append(loaders, NewLoader)

NewRequest ==
  /\ Len(loaders) < MaxLoaders
  /\ loaders' = AddLoader
  /\ UNCHANGED <<store, futures, batches, task, written, faults>>

\* Another process updates or deletes an object.
Elsewhere ==
  /\ \E id \in live : Write(id) /\ (live' = live \/ live' = live \ {id})
  /\ UNCHANGED <<loaders, futures, batches, task, written, faults>>

Step(t) == Gen(t) \/ Update(t) \/ Create(t) \/ Delete(t) \/ MutationRaises(t)

\* The jobs of the batch a future is in.
Work(f) == \E b \in batches : /\ f \in Range(b.futures)
                              /\ FetchShard(b) \/ ResolveBatch(b) \/ RejectBatch(b)

Next == \/ \E t \in Tasks : Step(t) \/ Finish(t)
        \/ \E l \in DOMAIN loaders : Dispatch(l)
        \/ \E f \in DOMAIN futures : Work(f)
        \/ \E b \in batches : FetchFails(b)
        \/ NewRequest
        \/ Elsewhere

Spec == Init /\ [][Next]_vars

\* The loop's ready queue is first in, first out: every job that is scheduled
\* runs.  The shards answer.
FairSpec == /\ Spec
            /\ \A l \in 1 .. MaxLoaders : WF_vars(l \in DOMAIN loaders /\ Dispatch(l))
            /\ \A f \in 1 .. MaxLoads : WF_vars(Work(f))
            /\ \A t \in Tasks : WF_vars(Finish(t))

-----------------------------------------------------------------------------
(* Properties.                                                             *)

\* Loaders, futures, batches and tasks have their shapes, and refer to futures
\* and loaders that exist.
TypeOK ==
  /\ version \in [Ids -> Nat]
  /\ live \subseteq Ids
  /\ written \in [Ids -> Nat]
  /\ loaders \in Seq(Loader) /\ loaders # <<>>
  /\ futures \in Seq(Future)
  /\ batches \subseteq Batch
  /\ task \in [Tasks -> Task]
  /\ faults \in Nat
  /\ \A l \in DOMAIN loaders : /\ Range(loaders[l].queue) \subseteq DOMAIN futures
                               /\ Range(loaders[l].cache) \subseteq DOMAIN futures \cup {0}
  /\ \A b \in batches : /\ b.loader \in DOMAIN loaders
                        /\ Range(b.futures) \subseteq DOMAIN futures
  /\ \A t \in Tasks : Range(task[t].awaits) \subseteq DOMAIN futures

\* A load answers with the object it asked for, and with None only when that
\* object is not there: Pent.gen(context, id) is "Load a pent by ID."
AnswersRequested ==
  \A f \in DOMAIN futures : futures[f].state = "value" =>
    IF futures[f].value.live THEN futures[f].value.id = KeyOf(f) ELSE KeyOf(f) \notin live

\* Whatever was cached, in flight or cleared meanwhile, by this task or
\* another: a load answers with no older data than the last mutation of its
\* object that had returned in this process when the load was asked for
\* (update_pent and create_pent ask after their own write).  A mutation that
\* raised is exempt: it may have written without clearing the loader.
LocalWritesSeen ==
  \A t \in Tasks : \A i \in DOMAIN task[t].awaits :
    LET fut == futures[task[t].awaits[i]]
    IN  fut.state = "value" /\ fut.value.id = fut.key =>
          fut.value.version >= task[t].since[fut.key]

\* A future nobody resolved yet is in exactly one queue or batch, once: no
\* swap of the loader, failure or clear can strand the tasks that await it.
PendingIsQueued ==
  \A f \in DOMAIN futures :
    Cardinality({<<"queue", l>> : l \in {k \in DOMAIN loaders : f \in Range(loaders[k].queue)}}
      \cup {<<"batch", b>> : b \in {c \in batches : f \in Range(c.futures)}})
      = IF Resolved(f) THEN 0 ELSE 1

\* Unless a statement fails or a type is unknown, no load raises.
OnlyFaultsFail ==
  faults = 0 /\ Unknown = {} => \A f \in DOMAIN futures : futures[f].state # "failed"

\* Every coroutine that awaits a load gets its answer or an exception.
LoadsAnswered == \A t \in Tasks : task[t].op # "none" ~> task[t].op = "none"

-----------------------------------------------------------------------------
(* The inductive invariants behind the properties.                         *)

Queued(f, l) == f \in Range(loaders[l].queue)
InBatch(f, b) == f \in Range(b.futures)

\* What a batch has read covers the keys of the shards that answered.
BatchesRead ==
  \A b \in batches, id \in Ids :
    id \in Range(Keys(b)) /\ ShardOf(id) \notin b.todo => \E v \in b.got : v.id = id

\* A future is in one queue or one batch until it is resolved, and in none
\* from then on.
OnePlace(f) ==
  /\ \A l, k \in DOMAIN loaders : Queued(f, l) /\ Queued(f, k) => l = k
  /\ \A b, c \in batches : InBatch(f, b) /\ InBatch(f, c) => b = c
  /\ \A l \in DOMAIN loaders, b \in batches : ~(Queued(f, l) /\ InBatch(f, b))
  /\ Resolved(f) <=> /\ \A l \in DOMAIN loaders : ~Queued(f, l)
                     /\ \A b \in batches : ~InBatch(f, b)
FuturesPlaced == \A f \in DOMAIN futures : OnePlace(f)

\* Nothing the future has been given, or its batch read for it, is older than
\* version n of its id.
NoOlder(f, n) ==
  /\ futures[f].state = "value" /\ futures[f].value.id = KeyOf(f) => n <= futures[f].value.version
  /\ \A b \in batches : InBatch(f, b) => \A v \in b.got : v.id = KeyOf(f) => n <= v.version

\* The loader of the context holds no future older than what was written here,
\* and no task awaits one older than what it asked after.
CachesFresh ==
  /\ \A id \in Ids : written[id] <= version[id]
  /\ \A l \in DOMAIN loaders, id \in Ids :
       LET f == loaders[l].cache[id]
       IN  f # 0 => KeyOf(f) = id /\ (l = Current => NoOlder(f, written[id]))
  /\ \A t \in Tasks :
       /\ \A id \in Ids : task[t].since[id] <= written[id]
       /\ \A f \in Range(task[t].awaits) : NoOlder(f, task[t].since[KeyOf(f)])

LoaderInv == BatchesRead /\ FuturesPlaced /\ CachesFresh

\* What was read or answered as missing stays missing: an id somebody loads is
\* never created any more.  On one shard every future has its own id's value.
MissingStay ==
  /\ \A b \in batches : \A v \in b.got : v.id \in Range(Keys(b)) /\ (~v.live => v.id \notin live)
  /\ \A f \in DOMAIN futures : futures[f].state = "value" =>
       /\ futures[f].value.id = KeyOf(f)
       /\ ~futures[f].value.live => KeyOf(f) \notin live
=============================================================================
