------------------------------ MODULE Catalog -------------------------------
(***************************************************************************)
(* ProductsService (src/src/products/products.service.ts) with the two      *)
(* copies it keeps of every product: responses cached in Redis              *)
(* (src/src/redis/redis.service.ts) and documents in the search index       *)
(* (src/src/search/products-indexer.service.ts), and the script that        *)
(* rebuilds the index (src/src/scripts/reindex-products.ts).                *)
(*                                                                          *)
(* Every await ends an action and handler[h] keeps what was read before it; *)
(* checks that read nothing the rest of a request uses (the cache that      *)
(* missed, the owner, the category, the existence that the write checks     *)
(* again) leave nothing behind and are no steps of their own.  Time passes  *)
(* in ticks; a response read from the database is in the cache within       *)
(* FillTime ticks or never.                                                 *)
(***************************************************************************)
EXTENDS Integers, Sequences, FiniteSets

CONSTANTS
    Products,       \* Product.id; the script goes through them in their order
    Handlers,       \* HTTP requests in flight
    Script,         \* the reindexing script, a process of its own
    ItemTtl,        \* ITEM_TTL, LIST_TTL and the time a request takes to
    ListTtl,        \* cache what it read, in ticks
    FillTime,
    BatchSize,      \* BATCH_SIZE
    MaxVersion,     \* bounds: changes of a row, its creation included, and
    MaxTasks        \* tasks waiting in the search engine

ASSUME ProductsAssumption == Products \subseteq Nat \ {0}
ASSUME ScriptIsNoRequest == Script \notin Handlers
ASSUME TimesAssumption ==
    /\ ItemTtl \in Nat \ {0}
    /\ ListTtl \in Nat \ {0}
    /\ FillTime \in Nat
ASSUME BatchAssumption == BatchSize \in Nat \ {0}
ASSUME BoundsAssumption == MaxVersion \in Nat /\ MaxTasks \in Nat

VARIABLES
    row,            \* the Product row: changes made to it, and after how many
                    \* of them what the index shows of it was last edited
    unborn,         \* ids no row was ever created with
    cache,          \* Redis: per key the response kept and its remaining life
    index,          \* Meilisearch: the edit each document shows, 0 if none
    tasks,          \* its accepted tasks, applied in order
    handler,        \* what each process has in hand at its await
    since,          \* history: ticks since each row last had each value
    disturbed       \* history: products an indexing call was lost for, was
                    \* not made for, or overtaken by another write

rows == <<row, unborn, since>>
search == <<index, tasks, disturbed>>
vars == <<rows, cache, search, handler>>

Procs == Handlers \cup {Script}

Rows == {r \in [version : 1..MaxVersion, edit : 1..MaxVersion] :
            r.edit <= r.version}
NoRow == [version |-> 0, edit |-> 0]
Values == Rows \cup {NoRow}

\* prod:id:<id> and prod:list:<query>, for the list of all products and for a
\* search every document matches.
ListKeys == {<<"list", "all">>, <<"list", "search">>}
Keys == ({"id"} \X Products) \cup ListKeys
Ttl(k) == IF k \in ListKeys THEN ListTtl ELSE ItemTtl

\* A response says of some products what their rows are, or that there is none.
Responses == UNION {[S -> Values] : S \in SUBSET Products}
Documents == UNION {[S -> 0..MaxVersion] : S \in SUBSET Products}
Nothing == [p \in {} |-> 0]
Only(p, v) == [q \in {p} |-> v]

Miss == [left |-> 0, response |-> Nothing]
Entries == [left : Nat, response : Responses]
Cached(k) == cache[k].left > 0

\* Longer ago than any promise speaks of.
Horizon == (IF ItemTtl > ListTtl THEN ItemTtl ELSE ListTtl) + FillTime + 1

Idle == [pc |-> "idle"]
Calls ==
    {Idle}
    \cup [pc : {"hits"}, ids : SUBSET Products]
    \cup [pc : {"store"}, key : Keys, response : Responses, age : 0..FillTime]
    \cup [pc : {"invalidate"}, docs : Documents,
          todo : SUBSET {"item", "scan"}, found : SUBSET ListKeys]
    \cup [pc : {"batch"}, cursor : Nat]
    \cup [pc : {"upsertMany"}, docs : Documents]

Await(h, call) == handler' = [handler EXCEPT ![h] = call]
Return(h) == Await(h, Idle)
At(h, pc) == handler[h].pc = pc

Init ==
    /\ row = [p \in Products |-> NoRow]
    /\ unborn = Products
    /\ cache = [k \in Keys |-> Miss]
    /\ index = [p \in Products |-> 0]
    /\ tasks = <<>>
    /\ handler = [h \in Procs |-> Idle]
    /\ since = [p \in Products |->
                    [v \in Values |-> IF v = NoRow THEN 0 ELSE Horizon]]
    /\ disturbed = {}

-----------------------------------------------------------------------------
(* Reading through the cache *)

\* wrap: a key in Redis answers the request and changes nothing.  One that is
\* missing, or that Redis fails to return, is read from the database.
Fetched(h, k, response) ==
    /\ h \in Handlers
    /\ Await(h, [pc |-> "store", key |-> k, response |-> response, age |-> 0])
    /\ UNCHANGED <<rows, cache, search>>

\* findOne: a product that does not exist is an error, which is not cached.
ReadItem(h, p) ==
    /\ At(h, "idle")
    /\ row[p] # NoRow
    /\ Fetched(h, <<"id", p>>, Only(p, row[p]))

\* runList without a search term, or without a search engine.
ReadList(h) ==
    /\ At(h, "idle")
    /\ Fetched(h, <<"list", "all">>, row)

\* runList with a search term asks the index for ids first ...
Search(h) ==
    LET ids == {p \in Products : index[p] # 0} IN
    /\ h \in Handlers
    /\ At(h, "idle")
    /\ Await(h, [pc |-> "hits", ids |-> ids])
    /\ UNCHANGED <<rows, cache, search>>

\* ... and then the database for those that still exist, if there were any.
ReadHits(h) ==
    /\ At(h, "hits")
    /\ Fetched(h, <<"list", "search">>,
               [p \in {q \in handler[h].ids : row[q] # NoRow} |-> row[p]])

\* Mutant: a key of any kind lives as long as an item.
StoreItemTtl(h) ==
    /\ At(h, "store")
    /\ cache' = [cache EXCEPT ![handler[h].key] =
                    [left |-> ItemTtl, response |-> handler[h].response]]
    /\ Return(h)
    /\ UNCHANGED <<rows, search>>

\* Mutant: SET ... PX would have taken milliseconds.
StoreMilliseconds(h) ==
    LET k == handler[h].key IN
    /\ At(h, "store")
    /\ cache' = [cache EXCEPT ![k] =
                    [left |-> 1000 * Ttl(k), response |-> handler[h].response]]
    /\ Return(h)
    /\ UNCHANGED <<rows, search>>

\* set, with the key's time to live.  A failure is logged: see Fail.
Store(h) ==
    LET k == handler[h].key IN
    /\ At(h, "store")
    /\ cache' = [cache EXCEPT ![k] =
                    [left |-> Ttl(k), response |-> handler[h].response]]
    /\ Return(h)
    /\ UNCHANGED <<rows, search>>

-----------------------------------------------------------------------------
(* Writing a product *)

\* The documents process h will still send to the index.
Outgoing(h) ==
    IF handler[h].pc \in {"invalidate", "upsertMany"}
    THEN handler[h].docs
    ELSE Nothing
Sends(h, p) == p \in DOMAIN Outgoing(h)

\* One query changes the row of p to v.
Write(p, v) ==
    /\ row' = [row EXCEPT ![p] = v]
    /\ since' = [since EXCEPT ![p][v] = 0]

\* A write after which the index is due.
Overtakes(p) ==
    disturbed' = IF \E h \in Procs : Sends(h, p) THEN disturbed \cup {p}
                                                 ELSE disturbed

Invalidate(h, p, doc, todo) ==
    Await(h, [pc |-> "invalidate", docs |-> Only(p, doc), todo |-> todo,
              found |-> {}])

\* create: the insertion, after the checks of store and category; a slug or
\* SKU in use changes nothing.  Only the lists are invalidated.
Create(h, p) ==
    /\ h \in Handlers
    /\ At(h, "idle")
    /\ p \in unborn
    /\ MaxVersion > 0
    /\ Write(p, [version |-> 1, edit |-> 1])
    /\ unborn' = unborn \ {p}
    /\ Overtakes(p)
    /\ Invalidate(h, p, 1, {"scan"})
    /\ UNCHANGED <<cache, index, tasks>>

\* Mutant: the index gets the row that requireOwnerOrAdmin read.
UpdateIndexesExisting(h, p) ==
    LET version == row[p].version + 1 IN
    /\ h \in Handlers
    /\ At(h, "idle")
    /\ row[p] # NoRow
    /\ version <= MaxVersion
    /\ Write(p, [version |-> version, edit |-> version])
    /\ Overtakes(p)
    /\ Invalidate(h, p, row[p].edit, {"item", "scan"})
    /\ UNCHANGED <<unborn, cache, index, tasks>>

\* update: requireOwnerOrAdmin found the row and the query finds it again.
Update(h, p) ==
    LET version == row[p].version + 1 IN
    /\ h \in Handlers
    /\ At(h, "idle")
    /\ row[p] # NoRow
    /\ version <= MaxVersion
    /\ Write(p, [version |-> version, edit |-> version])
    /\ Overtakes(p)
    /\ Invalidate(h, p, version, {"item", "scan"})
    /\ UNCHANGED <<unborn, cache, index, tasks>>

\* remove, likewise, unless the product was ordered and the database refuses;
\* the document is to go.
Remove(h, p) ==
    /\ h \in Handlers
    /\ At(h, "idle")
    /\ row[p] # NoRow
    /\ Write(p, NoRow)
    /\ Overtakes(p)
    /\ Invalidate(h, p, 0, {"item", "scan"})
    /\ UNCHANGED <<unborn, cache, index, tasks>>

\* An order takes units of the product or gives them back, with a query of
\* its own (Orders).  The cache is not told; the index does not show stock.
Trade(p) ==
    LET version == row[p].version + 1 IN
    /\ row[p] # NoRow
    /\ version <= MaxVersion
    /\ Write(p, [version |-> version, edit |-> row[p].edit])
    /\ UNCHANGED <<unborn, cache, search, handler>>

\* A store is deleted and the database deletes its product along with it (the
\* stores of the model sell one each).  Neither cache nor index is told.
DeleteStore(p) ==
    /\ row[p] # NoRow
    /\ Write(p, NoRow)
    /\ disturbed' = disturbed \cup {p}
    /\ UNCHANGED <<unborn, cache, index, tasks, handler>>

-----------------------------------------------------------------------------
(* Invalidation: del and delByPattern run concurrently *)

Dropped(ks) == [k \in Keys |-> IF k \in ks THEN Miss ELSE cache[k]]

\* A command Redis does not carry out is logged and the request goes on.
DropItem(h) ==
    /\ At(h, "invalidate")
    /\ "item" \in handler[h].todo
    /\ cache' \in {cache, Dropped({"id"} \X DOMAIN handler[h].docs)}
    /\ Await(h, [handler[h] EXCEPT !.todo = @ \ {"item"}])
    /\ UNCHANGED <<rows, search>>

\* SCAN collects the list keys there are ...
ScanLists(h) ==
    /\ At(h, "invalidate")
    /\ "scan" \in handler[h].todo
    /\ \E found \in {{}, {k \in ListKeys : Cached(k)}} :
            Await(h, [handler[h] EXCEPT !.todo = @ \ {"scan"},
                                        !.found = found])
    /\ UNCHANGED <<rows, cache, search>>

\* ... and a pipeline deletes them.
DropLists(h) ==
    /\ At(h, "invalidate")
    /\ handler[h].found # {}
    /\ cache' \in {cache, Dropped(handler[h].found)}
    /\ Await(h, [handler[h] EXCEPT !.found = {}])
    /\ UNCHANGED <<rows, search>>

-----------------------------------------------------------------------------
(* The index *)

\* The engine accepts a task.  A product whose current state it carries is
\* followed again, unless another call for it is still to come.
Enqueue(h, docs) ==
    /\ Len(tasks) < MaxTasks
    /\ tasks' = Append(tasks, docs)
    /\ disturbed' = disturbed \
            {p \in DOMAIN docs : /\ docs[p] = row[p].edit
                                 /\ \A g \in Procs \ {h} : ~Sends(g, p)}

\* A rejected call is logged and the request succeeds all the same.
Lose(docs) ==
    /\ disturbed' = disturbed \cup DOMAIN docs
    /\ UNCHANGED tasks

\* upsert or remove: the last step of create, update and remove.
Index(h) ==
    /\ At(h, "invalidate")
    /\ handler[h].todo = {}
    /\ handler[h].found = {}
    /\ Enqueue(h, handler[h].docs) \/ Lose(handler[h].docs)
    /\ Return(h)
    /\ UNCHANGED <<rows, cache, index>>

\* Meilisearch works its tasks off in the order it accepted them.
ApplyTask ==
    /\ tasks # <<>>
    /\ index' = [p \in Products |->
                    IF p \in DOMAIN Head(tasks) THEN Head(tasks)[p]
                                                ELSE index[p]]
    /\ tasks' = Tail(tasks)
    /\ UNCHANGED <<rows, cache, disturbed, handler>>

StartReindex ==
    /\ At(Script, "idle")
    /\ Await(Script, [pc |-> "batch", cursor |-> 0])
    /\ UNCHANGED <<rows, cache, search>>

\* The next page after the cursor: none once the cursor's own row is gone.
Page(cursor) ==
    LET rest == {p \in Products : p > cursor /\ row[p] # NoRow} IN
    IF cursor # 0 /\ row[cursor] = NoRow
    THEN {}
    ELSE {p \in rest : Cardinality({q \in rest : q < p}) < BatchSize}

ReadBatch ==
    LET page == Page(handler[Script].cursor) IN
    /\ At(Script, "batch")
    /\ IF page = {}
       THEN Return(Script)
       ELSE Await(Script, [pc |-> "upsertMany",
                           docs |-> [p \in page |-> row[p].edit]])
    /\ UNCHANGED <<rows, cache, search>>

\* upsertMany; a rejected call is logged and the script goes on.
UpsertMany ==
    LET docs == handler[Script].docs IN
    /\ At(Script, "upsertMany")
    /\ Enqueue(Script, docs) \/ UNCHANGED <<tasks, disturbed>>
    /\ IF Cardinality(DOMAIN docs) < BatchSize
       THEN Return(Script)
       ELSE \E last \in DOMAIN docs :
                /\ \A p \in DOMAIN docs : p <= last
                /\ Await(Script, [pc |-> "batch", cursor |-> last])
    /\ UNCHANGED <<rows, cache, index>>

-----------------------------------------------------------------------------
(* The environment *)

\* A query or a command rejects, or the process dies, while h awaits.
Fail(h) ==
    /\ ~At(h, "idle")
    /\ Return(h)
    /\ IF At(h, "invalidate")
       THEN disturbed' = disturbed \cup DOMAIN Outgoing(h)
       ELSE UNCHANGED disturbed
    /\ UNCHANGED <<rows, cache, index, tasks>>

\* Time passes: entries expire, and no response is held for ever.
Tick ==
    /\ \A h \in Procs : At(h, "store") => handler[h].age < FillTime
    /\ handler' = [h \in Procs |->
                    IF At(h, "store")
                    THEN [handler[h] EXCEPT !.age = @ + 1]
                    ELSE handler[h]]
    /\ cache' = [k \in Keys |->
                    IF cache[k].left <= 1
                    THEN Miss
                    ELSE [cache[k] EXCEPT !.left = @ - 1]]
    /\ since' = [p \in Products |-> [v \in Values |->
                    IF v = row[p] THEN 0
                    ELSE IF since[p][v] < Horizon THEN since[p][v] + 1
                    ELSE Horizon]]
    /\ UNCHANGED <<row, unborn, search>>

-----------------------------------------------------------------------------
\* What a request may ask for.
ProductsController(h) ==
    \/ \E p \in Products :
        ReadItem(h, p) \/ Create(h, p) \/ Update(h, p) \/ Remove(h, p)
    \/ ReadList(h)
    \/ Search(h)

Next ==
    \/ \E h \in Procs :
        \/ ProductsController(h)
        \/ ReadHits(h)
        \/ Store(h)
        \/ DropItem(h)
        \/ ScanLists(h)
        \/ DropLists(h)
        \/ Index(h)
        \/ Fail(h)
    \/ \E p \in Products : Trade(p) \/ DeleteStore(p)
    \/ ApplyTask
    \/ StartReindex
    \/ ReadBatch
    \/ UpsertMany
    \/ Tick

Spec == Init /\ [][Next]_vars

-----------------------------------------------------------------------------
(* Properties *)

TypeOK ==
    /\ row \in [Products -> Values]
    /\ unborn \subseteq Products
    /\ cache \in [Keys -> Entries]
    /\ \A k \in Keys : cache[k].left <= Ttl(k)
    /\ index \in [Products -> 0..MaxVersion]
    /\ tasks \in Seq(Documents)
    /\ handler \in [Procs -> Calls]
    /\ since \in [Products -> [Values -> 0..Horizon]]
    /\ disturbed \subseteq Products

\* docs.html.ts: "Up to 60 s of stale stock on cached list responses", and up
\* to 5 min on an item.  Whatever fills race with invalidations, whatever
\* Redis command fails and whoever dies half way, no response is served from
\* the cache that was not true within the key's time to live (and the time it
\* took to put it there), lists of products created or removed included.
StaleAtMostTtl ==
    \A k \in Keys :
        Cached(k) =>
            \A p \in DOMAIN cache[k].response :
                since[p][cache[k].response[p]] <= Ttl(k) + FillTime

\* Once the engine has worked off its tasks the index shows edit n of p: as the
\* last task about p says, or as it does now if there is none.
Carries(task, p) == p \in DOMAIN task
WillShow(p, n) ==
    \/ /\ \A i \in DOMAIN tasks : ~Carries(tasks[i], p)
       /\ index[p] = n
    \/ \E i \in DOMAIN tasks :
        /\ Carries(tasks[i], p)
        /\ tasks[i][p] = n
        /\ \A j \in DOMAIN tasks : j > i => ~Carries(tasks[j], p)

\* The index follows the table: it may fall behind for good only where an
\* indexing call was lost or overtaken by another write of the same product
\* (by a concurrent update, or by one during a reindex) or the store deleted,
\* and the next undisturbed update or reindex repairs it while the row exists.
IndexFollows ==
    \A p \in Products \ disturbed :
        (\A h \in Procs : ~Sends(h, p)) => WillShow(p, row[p].edit)

=============================================================================
