--------------------------- MODULE CatalogProofs ----------------------------
(***************************************************************************)
(* Proofs about Catalog for any products, requests, times to live and       *)
(* bounds: type correctness, StaleAtMostTtl and IndexFollows.               *)
(***************************************************************************)
EXTENDS Catalog, TLAPS

USE DEF At

-----------------------------------------------------------------------------
(* Types *)

\* What belongs to the sets of responses and documents, and what is in them.
LEMMA ResponseTypes ==
    /\ \A S \in SUBSET Products : \A r \in [S -> Values] : r \in Responses
    /\ \A r \in Responses :
        DOMAIN r \subseteq Products /\ \A p \in DOMAIN r : r[p] \in Values
    /\ Nothing \in Responses
    /\ \A p \in Products, v \in Values : Only(p, v) \in Responses
<1>1. \A S \in SUBSET Products : \A r \in [S -> Values] : r \in Responses
  BY DEF Responses
<1>2. ASSUME NEW r \in Responses
      PROVE  DOMAIN r \subseteq Products /\ \A p \in DOMAIN r : r[p] \in Values
  <2>1. PICK S \in SUBSET Products : r \in [S -> Values]
    BY DEF Responses
  <2>2. QED
    BY <2>1
<1>3. Nothing \in [{} -> Values]
  BY DEF Nothing
<1>4. ASSUME NEW p \in Products, NEW v \in Values
      PROVE  Only(p, v) \in [{p} -> Values]
  BY DEF Only
<1>5. QED
  BY <1>1, <1>2, <1>3, <1>4

LEMMA DocumentTypes ==
    /\ \A S \in SUBSET Products : \A d \in [S -> 0..MaxVersion] : d \in Documents
    /\ \A d \in Documents : DOMAIN d \subseteq Products
    /\ \A d \in Documents : \A p \in DOMAIN d : d[p] \in 0..MaxVersion
    /\ \A p \in Products, n \in 0..MaxVersion : Only(p, n) \in Documents
<1>1. \A S \in SUBSET Products : \A d \in [S -> 0..MaxVersion] : d \in Documents
  BY DEF Documents
<1>2. ASSUME NEW d \in Documents
      PROVE  /\ DOMAIN d \subseteq Products
             /\ \A p \in DOMAIN d : d[p] \in 0..MaxVersion
  <2>1. PICK S \in SUBSET Products : d \in [S -> 0..MaxVersion]
    BY DEF Documents
  <2>2. QED
    BY <2>1
<1>3. ASSUME NEW p \in Products, NEW n \in 0..MaxVersion
      PROVE  Only(p, n) \in [{p} -> 0..MaxVersion]
  BY DEF Only
<1>4. QED
  BY <1>1, <1>2, <1>3

StoreCalls ==
    [pc : {"store"}, key : Keys, response : Responses, age : 0..FillTime]
InvalidateCalls ==
    [pc : {"invalidate"}, docs : Documents,
     todo : SUBSET {"item", "scan"}, found : SUBSET ListKeys]

\* What a process has in hand, by the await it is at.
LEMMA CallsByAwait ==
    ASSUME NEW call \in Calls
    PROVE  /\ call.pc = "hits" => call.ids \in SUBSET Products
           /\ call.pc = "store" =>
                /\ call \in StoreCalls
                /\ call.key \in Keys
                /\ call.response \in Responses
                /\ call.age \in 0..FillTime
           /\ call.pc = "invalidate" =>
                /\ call \in InvalidateCalls
                /\ call.docs \in Documents
                /\ call.todo \in SUBSET {"item", "scan"}
                /\ call.found \in SUBSET ListKeys
           /\ call.pc = "batch" => call.cursor \in Nat
           /\ call.pc = "upsertMany" => call.docs \in Documents
BY DEF Calls, Idle, StoreCalls, InvalidateCalls

\* The calls a step leaves a process with.
LEMMA CallTypes ==
    /\ Idle \in Calls
    /\ \A S \in SUBSET Products : [pc |-> "hits", ids |-> S] \in Calls
    /\ \A k \in Keys, r \in Responses, n \in 0..FillTime :
        [pc |-> "store", key |-> k, response |-> r, age |-> n] \in Calls
    /\ \A d \in Documents, t \in SUBSET {"item", "scan"},
          f \in SUBSET ListKeys :
        [pc |-> "invalidate", docs |-> d, todo |-> t, found |-> f] \in Calls
    /\ \A n \in Nat : [pc |-> "batch", cursor |-> n] \in Calls
    /\ \A d \in Documents : [pc |-> "upsertMany", docs |-> d] \in Calls
    /\ StoreCalls \subseteq Calls
    /\ InvalidateCalls \subseteq Calls
BY DEF Calls, StoreCalls, InvalidateCalls

\* The first and the last part of the row.
LEMMA ValueTypes ==
    /\ NoRow \in Values
    /\ \A v \in Values : v.version \in 0..MaxVersion /\ v.edit \in 0..MaxVersion
    /\ \A n \in 1..MaxVersion, m \in 1..MaxVersion :
        m <= n => [version |-> n, edit |-> m] \in Values
    /\ \A v \in Values : v # NoRow => v \in Rows
BY BoundsAssumption DEF Values, Rows, NoRow

LEMMA TtlTypes ==
    /\ \A k \in Keys : Ttl(k) \in Nat \ {0}
    /\ Horizon \in Nat
    /\ \A k \in Keys : Ttl(k) + FillTime < Horizon
BY TimesAssumption DEF Ttl, Horizon

LEMMA MissType == Miss \in Entries /\ Miss.left = 0
BY ResponseTypes DEF Miss, Entries

\* A row that is written keeps the types of the row and of its history.
LEMMA WriteTypes ==
    ASSUME TypeOK, NEW p \in Products, NEW v \in Values, Write(p, v)
    PROVE  /\ row' \in [Products -> Values]
           /\ since' \in [Products -> [Values -> 0..Horizon]]
BY TtlTypes DEF TypeOK, Write

LEMMA OutgoingType ==
    ASSUME TypeOK, NEW h \in Procs
    PROVE  DOMAIN Outgoing(h) \subseteq Products
<1>1. handler[h] \in Calls
  BY DEF TypeOK
<1>2. DOMAIN Nothing \subseteq Products
  BY DEF Nothing
<1>3. QED
  BY <1>1, <1>2, CallsByAwait, DocumentTypes DEF Outgoing

LEMMA OvertakesType ==
    ASSUME TypeOK, NEW p \in Products, Overtakes(p)
    PROVE  disturbed' \subseteq Products
BY DEF TypeOK, Overtakes

LEMMA EnqueueTypes ==
    ASSUME TypeOK, NEW h \in Procs, NEW docs \in Documents, Enqueue(h, docs)
    PROVE  tasks' \in Seq(Documents) /\ disturbed' \subseteq Products
BY DEF TypeOK, Enqueue

\* Every step keeps the types.
LEMMA TypeStep ==
    ASSUME TypeOK, [Next]_vars
    PROVE  TypeOK'
<1> USE DEF TypeOK, rows, search
<1>1. CASE UNCHANGED vars
  BY <1>1 DEF vars
<1>2. ASSUME NEW h \in Procs, NEW call \in Calls, Await(h, call)
      PROVE  handler' \in [Procs -> Calls]
  BY <1>2 DEF Await
<1>3. ASSUME NEW h \in Procs, Return(h)
      PROVE  handler' \in [Procs -> Calls]
  BY <1>2, <1>3, CallTypes DEF Return
<1>4. ASSUME NEW h \in Procs, NEW k \in Keys, NEW r \in Responses,
             Fetched(h, k, r)
      PROVE  TypeOK'
  <2>1. [pc |-> "store", key |-> k, response |-> r, age |-> 0] \in Calls
    <3>1. 0 \in 0..FillTime
      BY TimesAssumption
    <3>2. QED
      BY <3>1, CallTypes
  <2>2. QED
    BY <1>2, <1>4, <2>1 DEF Fetched
<1>5. ASSUME NEW h \in Procs, NEW p \in Products, ReadItem(h, p)
      PROVE  TypeOK'
  <2>1. Only(p, row[p]) \in Responses /\ <<"id", p>> \in Keys
    BY ResponseTypes DEF Keys
  <2>2. QED
    BY <1>4, <1>5, <2>1 DEF ReadItem
<1>6. ASSUME NEW h \in Procs, ReadList(h)
      PROVE  TypeOK'
  <2>1. row \in Responses /\ <<"list", "all">> \in Keys
    BY ResponseTypes DEF Keys, ListKeys
  <2>2. QED
    BY <1>4, <1>6, <2>1 DEF ReadList
<1>7. ASSUME NEW h \in Procs, Search(h)
      PROVE  TypeOK'
  <2>1. [pc |-> "hits", ids |-> {p \in Products : index[p] # 0}] \in Calls
    BY CallTypes
  <2>2. QED
    BY <1>2, <1>7, <2>1 DEF Search
<1>8. ASSUME NEW h \in Procs, ReadHits(h)
      PROVE  TypeOK'
  <2> DEFINE found == {q \in handler[h].ids : row[q] # NoRow}
  <2>1. found \in SUBSET Products
    BY <1>8, CallsByAwait DEF ReadHits
  <2>2. [p \in found |-> row[p]] \in Responses
    <3>1. [p \in found |-> row[p]] \in [found -> Values]
      BY <2>1
    <3>2. QED
      BY <2>1, <3>1, ResponseTypes
  <2>3. <<"list", "search">> \in Keys
    BY DEF Keys, ListKeys
  <2>4. QED
    BY <1>4, <1>8, <2>2, <2>3 DEF ReadHits
<1>9. ASSUME NEW h \in Procs, Store(h)
      PROVE  TypeOK'
  <2>1. handler[h].key \in Keys /\ handler[h].response \in Responses
    BY <1>9, CallsByAwait DEF Store
  <2>2. [left |-> Ttl(handler[h].key), response |-> handler[h].response]
            \in Entries
    BY <2>1, TtlTypes DEF Entries
  <2>3. cache' \in [Keys -> Entries] /\ \A k \in Keys : cache'[k].left <= Ttl(k)
    BY <1>9, <2>1, <2>2, TtlTypes DEF Store
  <2>4. QED
    BY <1>3, <1>9, <2>3 DEF Store
<1>10. ASSUME NEW h \in Procs, NEW p \in Products, NEW n \in 0..MaxVersion,
              NEW todo \in SUBSET {"item", "scan"}, Invalidate(h, p, n, todo)
       PROVE  handler' \in [Procs -> Calls]
  <2>1. [pc |-> "invalidate", docs |-> Only(p, n), todo |-> todo,
         found |-> {}] \in Calls
    BY DocumentTypes, CallTypes
  <2>2. QED
    BY <1>2, <1>10, <2>1 DEF Invalidate
<1>11. ASSUME NEW h \in Procs, NEW p \in Products, Create(h, p)
       PROVE  TypeOK'
  <2>1. [version |-> 1, edit |-> 1] \in Values /\ 1 \in 0..MaxVersion
    BY <1>11, ValueTypes, BoundsAssumption DEF Create
  <2>2. QED
    BY <1>10, <1>11, <2>1, WriteTypes, OvertakesType DEF Create
<1>12. ASSUME NEW h \in Procs, NEW p \in Products, Update(h, p)
       PROVE  TypeOK'
  <2> DEFINE n == row[p].version + 1
  <2>1. n \in 1..MaxVersion
    <3>1. row[p].version \in 0..MaxVersion
      BY ValueTypes
    <3>2. n <= MaxVersion
      BY <1>12 DEF Update
    <3>3. QED
      BY <3>1, <3>2, BoundsAssumption
  <2>2. [version |-> n, edit |-> n] \in Values
    BY <2>1, ValueTypes
  <2>3. /\ Write(p, [version |-> n, edit |-> n])
        /\ Overtakes(p)
        /\ Invalidate(h, p, n, {"item", "scan"})
        /\ UNCHANGED <<unborn, cache, index, tasks>>
    BY <1>12 DEF Update
  <2>4. row' \in [Products -> Values]
        /\ since' \in [Products -> [Values -> 0..Horizon]]
    BY <2>2, <2>3, WriteTypes
  <2>5. handler' \in [Procs -> Calls] /\ disturbed' \subseteq Products
    BY <1>10, <2>1, <2>3, OvertakesType
  <2>6. QED
    BY <2>3, <2>4, <2>5
<1>13. ASSUME NEW h \in Procs, NEW p \in Products, Remove(h, p)
       PROVE  TypeOK'
  <2>1. NoRow \in Values /\ 0 \in 0..MaxVersion
    BY ValueTypes, BoundsAssumption
  <2>2. QED
    BY <1>10, <1>13, <2>1, WriteTypes, OvertakesType DEF Remove
<1>14. ASSUME NEW p \in Products, Trade(p)
       PROVE  TypeOK'
  <2> DEFINE n == row[p].version + 1
             m == row[p].edit
  <2>1. n \in 1..MaxVersion /\ m \in 1..MaxVersion /\ m <= n
    BY <1>14, ValueTypes, BoundsAssumption DEF Trade, Rows
  <2>2. [version |-> n, edit |-> m] \in Values
    BY <2>1, ValueTypes
  <2>3. QED
    BY <1>14, <2>2, WriteTypes DEF Trade
<1>15. ASSUME NEW ks
       PROVE  /\ Dropped(ks) \in [Keys -> Entries]
              /\ \A k \in Keys : Dropped(ks)[k].left <= Ttl(k)
  BY MissType, TtlTypes DEF Dropped
<1>16. ASSUME NEW h \in Procs, At(h, "invalidate")
       PROVE  /\ handler[h] \in InvalidateCalls
              /\ \A t \in SUBSET {"item", "scan"}, f \in SUBSET ListKeys :
                    /\ [handler[h] EXCEPT !.todo = t] \in Calls
                    /\ [handler[h] EXCEPT !.found = f] \in Calls
                    /\ [handler[h] EXCEPT !.todo = t, !.found = f] \in Calls
  <2>1. handler[h] \in InvalidateCalls
    BY <1>16, CallsByAwait
  <2>2. ASSUME NEW t \in SUBSET {"item", "scan"}, NEW f \in SUBSET ListKeys
        PROVE  /\ [handler[h] EXCEPT !.todo = t] \in InvalidateCalls
               /\ [handler[h] EXCEPT !.found = f] \in InvalidateCalls
               /\ [handler[h] EXCEPT !.todo = t, !.found = f]
                        \in InvalidateCalls
    BY <2>1 DEF InvalidateCalls
  <2>3. QED
    BY <2>1, <2>2, CallTypes
<1>17. ASSUME NEW h \in Procs, DropItem(h)
       PROVE  TypeOK'
  <2> DEFINE call == [handler[h] EXCEPT !.todo = @ \ {"item"}]
  <2>1. handler[h].todo \ {"item"} \in SUBSET {"item", "scan"}
    BY <1>17, CallsByAwait DEF DropItem
  <2>2. call \in Calls
    BY <1>16, <1>17, <2>1 DEF DropItem
  <2>3. handler' \in [Procs -> Calls]
    BY <1>2, <1>17, <2>2 DEF DropItem
  <2>4. QED
    BY <1>15, <1>17, <2>3 DEF DropItem
<1>18. ASSUME NEW h \in Procs, ScanLists(h)
       PROVE  TypeOK'
  <2>1. PICK f \in {{}, {k \in ListKeys : Cached(k)}} :
            Await(h, [handler[h] EXCEPT !.todo = @ \ {"scan"}, !.found = f])
    BY <1>18 DEF ScanLists
  <2> DEFINE call == [handler[h] EXCEPT !.todo = @ \ {"scan"}, !.found = f]
  <2>2. /\ f \in SUBSET ListKeys
        /\ handler[h].todo \ {"scan"} \in SUBSET {"item", "scan"}
    BY <1>18, CallsByAwait DEF ScanLists
  <2>3. call \in Calls
    BY <1>16, <1>18, <2>2 DEF ScanLists
  <2>4. handler' \in [Procs -> Calls]
    BY <1>2, <2>1, <2>3
  <2>5. QED
    BY <1>18, <2>4 DEF ScanLists
<1>19. ASSUME NEW h \in Procs, DropLists(h)
       PROVE  TypeOK'
  <2> DEFINE call == [handler[h] EXCEPT !.found = {}]
  <2>1. call \in Calls
    BY <1>16, <1>19 DEF DropLists
  <2>2. handler' \in [Procs -> Calls]
    BY <1>2, <1>19, <2>1 DEF DropLists
  <2>3. QED
    BY <1>15, <1>19, <2>2 DEF DropLists
<1>20. ASSUME NEW h \in Procs, Index(h)
       PROVE  TypeOK'
  <2>1. handler[h].docs \in Documents
    BY <1>20, CallsByAwait DEF Index
  <2>2. tasks' \in Seq(Documents) /\ disturbed' \subseteq Products
    BY <1>20, <2>1, EnqueueTypes, DocumentTypes DEF Index, Lose
  <2>3. QED
    BY <1>3, <1>20, <2>2 DEF Index
<1>21. CASE ApplyTask
  <2>1. Head(tasks) \in Documents /\ Tail(tasks) \in Seq(Documents)
    BY <1>21 DEF ApplyTask
  <2>2. QED
    BY <1>21, <2>1, DocumentTypes DEF ApplyTask
<1>22. CASE StartReindex
  BY <1>2, <1>22, CallTypes DEF StartReindex, Procs
<1>23. CASE ReadBatch
  <2> DEFINE page == Page(handler[Script].cursor)
             call == [pc |-> "upsertMany", docs |-> [p \in page |-> row[p].edit]]
  <2>1. page \in SUBSET Products
    BY DEF Page
  <2>2. [p \in page |-> row[p].edit] \in [page -> 0..MaxVersion]
    BY <2>1, ValueTypes
  <2>3. call \in Calls
    BY <2>1, <2>2, DocumentTypes, CallTypes
  <2>4. Return(Script) \/ Await(Script, call)
    BY <1>23 DEF ReadBatch
  <2>5. handler' \in [Procs -> Calls]
    BY <1>2, <1>3, <2>3, <2>4 DEF Procs
  <2>6. QED
    BY <1>23, <2>5 DEF ReadBatch
<1>24. CASE UpsertMany
  <2>1. handler[Script].docs \in Documents
    BY <1>24, CallsByAwait DEF UpsertMany, Procs
  <2>2. tasks' \in Seq(Documents) /\ disturbed' \subseteq Products
    BY <1>24, <2>1, EnqueueTypes DEF UpsertMany, Procs
  <2>3. handler' \in [Procs -> Calls]
    <3>1. CASE Return(Script)
      BY <1>3, <3>1 DEF Procs
    <3>2. ASSUME NEW last \in DOMAIN handler[Script].docs,
                 Await(Script, [pc |-> "batch", cursor |-> last])
          PROVE  handler' \in [Procs -> Calls]
      <4>1. last \in Nat
        BY <2>1, DocumentTypes, ProductsAssumption
      <4>2. QED
        BY <1>2, <3>2, <4>1, CallTypes DEF Procs
    <3>3. QED
      BY <1>24, <3>1, <3>2 DEF UpsertMany
  <2>4. QED
    BY <1>24, <2>2, <2>3 DEF UpsertMany
<1>25. ASSUME NEW h \in Procs, Fail(h)
       PROVE  TypeOK'
  <2>1. disturbed' \subseteq Products
    BY <1>25, OutgoingType DEF Fail
  <2>2. QED
    BY <1>3, <1>25, <2>1 DEF Fail
<1>26. CASE Tick
  <2>1. ASSUME NEW h \in Procs
        PROVE  handler'[h] \in Calls
    <3>1. CASE At(h, "store")
      <4> DEFINE c == handler[h]
      <4>1. c \in StoreCalls /\ c.age \in 0..FillTime
        BY <3>1, CallsByAwait
      <4>2. c.age < FillTime
        BY <1>26, <3>1 DEF Tick
      <4>3. c.age + 1 \in 0..FillTime
        BY <4>1, <4>2, TimesAssumption
      <4>4. handler'[h] = [c EXCEPT !.age = c.age + 1]
        BY <1>26, <3>1 DEF Tick
      <4>5. handler'[h] \in StoreCalls
        BY <4>1, <4>3, <4>4 DEF StoreCalls
      <4>6. QED
        BY <4>5, CallTypes
    <3>2. CASE ~At(h, "store")
      BY <1>26, <3>2 DEF Tick
    <3>3. QED
      BY <3>1, <3>2
  <2>2. handler' \in [Procs -> Calls]
    BY <1>26, <2>1 DEF Tick
  <2>3. ASSUME NEW k \in Keys
        PROVE  cache'[k] \in Entries /\ cache'[k].left <= Ttl(k)
    <3>1. CASE cache[k].left <= 1
      BY <1>26, <3>1, MissType, TtlTypes DEF Tick
    <3>2. CASE ~(cache[k].left <= 1)
      <4>1. cache'[k] = [left |-> cache[k].left - 1,
                         response |-> cache[k].response]
        BY <1>26, <3>2 DEF Tick, Entries
      <4>2. QED
        BY <3>2, <4>1, TtlTypes DEF Entries
    <3>3. QED
      BY <3>1, <3>2
  <2>4. cache' \in [Keys -> Entries]
    BY <1>26, <2>3 DEF Tick
  <2>5. since' \in [Products -> [Values -> 0..Horizon]]
    BY <1>26, TtlTypes DEF Tick
  <2>6. QED
    BY <1>26, <2>2, <2>3, <2>4, <2>5 DEF Tick
<1>27. ASSUME NEW p \in Products, DeleteStore(p)
       PROVE  TypeOK'
  BY <1>27, ValueTypes, WriteTypes DEF DeleteStore
<1>28. QED
  BY <1>1, <1>5, <1>6, <1>7, <1>8, <1>9, <1>11, <1>12, <1>13, <1>14, <1>17,
     <1>18, <1>19, <1>20, <1>21, <1>22, <1>23, <1>24, <1>25, <1>26, <1>27
     DEF Next, ProductsController

LEMMA TypeInit == Init => TypeOK
<1>1. Idle \in Calls /\ Miss \in Entries /\ Miss.left = 0
  BY CallTypes, MissType
<1>2. QED
  BY <1>1, ValueTypes, TtlTypes, BoundsAssumption DEF Init, TypeOK

\* Rows, cached responses, documents and pending calls keep their types; in
\* particular no entry outlives its key's time to live.
THEOREM CatalogTyping == Spec => []TypeOK
BY TypeInit, TypeStep, PTL DEF Spec

-----------------------------------------------------------------------------
(* Staleness *)

\* The row has its present value now.
CurrentIsNow == \A p \in Products : since[p][row[p]] = 0

\* What is on its way to the cache has been true within its age.
HeldInTime ==
    \A h \in Procs :
        At(h, "store") =>
            \A p \in DOMAIN handler[h].response :
                since[p][handler[h].response[p]] <= handler[h].age

\* What is in the cache has been true within its age there and FillTime.
KeptInTime ==
    \A k \in Keys :
        Cached(k) =>
            \A p \in DOMAIN cache[k].response :
                since[p][cache[k].response[p]] + cache[k].left
                    <= Ttl(k) + FillTime

StaleInv == TypeOK /\ CurrentIsNow /\ HeldInTime /\ KeptInTime

LEMMA StaleInvImplies == StaleInv => StaleAtMostTtl
<1>1. SUFFICES ASSUME StaleInv, NEW k \in Keys, Cached(k),
                      NEW p \in DOMAIN cache[k].response
               PROVE  since[p][cache[k].response[p]] <= Ttl(k) + FillTime
  BY DEF StaleAtMostTtl
<1>2. since[p][cache[k].response[p]] + cache[k].left <= Ttl(k) + FillTime
  BY <1>1 DEF StaleInv, KeptInTime
<1>3. cache[k].left \in Nat /\ cache[k].response \in Responses
  BY <1>1 DEF StaleInv, TypeOK, Entries
<1>4. since[p][cache[k].response[p]] \in Nat
  BY <1>1, <1>3, ResponseTypes, TtlTypes DEF StaleInv, TypeOK
<1>5. QED
  BY <1>2, <1>3, <1>4, TtlTypes, TimesAssumption

\* A response in hand, and one in the cache, speaks of products and values.
LEMMA HeldTypes ==
    ASSUME TypeOK, NEW h \in Procs, At(h, "store"),
           NEW p \in DOMAIN handler[h].response
    PROVE  /\ p \in Products /\ handler[h].response[p] \in Values
           /\ since[p][handler[h].response[p]] \in 0..Horizon
           /\ handler[h].age \in 0..FillTime
BY CallsByAwait, ResponseTypes DEF TypeOK

LEMMA KeptTypes ==
    ASSUME TypeOK, NEW k \in Keys, NEW p \in DOMAIN cache[k].response
    PROVE  /\ p \in Products /\ cache[k].response[p] \in Values
           /\ since[p][cache[k].response[p]] \in 0..Horizon
           /\ cache[k].left \in Nat
BY ResponseTypes DEF TypeOK, Entries

\* The history counts from zero for a value that is written, as before for
\* every other.
LEMMA WriteLowers ==
    ASSUME TypeOK, CurrentIsNow, NEW p \in Products, NEW v \in Values,
           Write(p, v)
    PROVE  /\ CurrentIsNow'
           /\ \A q \in Products, w \in Values : since'[q][w] <= since[q][w]
<1>1. ASSUME NEW q \in Products
      PROVE  since'[q][row'[q]] = 0
  BY <1>1 DEF TypeOK, Write, CurrentIsNow
<1>2. ASSUME NEW q \in Products, NEW w \in Values
      PROVE  since'[q][w] <= since[q][w]
  <2>1. since[q][w] \in 0..Horizon
    BY DEF TypeOK
  <2>2. since'[q][w] = since[q][w] \/ since'[q][w] = 0
    BY <1>2 DEF TypeOK, Write
  <2>3. QED
    BY <2>1, <2>2, TtlTypes
<1>3. QED
  BY <1>1, <1>2 DEF CurrentIsNow

\* A step that lets no time pass and puts no response into hand or cache.
LEMMA NothingKept ==
    ASSUME StaleInv, TypeOK', CurrentIsNow',
           \A q \in Products, w \in Values : since'[q][w] <= since[q][w],
           \A k \in Keys : cache'[k] = cache[k] \/ cache'[k] = Miss,
           \A h \in Procs : At(h, "store")' => handler'[h] = handler[h]
    PROVE  StaleInv'
<1>1. ASSUME NEW h \in Procs, At(h, "store")',
             NEW p \in DOMAIN handler'[h].response
      PROVE  since'[p][handler'[h].response[p]] <= handler'[h].age
  <2>1. handler'[h] = handler[h] /\ At(h, "store")
    BY <1>1
  <2>2. since[p][handler[h].response[p]] <= handler[h].age
    BY <1>1, <2>1 DEF StaleInv, HeldInTime
  <2>3. /\ p \in Products /\ handler[h].response[p] \in Values
        /\ since[p][handler[h].response[p]] \in 0..Horizon
        /\ handler[h].age \in 0..FillTime
    BY <1>1, <2>1, HeldTypes DEF StaleInv
  <2>4. since'[p][handler[h].response[p]] \in 0..Horizon
    BY <2>3 DEF TypeOK
  <2>5. QED
    BY <2>1, <2>2, <2>3, <2>4, TtlTypes, TimesAssumption
<1>2. ASSUME NEW k \in Keys, Cached(k)', NEW p \in DOMAIN cache'[k].response
      PROVE  since'[p][cache'[k].response[p]] + cache'[k].left
                <= Ttl(k) + FillTime
  <2>1. cache'[k] = cache[k] /\ Cached(k)
    BY <1>2, MissType DEF Cached
  <2>2. since[p][cache[k].response[p]] + cache[k].left <= Ttl(k) + FillTime
    BY <1>2, <2>1 DEF StaleInv, KeptInTime
  <2>3. /\ p \in Products /\ cache[k].response[p] \in Values
        /\ since[p][cache[k].response[p]] \in 0..Horizon
        /\ cache[k].left \in Nat
    BY <1>2, <2>1, KeptTypes DEF StaleInv
  <2>4. since'[p][cache[k].response[p]] \in 0..Horizon
    BY <2>3 DEF TypeOK
  <2>5. QED
    BY <2>1, <2>2, <2>3, <2>4, TtlTypes, TimesAssumption
<1>3. QED
  BY <1>1, <1>2 DEF StaleInv, HeldInTime, KeptInTime

\* A response just read from the rows is true now.
LEMMA FetchedInTime ==
    ASSUME StaleInv, TypeOK', NEW h \in Procs, NEW k, NEW r, Fetched(h, k, r),
           DOMAIN r \subseteq Products, \A p \in DOMAIN r : r[p] = row[p]
    PROVE  StaleInv'
<1>1. /\ handler \in [Procs -> Calls]
      /\ UNCHANGED <<row, since, cache>>
      /\ handler' = [handler EXCEPT ![h] = [pc |-> "store", key |-> k,
                                            response |-> r, age |-> 0]]
  BY DEF Fetched, Await, StaleInv, TypeOK, rows
<1>2. ASSUME NEW g \in Procs, At(g, "store")',
             NEW p \in DOMAIN handler'[g].response
      PROVE  since'[p][handler'[g].response[p]] <= handler'[g].age
  <2>1. CASE g = h
    <3>1. handler'[g].response = r /\ handler'[g].age = 0
      BY <1>1, <2>1
    <3>2. since[p][row[p]] = 0
      BY <1>2, <3>1 DEF StaleInv, CurrentIsNow
    <3>3. QED
      BY <1>1, <1>2, <3>1, <3>2
  <2>2. CASE g # h
    BY <1>1, <1>2, <2>2 DEF StaleInv, HeldInTime
  <2>3. QED
    BY <2>1, <2>2
<1>3. CurrentIsNow' /\ KeptInTime'
  BY <1>1 DEF StaleInv, CurrentIsNow, KeptInTime, Cached
<1>4. QED
  BY <1>2, <1>3 DEF StaleInv, HeldInTime

\* A response enters the cache with the age at which it was held.
LEMMA StoreInTime ==
    ASSUME StaleInv, TypeOK', NEW h \in Procs, Store(h)
    PROVE  StaleInv'
<1> DEFINE K == handler[h].key
<1>1. /\ handler \in [Procs -> Calls] /\ cache \in [Keys -> Entries]
      /\ UNCHANGED <<row, since>>
      /\ cache' = [cache EXCEPT ![K] = [left |-> Ttl(K),
                                        response |-> handler[h].response]]
      /\ handler' = [handler EXCEPT ![h] = Idle]
  BY DEF Store, Return, Await, StaleInv, TypeOK, rows
<1>2. ASSUME NEW k \in Keys, Cached(k)', NEW p \in DOMAIN cache'[k].response
      PROVE  since'[p][cache'[k].response[p]] + cache'[k].left
                <= Ttl(k) + FillTime
  <2>1. CASE k = K
    <3>1. /\ cache'[k].left = Ttl(k)
          /\ cache'[k].response = handler[h].response
      BY <1>1, <2>1
    <3>2. At(h, "store")
      BY DEF Store
    <3>3. /\ since[p][handler[h].response[p]] <= handler[h].age
          /\ since[p][handler[h].response[p]] \in 0..Horizon
          /\ handler[h].age \in 0..FillTime
      BY <1>2, <3>1, <3>2, HeldTypes DEF StaleInv, HeldInTime
    <3>4. since[p][handler[h].response[p]] + Ttl(k) <= Ttl(k) + FillTime
      BY <3>3, TtlTypes, TimesAssumption
    <3>5. QED
      BY <1>1, <3>1, <3>4
  <2>2. CASE k # K
    BY <1>1, <1>2, <2>2 DEF StaleInv, KeptInTime, Cached
  <2>3. QED
    BY <2>1, <2>2
<1>3. CurrentIsNow' /\ HeldInTime'
  BY <1>1 DEF StaleInv, CurrentIsNow, HeldInTime, Idle
<1>4. QED
  BY <1>2, <1>3 DEF StaleInv, KeptInTime

\* As time passes everything ages together.
LEMMA TickInTime ==
    ASSUME StaleInv, TypeOK', Tick
    PROVE  StaleInv'
<1>1. ASSUME NEW p \in Products, NEW v \in Values
      PROVE  /\ since[p][v] \in 0..Horizon /\ since'[p][v] \in 0..Horizon
             /\ since'[p][v] <= since[p][v] + 1
  <2>1. since[p][v] \in 0..Horizon /\ since'[p][v] \in 0..Horizon
    BY DEF StaleInv, TypeOK
  <2>2. \/ since'[p][v] = 0
        \/ since'[p][v] = since[p][v] + 1
        \/ since'[p][v] = Horizon /\ ~(since[p][v] < Horizon)
    BY DEF Tick
  <2>3. QED
    BY <2>1, <2>2, TtlTypes
<1>2. CurrentIsNow'
  BY DEF StaleInv, TypeOK, CurrentIsNow, Tick
<1>3. ASSUME NEW h \in Procs, At(h, "store")',
             NEW p \in DOMAIN handler'[h].response
      PROVE  since'[p][handler'[h].response[p]] <= handler'[h].age
  <2>1. At(h, "store")
    BY <1>3 DEF Tick
  <2>2. handler[h] \in StoreCalls
    BY <2>1, CallsByAwait DEF StaleInv, TypeOK
  <2>3. handler'[h] = [handler[h] EXCEPT !.age = handler[h].age + 1]
    BY <2>1 DEF Tick
  <2>4. /\ handler'[h].response = handler[h].response
        /\ handler'[h].age = handler[h].age + 1
    BY <2>2, <2>3 DEF StoreCalls
  <2>5. /\ p \in Products /\ handler[h].response[p] \in Values
        /\ since[p][handler[h].response[p]] <= handler[h].age
        /\ handler[h].age \in 0..FillTime
    BY <1>3, <2>1, <2>4, HeldTypes DEF StaleInv, HeldInTime
  <2>6. QED
    BY <1>1, <2>4, <2>5, TtlTypes, TimesAssumption
<1>4. ASSUME NEW k \in Keys, Cached(k)', NEW p \in DOMAIN cache'[k].response
      PROVE  since'[p][cache'[k].response[p]] + cache'[k].left
                <= Ttl(k) + FillTime
  <2>1. cache[k] \in Entries
    BY DEF StaleInv, TypeOK
  <2>2. ~(cache[k].left <= 1)
    BY <1>4, MissType DEF Tick, Cached
  <2>3. cache'[k] = [cache[k] EXCEPT !.left = cache[k].left - 1]
    BY <2>2 DEF Tick
  <2>4. /\ cache'[k].response = cache[k].response
        /\ cache'[k].left = cache[k].left - 1
        /\ cache[k].left \in Nat
    BY <2>1, <2>3 DEF Entries
  <2>5. Cached(k)
    BY <2>2, <2>4 DEF Cached
  <2>6. /\ p \in Products /\ cache[k].response[p] \in Values
        /\ since[p][cache[k].response[p]] + cache[k].left <= Ttl(k) + FillTime
    BY <1>4, <2>4, <2>5, KeptTypes DEF StaleInv, KeptInTime
  <2>7. QED
    BY <1>1, <2>4, <2>6, TtlTypes, TimesAssumption
<1>5. QED
  BY <1>2, <1>3, <1>4 DEF StaleInv, HeldInTime, KeptInTime

\* Writing, or leaving alone, rows that no response is taken from meanwhile.
LEMMA RowsWritten ==
    ASSUME StaleInv, TypeOK',
           \/ UNCHANGED <<row, since>>
           \/ \E p \in Products, v \in Values : Write(p, v),
           \A k \in Keys : cache'[k] = cache[k] \/ cache'[k] = Miss,
           \A h \in Procs : At(h, "store")' => handler'[h] = handler[h]
    PROVE  StaleInv'
<1>1. CASE UNCHANGED <<row, since>>
  <2>1. CurrentIsNow'
    BY <1>1 DEF StaleInv, CurrentIsNow
  <2>2. \A q \in Products, w \in Values : since'[q][w] <= since[q][w]
    <3>1. \A q \in Products, w \in Values : since[q][w] \in 0..Horizon
      BY DEF StaleInv, TypeOK
    <3>2. QED
      BY <1>1, <3>1, TtlTypes
  <2>3. QED
    BY <2>1, <2>2, NothingKept
<1>2. ASSUME NEW p \in Products, NEW v \in Values, Write(p, v)
      PROVE  StaleInv'
  <2>1. /\ CurrentIsNow'
        /\ \A q \in Products, w \in Values : since'[q][w] <= since[q][w]
    BY <1>2, WriteLowers DEF StaleInv
  <2>2. QED
    BY <2>1, NothingKept
<1>3. QED
  BY <1>1, <1>2

LEMMA StaleStep ==
    ASSUME StaleInv, [Next]_vars
    PROVE  StaleInv'
<1>1. TypeOK /\ TypeOK'
  BY TypeStep DEF StaleInv
<1>2. ASSUME NEW h \in Procs, NEW call, Await(h, call), call.pc # "store"
      PROVE  \A g \in Procs : At(g, "store")' => handler'[g] = handler[g]
  BY <1>1, <1>2 DEF Await, TypeOK
<1>3. ASSUME NEW h \in Procs, Return(h)
      PROVE  \A g \in Procs : At(g, "store")' => handler'[g] = handler[g]
  BY <1>2, <1>3 DEF Return, Idle
<1>4. ASSUME UNCHANGED cache
      PROVE  \A k \in Keys : cache'[k] = cache[k] \/ cache'[k] = Miss
  BY <1>4
<1>5. ASSUME NEW ks, cache' \in {cache, Dropped(ks)}
      PROVE  \A k \in Keys : cache'[k] = cache[k] \/ cache'[k] = Miss
  BY <1>5 DEF Dropped
<1>6. CASE UNCHANGED vars
  BY <1>1, <1>4, <1>6, RowsWritten DEF vars, rows, search
<1>7. ASSUME NEW h \in Procs, NEW p \in Products, ReadItem(h, p)
      PROVE  StaleInv'
  BY <1>1, <1>7, FetchedInTime DEF ReadItem, Only
<1>8. ASSUME NEW h \in Procs, ReadList(h)
      PROVE  StaleInv'
  BY <1>1, <1>8, FetchedInTime DEF ReadList, TypeOK
<1>9. ASSUME NEW h \in Procs, ReadHits(h)
      PROVE  StaleInv'
  <2>1. handler[h].ids \in SUBSET Products
    BY <1>1, <1>9, CallsByAwait DEF ReadHits, TypeOK
  <2>2. QED
    BY <1>1, <1>9, <2>1, FetchedInTime DEF ReadHits
<1>10. ASSUME NEW h \in Procs, Search(h)
       PROVE  StaleInv'
  BY <1>1, <1>2, <1>4, <1>10, RowsWritten DEF Search, rows
<1>11. ASSUME NEW h \in Procs, Store(h)
       PROVE  StaleInv'
  BY <1>1, <1>11, StoreInTime
<1>12. ASSUME NEW h \in Procs, NEW p \in Products,
              Create(h, p) \/ Update(h, p) \/ Remove(h, p)
       PROVE  StaleInv'
  <2>1. \E v \in Values : Write(p, v)
    <3>1. ASSUME NEW v, Write(p, v)
          PROVE  v \in Values
      BY <1>1, <3>1 DEF TypeOK, Write
    <3>2. \E v : Write(p, v)
      BY <1>12 DEF Create, Update, Remove
    <3>3. QED
      BY <3>1, <3>2
  <2>2. \A g \in Procs : At(g, "store")' => handler'[g] = handler[g]
    BY <1>2, <1>12 DEF Create, Update, Remove, Invalidate
  <2>3. UNCHANGED cache
    BY <1>12 DEF Create, Update, Remove
  <2>4. QED
    BY <1>1, <1>4, <2>1, <2>2, <2>3, RowsWritten
<1>13. ASSUME NEW p \in Products, Trade(p) \/ DeleteStore(p)
       PROVE  StaleInv'
  <2>1. \E v \in Values : Write(p, v)
    <3>1. ASSUME NEW v, Write(p, v)
          PROVE  v \in Values
      BY <1>1, <3>1 DEF TypeOK, Write
    <3>2. QED
      BY <1>13, <3>1 DEF Trade, DeleteStore
  <2>2. UNCHANGED cache /\ UNCHANGED handler
    BY <1>13 DEF Trade, DeleteStore
  <2>3. QED
    BY <1>1, <1>4, <2>1, <2>2, RowsWritten
<1>14. ASSUME NEW h \in Procs, At(h, "invalidate"), NEW t, NEW f,
              \/ Await(h, [handler[h] EXCEPT !.todo = t])
              \/ Await(h, [handler[h] EXCEPT !.found = f])
              \/ Await(h, [handler[h] EXCEPT !.todo = t, !.found = f])
       PROVE  \A g \in Procs : At(g, "store")' => handler'[g] = handler[g]
  <2>1. handler[h] \in InvalidateCalls
    BY <1>1, <1>14, CallsByAwait DEF TypeOK
  <2>2. /\ [handler[h] EXCEPT !.todo = t].pc = "invalidate"
        /\ [handler[h] EXCEPT !.found = f].pc = "invalidate"
        /\ [handler[h] EXCEPT !.todo = t, !.found = f].pc = "invalidate"
    BY <2>1 DEF InvalidateCalls
  <2>3. QED
    BY <1>2, <1>14, <2>2
<1>15. ASSUME NEW h \in Procs, DropItem(h)
       PROVE  StaleInv'
  <2>1. \A k \in Keys : cache'[k] = cache[k] \/ cache'[k] = Miss
    BY <1>5, <1>15 DEF DropItem
  <2>2. \A g \in Procs : At(g, "store")' => handler'[g] = handler[g]
    BY <1>14, <1>15 DEF DropItem
  <2>3. UNCHANGED rows
    BY <1>15 DEF DropItem
  <2>4. QED
    BY <1>1, <2>1, <2>2, <2>3, RowsWritten DEF rows
<1>16. ASSUME NEW h \in Procs, ScanLists(h)
       PROVE  StaleInv'
  BY <1>1, <1>4, <1>14, <1>16, RowsWritten DEF ScanLists, rows
<1>17. ASSUME NEW h \in Procs, DropLists(h)
       PROVE  StaleInv'
  <2>1. \A k \in Keys : cache'[k] = cache[k] \/ cache'[k] = Miss
    BY <1>5, <1>17 DEF DropLists
  <2>2. \A g \in Procs : At(g, "store")' => handler'[g] = handler[g]
    BY <1>14, <1>17 DEF DropLists
  <2>3. UNCHANGED rows
    BY <1>17 DEF DropLists
  <2>4. QED
    BY <1>1, <2>1, <2>2, <2>3, RowsWritten DEF rows
<1>18. ASSUME NEW h \in Procs, Index(h) \/ Fail(h)
       PROVE  StaleInv'
  BY <1>1, <1>3, <1>4, <1>18, RowsWritten DEF Index, Fail, rows
<1>19. CASE ApplyTask
  BY <1>1, <1>4, <1>19, RowsWritten DEF ApplyTask, rows
<1>20. CASE StartReindex \/ ReadBatch \/ UpsertMany
  <2>1. \A g \in Procs : At(g, "store")' => handler'[g] = handler[g]
    BY <1>2, <1>3, <1>20 DEF StartReindex, ReadBatch, UpsertMany, Procs
  <2>2. UNCHANGED rows /\ UNCHANGED cache
    BY <1>20 DEF StartReindex, ReadBatch, UpsertMany
  <2>3. QED
    BY <1>1, <1>4, <2>1, <2>2, RowsWritten DEF rows
<1>21. CASE Tick
  BY <1>1, <1>21, TickInTime
<1>22. QED
  BY <1>6, <1>7, <1>8, <1>9, <1>10, <1>11, <1>12, <1>13, <1>15, <1>16, <1>17,
     <1>18, <1>19, <1>20, <1>21 DEF Next, ProductsController

LEMMA StaleInit == Init => StaleInv
<1>1. SUFFICES ASSUME Init PROVE StaleInv
  OBVIOUS
<1>2. CurrentIsNow
  BY <1>1, ValueTypes DEF Init, CurrentIsNow
<1>3. HeldInTime
  BY <1>1 DEF Init, HeldInTime, Idle
<1>4. KeptInTime
  BY <1>1, MissType DEF Init, KeptInTime, Cached
<1>5. QED
  BY <1>1, <1>2, <1>3, <1>4, TypeInit DEF StaleInv

\* For any times to live, products and requests, and whatever fills race with
\* invalidations and whatever fails, nothing in the cache has been false for
\* longer than its key's time to live and the time it took to put it there.
THEOREM CacheIsBounded == Spec => []StaleAtMostTtl
BY StaleInit, StaleStep, StaleInvImplies, PTL DEF Spec

-----------------------------------------------------------------------------
(* The index *)

\* Requests send the documents they changed, the script what it read.
SendersInv ==
    \A h \in Procs :
        /\ At(h, "invalidate") => h \in Handlers
        /\ At(h, "upsertMany") \/ At(h, "batch") => h = Script

\* Everything on its way to an undisturbed product's document is current; and
\* unless a request is about to send, the engine has the current state, so
\* that a page the script fails to send is no loss.
FollowedInv ==
    \A p \in Products \ disturbed :
        /\ \A h \in Procs : Sends(h, p) => Outgoing(h)[p] = row[p].edit
        /\ (\A h \in Handlers : ~Sends(h, p)) => WillShow(p, row[p].edit)

IndexInv == TypeOK /\ SendersInv /\ FollowedInv

LEMMA IndexInvImplies == IndexInv => IndexFollows
BY DEF IndexInv, FollowedInv, IndexFollows, Procs

\* A task appended decides about the products it carries and no others.
LEMMA AppendShows ==
    ASSUME TypeOK, NEW docs \in Documents, tasks' = Append(tasks, docs),
           UNCHANGED index, NEW p \in Products, NEW n
    PROVE  /\ Carries(docs, p) /\ docs[p] = n => WillShow(p, n)'
           /\ ~Carries(docs, p) /\ WillShow(p, n) => WillShow(p, n)'
<1>1. /\ DOMAIN tasks = 1..Len(tasks) /\ Len(tasks) \in Nat
      /\ DOMAIN tasks' = 1..(Len(tasks) + 1)
      /\ tasks'[Len(tasks) + 1] = docs
      /\ \A i \in DOMAIN tasks : tasks'[i] = tasks[i]
  BY DEF TypeOK
<1>2. ASSUME Carries(docs, p), docs[p] = n
      PROVE  WillShow(p, n)'
  BY <1>1, <1>2 DEF WillShow
<1>3. ASSUME ~Carries(docs, p), WillShow(p, n)
      PROVE  WillShow(p, n)'
  <2>1. \A i \in DOMAIN tasks' : i = Len(tasks) + 1 \/ i \in DOMAIN tasks
    BY <1>1
  <2>2. CASE (\A i \in DOMAIN tasks : ~Carries(tasks[i], p)) /\ index[p] = n
    BY <1>1, <1>3, <2>1, <2>2 DEF WillShow
  <2>3. ASSUME NEW i \in DOMAIN tasks, Carries(tasks[i], p), tasks[i][p] = n,
               \A j \in DOMAIN tasks : j > i => ~Carries(tasks[j], p)
        PROVE  WillShow(p, n)'
    <3>1. i \in DOMAIN tasks' /\ tasks'[i] = tasks[i]
      BY <1>1, <2>3
    <3>2. \A j \in DOMAIN tasks' : j > i => ~Carries(tasks'[j], p)
      BY <1>1, <1>3, <2>1, <2>3
    <3>3. QED
      BY <2>3, <3>1, <3>2 DEF WillShow
  <2>4. QED
    BY <1>3, <2>2, <2>3 DEF WillShow
<1>4. QED
  BY <1>2, <1>3

\* Working off a task changes nothing of what the index comes to show.
LEMMA ApplyShows ==
    ASSUME TypeOK, ApplyTask, NEW p \in Products, NEW n, WillShow(p, n)
    PROVE  WillShow(p, n)'
<1>1. /\ DOMAIN tasks = 1..Len(tasks) /\ Len(tasks) \in Nat \ {0}
      /\ DOMAIN tasks' = 1..(Len(tasks) - 1)
      /\ \A i \in DOMAIN tasks' : tasks'[i] = tasks[i + 1]
      /\ Head(tasks) = tasks[1]
  BY DEF TypeOK, ApplyTask
<1>2. /\ Carries(tasks[1], p) => index'[p] = tasks[1][p]
      /\ ~Carries(tasks[1], p) => index'[p] = index[p]
  BY <1>1 DEF ApplyTask, Carries
<1>3. CASE (\A i \in DOMAIN tasks : ~Carries(tasks[i], p)) /\ index[p] = n
  BY <1>1, <1>2, <1>3 DEF WillShow
<1>4. ASSUME NEW i \in DOMAIN tasks, Carries(tasks[i], p), tasks[i][p] = n,
             \A j \in DOMAIN tasks : j > i => ~Carries(tasks[j], p)
      PROVE  WillShow(p, n)'
  <2>1. CASE i = 1
    <3>1. \A j \in DOMAIN tasks' : ~Carries(tasks'[j], p)
      BY <1>1, <1>4, <2>1
    <3>2. index'[p] = n
      BY <1>2, <1>4, <2>1
    <3>3. QED
      BY <3>1, <3>2 DEF WillShow
  <2>2. CASE i # 1
    <3>1. i - 1 \in DOMAIN tasks' /\ tasks'[i - 1] = tasks[i]
      BY <1>1, <2>2
    <3>2. \A j \in DOMAIN tasks' : j > i - 1 => ~Carries(tasks'[j], p)
      BY <1>1, <1>4
    <3>3. QED
      BY <1>4, <3>1, <3>2 DEF WillShow
  <2>3. QED
    BY <2>1, <2>2
<1>5. QED
  BY <1>3, <1>4 DEF WillShow

\* A process that goes on to a call without documents sends nothing more; one
\* that goes on invalidating sends what it was to send.
LEMMA SendsNothing ==
    ASSUME TypeOK, NEW h \in Procs, NEW call, Await(h, call),
           call.pc \notin {"invalidate", "upsertMany"}
    PROVE  /\ \A p : ~Sends(h, p)'
           /\ \A g \in Procs \ {h} : Outgoing(g)' = Outgoing(g)
BY DEF TypeOK, Await, Sends, Outgoing, Nothing

LEMMA SendsDocs ==
    ASSUME TypeOK, NEW h \in Procs, NEW call, Await(h, call),
           call.pc \in {"invalidate", "upsertMany"}
    PROVE  /\ Outgoing(h)' = call.docs
           /\ \A g \in Procs \ {h} : Outgoing(g)' = Outgoing(g)
BY DEF TypeOK, Await, Outgoing

\* A step that writes no undisturbed row, sends nothing new and drops a
\* request's documents only where that is recorded.
LEMMA FollowedKept ==
    ASSUME IndexInv, disturbed \subseteq disturbed',
           \A p \in Products \ disturbed' : row'[p].edit = row[p].edit,
           \A p \in Products : WillShow(p, row[p].edit)
                                    => (WillShow(p, row[p].edit))',
           \A h \in Procs, p \in Products \ disturbed' :
                Sends(h, p)' => /\ Sends(h, p)
                                /\ Outgoing(h)'[p] = Outgoing(h)[p],
           \A h \in Handlers, p \in Products \ disturbed' :
                Sends(h, p) => Sends(h, p)'
    PROVE  FollowedInv'
<1>1. ASSUME NEW p \in Products \ disturbed', NEW h \in Procs, Sends(h, p)'
      PROVE  (Outgoing(h)[p] = row[p].edit)'
  BY <1>1 DEF IndexInv, FollowedInv
<1>2. ASSUME NEW p \in Products \ disturbed',
             \A h \in Handlers : ~Sends(h, p)'
      PROVE  WillShow(p, row[p].edit)'
  BY <1>2 DEF IndexInv, FollowedInv
<1>3. QED
  BY <1>1, <1>2 DEF FollowedInv

\* A row is written by a request that will send its document.
LEMMA FollowedWrite ==
    ASSUME IndexInv, TypeOK', NEW h \in Handlers, ~At(h, "invalidate"),
           ~At(h, "upsertMany"), NEW p \in Products, NEW v, Write(p, v),
           Overtakes(p), NEW todo, Invalidate(h, p, v.edit, todo),
           UNCHANGED <<index, tasks>>
    PROVE  FollowedInv'
<1>1. h \in Procs /\ TypeOK
  BY DEF Procs, IndexInv
<1>2. /\ Outgoing(h)' = Only(p, v.edit)
      /\ \A g \in Procs \ {h} : Outgoing(g)' = Outgoing(g)
  BY <1>1, SendsDocs DEF Invalidate
<1>3. \A q : ~Sends(h, q)
  BY DEF Sends, Outgoing, Nothing
<1>4. row'[p] = v /\ \A q \in Products \ {p} : row'[q] = row[q]
  BY <1>1 DEF Write, TypeOK
<1>5. ASSUME NEW q \in Products \ disturbed'
      PROVE  /\ \A g \in Procs : Sends(g, q)' => (Outgoing(g)[q] = row[q].edit)'
             /\ (\A g \in Handlers : ~Sends(g, q)')
                    => WillShow(q, row[q].edit)'
  <2>1. q \notin disturbed
    BY <1>5 DEF Overtakes
  <2>2. CASE q = p
    <3>1. \A g \in Procs : ~Sends(g, p)
      BY <1>5, <2>2 DEF Overtakes
    <3>2. ASSUME NEW g \in Procs, Sends(g, p)'
          PROVE  (Outgoing(g)[p] = row[p].edit)'
      BY <1>2, <1>4, <3>1, <3>2 DEF Sends, Only
    <3>3. Sends(h, p)'
      BY <1>2 DEF Sends, Only
    <3>4. QED
      BY <2>2, <3>2, <3>3
  <2>3. CASE q # p
    <3>1. ~Sends(h, q)'
      BY <1>2, <2>3 DEF Sends, Only
    <3>2. \A g \in Procs : Sends(g, q)' => /\ Sends(g, q)
                                           /\ Outgoing(g)'[q] = Outgoing(g)[q]
      BY <1>2, <3>1 DEF Sends
    <3>3. \A g \in Handlers : Sends(g, q) => Sends(g, q)'
      BY <1>2, <1>3 DEF Sends, Procs
    <3>4. row'[q].edit = row[q].edit
      BY <1>4, <2>3
    <3>5. WillShow(q, row[q].edit) => WillShow(q, row[q].edit)'
      BY <3>4 DEF WillShow
    <3>6. QED
      BY <2>1, <3>2, <3>3, <3>4, <3>5 DEF IndexInv, FollowedInv
  <2>4. QED
    BY <2>2, <2>3
<1>6. QED
  BY <1>5 DEF FollowedInv

\* The engine accepts the documents of h.
LEMMA FollowedEnqueue ==
    ASSUME IndexInv, NEW h \in Procs, NEW docs \in Documents,
           Outgoing(h) = docs, Enqueue(h, docs),
           UNCHANGED <<row, index>>,
           NEW call, Await(h, call),
           call.pc \notin {"invalidate", "upsertMany"}
    PROVE  FollowedInv'
<1>1. /\ \A p : ~Sends(h, p)'
      /\ \A g \in Procs \ {h} : Outgoing(g)' = Outgoing(g)
      /\ tasks' = Append(tasks, docs)
      /\ TypeOK
  BY SendsNothing DEF IndexInv, Enqueue
<1>2. ASSUME NEW p \in Products \ disturbed'
      PROVE  /\ \A g \in Procs : Sends(g, p)' => (Outgoing(g)[p] = row[p].edit)'
             /\ (\A g \in Handlers : ~Sends(g, p)')
                    => WillShow(p, row[p].edit)'
  <2>1. CASE Carries(docs, p)
    <3>1. docs[p] = row[p].edit
      <4>1. CASE p \in disturbed
        BY <1>2, <2>1, <4>1 DEF Enqueue, Carries
      <4>2. CASE p \notin disturbed
        BY <1>2, <2>1, <4>2 DEF IndexInv, FollowedInv, Sends, Carries
      <4>3. QED
        BY <4>1, <4>2
    <3>2. WillShow(p, row[p].edit)'
      BY <1>1, <2>1, <3>1, AppendShows
    <3>3. ASSUME NEW g \in Procs \ {h}, Sends(g, p)
          PROVE  Outgoing(g)[p] = row[p].edit
      <4>1. p \notin disturbed
        BY <1>2, <3>3 DEF Enqueue
      <4>2. QED
        BY <1>2, <3>3, <4>1 DEF IndexInv, FollowedInv
    <3>4. QED
      BY <1>1, <3>2, <3>3 DEF Sends
  <2>2. CASE ~Carries(docs, p)
    <3>1. p \notin disturbed /\ ~Sends(h, p)
      BY <1>2, <2>2 DEF Enqueue, Carries, Sends
    <3>2. \A g \in Procs : Sends(g, p)' <=> Sends(g, p)
      BY <1>1, <3>1 DEF Sends
    <3>3. WillShow(p, row[p].edit) => WillShow(p, row[p].edit)'
      BY <1>1, <2>2, AppendShows
    <3>4. ASSUME NEW g \in Procs, Sends(g, p)'
          PROVE  (Outgoing(g)[p] = row[p].edit)'
      BY <1>1, <1>2, <3>1, <3>2, <3>4 DEF IndexInv, FollowedInv
    <3>5. QED
      BY <1>2, <3>1, <3>2, <3>3, <3>4 DEF IndexInv, FollowedInv, Procs
  <2>3. QED
    BY <2>1, <2>2
<1>3. QED
  BY <1>2 DEF FollowedInv

LEMMA SendersStep ==
    ASSUME IndexInv, TypeOK', [Next]_vars
    PROVE  SendersInv'
<1> USE DEF IndexInv, SendersInv
<1>1. handler \in [Procs -> Calls] /\ Script \in Procs /\ Handlers \subseteq Procs
  BY DEF TypeOK, Procs
<1>2. ASSUME NEW h \in Procs, NEW call, Await(h, call),
             call.pc = "invalidate" => h \in Handlers,
             call.pc \in {"upsertMany", "batch"} => h = Script
      PROVE  SendersInv'
  BY <1>1, <1>2 DEF Await
<1>3. ASSUME NEW h \in Procs, Return(h)
      PROVE  SendersInv'
  BY <1>2, <1>3 DEF Return, Idle
<1>4. CASE UNCHANGED handler
  BY <1>4
<1>5. ASSUME NEW h \in Procs, NEW k, NEW r, Fetched(h, k, r)
      PROVE  SendersInv'
  BY <1>2, <1>5 DEF Fetched
<1>6. ASSUME NEW h \in Procs, NEW p \in Products,
             \/ ReadItem(h, p) \/ Create(h, p) \/ Update(h, p) \/ Remove(h, p)
      PROVE  SendersInv'
  <2>1. CASE ReadItem(h, p)
    BY <1>5, <2>1 DEF ReadItem
  <2>2. CASE Create(h, p) \/ Update(h, p) \/ Remove(h, p)
    BY <1>2, <2>2 DEF Create, Update, Remove, Invalidate
  <2>3. QED
    BY <1>6, <2>1, <2>2
<1>7. ASSUME NEW h \in Procs, ReadList(h) \/ Search(h) \/ ReadHits(h)
      PROVE  SendersInv'
  BY <1>2, <1>5, <1>7 DEF ReadList, Search, ReadHits
<1>8. ASSUME NEW h \in Procs, Store(h) \/ Index(h) \/ Fail(h)
      PROVE  SendersInv'
  BY <1>3, <1>8 DEF Store, Index, Fail
<1>9. ASSUME NEW h \in Procs, At(h, "invalidate"), NEW t, NEW f,
             \/ Await(h, [handler[h] EXCEPT !.todo = t])
             \/ Await(h, [handler[h] EXCEPT !.found = f])
             \/ Await(h, [handler[h] EXCEPT !.todo = t, !.found = f])
      PROVE  SendersInv'
  <2>1. handler[h] \in InvalidateCalls
    BY <1>1, <1>9, CallsByAwait
  <2>2. /\ [handler[h] EXCEPT !.todo = t].pc = "invalidate"
        /\ [handler[h] EXCEPT !.found = f].pc = "invalidate"
        /\ [handler[h] EXCEPT !.todo = t, !.found = f].pc = "invalidate"
    BY <2>1 DEF InvalidateCalls
  <2>3. QED
    BY <1>2, <1>9, <2>2
<1>10. ASSUME NEW h \in Procs, DropItem(h) \/ ScanLists(h) \/ DropLists(h)
       PROVE  SendersInv'
  <2>1. CASE DropItem(h)
    BY <1>9, <2>1 DEF DropItem
  <2>2. CASE ScanLists(h)
    BY <1>9, <2>2 DEF ScanLists
  <2>3. CASE DropLists(h)
    BY <1>9, <2>3 DEF DropLists
  <2>4. QED
    BY <1>10, <2>1, <2>2, <2>3
<1>11. CASE StartReindex \/ ReadBatch \/ UpsertMany
  <2>1. CASE Return(Script)
    BY <1>1, <1>3, <2>1
  <2>2. ASSUME NEW call, Await(Script, call), call.pc \in {"upsertMany", "batch"}
        PROVE  SendersInv'
    BY <1>1, <1>2, <2>2
  <2>3. QED
    BY <1>11, <2>1, <2>2 DEF StartReindex, ReadBatch, UpsertMany
<1>12. CASE Tick
  <2>1. ASSUME NEW h \in Procs
        PROVE  handler'[h].pc = handler[h].pc
    <3>1. CASE At(h, "store")
      <4>1. handler[h] \in StoreCalls
        BY <1>1, <3>1, CallsByAwait
      <4>2. handler'[h] = [handler[h] EXCEPT !.age = handler[h].age + 1]
        BY <1>12, <3>1 DEF Tick
      <4>3. QED
        BY <4>1, <4>2 DEF StoreCalls
    <3>2. CASE ~At(h, "store")
      BY <1>12, <3>2 DEF Tick
    <3>3. QED
      BY <3>1, <3>2
  <2>2. QED
    BY <2>1
<1>13. CASE \/ UNCHANGED vars \/ ApplyTask
            \/ \E p \in Products : Trade(p) \/ DeleteStore(p)
  BY <1>4, <1>13 DEF vars, Trade, DeleteStore, ApplyTask
<1>14. QED
  BY <1>6, <1>7, <1>8, <1>10, <1>11, <1>12, <1>13 DEF Next, ProductsController

\* A process that sends nothing goes on to a call without documents.
LEMMA FollowedIdle ==
    ASSUME IndexInv, UNCHANGED <<row, search>>, NEW h \in Procs, NEW call,
           Await(h, call), call.pc \notin {"invalidate", "upsertMany"},
           ~At(h, "invalidate"),
           \A p \in Products \ disturbed :
                (\A g \in Handlers : ~Sends(g, p)) => WillShow(p, row[p].edit)
    PROVE  FollowedInv'
<1>1. /\ \A p : ~Sends(h, p)'
      /\ \A g \in Procs \ {h} : Outgoing(g)' = Outgoing(g)
  BY SendsNothing DEF IndexInv
<1>2. ASSUME NEW g \in Handlers, NEW p \in Products, Sends(g, p)
      PROVE  Sends(g, p)'
  <2>1. CASE g = h
    <3>1. ~At(g, "upsertMany")
      BY ScriptIsNoRequest DEF IndexInv, SendersInv, Procs
    <3>2. QED
      BY <1>2, <2>1, <3>1 DEF Sends, Outgoing, Nothing
  <2>2. CASE g # h
    <3>1. Outgoing(g)' = Outgoing(g)
      BY <1>1, <2>2 DEF Procs
    <3>2. QED
      BY <1>2, <3>1 DEF Sends
  <2>3. QED
    BY <2>1, <2>2
<1>3. \A p \in Products : WillShow(p, row[p].edit)
                                => (WillShow(p, row[p].edit))'
  BY DEF search, WillShow
<1>4. \A g \in Procs, p \in Products :
        Sends(g, p)' => Sends(g, p) /\ Outgoing(g)'[p] = Outgoing(g)[p]
  BY <1>1 DEF Sends
<1>5. QED
  BY <1>1, <1>2, <1>3, <1>4, FollowedKept DEF search

\* A step that changes neither rows, documents nor what is to be sent.
LEMMA FollowedSame ==
    ASSUME IndexInv, UNCHANGED search,
           \A p \in Products : row'[p].edit = row[p].edit,
           \A h \in Procs : Outgoing(h)' = Outgoing(h)
    PROVE  FollowedInv'
<1>1. \A p \in Products : WillShow(p, row[p].edit)
                                => (WillShow(p, row[p].edit))'
  BY DEF search, WillShow
<1>2. QED
  BY <1>1, FollowedKept DEF search, Sends, Procs

LEMMA FollowedStep ==
    ASSUME IndexInv, TypeOK', [Next]_vars
    PROVE  FollowedInv'
<1> USE DEF rows, search
<1>1. TypeOK /\ SendersInv /\ FollowedInv
  BY DEF IndexInv
<1>2. handler \in [Procs -> Calls] /\ Script \in Procs /\ Handlers \subseteq Procs
  BY <1>1 DEF TypeOK, Procs
<1>3. \A p \in Products \ disturbed :
        (\A g \in Handlers : ~Sends(g, p)) => WillShow(p, row[p].edit)
  BY <1>1 DEF FollowedInv
<1>4. CASE UNCHANGED vars
  BY <1>4, FollowedSame DEF vars, Outgoing
<1>5. ASSUME NEW h \in Procs, NEW k, NEW r, Fetched(h, k, r),
             ~At(h, "invalidate")
      PROVE  FollowedInv'
  BY <1>3, <1>5, FollowedIdle DEF Fetched
<1>6. ASSUME NEW h \in Procs, NEW p \in Products, ReadItem(h, p)
      PROVE  FollowedInv'
  BY <1>5, <1>6 DEF ReadItem
<1>7. ASSUME NEW h \in Procs, ReadList(h) \/ ReadHits(h)
      PROVE  FollowedInv'
  BY <1>5, <1>7 DEF ReadList, ReadHits
<1>8. ASSUME NEW h \in Procs, Search(h)
      PROVE  FollowedInv'
  BY <1>3, <1>8, FollowedIdle DEF Search
<1>9. ASSUME NEW h \in Procs, Store(h)
      PROVE  FollowedInv'
  BY <1>3, <1>9, FollowedIdle DEF Store, Return, Idle
<1>10. ASSUME NEW h \in Procs, NEW p \in Products,
              Create(h, p) \/ Update(h, p) \/ Remove(h, p)
       PROVE  FollowedInv'
  <2>1. CASE Create(h, p)
    BY <2>1, FollowedWrite DEF Create
  <2>2. CASE Update(h, p)
    BY <2>2, FollowedWrite DEF Update
  <2>3. CASE Remove(h, p)
    BY <2>3, FollowedWrite DEF Remove, NoRow
  <2>4. QED
    BY <1>10, <2>1, <2>2, <2>3
<1>11. ASSUME NEW p \in Products, Trade(p)
       PROVE  FollowedInv'
  <2>1. \A q \in Products : row'[q].edit = row[q].edit
    BY <1>1, <1>11 DEF Trade, Write, TypeOK
  <2>2. QED
    BY <1>11, <2>1, FollowedSame DEF Trade, Outgoing
<1>12. ASSUME NEW h \in Procs, At(h, "invalidate"), NEW t, NEW f,
              \/ Await(h, [handler[h] EXCEPT !.todo = t])
              \/ Await(h, [handler[h] EXCEPT !.found = f])
              \/ Await(h, [handler[h] EXCEPT !.todo = t, !.found = f])
       PROVE  \A g \in Procs : Outgoing(g)' = Outgoing(g)
  <2>1. handler[h] \in InvalidateCalls
    BY <1>2, <1>12, CallsByAwait
  <2>2. ASSUME NEW call, call \in {[handler[h] EXCEPT !.todo = t],
                                   [handler[h] EXCEPT !.found = f],
                                   [handler[h] EXCEPT !.todo = t, !.found = f]}
        PROVE  call.pc = "invalidate" /\ call.docs = handler[h].docs
    BY <2>1, <2>2 DEF InvalidateCalls
  <2>3. PICK call : /\ Await(h, call) /\ call.pc = "invalidate"
                    /\ call.docs = handler[h].docs
    BY <1>12, <2>2
  <2>4. QED
    BY <1>1, <1>12, <2>3, SendsDocs DEF Outgoing
<1>13. ASSUME NEW h \in Procs, DropItem(h) \/ ScanLists(h) \/ DropLists(h)
       PROVE  FollowedInv'
  <2>1. UNCHANGED <<row, search>>
    BY <1>13 DEF DropItem, ScanLists, DropLists
  <2>2. \A g \in Procs : Outgoing(g)' = Outgoing(g)
    <3>1. CASE DropItem(h)
      BY <1>12, <3>1 DEF DropItem
    <3>2. CASE ScanLists(h)
      BY <1>12, <3>2 DEF ScanLists
    <3>3. CASE DropLists(h)
      BY <1>12, <3>3 DEF DropLists
    <3>4. QED
      BY <1>13, <3>1, <3>2, <3>3
  <2>3. QED
    BY <2>1, <2>2, FollowedSame
<1>14. ASSUME NEW h \in Procs, At(h, "invalidate"), Return(h),
              UNCHANGED <<row, index, tasks>>,
              disturbed' = disturbed \cup DOMAIN Outgoing(h)
       PROVE  FollowedInv'
  <2>1. /\ \A p : ~Sends(h, p)'
        /\ \A g \in Procs \ {h} : Outgoing(g)' = Outgoing(g)
    BY <1>1, <1>14, SendsNothing DEF Return, Idle
  <2>2. \A g \in Procs, p \in Products :
          Sends(g, p)' => Sends(g, p) /\ Outgoing(g)'[p] = Outgoing(g)[p]
    BY <2>1 DEF Sends
  <2>3. \A g \in Handlers, p \in Products \ disturbed' :
          Sends(g, p) => Sends(g, p)'
    BY <1>2, <1>14, <2>1 DEF Sends
  <2>4. \A p \in Products : WillShow(p, row[p].edit)
                                => (WillShow(p, row[p].edit))'
    BY <1>14 DEF WillShow
  <2>5. QED
    BY <1>14, <2>2, <2>3, <2>4, FollowedKept
<1>15. ASSUME NEW h \in Procs, Index(h)
       PROVE  FollowedInv'
  <2>1. /\ At(h, "invalidate") /\ Return(h) /\ UNCHANGED <<row, index>>
        /\ Outgoing(h) = handler[h].docs
        /\ handler[h].docs \in Documents
    BY <1>2, <1>15, CallsByAwait DEF Index, Outgoing
  <2>2. CASE Enqueue(h, handler[h].docs)
    BY <2>1, <2>2, FollowedEnqueue DEF Return, Idle
  <2>3. CASE Lose(handler[h].docs)
    BY <1>14, <2>1, <2>3 DEF Lose
  <2>4. QED
    BY <1>15, <2>2, <2>3 DEF Index
<1>16. ASSUME NEW h \in Procs, Fail(h)
       PROVE  FollowedInv'
  <2>1. CASE At(h, "invalidate")
    BY <1>14, <1>16, <2>1 DEF Fail
  <2>2. CASE ~At(h, "invalidate")
    BY <1>3, <1>16, <2>2, FollowedIdle DEF Fail, Return, Idle
  <2>3. QED
    BY <2>1, <2>2
<1>17. CASE ApplyTask
  <2>1. \A p \in Products : WillShow(p, row[p].edit)
                                => (WillShow(p, row[p].edit))'
    <3>1. UNCHANGED row
      BY <1>17 DEF ApplyTask
    <3>2. ASSUME NEW p \in Products, NEW n, WillShow(p, n)
          PROVE  WillShow(p, n)'
      BY <1>1, <1>17, <3>2, ApplyShows
    <3>3. QED
      BY <3>1, <3>2
  <2>2. /\ disturbed' = disturbed
        /\ \A p \in Products : row'[p].edit = row[p].edit
        /\ \A h \in Procs : Outgoing(h)' = Outgoing(h)
    BY <1>17 DEF ApplyTask, Outgoing
  <2>3. QED
    BY <1>2, <2>1, <2>2, FollowedKept DEF Sends
<1>18. CASE StartReindex
  BY <1>2, <1>3, <1>18, FollowedIdle DEF StartReindex
<1>19. CASE ReadBatch
  <2> DEFINE docs == [p \in Page(handler[Script].cursor) |-> row[p].edit]
             call == [pc |-> "upsertMany", docs |-> docs]
  <2>1. CASE Return(Script)
    BY <1>2, <1>3, <1>19, <2>1, FollowedIdle DEF ReadBatch, Return, Idle
  <2>2. CASE Await(Script, call)
    <3>1. /\ Outgoing(Script)' = docs
          /\ \A g \in Procs \ {Script} : Outgoing(g)' = Outgoing(g)
      BY <1>1, <1>2, <2>2, SendsDocs
    <3>2. UNCHANGED <<row, search>>
      BY <1>19 DEF ReadBatch
    <3>3. ASSUME NEW p \in Products \ disturbed', NEW h \in Procs, Sends(h, p)'
          PROVE  (Outgoing(h)[p] = row[p].edit)'
      BY <1>1, <3>1, <3>2, <3>3 DEF FollowedInv, Sends
    <3>4. \A h \in Handlers, p \in Products : Sends(h, p)' <=> Sends(h, p)
      BY <1>2, <3>1, ScriptIsNoRequest DEF Sends
    <3>5. \A p \in Products : WillShow(p, row[p].edit)
                                => (WillShow(p, row[p].edit))'
      BY <3>2 DEF WillShow
    <3>6. QED
      BY <1>3, <3>2, <3>3, <3>4, <3>5 DEF FollowedInv
  <2>3. QED
    BY <1>19, <2>1, <2>2 DEF ReadBatch
<1>20. CASE UpsertMany
  <2> DEFINE docs == handler[Script].docs
  <2>1. /\ At(Script, "upsertMany") /\ UNCHANGED <<row, index>>
        /\ Outgoing(Script) = docs /\ docs \in Documents
    BY <1>2, <1>20, CallsByAwait DEF UpsertMany, Outgoing
  <2>2. PICK call : /\ Await(Script, call)
                    /\ call.pc \notin {"invalidate", "upsertMany"}
    <3>1. CASE Return(Script)
      <4>1. Await(Script, Idle) /\ Idle.pc \notin {"invalidate", "upsertMany"}
        BY <3>1 DEF Return, Idle
      <4>2. QED
        BY <4>1
    <3>2. ASSUME NEW last, Await(Script, [pc |-> "batch", cursor |-> last])
          PROVE  \E call : /\ Await(Script, call)
                           /\ call.pc \notin {"invalidate", "upsertMany"}
      BY <3>2
    <3>3. QED
      BY <1>20, <3>1, <3>2 DEF UpsertMany
  <2>3. CASE Enqueue(Script, docs)
    BY <1>2, <2>1, <2>2, <2>3, FollowedEnqueue
  <2>4. CASE UNCHANGED <<tasks, disturbed>>
    BY <1>2, <1>3, <2>1, <2>2, <2>4, FollowedIdle
  <2>5. QED
    BY <1>20, <2>3, <2>4 DEF UpsertMany
<1>21. CASE Tick
  <2>1. ASSUME NEW h \in Procs
        PROVE  Outgoing(h)' = Outgoing(h)
    <3>1. CASE At(h, "store")
      <4>1. handler[h] \in StoreCalls
        BY <1>2, <3>1, CallsByAwait
      <4>2. handler'[h] = [handler[h] EXCEPT !.age = handler[h].age + 1]
        BY <1>21, <3>1 DEF Tick
      <4>3. QED
        BY <4>1, <4>2 DEF StoreCalls, Outgoing
    <3>2. CASE ~At(h, "store")
      BY <1>21, <3>2 DEF Tick, Outgoing
    <3>3. QED
      BY <3>1, <3>2
  <2>2. QED
    BY <1>21, <2>1, FollowedSame DEF Tick
<1>22. ASSUME NEW p \in Products, DeleteStore(p)
       PROVE  FollowedInv'
  <2>1. /\ disturbed' = disturbed \cup {p} /\ UNCHANGED <<index, tasks>>
        /\ \A q \in Products \ {p} : row'[q] = row[q]
        /\ \A h \in Procs : Outgoing(h)' = Outgoing(h)
    BY <1>1, <1>22 DEF DeleteStore, Write, TypeOK, Outgoing
  <2>2. ASSUME NEW q \in Products \ disturbed'
        PROVE  /\ (row[q].edit)' = row[q].edit
               /\ \A h \in Procs : Sends(h, q)' <=> Sends(h, q)
               /\ WillShow(q, row[q].edit) => WillShow(q, row[q].edit)'
    BY <2>1 DEF Sends, WillShow
  <2>3. QED
    BY <1>1, <1>2, <2>1, <2>2 DEF FollowedInv
<1>23. QED
  BY <1>4, <1>6, <1>7, <1>8, <1>9, <1>10, <1>11, <1>13, <1>15, <1>16, <1>17,
     <1>18, <1>19, <1>20, <1>21, <1>22 DEF Next, ProductsController

LEMMA IndexInit == Init => IndexInv
<1>1. SUFFICES ASSUME Init PROVE IndexInv
  OBVIOUS
<1>2. SendersInv
  BY <1>1 DEF Init, SendersInv, Idle
<1>3. FollowedInv
  <2>1. \A h \in Procs, p \in Products : ~Sends(h, p)
    BY <1>1 DEF Init, Sends, Outgoing, Idle, Nothing
  <2>2. \A p \in Products : WillShow(p, row[p].edit)
    BY <1>1 DEF Init, WillShow, NoRow
  <2>3. QED
    BY <2>1, <2>2 DEF FollowedInv
<1>4. QED
  BY <1>1, <1>2, <1>3, TypeInit DEF IndexInv

LEMMA IndexStep ==
    ASSUME IndexInv, [Next]_vars
    PROVE  IndexInv'
BY TypeStep, SendersStep, FollowedStep DEF IndexInv

\* For any products, requests, page size and length of the engine's queue,
\* the index falls behind for good only where an indexing call was lost or
\* overtaken by another write of the same product.
THEOREM IndexFollowsTable == Spec => []IndexFollows
BY IndexInit, IndexStep, IndexInvImplies, PTL DEF Spec

=============================================================================
