-------------------------- MODULE AtlasPoolProofs --------------------------
(***************************************************************************)
(* Proofs about AtlasPool for every number of pages, threads and table     *)
(* moves.  A page being decoded has exactly one owner, a thread or the     *)
(* caller (OwnersInv); a page under decoding is not settled (PagesInv),    *)
(* and an entry left in the queue by a synchronous claim belongs to a page *)
(* that is settled or about to be (QueueInv).                              *)
(***************************************************************************)
EXTENDS AtlasPool, FiniteSetTheorems, SequenceTheorems, TLAPS

Working(w) == wpc[w] \in {"open", "decode"}
Mine(p) == cpc = "decode" /\ want = p

OwnersInv ==
  /\ \A w \in Threads : Working(w) => state[job[w]] = "decoding" /\ ~Mine(job[w])
  /\ \A v, w \in Threads : Working(v) /\ Working(w) /\ job[v] = job[w] => v = w
  /\ cpc = "decode" => state[want] = "decoding"
  /\ \A p \in Pages : state[p] = "decoding" => Mine(p) \/ \E w \in Threads : Working(w) /\ job[w] = p

\* Whether a page has pixels follows from its having been tried.
PagesInv ==
  \A p \in Pages : /\ px[p] <=> attempted[p] /\ p \in Decodable
                   /\ state[p] = "decoding" => ~Settled(p)

\* Without a pool nothing is queued and nobody decodes in the background.
PoolInv ==
  /\ pool # "made" => /\ \A w \in Threads : wpc[w] = "absent"
                      /\ \A p \in Pages : state[p] = "idle"
                      /\ queue = <<>>
  /\ cpc \in {"look", "sleep", "decode", "join"} => pool = "made"

\* The prefetch list is there while it is worked on, and what is queued is a page.
TodoInv ==
  /\ cpc \in {"check", "enqueue"} => todo # <<>>
  /\ cpc = "enqueue" => todo[1] \in Pages

QueueInv ==
  /\ \A p \in Pages : state[p] = "queued" => Contains(queue, p)
  /\ IsInjective(queue)
  /\ \A p \in Pages : Contains(queue, p) => state[p] = "queued" \/ Settled(p) \/ Mine(p)

TableInv ==
  /\ \A w \in Threads : held[w] <= table
  /\ BytesCounted

IInv == TypeOK /\ OwnersInv /\ PagesInv /\ PoolInv /\ TodoInv /\ QueueInv /\ TableInv
-----------------------------------------------------------------------------
\* The pages are finitely many integers, and a page's neighbours are in the range of the prefetch list.
LEMMA PageFacts ==
  /\ Decodable \subseteq Pages
  /\ Pages \subseteq Int
  /\ IsFiniteSet(Pages)
  /\ \A p \in Pages : p - 1 \in -1..NPages /\ p + 1 \in -1..NPages /\ p \in -1..NPages
<1>1. IsFiniteSet(Pages)
  BY AtlasAssumption, FS_Interval DEF Pages
<1> QED
  BY <1>1, AtlasAssumption DEF Pages, Decodable

\* What remains of the prefetch list is again such a list.
LEMMA PrefetchType ==
  ASSUME TypeOK, todo # <<>>, NextPrefetch
  PROVE  /\ todo' \in Seq(-1..NPages)
         /\ cpc' \in {"idle", "check"}
         /\ cpc' = "check" => todo' # <<>>
<1>1. Tail(todo) \in Seq(-1..NPages)
  BY DEF TypeOK
<1>2. Neighbours \in Seq(-1..NPages)
  <2>1. <<want - 1, want + 1>> \in Seq(-1..NPages)
    <3>1. want - 1 \in -1..NPages /\ want + 1 \in -1..NPages
      BY PageFacts DEF TypeOK
    <3> QED
      BY <3>1
  <2>2. <<>> \in Seq(-1..NPages)
    OBVIOUS
  <2> QED
    BY <2>1, <2>2, Zenon DEF Neighbours
<1> QED
  BY <1>1, <1>2, ConcatProperties DEF NextPrefetch

\* Publishing keeps the types, and bytes grow only for a page that decodes.
LEMMA PublishType ==
  ASSUME TypeOK, NEW p \in Pages, NEW live \in BOOLEAN, Publish(p, live)
  PROVE  /\ px' \in [Pages -> BOOLEAN] /\ attempted' \in [Pages -> BOOLEAN]
         /\ bytes' \in Nat
         /\ \A q \in Pages : Settled(q) => Settled(q)'
         /\ \A q \in Pages \ {p} : px'[q] = px[q] /\ attempted'[q] = attempted[q]
         /\ live => attempted'[p] /\ (px'[p] <=> p \in Decodable)
         /\ ~live => px' = px /\ attempted' = attempted
<1>1. bytes' \in Nat
  BY DEF TypeOK, Publish
<1>2. CASE live
  <2>1. /\ attempted' = [attempted EXCEPT ![p] = TRUE]
        /\ px' = [px EXCEPT ![p] = p \in Decodable]
    BY <1>2 DEF Publish
  <2>2. /\ px \in [Pages -> BOOLEAN] /\ attempted \in [Pages -> BOOLEAN]
    BY DEF TypeOK
  <2>3. px' \in [Pages -> BOOLEAN] /\ attempted' \in [Pages -> BOOLEAN]
    BY <2>1, <2>2
  <2>4. \A q \in Pages \ {p} : px'[q] = px[q] /\ attempted'[q] = attempted[q]
    BY <2>1, <2>2
  <2>5. attempted'[p] /\ (px'[p] <=> p \in Decodable)
    BY <2>1, <2>2, Zenon
  <2> QED
    BY <1>1, <1>2, <2>3, <2>4, <2>5, Zenon DEF Settled
<1>3. CASE ~live
  <2>1. px' = px /\ attempted' = attempted
    BY <1>3 DEF Publish
  <2> QED
    BY <1>1, <1>3, <2>1, Zenon DEF Settled, TypeOK
<1> QED
  BY <1>2, <1>3

\* Waking the workers (the broadcasts of atlas_pool_enqueue and gml_render_free) moves only waiting ones.
LEMMA WakenType ==
  ASSUME TypeOK
  PROVE  /\ Waken(wpc) \in [Threads -> {"absent", "ready", "wait", "open", "decode", "exit"}]
         /\ \A w \in Threads : /\ Waken(wpc)[w] = "absent" <=> wpc[w] = "absent"
                               /\ Waken(wpc)[w] \in {"open", "decode"} <=> Working(w)
                               /\ Waken(wpc)[w] # wpc[w] => wpc[w] = "wait" /\ Waken(wpc)[w] = "ready"
<1>1. wpc \in [Threads -> {"absent", "ready", "wait", "open", "decode", "exit"}]
  BY DEF TypeOK
<1>2. Waken(wpc) \in [Threads -> {"absent", "ready", "wait", "open", "decode", "exit"}]
  BY <1>1 DEF Waken
<1>3. ASSUME NEW w \in Threads
      PROVE  Waken(wpc)[w] = IF wpc[w] = "wait" THEN "ready" ELSE wpc[w]
  BY DEF Waken
<1> QED
  BY <1>2, <1>3 DEF Working

\* Every step keeps the types, and the prefetch list what it is for.
LEMMA NextType ==
  ASSUME TypeOK, TodoInv, [Next]_vars
  PROVE  TypeOK' /\ TodoInv'
<1> USE DEF pages, shared, workers, caller, vars
<1>1. ASSUME NEW p \in Pages, Prefetch(p)
      PROVE  TypeOK' /\ TodoInv'
  <2>1. <<p>> \in Seq(-1..NPages) /\ <<p>> # <<>>
    <3>1. p \in -1..NPages
      BY PageFacts
    <3> QED
      BY <3>1
  <2> QED
    BY <1>1, <2>1, SMT DEF Prefetch, TypeOK, TodoInv
<1>2. CASE CheckRefuse
  <2>1. NextPrefetch /\ todo # <<>> /\ UNCHANGED <<px, attempted, bytes, pool, state, queue, shutdown,
                                                   wpc, job, held, want, result, table>>
    BY <1>2 DEF CheckRefuse, TodoInv
  <2>2. /\ todo' \in Seq(-1..NPages) /\ cpc' \in {"idle", "check"}
        /\ cpc' = "check" => todo' # <<>>
    BY <2>1, PrefetchType
  <2> QED
    BY <2>1, <2>2, SMT DEF TypeOK, TodoInv
<1>3. CASE CheckPass
  <2>1. todo[1] \in Pages /\ todo # <<>> /\ cpc' = "enqueue"
        /\ UNCHANGED <<px, attempted, bytes, state, queue, shutdown, job, held, want, todo, result, table>>
    BY <1>3 DEF CheckPass, Refused, TodoInv
  <2>2. pool' \in {"unchecked", "none", "made"}
        /\ wpc' \in [Threads -> {"absent", "ready", "wait", "open", "decode", "exit"}]
    BY <1>3 DEF CheckPass, TypeOK
  <2> QED
    BY <2>1, <2>2, SMT DEF TypeOK, TodoInv
<1>4. CASE Enqueue
  <2>1. NextPrefetch /\ todo # <<>> /\ todo[1] \in Pages
        /\ UNCHANGED <<px, attempted, bytes, pool, shutdown, job, held, want, result, table>>
    BY <1>4 DEF Enqueue, TodoInv
  <2>2. /\ todo' \in Seq(-1..NPages) /\ cpc' \in {"idle", "check"}
        /\ cpc' = "check" => todo' # <<>>
    BY <2>1, PrefetchType
  <2>3. state' \in [Pages -> {"idle", "queued", "decoding"}]
    BY <1>4, <2>1 DEF Enqueue, TypeOK
  <2>4. queue' \in Seq(Pages) /\ Len(queue') <= NPages
    <3>1. queue \in Seq(Pages) /\ Len(queue) <= NPages /\ Len(queue) \in Nat /\ NPages \in Nat
      BY AtlasAssumption DEF TypeOK
    <3>2. queue' # queue => queue' = Append(queue, todo[1]) /\ Len(queue) < NPages
      BY <1>4 DEF Enqueue, MayQueue
    <3>3. /\ Append(queue, todo[1]) \in Seq(Pages)
          /\ Len(Append(queue, todo[1])) = Len(queue) + 1
      BY <2>1, <3>1, AppendProperties
    <3> QED
      BY <3>1, <3>2, <3>3
  <2>5. wpc' \in [Threads -> {"absent", "ready", "wait", "open", "decode", "exit"}]
    BY <1>4, WakenType DEF Enqueue, TypeOK
  <2> QED
    BY <2>1, <2>2, <2>3, <2>4, <2>5, SMT DEF TypeOK, TodoInv
<1>5. ASSUME NEW p \in Pages, NeedPage(p)
      PROVE  TypeOK' /\ TodoInv'
  <2>1. px' \in [Pages -> BOOLEAN] /\ attempted' \in [Pages -> BOOLEAN] /\ bytes' \in Nat
        /\ result' \in BOOLEAN
    <3>1. CASE UNCHANGED pages
      BY <1>5, <3>1, Zenon DEF NeedPage, TypeOK
    <3>2. CASE Publish(p, TRUE) /\ result' = px'[p]
      BY <3>2, PublishType, Zenon
    <3> QED
      BY <1>5, <3>1, <3>2 DEF NeedPage
  <2>2. want' = p /\ cpc' \in {"look", "idle"}
        /\ UNCHANGED <<pool, state, queue, shutdown, wpc, job, held, todo, table>>
    BY <1>5 DEF NeedPage
  <2> QED
    BY <2>1, <2>2, SMT DEF TypeOK, TodoInv
<1>6. CASE LookDone \/ LookWait \/ SpuriousDone \/ Join \/ Free \/ MoveTable
  <2>1. CASE LookDone
    <3>1. result' \in BOOLEAN
      BY <2>1, Zenon DEF LookDone, TypeOK
    <3> QED
      BY <2>1, <3>1, SMT DEF LookDone, TypeOK, TodoInv
  <2>2. CASE LookWait \/ SpuriousDone \/ Join
    BY <2>2, SMT DEF LookWait, SpuriousDone, Join, TypeOK, TodoInv
  <2>3. CASE Free
    <3>1. wpc' \in [Threads -> {"absent", "ready", "wait", "open", "decode", "exit"}]
      BY <2>3, WakenType DEF Free, TypeOK
    <3>2. cpc' \in {"join", "freed"} /\ shutdown' \in BOOLEAN
          /\ UNCHANGED <<px, attempted, bytes, pool, state, queue, job, held, want, todo, result, table>>
      BY <2>3 DEF Free, TypeOK
    <3> QED
      BY <3>1, <3>2, SMT DEF TypeOK, TodoInv
  <2>4. CASE MoveTable
    BY <2>4, AtlasAssumption DEF MoveTable, TypeOK, TodoInv
  <2> QED
    BY <1>6, <2>1, <2>2, <2>3, <2>4
<1>7. CASE LookClaim
  BY <1>7, SMT DEF LookClaim, TypeOK, TodoInv
<1>8. CASE CallerPublish
  <2>1. px' \in [Pages -> BOOLEAN] /\ attempted' \in [Pages -> BOOLEAN] /\ bytes' \in Nat
        /\ result' \in BOOLEAN
    BY <1>8, PublishType, Zenon DEF CallerPublish, TypeOK
  <2>2. cpc' = "idle" /\ state' \in [Pages -> {"idle", "queued", "decoding"}]
        /\ UNCHANGED <<pool, queue, shutdown, wpc, job, held, want, todo, table>>
    BY <1>8 DEF CallerPublish, TypeOK
  <2> QED
    BY <2>1, <2>2, SMT DEF TypeOK, TodoInv
<1>9. ASSUME NEW w \in Threads, WorkerExit(w) \/ WorkerWait(w) \/ SpuriousWork(w) \/ WorkerOpen(w)
      PROVE  TypeOK' /\ TodoInv'
  <2>1. wpc' \in [Threads -> {"absent", "ready", "wait", "open", "decode", "exit"}]
        /\ held' \in [Threads -> 0..MaxMoves]
    BY <1>9 DEF WorkerExit, WorkerWait, SpuriousWork, WorkerOpen, TypeOK
  <2>2. UNCHANGED <<px, attempted, bytes, pool, state, queue, shutdown, job, cpc, want, todo, result, table>>
    BY <1>9 DEF WorkerExit, WorkerWait, SpuriousWork, WorkerOpen
  <2> QED
    BY <2>1, <2>2, SMT DEF TypeOK, TodoInv
<1>10. ASSUME NEW w \in Threads, WorkerSkip(w) \/ WorkerTake(w)
       PROVE  TypeOK' /\ TodoInv'
  <2>1. queue # <<>> /\ queue' = Tail(queue)
        /\ UNCHANGED <<px, attempted, bytes, pool, shutdown, held, cpc, want, todo, result, table>>
    BY <1>10 DEF WorkerSkip, WorkerTake
  <2>2. Head(queue) \in Pages /\ queue' \in Seq(Pages) /\ Len(queue') <= NPages
    BY <2>1, HeadTailProperties, AtlasAssumption DEF TypeOK
  <2>3. state' \in [Pages -> {"idle", "queued", "decoding"}]
    <3>1. state' = state \/ state' = [state EXCEPT ![Head(queue)] = "idle"]
                        \/ state' = [state EXCEPT ![Head(queue)] = "decoding"]
      BY <1>10, Zenon DEF WorkerSkip, WorkerTake
    <3> QED
      BY <2>2, <3>1 DEF TypeOK
  <2>4. job' \in [Threads -> Pages]
        /\ wpc' \in [Threads -> {"absent", "ready", "wait", "open", "decode", "exit"}]
    <3>1. CASE WorkerSkip(w)
      BY <3>1 DEF WorkerSkip, TypeOK
    <3>2. CASE WorkerTake(w)
      BY <3>2, <2>2 DEF WorkerTake, TypeOK
    <3> QED
      BY <1>10, <3>1, <3>2
  <2> QED
    BY <2>1, <2>2, <2>3, <2>4, SMT DEF TypeOK, TodoInv
<1>11. ASSUME NEW w \in Threads, WorkerPublish(w)
       PROVE  TypeOK' /\ TodoInv'
  <2>1. job[w] \in Pages /\ (held[w] = table) \in BOOLEAN /\ Publish(job[w], held[w] = table)
    BY <1>11 DEF WorkerPublish, TypeOK
  <2>2. px' \in [Pages -> BOOLEAN] /\ attempted' \in [Pages -> BOOLEAN] /\ bytes' \in Nat
    BY <2>1, PublishType, Zenon
  <2>3. /\ state' \in [Pages -> {"idle", "queued", "decoding"}]
        /\ wpc' \in [Threads -> {"absent", "ready", "wait", "open", "decode", "exit"}]
    BY <1>11, <2>1 DEF WorkerPublish, TypeOK
  <2>4. cpc' # cpc => cpc = "sleep" /\ cpc' = "look"
    BY <1>11 DEF WorkerPublish
  <2>5. UNCHANGED <<pool, queue, shutdown, job, held, want, todo, result, table>>
    BY <1>11 DEF WorkerPublish
  <2> QED
    BY <2>2, <2>3, <2>4, <2>5, SMT DEF TypeOK, TodoInv
<1>12. CASE UNCHANGED vars
  BY <1>12, Zenon DEF TypeOK, TodoInv
<1> QED
  BY <1>1, <1>2, <1>3, <1>4, <1>5, <1>6, <1>7, <1>8, <1>9, <1>10, <1>11, <1>12, Zenon
     DEF Next, CallerStep, WorkerStep
-----------------------------------------------------------------------------
\* A page has one owner while it is decoded: a thread takes a queued page, the caller claims a page
\* that nobody decodes, and whoever publishes a page was its only owner.
LEMMA NextOwners ==
  ASSUME TypeOK, TodoInv, PoolInv, OwnersInv, [Next]_vars
  PROVE  OwnersInv'
<1> USE DEF pages, shared, workers, caller, vars
<1>1. ASSUME NEW p \in Pages, Prefetch(p) \/ NeedPage(p)
      PROVE  OwnersInv'
  <2>1. cpc # "decode" /\ cpc' # "decode" /\ UNCHANGED <<state, wpc, job>>
    BY <1>1, Zenon DEF Prefetch, NeedPage
  <2> QED
    BY <2>1, SMT DEF OwnersInv, Working, Mine
<1>2. CASE CheckRefuse
  <2>1. cpc # "decode" /\ cpc' # "decode" /\ UNCHANGED <<state, wpc, job>>
    BY <1>2, SMT DEF CheckRefuse, NextPrefetch
  <2> QED
    BY <2>1, SMT DEF OwnersInv, Working, Mine
<1>3. CASE CheckPass
  <2>1. cpc # "decode" /\ cpc' # "decode" /\ UNCHANGED <<state, job>>
    BY <1>3 DEF CheckPass
  <2>2. CASE pool = "made"
    BY <1>3, <2>1, <2>2, SMT DEF CheckPass, OwnersInv, Working, Mine
  <2>3. CASE pool # "made"
    <3>1. \A w \in Threads : wpc'[w] \in {"ready", "absent"}
      <4>1. PICK n \in 0..MaxThreads : wpc' = [w \in Threads |-> IF w <= n THEN "ready" ELSE "absent"]
        BY <1>3, <2>3 DEF CheckPass
      <4> QED
        BY <4>1
    <3>2. \A p \in Pages : state[p] = "idle"
      BY <2>3 DEF PoolInv
    <3>3. \A w \in Threads : ~(wpc'[w] \in {"open", "decode"})
      BY <3>1
    <3>4. \A p \in Pages : state'[p] # "decoding"
      BY <2>1, <3>2
    <3> QED
      BY <2>1, <3>3, <3>4, Zenon DEF OwnersInv, Working, Mine
  <2> QED
    BY <2>2, <2>3
<1>4. CASE Enqueue
  <2>1. cpc # "decode" /\ cpc' # "decode" /\ UNCHANGED job /\ todo[1] \in Pages
    BY <1>4, SMT DEF Enqueue, NextPrefetch, TodoInv
  <2>2. \A w \in Threads : (wpc'[w] \in {"open", "decode"}) <=> Working(w)
    BY <1>4, WakenType, SMT DEF Enqueue, Working
  <2>3. \A p \in Pages : (state'[p] = "decoding") <=> (state[p] = "decoding")
    BY <1>4, <2>1, SMT DEF Enqueue, MayQueue, TypeOK
  <2> QED
    BY <2>1, <2>2, <2>3, SMT DEF OwnersInv, Working, Mine, TypeOK
<1>5. CASE LookDone \/ LookWait \/ SpuriousDone \/ Join \/ MoveTable
  BY <1>5, SMT DEF LookDone, LookWait, SpuriousDone, Join, MoveTable, OwnersInv, Working, Mine
<1>6. CASE Free
  <2>1. cpc # "decode" /\ cpc' # "decode" /\ UNCHANGED <<state, job>>
    BY <1>6, SMT DEF Free
  <2>2. \A w \in Threads : (wpc'[w] \in {"open", "decode"}) <=> Working(w)
    BY <1>6, WakenType, SMT DEF Free, Working
  <2> QED
    BY <2>1, <2>2, SMT DEF OwnersInv, Working, Mine, TypeOK
<1>7. CASE LookClaim
  BY <1>7, SMT DEF LookClaim, OwnersInv, Working, Mine, TypeOK
<1>8. CASE CallerPublish
  BY <1>8, SMT DEF CallerPublish, OwnersInv, Working, Mine, TypeOK
<1>9. ASSUME NEW w \in Threads, WorkerExit(w) \/ WorkerWait(w) \/ SpuriousWork(w) \/ WorkerOpen(w)
      PROVE  OwnersInv'
  <2>1. UNCHANGED <<state, job, cpc, want>>
    BY <1>9, SMT DEF WorkerExit, WorkerWait, SpuriousWork, WorkerOpen
  <2>2. \A v \in Threads : (wpc'[v] \in {"open", "decode"}) <=> Working(v)
    BY <1>9, SMT DEF WorkerExit, WorkerWait, SpuriousWork, WorkerOpen, Working, TypeOK
  <2> QED
    BY <2>1, <2>2, SMT DEF OwnersInv, Working, Mine, TypeOK
<1>10. ASSUME NEW w \in Threads, WorkerSkip(w)
       PROVE  OwnersInv'
  <2>1. UNCHANGED <<wpc, job, cpc, want>>
    BY <1>10 DEF WorkerSkip
  <2>2. \A p \in Pages : (state'[p] = "decoding") <=> (state[p] = "decoding")
    <3>1. Head(queue) \in Pages
      BY <1>10, HeadTailProperties DEF WorkerSkip, TypeOK
    <3> QED
      BY <1>10, <3>1, SMT DEF WorkerSkip, TypeOK
  <2> QED
    BY <2>1, <2>2, SMT DEF OwnersInv, Working, Mine, TypeOK
<1>11. ASSUME NEW w \in Threads, WorkerTake(w)
       PROVE  OwnersInv'
  <2> DEFINE p == Head(queue)
  <2>1. p \in Pages /\ state[p] = "queued" /\ ~Working(w)
    BY <1>11, HeadTailProperties DEF WorkerTake, Stale, TypeOK, Working
  <2>2. /\ state' = [state EXCEPT ![p] = "decoding"] /\ job' = [job EXCEPT ![w] = p]
        /\ wpc' = [wpc EXCEPT ![w] = "open"] /\ UNCHANGED <<cpc, want>>
    BY <1>11 DEF WorkerTake
  <2> HIDE DEF p
  <2> QED
    BY <2>1, <2>2, SMT DEF OwnersInv, Working, Mine, TypeOK
<1>12. ASSUME NEW w \in Threads, WorkerPublish(w)
       PROVE  OwnersInv'
  <2>1. /\ Working(w) /\ state' = [state EXCEPT ![job[w]] = "idle"]
        /\ wpc' = [wpc EXCEPT ![w] = "ready"] /\ UNCHANGED <<job, want>>
        /\ cpc' = "decode" <=> cpc = "decode"
    BY <1>12, SMT DEF WorkerPublish, Working
  <2> QED
    BY <2>1, SMT DEF OwnersInv, Working, Mine, TypeOK
<1>13. CASE UNCHANGED vars
  BY <1>13, SMT DEF OwnersInv, Working, Mine
<1> QED
  BY <1>1, <1>2, <1>3, <1>4, <1>5, <1>6, <1>7, <1>8, <1>9, <1>10, <1>11, <1>12, <1>13, Zenon
     DEF Next, CallerStep, WorkerStep
-----------------------------------------------------------------------------
\* Publishing a page that was not settled leaves every other page alone.
LEMMA NextPages ==
  ASSUME TypeOK, TodoInv, PoolInv, OwnersInv, PagesInv, [Next]_vars
  PROVE  PagesInv'
<1> USE DEF pages, shared, workers, caller, vars
<1> DEFINE SameDecoding == \A q \in Pages : state'[q] = "decoding" => state[q] = "decoding"
<1>a. ASSUME UNCHANGED <<px, attempted>>, SameDecoding
      PROVE  PagesInv'
  BY <1>a, Zenon DEF PagesInv, Settled
<1>b. ASSUME NEW p \in Pages, NEW live \in BOOLEAN, Publish(p, live), SameDecoding,
             state'[p] # "decoding"
      PROVE  PagesInv'
  <2>1. /\ \A q \in Pages \ {p} : px'[q] = px[q] /\ attempted'[q] = attempted[q]
        /\ live => attempted'[p] /\ (px'[p] <=> p \in Decodable)
        /\ ~live => px' = px /\ attempted' = attempted
    BY <1>b, PublishType, Zenon
  <2>2. ASSUME NEW q \in Pages
        PROVE  /\ px'[q] <=> attempted'[q] /\ q \in Decodable
               /\ state'[q] = "decoding" => ~Settled(q)'
    <3>1. CASE q = p
      BY <1>b, <2>1, <3>1, Zenon DEF PagesInv
    <3>2. CASE q # p
      BY <1>b, <2>1, <3>2, Zenon DEF PagesInv, Settled
    <3> QED
      BY <3>1, <3>2
  <2> QED
    BY <2>2, Zenon DEF PagesInv
<1>1. ASSUME NEW p \in Pages, Prefetch(p) \/ NeedPage(p)
      PROVE  PagesInv'
  <2>1. UNCHANGED state /\ SameDecoding
    BY <1>1, Zenon DEF Prefetch, NeedPage
  <2>2. CASE UNCHANGED <<px, attempted>>
    BY <2>1, <2>2, <1>a
  <2>3. CASE Publish(p, TRUE) /\ pool # "made"
    <3>1. state'[p] # "decoding"
      BY <2>1, <2>3, SMT DEF PoolInv
    <3> QED
      BY <2>1, <2>3, <3>1, <1>b, Zenon
  <2> QED
    BY <1>1, <2>2, <2>3, Zenon DEF Prefetch, NeedPage
<1>2. CASE CheckRefuse \/ CheckPass \/ LookDone \/ LookWait \/ SpuriousDone \/ Join \/ MoveTable \/ Free
  <2>1. UNCHANGED <<px, attempted, state>>
    BY <1>2, Zenon DEF CheckRefuse, CheckPass, LookDone, LookWait, SpuriousDone, Join, MoveTable, Free
  <2> QED
    BY <2>1, <1>a, Zenon
<1>3. CASE Enqueue
  <2>1. UNCHANGED <<px, attempted>> /\ todo[1] \in Pages
    BY <1>3, SMT DEF Enqueue, TodoInv
  <2>2. SameDecoding
    BY <1>3, <2>1, SMT DEF Enqueue, TypeOK
  <2> QED
    BY <2>1, <2>2, <1>a
<1>4. CASE LookClaim
  <2>1. /\ UNCHANGED <<px, attempted>> /\ ~Settled(want)
        /\ \A q \in Pages : q # want => state'[q] = state[q]
    BY <1>4, SMT DEF LookClaim, TypeOK
  <2> QED
    BY <2>1, Zenon DEF PagesInv, Settled
<1>5. CASE CallerPublish
  <2>1. want \in Pages /\ Publish(want, TRUE) /\ state' = [state EXCEPT ![want] = "idle"]
    BY <1>5, Zenon DEF CallerPublish, TypeOK
  <2>2. SameDecoding /\ state'[want] # "decoding"
    BY <2>1, SMT DEF TypeOK
  <2> QED
    BY <2>1, <2>2, <1>b, Zenon
<1>6. ASSUME NEW w \in Threads,
             WorkerExit(w) \/ WorkerWait(w) \/ SpuriousWork(w) \/ WorkerOpen(w) \/ WorkerSkip(w)
      PROVE  PagesInv'
  <2>1. UNCHANGED <<px, attempted>>
    BY <1>6, Zenon DEF WorkerExit, WorkerWait, SpuriousWork, WorkerOpen, WorkerSkip
  <2>2. UNCHANGED state \/ (Head(queue) \in Pages /\ state' = [state EXCEPT ![Head(queue)] = "idle"])
    <3>1. CASE WorkerSkip(w)
      BY <3>1, HeadTailProperties, SMT DEF WorkerSkip, TypeOK
    <3>2. CASE ~WorkerSkip(w)
      BY <1>6, <3>2, Zenon DEF WorkerExit, WorkerWait, SpuriousWork, WorkerOpen
    <3> QED
      BY <3>1, <3>2
  <2>3. SameDecoding
    BY <2>2, SMT DEF TypeOK
  <2> QED
    BY <2>1, <2>3, <1>a
<1>7. ASSUME NEW w \in Threads, WorkerTake(w)
      PROVE  PagesInv'
  <2>1. /\ UNCHANGED <<px, attempted>> /\ ~Settled(Head(queue))
        /\ \A q \in Pages : q # Head(queue) => state'[q] = state[q]
    BY <1>7, SMT DEF WorkerTake, Stale, TypeOK
  <2> QED
    BY <2>1, Zenon DEF PagesInv, Settled
<1>8. ASSUME NEW w \in Threads, WorkerPublish(w)
      PROVE  PagesInv'
  <2>1. job[w] \in Pages /\ (held[w] = table) \in BOOLEAN /\ Publish(job[w], held[w] = table)
        /\ state' = [state EXCEPT ![job[w]] = "idle"]
    BY <1>8 DEF WorkerPublish, TypeOK
  <2>2. SameDecoding /\ state'[job[w]] # "decoding"
    BY <2>1, SMT DEF TypeOK
  <2> QED
    BY <2>1, <2>2, <1>b, Zenon
<1>9. CASE UNCHANGED vars
  BY <1>9, <1>a
<1> QED
  BY <1>1, <1>2, <1>3, <1>4, <1>5, <1>6, <1>7, <1>8, <1>9, Zenon DEF Next, CallerStep, WorkerStep

\* A pool stays once it is made; until then nothing is queued and no thread runs.
LEMMA NextPool ==
  ASSUME TypeOK, TodoInv, PoolInv, [Next]_vars
  PROVE  PoolInv'
<1> USE DEF pages, shared, workers, caller, vars
<1>1. CASE pool = "made"
  <2>1. pool' = "made"
    BY <1>1, Zenon DEF Next, CallerStep, WorkerStep, Prefetch, NeedPage, CheckRefuse, CheckPass, Enqueue,
       LookDone, LookWait, LookClaim, CallerPublish, SpuriousDone, Join, Free, MoveTable,
       WorkerExit, WorkerWait, SpuriousWork, WorkerOpen, WorkerSkip, WorkerTake, WorkerPublish
  <2> QED
    BY <2>1 DEF PoolInv
<1>2. CASE pool # "made"
  <2>1. /\ \A w \in Threads : wpc[w] = "absent"
        /\ \A p \in Pages : state[p] = "idle"
        /\ queue = <<>>
        /\ cpc \notin {"look", "sleep", "decode", "join"}
    BY <1>2 DEF PoolInv
  <2>2. ASSUME NEW w \in Threads
        PROVE  ~WorkerStep(w) /\ ~SpuriousWork(w)
    BY <2>1, SMT DEF WorkerStep, SpuriousWork, WorkerExit, WorkerWait, WorkerOpen, WorkerSkip,
       WorkerTake, WorkerPublish
  <2>3. CASE CheckPass
    <3>1. PICK n \in 0..MaxThreads :
            /\ pool' = IF n = 0 THEN "none" ELSE "made"
            /\ wpc' = [w \in Threads |-> IF w <= n THEN "ready" ELSE "absent"]
      BY <1>2, <2>3 DEF CheckPass
    <3>2. cpc' = "enqueue" /\ UNCHANGED <<state, queue>>
      BY <2>3, <1>2 DEF CheckPass
    <3>3. n = 0 => \A w \in Threads : wpc'[w] = "absent"
      BY <3>1 DEF Threads
    <3> QED
      BY <2>1, <3>1, <3>2, <3>3, SMT DEF PoolInv
  <2>4. CASE Enqueue
    BY <1>2, <2>1, <2>4, SMT DEF Enqueue, NextPrefetch, PoolInv
  <2>5. ASSUME NEW p \in Pages, Prefetch(p) \/ NeedPage(p)
        PROVE  PoolInv'
    <3>1. UNCHANGED <<pool, state, queue, wpc>> /\ cpc' \in {"idle", "check"}
      BY <1>2, <2>5, Zenon DEF Prefetch, NeedPage
    <3> QED
      BY <2>1, <3>1, SMT DEF PoolInv
  <2>6. CASE CheckRefuse \/ MoveTable \/ Free \/ UNCHANGED vars
    <3>1. UNCHANGED <<pool, state, queue, wpc>>
      BY <1>2, <2>6, Zenon DEF CheckRefuse, MoveTable, Free
    <3>2. CheckRefuse => cpc' \in {"idle", "check"}
      BY SMT DEF CheckRefuse, NextPrefetch
    <3>3. Free => cpc' = "freed"
      BY <1>2, SMT DEF Free
    <3>4. MoveTable \/ UNCHANGED vars => cpc' = cpc
      BY SMT DEF MoveTable
    <3>5. cpc' \notin {"look", "sleep", "decode", "join"}
      <4>1. cpc' \in {"idle", "check"} \/ cpc' = "freed" \/ cpc' = cpc
        BY <2>6, <3>2, <3>3, <3>4
      <4> QED
        BY <2>1, <4>1
    <3> QED
      BY <1>2, <2>1, <3>1, <3>5, Zenon DEF PoolInv
  <2>7. ~(LookDone \/ LookWait \/ LookClaim \/ CallerPublish \/ SpuriousDone \/ Join)
    <3>1. LookDone \/ LookWait \/ LookClaim \/ CallerPublish \/ SpuriousDone \/ Join
          => cpc = "look" \/ cpc = "sleep" \/ cpc = "decode" \/ cpc = "join"
      BY Zenon DEF LookDone, LookWait, LookClaim, CallerPublish, SpuriousDone, Join
    <3> QED
      BY <2>1, <3>1, Zenon
  <2> QED
    BY <2>2, <2>3, <2>4, <2>5, <2>6, <2>7, Zenon DEF Next, CallerStep
<1> QED
  BY <1>1, <1>2
-----------------------------------------------------------------------------
\* Appending a page that is not in the queue keeps its entries distinct.
LEMMA AppendEntry ==
  ASSUME NEW q \in Seq(Pages), NEW p \in Pages
  PROVE  /\ \A x \in Pages : Contains(Append(q, p), x) <=> (Contains(q, x) \/ x = p)
         /\ IsInjective(q) /\ ~Contains(q, p) => IsInjective(Append(q, p))
<1>1. /\ Append(q, p) \in Seq(Pages) /\ Len(Append(q, p)) = Len(q) + 1 /\ Len(q) \in Nat
      /\ \A i \in 1..Len(q) : Append(q, p)[i] = q[i]
      /\ Append(q, p)[Len(q) + 1] = p
  BY AppendProperties
<1>2. DOMAIN Append(q, p) = 1..(Len(q) + 1) /\ DOMAIN q = 1..Len(q)
  BY <1>1
<1>3. 1..(Len(q) + 1) = (1..Len(q)) \cup {Len(q) + 1}
  BY <1>1
<1>4. ASSUME NEW x \in Pages
      PROVE  Contains(Append(q, p), x) <=> (Contains(q, x) \/ x = p)
  BY <1>1, <1>3, Zenon DEF Contains
<1>5. ASSUME IsInjective(q), ~Contains(q, p)
      PROVE  IsInjective(Append(q, p))
  <2>1. SUFFICES ASSUME NEW a \in 1..(Len(q) + 1), NEW b \in 1..(Len(q) + 1),
                        Append(q, p)[a] = Append(q, p)[b]
                 PROVE  a = b
    BY <1>2 DEF IsInjective
  <2>2. CASE a \in 1..Len(q) /\ b \in 1..Len(q)
    BY <1>1, <1>2, <1>5, <2>1, <2>2, Zenon DEF IsInjective
  <2>3. \A i \in 1..Len(q) : q[i] # p
    BY <1>5 DEF Contains
  <2> QED
    BY <1>1, <1>3, <2>1, <2>2, <2>3, Zenon
<1> QED
  BY <1>4, <1>5

\* Dropping the head of a queue of distinct entries removes that page from it, and no other.
LEMMA DropHead ==
  ASSUME NEW q \in Seq(Pages), q # <<>>, IsInjective(q)
  PROVE  /\ \A x \in Pages : Contains(Tail(q), x) <=> (Contains(q, x) /\ x # Head(q))
         /\ IsInjective(Tail(q))
         /\ Contains(q, Head(q)) /\ Head(q) \in Pages
<1>1. /\ Tail(q) \in Seq(Pages) /\ Len(Tail(q)) = Len(q) - 1 /\ Head(q) \in Pages
      /\ \A i \in 1..Len(Tail(q)) : Tail(q)[i] = q[i + 1]
      /\ Head(q) = q[1] /\ Len(q) \in Nat /\ Len(q) > 0
  BY HeadTailProperties
<1>2. DOMAIN Tail(q) = 1..(Len(q) - 1) /\ DOMAIN q = 1..Len(q)
  BY <1>1
<1>3. ASSUME NEW x \in Pages, Contains(Tail(q), x)
      PROVE  Contains(q, x) /\ x # Head(q)
  <2>1. PICK i \in 1..Len(Tail(q)) : Tail(q)[i] = x
    BY <1>3 DEF Contains
  <2>2. q[i + 1] = x /\ i + 1 \in 1..Len(q) /\ 1 \in 1..Len(q) /\ i + 1 # 1
    BY <1>1, <2>1
  <2>3. x # Head(q)
    BY <1>1, <1>2, <2>2 DEF IsInjective
  <2> QED
    BY <2>2, <2>3 DEF Contains
<1>4. ASSUME NEW x \in Pages, Contains(q, x), x # Head(q)
      PROVE  Contains(Tail(q), x)
  <2>1. PICK i \in 1..Len(q) : q[i] = x
    BY <1>4 DEF Contains
  <2>2. i # 1 /\ i - 1 \in 1..Len(Tail(q)) /\ (i - 1) + 1 = i
    BY <1>1, <1>4, <2>1
  <2>3. Tail(q)[i - 1] = x
    BY <1>1, <2>1, <2>2
  <2> QED
    BY <2>2, <2>3 DEF Contains
<1>5. IsInjective(Tail(q))
  <2>1. SUFFICES ASSUME NEW a \in 1..(Len(q) - 1), NEW b \in 1..(Len(q) - 1), Tail(q)[a] = Tail(q)[b]
                 PROVE  a = b
    BY <1>2 DEF IsInjective
  <2>2. q[a + 1] = q[b + 1] /\ a + 1 \in DOMAIN q /\ b + 1 \in DOMAIN q
    BY <1>1, <1>2, <2>1
  <2>3. a + 1 = b + 1
    BY <2>2 DEF IsInjective
  <2> QED
    BY <2>3
<1>6. Contains(q, Head(q))
  <2>1. 1 \in 1..Len(q) /\ q[1] = Head(q)
    BY <1>1
  <2> QED
    BY <2>1 DEF Contains
<1> QED
  BY <1>1, <1>3, <1>4, <1>5, <1>6

\* A page is queued once: what enters was idle and unsettled, so no entry of it was left; an entry
\* the caller's claim leaves behind is of a page that is settled when the claim ends.
LEMMA NextQueue ==
  ASSUME TypeOK, TodoInv, PoolInv, OwnersInv, PagesInv, QueueInv, [Next]_vars
  PROVE  QueueInv'
<1> USE DEF pages, shared, workers, caller, vars
<1> DEFINE Q(p) == state[p] = "queued" \/ Settled(p) \/ Mine(p)
<1>0. queue \in Seq(Pages) /\ want \in Pages
  BY DEF TypeOK
<1>a. ASSUME UNCHANGED <<queue, state>>,
             \A p \in Pages : Settled(p) \/ Mine(p) => (Settled(p) \/ Mine(p))'
      PROVE  QueueInv'
  BY <1>a, Zenon DEF QueueInv
<1>1. ASSUME NEW p \in Pages, Prefetch(p)
      PROVE  QueueInv'
  <2>1. UNCHANGED <<queue, state, px, attempted>> /\ cpc # "decode"
    BY <1>1, SMT DEF Prefetch
  <2> QED
    BY <2>1, <1>a, Zenon DEF Settled, Mine
<1>2. ASSUME NEW p \in Pages, NeedPage(p)
      PROVE  QueueInv'
  <2>1. UNCHANGED <<queue, state>> /\ cpc # "decode"
    BY <1>2, SMT DEF NeedPage
  <2>2. UNCHANGED <<px, attempted>> \/ Publish(p, TRUE)
    BY <1>2, Zenon DEF NeedPage
  <2>3. \A q \in Pages : Settled(q) => Settled(q)'
    BY <2>2, PublishType, Zenon DEF Settled
  <2> QED
    BY <2>1, <2>3, <1>a, Zenon DEF Mine
<1>3. CASE CheckRefuse \/ CheckPass \/ LookDone \/ LookWait \/ SpuriousDone \/ Join \/ MoveTable \/ Free
  <2>1. UNCHANGED <<queue, state, px, attempted>>
    BY <1>3, Zenon DEF CheckRefuse, CheckPass, LookDone, LookWait, SpuriousDone, Join, MoveTable, Free
  <2>2. cpc # "decode"
    BY <1>3, SMT DEF CheckRefuse, CheckPass, LookDone, LookWait, SpuriousDone, Join, MoveTable, Free
  <2> QED
    BY <2>1, <2>2, <1>a, Zenon DEF Settled, Mine
<1>4. CASE Enqueue
  <2>1. todo[1] \in Pages /\ UNCHANGED <<px, attempted>> /\ cpc # "decode"
    BY <1>4, SMT DEF Enqueue, TodoInv
  <2>2. CASE UNCHANGED <<state, queue>>
    BY <2>1, <2>2, <1>a, Zenon DEF Settled, Mine
  <2>3. CASE ~UNCHANGED <<state, queue>>
    <3> DEFINE p == todo[1]
    <3>1. /\ state' = [state EXCEPT ![p] = "queued"] /\ queue' = Append(queue, p)
          /\ state[p] = "idle" /\ ~Settled(p)
      BY <1>4, <2>3, Zenon DEF Enqueue, MayQueue
    <3>2. p \in Pages
      BY <2>1
    <3> HIDE DEF p
    <3>3. /\ state'[p] = "queued"
          /\ \A x \in Pages \ {p} : state'[x] = state[x]
      BY <3>1, <3>2, SMT DEF TypeOK
    <3>4. ~Mine(p)
      BY <2>1 DEF Mine
    <3>5. ~Contains(queue, p)
      BY <3>1, <3>2, <3>4, SMT DEF QueueInv
    <3>6. /\ \A x \in Pages : Contains(queue', x) <=> (Contains(queue, x) \/ x = p)
          /\ IsInjective(queue')
      BY <1>0, <3>1, <3>2, <3>5, AppendEntry, Zenon DEF QueueInv
    <3>7. \A x \in Pages : Settled(x)' <=> Settled(x)
      BY <2>1, Zenon DEF Settled
    <3>8. \A x \in Pages : state'[x] = "queued" => Contains(queue', x)
      BY <3>3, <3>6, Zenon DEF QueueInv
    <3>9. \A x \in Pages : Contains(queue', x) => state'[x] = "queued" \/ Settled(x)'
      BY <2>1, <3>3, <3>6, <3>7, Zenon DEF QueueInv, Mine
    <3> QED
      BY <3>6, <3>8, <3>9, Zenon DEF QueueInv
  <2> QED
    BY <2>2, <2>3
<1>5. CASE LookClaim
  <2>1. /\ state' = [state EXCEPT ![want] = "decoding"] /\ cpc' = "decode" /\ cpc = "look"
        /\ UNCHANGED <<queue, px, attempted, want>>
    BY <1>5, Zenon DEF LookClaim
  <2>2. /\ state'[want] = "decoding"
        /\ \A x \in Pages \ {want} : state'[x] = state[x]
    BY <1>0, <2>1, SMT DEF TypeOK
  <2>3. \A x \in Pages : state'[x] = "queued" => state[x] = "queued"
    BY <2>2
  <2>4. \A x \in Pages : Q(x) => Q(x)'
    BY <2>1, <2>2, SMT DEF Settled, Mine
  <2> QED
    BY <2>1, <2>3, <2>4, Zenon DEF QueueInv
<1>6. CASE CallerPublish
  <2>1. /\ state' = [state EXCEPT ![want] = "idle"] /\ Publish(want, TRUE) /\ UNCHANGED <<queue, want>>
    BY <1>6, Zenon DEF CallerPublish
  <2>2. \A x \in Pages \ {want} : state'[x] = state[x]
    BY <1>0, <2>1, SMT DEF TypeOK
  <2>3. state'[want] = "idle"
    BY <1>0, <2>1, SMT DEF TypeOK
  <2>4. Settled(want)' /\ \A x \in Pages : Settled(x) => Settled(x)'
    BY <1>0, <2>1, PublishType, Zenon DEF Settled
  <2>5. \A x \in Pages : state'[x] = "queued" => state[x] = "queued"
    BY <2>2, <2>3
  <2>6. \A x \in Pages : Q(x) => Q(x)'
    <3>1. SUFFICES ASSUME NEW x \in Pages, Q(x)
                   PROVE  state'[x] = "queued" \/ Settled(x)'
      OBVIOUS
    <3>2. CASE x = want
      BY <2>1, <2>4, <3>2, Zenon DEF Settled
    <3>3. CASE x # want
      <4>1. ~Mine(x) /\ state'[x] = state[x]
        BY <2>2, <3>3, Zenon DEF Mine
      <4> QED
        BY <2>4, <3>1, <4>1, Zenon
    <3> QED
      BY <3>2, <3>3
  <2> QED
    BY <2>1, <2>5, <2>6, Zenon DEF QueueInv
<1>7. ASSUME NEW w \in Threads, WorkerExit(w) \/ WorkerWait(w) \/ SpuriousWork(w) \/ WorkerOpen(w)
      PROVE  QueueInv'
  <2>1. UNCHANGED <<queue, state, px, attempted, cpc, want>>
    BY <1>7, Zenon DEF WorkerExit, WorkerWait, SpuriousWork, WorkerOpen
  <2> QED
    BY <2>1, <1>a, Zenon DEF Settled, Mine
<1>8. ASSUME NEW w \in Threads, WorkerSkip(w) \/ WorkerTake(w)
      PROVE  QueueInv'
  <2> DEFINE p == Head(queue)
  <2>1. queue # <<>> /\ queue' = Tail(queue) /\ UNCHANGED <<px, attempted, cpc, want>>
    BY <1>8, Zenon DEF WorkerSkip, WorkerTake
  <2>2. /\ \A x \in Pages : Contains(queue', x) <=> (Contains(queue, x) /\ x # p)
        /\ IsInjective(queue') /\ p \in Pages
    BY <1>0, <2>1, DropHead, Zenon DEF QueueInv
  <2>3. state' = [state EXCEPT ![p] = "idle"] \/ state' = [state EXCEPT ![p] = "decoding"]
        \/ (UNCHANGED state /\ state[p] # "queued")
    BY <1>8, Zenon DEF WorkerSkip, WorkerTake
  <2> HIDE DEF p
  <2>4. state'[p] # "queued" /\ \A x \in Pages \ {p} : state'[x] = state[x]
    BY <2>2, <2>3, SMT DEF TypeOK
  <2>5. \A x \in Pages \ {p} : Q(x) => Q(x)'
    BY <2>1, <2>4, Zenon DEF Settled, Mine
  <2> QED
    BY <2>2, <2>4, <2>5, Zenon DEF QueueInv
<1>9. ASSUME NEW w \in Threads, WorkerPublish(w)
      PROVE  QueueInv'
  <2> DEFINE p == job[w]
  <2>1. /\ p \in Pages /\ (held[w] = table) \in BOOLEAN /\ Publish(p, held[w] = table)
        /\ state' = [state EXCEPT ![p] = "idle"] /\ UNCHANGED <<queue, want>>
        /\ Working(w)
    BY <1>9, SMT DEF WorkerPublish, TypeOK, Working
  <2>2. cpc' = "decode" <=> cpc = "decode"
    BY <1>9, SMT DEF WorkerPublish
  <2>3. state[p] = "decoding"
    BY <2>1, Zenon DEF OwnersInv
  <2> HIDE DEF p
  <2>4. \A x \in Pages : state'[x] = "queued" <=> state[x] = "queued"
    BY <2>1, <2>3, SMT DEF TypeOK
  <2>5. \A x \in Pages : Settled(x) => Settled(x)'
    BY <2>1, PublishType, Zenon
  <2>6. \A x \in Pages : Q(x) => Q(x)'
    BY <2>1, <2>2, <2>4, <2>5, Zenon DEF Mine
  <2> QED
    BY <2>1, <2>4, <2>6, Zenon DEF QueueInv
<1>10. CASE UNCHANGED vars
  BY <1>10, <1>a, Zenon DEF Settled, Mine
<1> QED
  BY <1>1, <1>2, <1>3, <1>4, <1>5, <1>6, <1>7, <1>8, <1>9, <1>10, Zenon DEF Next, CallerStep, WorkerStep

\* The byte count follows the pages with pixels while the table has not moved: a page that decodes
\* had no pixels before.
LEMMA NextTable ==
  ASSUME TypeOK, TodoInv, PoolInv, OwnersInv, PagesInv, TableInv, [Next]_vars
  PROVE  TableInv'
<1> USE DEF pages, shared, workers, caller, vars
<1> DEFINE Pixels == {p \in Pages : px[p]}
<1>a. IsFiniteSet(Pixels)
  BY PageFacts, FS_Subset
<1>b. ASSUME UNCHANGED <<px, bytes, table, held>>
      PROVE  TableInv'
  BY <1>b, Zenon DEF TableInv, BytesCounted
<1>c. ASSUME NEW p \in Pages, NEW live \in BOOLEAN, Publish(p, live), ~px[p],
             table = 0 => live, UNCHANGED <<table, held>>
      PROVE  TableInv'
  <2>1. \A w \in Threads : held'[w] <= table'
    BY <1>c DEF TableInv
  <2>2. ASSUME table = 0
        PROVE  bytes' = Cardinality(Pixels')
    <3>1. px' = [px EXCEPT ![p] = p \in Decodable] /\ bytes = Cardinality(Pixels)
      BY <1>c, <2>2, Zenon DEF Publish, TableInv, BytesCounted
    <3>2. bytes' = bytes + (IF p \in Decodable THEN 1 ELSE 0)
      BY <1>c DEF Publish
    <3>3. px \in [Pages -> BOOLEAN]
      BY DEF TypeOK
    <3>4. px'[p] <=> p \in Decodable
      BY <3>1, <3>3, Zenon
    <3>5. \A q \in Pages \ {p} : px'[q] = px[q]
      BY <3>1, <3>3
    <3>6. CASE p \in Decodable
      <4>1. Pixels' = Pixels \cup {p}
        <5>1. ASSUME NEW q \in Pages
              PROVE  px'[q] <=> px[q] \/ q = p
          BY <3>4, <3>5, <3>6, <1>c, Zenon
        <5> QED
          BY <5>1, Zenon
      <4>2. p \notin Pixels
        BY <1>c
      <4> HIDE DEF Pixels
      <4>3. Cardinality(Pixels') = Cardinality(Pixels) + 1
        BY <4>1, <4>2, <1>a, FS_AddElement, Zenon
      <4> QED
        BY <3>1, <3>2, <3>6, <4>3
    <3>7. CASE p \notin Decodable
      <4>1. Pixels' = Pixels
        <5>1. ASSUME NEW q \in Pages
              PROVE  px'[q] <=> px[q]
          BY <3>4, <3>5, <3>7, <1>c, Zenon
        <5> QED
          BY <5>1, Zenon
      <4> HIDE DEF Pixels
      <4>2. Cardinality(Pixels') = Cardinality(Pixels)
        BY <4>1, Zenon
      <4>3. bytes' = bytes
        BY <3>2, <3>7 DEF TypeOK
      <4> QED
        BY <3>1, <4>2, <4>3, Zenon
    <3> QED
      BY <3>6, <3>7, Zenon
  <2> QED
    BY <1>c, <2>1, <2>2, Zenon DEF TableInv, BytesCounted
<1>1. ASSUME NEW p \in Pages, NeedPage(p)
      PROVE  TableInv'
  <2>1. UNCHANGED <<table, held>> /\ ~px[p]
    BY <1>1, Zenon DEF NeedPage
  <2>2. UNCHANGED pages \/ Publish(p, TRUE)
    BY <1>1, Zenon DEF NeedPage
  <2> QED
    BY <2>1, <2>2, <1>b, <1>c, Zenon
<1>2. CASE CallerPublish
  <2>1. UNCHANGED <<table, held>> /\ Publish(want, TRUE) /\ want \in Pages /\ cpc = "decode"
    BY <1>2, Zenon DEF CallerPublish, TypeOK
  <2>2. ~px[want]
    BY <2>1, Zenon DEF OwnersInv, PagesInv, Settled
  <2> QED
    BY <2>1, <2>2, <1>c, Zenon
<1>3. ASSUME NEW w \in Threads, WorkerPublish(w)
      PROVE  TableInv'
  <2>1. /\ UNCHANGED <<table, held>> /\ Publish(job[w], held[w] = table) /\ Working(w)
        /\ job[w] \in Pages /\ (held[w] = table) \in BOOLEAN
    BY <1>3, SMT DEF WorkerPublish, TypeOK, Working
  <2>2. ~px[job[w]]
    BY <2>1, Zenon DEF OwnersInv, PagesInv, Settled
  <2>3. table = 0 => held[w] = table
    BY SMT DEF TypeOK, TableInv
  <2> QED
    BY <2>1, <2>2, <2>3, <1>c, Zenon
<1>4. CASE MoveTable
  <2>1. table' = table + 1 /\ held' = held /\ table \in Nat /\ held \in [Threads -> Nat]
    BY <1>4, AtlasAssumption DEF MoveTable, TypeOK
  <2> QED
    BY <2>1, SMT DEF TableInv, BytesCounted
<1>5. ASSUME NEW w \in Threads, WorkerOpen(w)
      PROVE  TableInv'
  <2>1. held' = [held EXCEPT ![w] = table] /\ UNCHANGED <<px, bytes, table>> /\ table \in Nat
    BY <1>5, AtlasAssumption DEF WorkerOpen, TypeOK
  <2>2. \A v \in Threads : held'[v] <= table'
    BY <2>1, SMT DEF TableInv, TypeOK
  <2> QED
    BY <2>1, <2>2, Zenon DEF TableInv, BytesCounted
<1>6. ASSUME NEW p \in Pages, Prefetch(p)
      PROVE  TableInv'
  BY <1>6, <1>b, Zenon DEF Prefetch
<1>7. ASSUME NEW w \in Threads,
             WorkerExit(w) \/ WorkerWait(w) \/ SpuriousWork(w) \/ WorkerSkip(w) \/ WorkerTake(w)
      PROVE  TableInv'
  BY <1>7, <1>b, Zenon DEF WorkerExit, WorkerWait, SpuriousWork, WorkerSkip, WorkerTake
<1>8. CASE CheckRefuse \/ CheckPass \/ Enqueue \/ LookDone \/ LookWait \/ LookClaim \/ SpuriousDone
           \/ Join \/ Free \/ UNCHANGED vars
  BY <1>8, <1>b, Zenon DEF CheckRefuse, CheckPass, Enqueue, LookDone, LookWait, LookClaim, SpuriousDone,
     Join, Free
<1> QED
  BY <1>1, <1>2, <1>3, <1>4, <1>5, <1>6, <1>7, <1>8, Zenon DEF Next, CallerStep, WorkerStep
-----------------------------------------------------------------------------
\* Nothing is queued, decoded or decoding when the pages are made.
LEMMA InitInv == Init => IInv
<1> SUFFICES ASSUME Init
             PROVE  IInv
  OBVIOUS
<1>1. TypeOK
  <2>1. 0 \in Pages /\ 0 \in 0..MaxMoves /\ Len(<<>>) <= NPages
    BY AtlasAssumption DEF Pages
  <2>2. px \in [Pages -> BOOLEAN] /\ attempted \in [Pages -> BOOLEAN] /\ result \in BOOLEAN
        /\ shutdown \in BOOLEAN
    BY Zenon DEF Init
  <2>3. queue \in Seq(Pages) /\ todo \in Seq(-1..NPages)
    BY DEF Init
  <2> QED
    BY <2>1, <2>2, <2>3, SMT DEF Init, TypeOK
<1>2. OwnersInv /\ PagesInv /\ PoolInv /\ TodoInv
  BY DEF Init, OwnersInv, PagesInv, PoolInv, TodoInv, Working, Mine, Settled
<1>3. QueueInv
  BY DEF Init, QueueInv, Contains, IsInjective
<1>4. TableInv
  <2>1. {p \in Pages : px[p]} = {}
    BY DEF Init
  <2>2. Cardinality({}) = 0
    BY FS_EmptySet
  <2>3. bytes = Cardinality({p \in Pages : px[p]})
    BY <2>1, <2>2, Zenon DEF Init
  <2>4. \A w \in Threads : held[w] <= table
    BY DEF Init
  <2> QED
    BY <2>3, <2>4, Zenon DEF TableInv, BytesCounted
<1> QED
  BY <1>1, <1>2, <1>3, <1>4 DEF IInv

\* Every reachable state of the pool satisfies the inductive invariant.
THEOREM Inductive == Spec => []IInv
<1>1. IInv /\ [Next]_vars => IInv'
  BY NextType, NextOwners, NextPages, NextPool, NextQueue, NextTable, Zenon DEF IInv
<1> QED
  BY InitInv, <1>1, PTL DEF Spec

\* The fields, positions and lists of the pool keep their types.
THEOREM Typing == Spec => []TypeOK
<1>1. IInv => TypeOK
  BY DEF IInv
<1> QED
  BY Inductive, <1>1, PTL

\* atlas_pixels, atlas_worker: two threads never decode the same page, and a page is marked as being
\* decoded exactly while one does.
THEOREM SingleDecoder == Spec => []OneDecoder
<1>1. ASSUME IInv, NEW p \in Pages
      PROVE  /\ Decoding(p) \in {0, 1}
             /\ state[p] = "decoding" <=> Decoding(p) = 1
  <2> DEFINE W == {w \in Threads : wpc[w] \in {"open", "decode"} /\ job[w] = p}
  <2>0. W = {w \in Threads : Working(w) /\ job[w] = p}
    BY DEF Working
  <2>1. Decoding(p) = Cardinality(W) + (IF Mine(p) THEN 1 ELSE 0)
    BY DEF Decoding, Mine
  <2>2. CASE \E w \in Threads : Working(w) /\ job[w] = p
    <3>1. PICK w \in Threads : Working(w) /\ job[w] = p
      BY <2>2
    <3>2. ~Mine(p) /\ state[p] = "decoding"
      BY <1>1, <3>1, Zenon DEF IInv, OwnersInv
    <3>4. \A v \in Threads : Working(v) /\ job[v] = p => v = w
      BY <1>1, <3>1, Zenon DEF IInv, OwnersInv
    <3>5. W = {w}
      BY <2>0, <3>1, <3>4, Zenon
    <3>3. Cardinality({w}) = 1
      BY FS_Singleton
    <3> HIDE DEF W
    <3> QED
      BY <2>1, <3>2, <3>3, <3>5
  <2>3. CASE ~\E w \in Threads : Working(w) /\ job[w] = p
    <3>1. W = {}
      BY <2>0, <2>3
    <3>2. Cardinality({}) = 0
      BY FS_EmptySet
    <3>3. state[p] = "decoding" <=> Mine(p)
      BY <1>1, <2>3, Zenon DEF IInv, OwnersInv, Mine
    <3> HIDE DEF W
    <3> QED
      BY <2>1, <3>1, <3>2, <3>3
  <2> QED
    BY <2>2, <2>3
<1>2. IInv => OneDecoder
  BY <1>1 DEF OneDecoder
<1> QED
  BY Inductive, <1>2, PTL

\* A page is not decoded again once it was decoded or found not to decode.
THEOREM DecodedOnce == Spec => []NeverAgain
<1>1. IInv /\ OneDecoder => NeverAgain
  BY Zenon DEF IInv, OneDecoder, PagesInv, Settled, NeverAgain
<1> QED
  BY Inductive, SingleDecoder, <1>1, PTL

\* atlas_pool_enqueue, atlas_worker: each queued page has exactly one entry in the ring, whose NPages
\* slots are therefore enough.
THEOREM ExactQueue == Spec => []QueueExact
<1>1. IInv => QueueExact
  BY DEF IInv, QueueInv, QueueExact
<1> QED
  BY Inductive, <1>1, PTL

\* atlas_decode_publish: atlas_decoded_bytes counts each decoded page once while the table stays.
THEOREM CountedBytes == Spec => []BytesCounted
<1>1. IInv => BytesCounted
  BY DEF IInv, TableInv
<1> QED
  BY Inductive, <1>1, PTL

\* atlas_pixels, atlas_worker: a page is decoded once, by one thread, whoever asks for it and when.
THEOREM OneDecoderOnce == Spec => []DecodedByOne
<1>1. OneDecoder /\ NeverAgain => DecodedByOne
  BY DEF DecodedByOne
<1> QED
  BY SingleDecoder, DecodedOnce, <1>1, PTL

\* atlas_pool_enqueue, atlas_decode_publish: the ring and the byte count agree with the pages.
THEOREM ExactLedgers == Spec => []LedgersExact
<1>1. QueueExact /\ BytesCounted => LedgersExact
  BY DEF LedgersExact
<1> QED
  BY ExactQueue, CountedBytes, <1>1, PTL

\* atlas_pixels returns pixels exactly for a page that decodes, whoever decoded it.
THEOREM PixelsOfThePage == Spec => ResultIsThePage
<1>1. ASSUME IInv, [Next]_vars, cpc \in {"look", "decode"}, cpc' = "idle"
      PROVE  result' <=> want \in Decodable
  <2>1. CASE LookDone
    BY <1>1, <2>1, Zenon DEF LookDone, IInv, TypeOK, PagesInv, Settled
  <2>2. CASE CallerPublish
    <3>1. want \in Pages /\ TRUE \in BOOLEAN /\ Publish(want, TRUE) /\ (result' <=> px'[want])
      BY <1>1, <2>2, Zenon DEF CallerPublish, IInv, TypeOK
    <3> QED
      BY <1>1, <3>1, PublishType, Zenon DEF IInv
  <2>3. LookDone \/ CallerPublish
    <3>1. cpc # cpc'
      BY <1>1
    <3>2. ~CheckRefuse /\ ~CheckPass /\ ~Enqueue /\ ~Join /\ ~SpuriousDone /\ ~MoveTable /\ ~Free
      BY <1>1 DEF CheckRefuse, CheckPass, Enqueue, Join, SpuriousDone, MoveTable, Free
    <3>3. ~LookWait /\ ~LookClaim
      BY <1>1 DEF LookWait, LookClaim
    <3>4. \A p \in Pages : ~Prefetch(p) /\ ~NeedPage(p)
      BY <1>1 DEF Prefetch, NeedPage
    <3>5. \A w \in Threads : ~WorkerStep(w) /\ ~SpuriousWork(w)
      BY <1>1, <3>1 DEF WorkerStep, SpuriousWork, WorkerExit, WorkerWait, WorkerSkip, WorkerTake,
         WorkerOpen, WorkerPublish, caller
    <3>6. ~UNCHANGED vars
      BY <3>1 DEF vars
    <3> QED
      BY <1>1, <3>2, <3>3, <3>4, <3>5, <3>6, Zenon DEF Next, CallerStep
  <2> QED
    BY <2>1, <2>2, <2>3
<1>2. IInv /\ [Next]_vars => ((cpc \in {"look", "decode"} /\ cpc' = "idle") => (result' <=> want \in Decodable))
  BY <1>1
<1> QED
  BY Inductive, <1>2, PTL DEF Spec, ResultIsThePage
=============================================================================
