----------------------- MODULE HydrationCache_proofs -----------------------
(***************************************************************************)
(* Proofs about HydrationCache, for any number of overlapping hydrations   *)
(* and revisions.                                                          *)
(*                                                                         *)
(* InvalidationHolds needs to know what the builds under way have read:    *)
(* one that no invalidation of a layer overtook has read nothing older     *)
(* than that invalidation (BuildsFresh).                                   *)
(***************************************************************************)
EXTENDS HydrationCache, TLAPS

\* What a build has read when it is at a query: nothing of the queries to come.
ReadSoFar(b) ==
    /\ ~UnderWay(b) => b.parts = NoParts
    /\ UnderWay(b) => b.parts["profile"] # {}
    /\ b.pc = "schedule" => b.parts["slots"] = {}
    /\ b.pc \in {"schedule", "slots"} => b.parts["rosters"] = {}
    /\ b.pc \in {"slots", "rosters", "store"} => b.parts["schedule"] # {}
    /\ b.pc \in {"rosters", "store"} => b.parts["slots"] # {}

BuildsInOrder ==
    \A p \in Builders :
       /\ ReadSoFar(build[p])
       /\ InOrder(build[p].parts)
       /\ UpTo(build[p].parts, rev)

BuildsFresh ==
    /\ \A l \in Layers : floor[l] <= rev
    /\ \A p \in Builders, l \in Layers :
         l \notin build[p].over => Since(build[p].parts, floor[l])

IInv == TypeOK /\ BuildsInOrder /\ BuildsFresh /\ PartsInOrder /\ InvalidationHolds

----------------------------------------------------------------------------

LEMMA Constants ==
    /\ 0 \in Rev /\ NoParts \in Parts /\ Idle \in Build
    /\ Idle.pc = "idle" /\ Idle.parts = NoParts /\ ~UnderWay(Idle)
    /\ Nil \notin Parts
    /\ \A r \in Rev : r \in Int
  <1>1. 0 \in Rev /\ \A r \in Rev : r \in Int
    BY HydrationAssumption DEF Rev
  <1>2. NoParts \in Parts
    BY DEF NoParts, Parts
  <1>3. Idle \in Build
    BY <1>2 DEF Idle, Build
  <1> QED
    BY <1>1, <1>2, <1>3, HydrationAssumption DEF Idle, UnderWay

\* A build that has read nothing shows nothing wrong.
LEMMA Nothing ==
    /\ InOrder(NoParts)
    /\ \A r : UpTo(NoParts, r) /\ Since(NoParts, r)
  BY DEF NoParts, InOrder, UpTo, Since, Queries

LEMMA IdleReads ==
    ASSUME NEW b \in Build, ~UnderWay(b), b.parts = NoParts
    PROVE  ReadSoFar(b) /\ InOrder(b.parts) /\ \A r : UpTo(b.parts, r) /\ Since(b.parts, r)
  <1>1. b.pc \in {"idle", "profile"}
    BY DEF UnderWay
  <1> QED
    BY <1>1, Nothing DEF ReadSoFar

LEMMA InitOK == Init => IInv
  <1> SUFFICES ASSUME Init PROVE IInv
    OBVIOUS
  <1>1. TypeOK
    BY Constants DEF Init, TypeOK
  <1>2. \A p \in Builders : build[p] = Idle
    BY DEF Init
  <1>3. BuildsInOrder
    BY <1>2, Constants, IdleReads DEF BuildsInOrder
  <1>4. BuildsFresh
    BY <1>2, Constants, IdleReads DEF Init, BuildsFresh
  <1>5. PartsInOrder /\ InvalidationHolds
    BY DEF Init, PartsInOrder, InvalidationHolds
  <1> QED
    BY <1>1, <1>3, <1>4, <1>5 DEF IInv

\* One build changes and nothing else does.
LEMMA BuildStep ==
    ASSUME IInv, NEW p \in Builders, NEW b \in Build, build' = [build EXCEPT ![p] = b],
           UNCHANGED <<rev, cache, up, floor, tainted>>,
           ReadSoFar(b), InOrder(b.parts), UpTo(b.parts, rev),
           \A l \in Layers : l \notin b.over => Since(b.parts, floor[l])
    PROVE  IInv'
  <1>1. TypeOK'
    BY DEF IInv, TypeOK
  <1>2. \A q \in Builders : build'[q] = build[q] \/ build'[q] = b
    BY DEF IInv, TypeOK
  <1>3. BuildsInOrder'
    BY <1>2 DEF IInv, BuildsInOrder
  <1>4. BuildsFresh'
    BY <1>2 DEF IInv, BuildsFresh
  <1>5. PartsInOrder' /\ InvalidationHolds'
    BY DEF IInv, PartsInOrder, InvalidationHolds
  <1> QED
    BY <1>1, <1>3, <1>4, <1>5 DEF IInv

LEMMA HydrateKeeps ==
    ASSUME IInv, NEW p \in Builders, Hydrate(p)
    PROVE  IInv'
  <1> DEFINE b == [Idle EXCEPT !.pc = "profile"]
  <1>1. b \in Build /\ b.pc = "profile" /\ b.parts = NoParts
    BY Constants DEF Idle, Build, Queries
  <1>2. build' = [build EXCEPT ![p] = b] /\ UNCHANGED <<rev, cache, up, floor, tainted>>
    BY DEF Hydrate
  <1> HIDE DEF b
  <1>3. ~UnderWay(b)
    BY <1>1 DEF UnderWay
  <1>4. /\ ReadSoFar(b) /\ InOrder(b.parts)
        /\ \A r : UpTo(b.parts, r) /\ Since(b.parts, r)
    BY <1>1, <1>3, IdleReads
  <1> QED
    BY <1>1, <1>2, <1>4, BuildStep

\* The order of the queries (Follows): what comes after q has not been read yet.
LEMMA ReadsKeeps ==
    ASSUME IInv, NEW p \in Builders, NEW q \in Queries, Reads(p, q)
    PROVE  IInv'
  <1>0. PICK next \in Queries \cup {"store"} :
          /\ Follows(q, next)
          /\ build' = [build EXCEPT ![p].pc = next, ![p].parts[q] = @ \cup {rev}]
    BY DEF Reads
  <1> DEFINE old == build[p].parts
             new == [old EXCEPT ![q] = @ \cup {rev}]
             b == [build[p] EXCEPT !.pc = next, !.parts = new]
  <1>1. /\ build[p] \in Build /\ old \in Parts /\ rev \in Rev /\ rev \in Int
        /\ build[p].pc = q
    BY Constants DEF IInv, TypeOK, Reads, Build
  <1>2. /\ new \in Parts
        /\ new[q] = old[q] \cup {rev}
        /\ \A r \in Queries : r # q => new[r] = old[r]
    BY <1>1 DEF Parts
  <1>3. build' = [build EXCEPT ![p] = b] /\ UNCHANGED <<rev, cache, up, floor, tainted>>
    BY <1>0, <1>1 DEF Reads, IInv, TypeOK, Build
  <1>4. ReadSoFar(build[p]) /\ InOrder(old) /\ UpTo(old, rev)
    BY DEF IInv, BuildsInOrder
  <1>5. \A l \in Layers :
          floor[l] \in Int /\ floor[l] <= rev /\ (l \notin build[p].over => Since(old, floor[l]))
    BY Constants DEF IInv, TypeOK, BuildsFresh
  <1>6. \A r \in Queries : \A n \in old[r] : n \in Int /\ n <= rev
    BY <1>1, <1>4, Constants DEF UpTo, Parts
  <1> HIDE DEF new
  <1>7. b \in Build /\ b.pc = next /\ b.parts = new /\ b.over = build[p].over
    BY <1>1, <1>2 DEF Build
  <1> HIDE DEF b
  <1>8. UpTo(new, rev)
    BY <1>1, <1>2, <1>6 DEF UpTo
  <1>9. \A l \in Layers : l \notin b.over => Since(new, floor[l])
    BY <1>1, <1>2, <1>5, <1>7 DEF Since
  <1>10. /\ q = "profile" => next = "schedule" /\ old = NoParts
         /\ q = "schedule" => next = "slots" /\ old["slots"] = {} /\ old["rosters"] = {}
         /\ q = "slots" => next \in {"rosters", "store"} /\ old["rosters"] = {}
         /\ q = "rosters" => next \in {"rosters", "store"}
    BY <1>0, <1>1, <1>4 DEF Follows, ReadSoFar, UnderWay
  <1>11. ReadSoFar(b)
    BY <1>1, <1>2, <1>4, <1>7, <1>10 DEF ReadSoFar, UnderWay, NoParts, Queries
  <1>12. InOrder(new)
    <2> SUFFICES ASSUME NEW pair \in {<<"profile", "schedule">>, <<"schedule", "slots">>,
                                      <<"slots", "rosters">>},
                        NEW m \in new[pair[1]], NEW n \in new[pair[2]]
                 PROVE  m <= n
      BY DEF InOrder
    <2>1. pair[1] \in Queries /\ pair[2] \in Queries /\ pair[1] # pair[2]
      BY DEF Queries
    <2>2. m <= rev
      BY <1>8, <2>1 DEF UpTo
    <2>3. CASE q = pair[1]
      <3>1. old[pair[2]] = {}
        BY <1>10, <2>3 DEF NoParts, Queries
      <3> QED
        BY <1>2, <2>1, <2>3, <3>1
    <2>4. CASE q # pair[1]
      <3>1. m \in old[pair[1]]
        BY <1>2, <2>1, <2>4
      <3>2. CASE n \in old[pair[2]]
        BY <1>4, <3>1, <3>2 DEF InOrder
      <3>3. CASE n \notin old[pair[2]]
        BY <1>2, <2>1, <2>2, <3>3
      <3> QED
        BY <3>2, <3>3
    <2> QED
      BY <2>3, <2>4
  <1> QED
    BY <1>3, <1>7, <1>8, <1>9, <1>11, <1>12, BuildStep

LEMMA StoreKeeps ==
    ASSUME IInv, NEW p \in Builders, Store(p)
    PROVE  IInv'
  <1>0. PICK layers \in SUBSET Layers, upAfter \in BOOLEAN :
          /\ up' = upAfter
          /\ cache' = [l \in Layers |-> IF l \in layers THEN build[p].parts ELSE cache[l]]
          /\ tainted' = (tainted \ layers) \cup (layers \cap build[p].over)
    BY DEF Store
  <1>1. build' = [build EXCEPT ![p] = Idle] /\ UNCHANGED <<rev, floor>>
    BY DEF Store
  <1>2. build[p] \in Build /\ build[p].parts \in Parts /\ UnderWay(build[p]) /\ build[p].pc = "store"
    BY DEF IInv, TypeOK, Build, Store, UnderWay
  <1>3. TypeOK'
    <2>1. cache' \in [Layers -> Parts \cup {Nil}]
      BY <1>0, <1>2 DEF IInv, TypeOK
    <2>2. tainted' \subseteq Layers
      BY <1>0, <1>2 DEF IInv, TypeOK, Build
    <2> QED
      BY <1>0, <1>1, <2>1, <2>2, Constants DEF IInv, TypeOK
  <1>4. \A q \in Builders : build'[q] = build[q] \/ build'[q] = Idle
    BY <1>1 DEF IInv, TypeOK
  <1>5. BuildsInOrder' /\ BuildsFresh'
    BY <1>1, <1>4, Constants, IdleReads DEF IInv, BuildsInOrder, BuildsFresh
  <1>6. PartsInOrder'
    <2>1. InOrder(build[p].parts) /\ UpTo(build[p].parts, rev) /\ Whole(build[p].parts)
      BY <1>2 DEF IInv, BuildsInOrder, ReadSoFar, Whole
    <2>2. \A l \in Layers : cache'[l] = build[p].parts \/ cache'[l] = cache[l]
      BY <1>0
    <2> QED
      BY <1>1, <2>1, <2>2 DEF IInv, PartsInOrder
  <1>7. InvalidationHolds'
    <2> SUFFICES ASSUME NEW l \in Layers, cache'[l] # Nil, l \notin tainted'
                 PROVE  Since(cache'[l], floor[l])
      BY <1>1 DEF InvalidationHolds
    <2>1. CASE l \in layers
      <3>1. cache'[l] = build[p].parts /\ l \notin build[p].over
        BY <1>0, <2>1
      <3> QED
        BY <1>2, <3>1 DEF IInv, BuildsFresh
    <2>2. CASE l \notin layers
      <3>1. cache'[l] = cache[l] /\ l \notin tainted
        BY <1>0, <2>2
      <3> QED
        BY <3>1 DEF IInv, InvalidationHolds
    <2> QED
      BY <2>1, <2>2
  <1> QED
    BY <1>3, <1>5, <1>6, <1>7 DEF IInv

LEMMA InvalidateKeeps ==
    ASSUME IInv, Invalidate
    PROVE  IInv'
  <1>0. PICK layers \in SUBSET Layers, upAfter \in BOOLEAN :
          /\ up' = upAfter
          /\ cache' = [l \in Layers |-> Kept(l, layers)]
          /\ floor' = [l \in Layers |-> IF l \in layers THEN rev ELSE floor[l]]
          /\ tainted' = tainted \ layers
          /\ build' = [p \in Builders |->
                         IF UnderWay(build[p]) THEN [build[p] EXCEPT !.over = @ \cup layers]
                         ELSE build[p]]
    BY DEF Invalidate
  <1>1. rev' = rev
    BY DEF Invalidate
  <1>2. \A p \in Builders :
          /\ build'[p] \in Build
          /\ build'[p].pc = build[p].pc /\ build'[p].parts = build[p].parts
          /\ UnderWay(build[p]) => build'[p].over = build[p].over \cup layers
    BY <1>0 DEF IInv, TypeOK, Build
  <1>3. \A l \in Layers : cache'[l] = Nil \/ (l \notin layers /\ cache'[l] = cache[l])
    BY <1>0 DEF Kept
  <1>4. TypeOK'
    <2>1. cache' \in [Layers -> Parts \cup {Nil}]
      BY <1>0 DEF IInv, TypeOK, Kept
    <2>2. tainted' \subseteq Layers
      BY <1>0 DEF IInv, TypeOK
    <2>3. floor' \in [Layers -> Rev]
      BY <1>0 DEF IInv, TypeOK
    <2>4. build' \in [Builders -> Build]
      BY <1>0, <1>2
    <2> QED
      BY <1>0, <1>1, <2>1, <2>2, <2>3, <2>4 DEF IInv, TypeOK
  <1>5. BuildsInOrder'
    BY <1>1, <1>2 DEF IInv, BuildsInOrder, ReadSoFar, UnderWay
  <1>6. BuildsFresh'
    <2>1. \A l \in Layers : floor'[l] <= rev
      BY <1>0, Constants DEF IInv, BuildsFresh, TypeOK
    <2>2. ASSUME NEW p \in Builders, NEW l \in Layers, l \notin build'[p].over
          PROVE  Since(build'[p].parts, floor'[l])
      <3>1. CASE UnderWay(build[p])
        <4>1. l \notin layers /\ l \notin build[p].over /\ floor'[l] = floor[l]
          BY <1>0, <1>2, <2>2, <3>1
        <4> QED
          BY <1>2, <4>1 DEF IInv, BuildsFresh
      <3>2. CASE ~UnderWay(build[p])
        BY <1>2, <3>2, Nothing DEF IInv, BuildsInOrder, ReadSoFar
      <3> QED
        BY <3>1, <3>2
    <2> QED
      BY <1>1, <2>1, <2>2 DEF BuildsFresh
  <1>7. PartsInOrder'
    BY <1>1, <1>3 DEF IInv, PartsInOrder
  <1>8. InvalidationHolds'
    BY <1>0, <1>3 DEF IInv, InvalidationHolds
  <1> QED
    BY <1>4, <1>5, <1>6, <1>7, <1>8 DEF IInv

LEMMA ChangeKeeps ==
    ASSUME IInv, Change
    PROVE  IInv'
  <1>1. /\ rev \in Int /\ rev' = rev + 1 /\ rev' \in Rev
        /\ UNCHANGED <<cache, up, build, floor, tainted>>
    BY HydrationAssumption DEF IInv, TypeOK, Change, Rev
  <1>2. \A e \in Parts : UpTo(e, rev) => UpTo(e, rev + 1)
    BY <1>1, Constants DEF Parts, UpTo
  <1>3. \A p \in Builders : build[p].parts \in Parts
    BY DEF IInv, TypeOK, Build
  <1>4. \A l \in Layers : floor[l] \in Int /\ (cache[l] # Nil => cache[l] \in Parts)
    BY Constants DEF IInv, TypeOK
  <1>5. TypeOK'
    BY <1>1 DEF IInv, TypeOK
  <1>6. BuildsInOrder'
    BY <1>1, <1>2, <1>3 DEF IInv, BuildsInOrder
  <1>7. BuildsFresh'
    BY <1>1, <1>4 DEF IInv, BuildsFresh
  <1>8. PartsInOrder' /\ InvalidationHolds'
    BY <1>1, <1>2, <1>4 DEF IInv, PartsInOrder, InvalidationHolds
  <1> QED
    BY <1>5, <1>6, <1>7, <1>8 DEF IInv

\* Entries disappear, with their mark; builds are forgotten or Redis changes.
LEMMA LossKeeps ==
    ASSUME IInv, UNCHANGED <<rev, floor>>, up' \in BOOLEAN, tainted' \subseteq Layers,
           cache' \in [Layers -> Parts \cup {Nil}],
           \A l \in Layers :
              cache'[l] = Nil \/ (cache'[l] = cache[l] /\ (l \in tainted => l \in tainted')),
           build' \in [Builders -> Build],
           \A p \in Builders : build'[p] = build[p] \/ build'[p] = Idle
    PROVE  IInv'
  <1>1. TypeOK'
    BY DEF IInv, TypeOK
  <1>2. BuildsInOrder' /\ BuildsFresh'
    BY Constants, IdleReads DEF IInv, BuildsInOrder, BuildsFresh
  <1>3. PartsInOrder' /\ InvalidationHolds'
    BY DEF IInv, PartsInOrder, InvalidationHolds
  <1> QED
    BY <1>1, <1>2, <1>3 DEF IInv

THEOREM Invariance == Spec => []IInv
  <1>1. Init => IInv
    BY InitOK
  <1>2. IInv /\ [Next]_vars => IInv'
    <2> SUFFICES ASSUME IInv, [Next]_vars PROVE IInv'
      OBVIOUS
    <2>1. ASSUME NEW p \in Builders, Hydrate(p) \/ Step(p)
          PROVE  IInv'
      <3>1. \A q \in Queries : Reads(p, q) => IInv'
        BY ReadsKeeps
      <3> QED
        BY <2>1, <3>1, HydrateKeeps, StoreKeeps
           DEF Step, BuildProfile, BuildSchedule, RosterSlots, RosterOfPair, Queries
    <2>2. CASE Invalidate
      BY <2>2, InvalidateKeeps
    <2>3. CASE Change
      BY <2>3, ChangeKeeps
    <2>4. ASSUME NEW l \in Layers, Expire(l)
          PROVE  IInv'
      BY <2>4, LossKeeps DEF Expire, IInv, TypeOK
    <2>5. CASE RedisDown \/ RedisUp
      BY <2>5, LossKeeps DEF RedisDown, RedisUp, IInv, TypeOK
    <2>6. CASE Restart
      BY <2>6, LossKeeps, Constants DEF Restart, IInv, TypeOK
    <2>7. CASE UNCHANGED vars
      BY <2>7, LossKeeps DEF vars, IInv, TypeOK
    <2> QED
      BY <2>1, <2>2, <2>3, <2>4, <2>5, <2>6, <2>7 DEF Next
  <1> QED
    BY <1>1, <1>2, PTL DEF Spec

(* Every reachable state has its type.                                     *)
THEOREM TypeCorrect == Spec => []TypeOK
  <1>1. IInv => TypeOK
    BY DEF IInv
  <1> QED
    BY <1>1, Invariance, PTL

(* A cached payload is a whole build, its queries answered in order, and    *)
(* nothing in it is from a revision the database does not have yet.         *)
THEOREM PayloadsInOrder == Spec => []PartsInOrder
  <1>1. IInv => PartsInOrder
    BY DEF IInv
  <1> QED
    BY <1>1, Invariance, PTL

(* An invalidation is undone only by a build that was under way when it    *)
(* came, whichever layer it reached and whatever outages follow.           *)
THEOREM InvalidationIsKept == Spec => []InvalidationHolds
  <1>1. IInv => InvalidationHolds
    BY DEF IInv
  <1> QED
    BY <1>1, Invariance, PTL
=============================================================================
