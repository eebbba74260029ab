-------------------------- MODULE ZoneCacheProofs ---------------------------
(***************************************************************************)
(* Proofs about Paging, for any items and any page limit, and about        *)
(* ZoneCache, for any zones, callers, filters and times.                   *)
(***************************************************************************)
EXTENDS ZoneCache, FiniteSetTheorems, TLAPS

-----------------------------------------------------------------------------
(* A listing read page by page.                                            *)

\* A place is a number, at least 1 for an item that is there.
LEMMA RankType ==
  ASSUME NEW S \in SUBSET Item, NEW i \in Item
  PROVE  Rank(S, i) \in Nat /\ (i \in S => Rank(S, i) >= 1)
<1> DEFINE R == {j \in S : j <= i}
<1>1. IsFiniteSet(S) /\ R \in SUBSET S
  BY FS_Subset, ItemsAssumption
<1>2. IsFiniteSet(R)
  BY <1>1, FS_Subset
<1>3. Cardinality(R) \in Nat
  BY <1>2, FS_CardinalityType
<1>4. i \in S => R # {}
  BY ItemsAssumption
<1>5. i \in S => Cardinality(R) # 0
  BY <1>2, <1>4, FS_EmptySet
<1>6. Rank(S, i) = Cardinality(R)
  BY DEF Rank
<1> QED
  BY <1>3, <1>5, <1>6

\* With fewer items none is further back.
LEMMA RankMonotone ==
  ASSUME NEW S \in SUBSET Item, NEW T \in SUBSET S, NEW i \in Item
  PROVE  Rank(T, i) <= Rank(S, i)
<1> DEFINE R(X) == {j \in X : j <= i}
<1>1. IsFiniteSet(S)
  BY FS_Subset, ItemsAssumption
<1>2. R(S) \in SUBSET S /\ R(T) \in SUBSET R(S)
  OBVIOUS
<1>3. IsFiniteSet(R(S))
  BY <1>1, <1>2, FS_Subset
<1>4. Cardinality(R(T)) <= Cardinality(R(S))
  BY <1>2, <1>3, FS_Subset
<1> QED
  BY <1>4 DEF Rank

\* No place is beyond the number of items.
LEMMA RankBounded ==
  ASSUME NEW S \in SUBSET Item, NEW i \in Item
  PROVE  Cardinality(S) \in Nat /\ Rank(S, i) <= Cardinality(S)
<1>1. IsFiniteSet(S)
  BY FS_Subset, ItemsAssumption
<1>2. {j \in S : j <= i} \in SUBSET S
  OBVIOUS
<1>3. Cardinality({j \in S : j <= i}) <= Cardinality(S)
  BY <1>1, <1>2, FS_Subset
<1> QED
  BY <1>1, <1>3, FS_CardinalityType DEF Rank

-----------------------------------------------------------------------------
\* Initially no call is under way.
LEMMA PagingStarts == PagingInit => PagingIInv
<1> SUFFICES ASSUME PagingInit PROVE PagingIInv
  OBVIOUS
<1>1. PagingTypeOK /\ CallIsLocal /\ stayed \subseteq items /\ Unrepeated
  BY DEF PagingInit, PagingTypeOK, CallIsLocal, Unrepeated
<1>2. ReadSoFar /\ GotBehind
  BY DEF PagingInit, ReadSoFar, GotBehind
<1> QED
  BY <1>1, <1>2 DEF PagingIInv

\* A new call has read nothing.
LEMMA BeginKept == PagingIInv /\ BeginListing => PagingIInv'
<1> SUFFICES ASSUME PagingIInv, BeginListing PROVE PagingIInv'
  OBVIOUS
<1>1. PagingTypeOK' /\ CallIsLocal' /\ (stayed \subseteq items)' /\ GotBehind' /\ Unrepeated'
  BY DEF PagingIInv, PagingTypeOK, BeginListing, CallIsLocal, GotBehind, Unrepeated
<1>2. ReadSoFar'
  <2> SUFFICES ASSUME NEW i \in items, Rank(items, i) <= 0 PROVE FALSE
    BY DEF ReadSoFar, BeginListing
  <2>1. items \in SUBSET Item /\ i \in Item
    BY DEF PagingIInv, PagingTypeOK
  <2> QED
    BY <2>1, RankType
<1> QED
  BY <1>1, <1>2 DEF PagingIInv

\* A call that ended leaves nothing.
LEMMA EndKept == PagingIInv /\ EndListing => PagingIInv'
<1> SUFFICES ASSUME PagingIInv, EndListing PROVE PagingIInv'
  OBVIOUS
<1>1. PagingTypeOK' /\ CallIsLocal' /\ (stayed \subseteq items)' /\ Unrepeated'
  BY DEF PagingIInv, PagingTypeOK, EndListing, CallIsLocal, Unrepeated
<1>2. ReadSoFar' /\ GotBehind'
  BY DEF EndListing, ReadSoFar, GotBehind
<1> QED
  BY <1>1, <1>2 DEF PagingIInv

\* A page moves the offset by as much as it reads.
LEMMA FetchKept == PagingIInv /\ open /\ FetchPage => PagingIInv'
<1> SUFFICES ASSUME PagingIInv, open, FetchPage PROVE PagingIInv'
  OBVIOUS
<1>1. /\ offset \in Nat /\ offset' = offset + PageLimit /\ PageLimit \in Nat
      /\ items' = items /\ items \in SUBSET Item /\ got \in SUBSET Item
      /\ got' = got \cup Page(items) /\ repeated' = repeated \cup (got \cap Page(items))
      /\ UNCHANGED historyVars
  BY LimitAssumption DEF PagingIInv, PagingTypeOK, FetchPage
<1>2. Page(items) \subseteq items
  BY DEF Page
<1>3. \A i \in Item : Rank(items, i) \in Nat
  BY <1>1, RankType
<1>4. PagingTypeOK'
  BY <1>1, <1>2 DEF PagingIInv, PagingTypeOK, historyVars
<1>5. CallIsLocal' /\ (stayed \subseteq items)'
  BY <1>1 DEF PagingIInv, CallIsLocal, historyVars
<1>6. ReadSoFar'
  <2> SUFFICES ASSUME ~removed, NEW i \in stayed, Rank(items, i) <= offset + PageLimit
               PROVE  i \in got \cup Page(items)
    BY <1>1 DEF ReadSoFar, historyVars
  <2>1. i \in items /\ i \in Item
    BY <1>1 DEF PagingIInv
  <2>2. CASE Rank(items, i) <= offset
    BY <2>2 DEF PagingIInv, ReadSoFar
  <2>3. CASE offset < Rank(items, i)
    BY <2>1, <2>3 DEF Page
  <2> QED
    BY <1>1, <1>3, <2>1, <2>2, <2>3
<1>7. GotBehind'
  <2> SUFFICES ASSUME ~added, NEW i \in (got \cup Page(items)) \cap items
               PROVE  Rank(items, i) <= offset + PageLimit
    BY <1>1 DEF GotBehind, historyVars
  <2>1. CASE i \in got
    <3>1. Rank(items, i) <= offset
      BY <2>1 DEF PagingIInv, GotBehind
    <3> QED
      BY <1>1, <1>3, <3>1
  <2>2. CASE i \in Page(items)
    BY <2>2 DEF Page
  <2> QED
    BY <2>1, <2>2
<1>8. Unrepeated'
  <2> SUFFICES ASSUME ~added PROVE got \cap Page(items) = {}
    BY <1>1 DEF PagingIInv, Unrepeated, historyVars
  <2> SUFFICES ASSUME NEW i \in got, i \in Page(items) PROVE FALSE
    OBVIOUS
  <2>1. i \in items /\ offset < Rank(items, i)
    BY DEF Page
  <2>2. Rank(items, i) <= offset
    BY <2>1 DEF PagingIInv, GotBehind
  <2> QED
    BY <1>1, <1>3, <2>1, <2>2
<1> QED
  BY <1>4, <1>5, <1>6, <1>7, <1>8 DEF PagingIInv

\* A new item moves others away from the front.
LEMMA AddKept == ASSUME NEW z \in Item PROVE PagingIInv /\ AddItem(z) => PagingIInv'
<1> SUFFICES ASSUME PagingIInv, AddItem(z) PROVE PagingIInv'
  OBVIOUS
<1>1. /\ items \in SUBSET Item /\ items' \in SUBSET Item /\ items \in SUBSET items'
      /\ UNCHANGED <<offset, got, repeated, open, stayed, removed>>
      /\ added' = (added \/ open) /\ offset \in Nat
  BY DEF PagingIInv, PagingTypeOK, AddItem, callVars
<1>2. PagingTypeOK'
  BY <1>1 DEF PagingIInv, PagingTypeOK
<1>3. CallIsLocal' /\ (stayed \subseteq items)'
  BY <1>1 DEF PagingIInv, CallIsLocal
<1>4. ReadSoFar'
  <2> SUFFICES ASSUME ~removed, NEW i \in stayed, Rank(items', i) <= offset PROVE i \in got
    BY <1>1 DEF ReadSoFar
  <2>1. i \in Item
    BY <1>1 DEF PagingIInv
  <2>2. Rank(items, i) <= Rank(items', i)
    BY <1>1, <2>1, RankMonotone
  <2>3. Rank(items, i) \in Nat /\ Rank(items', i) \in Nat
    BY <1>1, <2>1, RankType
  <2>4. Rank(items, i) <= offset
    BY <1>1, <2>2, <2>3
  <2> QED
    BY <2>4 DEF PagingIInv, ReadSoFar
<1>5. GotBehind' /\ Unrepeated'
  <2>1. CASE open
    BY <1>1, <2>1 DEF GotBehind, Unrepeated
  <2>2. CASE ~open
    BY <1>1, <2>2 DEF PagingIInv, CallIsLocal, GotBehind, Unrepeated
  <2> QED
    BY <2>1, <2>2
<1> QED
  BY <1>2, <1>3, <1>4, <1>5 DEF PagingIInv

\* An item that goes moves others towards the front.
LEMMA RemoveKept == ASSUME NEW z \in Item PROVE PagingIInv /\ RemoveItem(z) => PagingIInv'
<1> SUFFICES ASSUME PagingIInv, RemoveItem(z) PROVE PagingIInv'
  OBVIOUS
<1>1. /\ items \in SUBSET Item /\ items' \in SUBSET items
      /\ items' = items \ {z} /\ stayed' = stayed \ {z}
      /\ UNCHANGED <<offset, got, repeated, open, added>>
      /\ removed' = (removed \/ open) /\ offset \in Nat
  BY DEF PagingIInv, PagingTypeOK, RemoveItem, callVars
<1>2. PagingTypeOK'
  BY <1>1 DEF PagingIInv, PagingTypeOK
<1>3. CallIsLocal' /\ (stayed \subseteq items)'
  BY <1>1 DEF PagingIInv, CallIsLocal
<1>4. ReadSoFar'
  <2>1. CASE open
    BY <1>1, <2>1 DEF ReadSoFar
  <2>2. CASE ~open
    BY <1>1, <2>2 DEF PagingIInv, CallIsLocal, ReadSoFar
  <2> QED
    BY <2>1, <2>2
<1>5. GotBehind'
  <2> SUFFICES ASSUME ~added, NEW i \in got \cap items' PROVE Rank(items', i) <= offset
    BY <1>1 DEF GotBehind
  <2>1. i \in Item /\ i \in got \cap items
    BY <1>1
  <2>2. Rank(items', i) <= Rank(items, i)
    BY <1>1, <2>1, RankMonotone
  <2>3. Rank(items, i) \in Nat /\ Rank(items', i) \in Nat
    BY <1>1, <2>1, RankType
  <2>4. Rank(items, i) <= offset
    BY <2>1 DEF PagingIInv, GotBehind
  <2> QED
    BY <1>1, <2>2, <2>3, <2>4
<1>6. Unrepeated'
  BY <1>1 DEF PagingIInv, Unrepeated
<1> QED
  BY <1>2, <1>3, <1>4, <1>5, <1>6 DEF PagingIInv

\* After the last page a listing has everything that stayed.
LEMMA LastPageCompletes ==
  PagingIInv /\ PagingIInv' /\ FetchPage /\ IsLast(items) /\ ~removed => stayed' \subseteq got'
<1> SUFFICES ASSUME PagingIInv, PagingIInv', FetchPage, IsLast(items), ~removed,
                    NEW i \in stayed'
             PROVE  i \in got'
  OBVIOUS
<1>1. items' = items /\ offset' = offset + PageLimit /\ ~removed' /\ items \in SUBSET Item
  BY DEF PagingIInv, PagingTypeOK, FetchPage, historyVars
<1>2. i \in Item /\ offset \in Nat /\ PageLimit \in Nat
  BY <1>1, LimitAssumption DEF PagingIInv, PagingTypeOK
<1>3. Rank(items, i) \in Nat /\ Rank(items, i) <= Cardinality(items) /\ Cardinality(items) \in Nat
  BY <1>1, <1>2, RankType, RankBounded
<1>4. Rank(items', i) <= offset'
  BY <1>1, <1>2, <1>3 DEF IsLast
<1> QED
  BY <1>1, <1>4 DEF PagingIInv, ReadSoFar

-----------------------------------------------------------------------------
(* The cache.                                                              *)

\* The bounds on times are numbers.
LEMMA Times == CacheTTL \in Nat /\ MaxCall \in Nat /\ Long \in Nat
  BY CacheAssumption DEF Long

\* What is kept of a listing is in it.
LEMMA KeptPart == ASSUME NEW S, NEW T, S \subseteq T
                  PROVE  Kept(S) \subseteq S /\ Kept(S) \subseteq Kept(T)
  BY DEF Kept

\* A page is read from what is there.
LEMMA PagePart == ASSUME NEW S PROVE Page(S) \subseteq S
  BY DEF Page

\* What happens outside a listing leaves what is read of it.
LEMMA PagingStays == PagingIInv /\ UNCHANGED pagingVars => PagingIInv'
<1> SUFFICES ASSUME PagingIInv, UNCHANGED pagingVars PROVE PagingIInv'
  OBVIOUS
<1>1. UNCHANGED <<items, offset, got, repeated, open, stayed, removed, added>>
  BY DEF pagingVars, callVars, historyVars
<1>2. PagingTypeOK' /\ CallIsLocal' /\ (stayed \subseteq items)'
  BY <1>1 DEF PagingIInv, PagingTypeOK, CallIsLocal
<1>3. ReadSoFar' /\ GotBehind' /\ Unrepeated'
  BY <1>1 DEF PagingIInv, ReadSoFar, GotBehind, Unrepeated
<1> QED
  BY <1>2, <1>3 DEF PagingIInv

\* The cache starts empty, with nobody in it.
LEMMA CacheStarts == Init => IInv
<1> SUFFICES ASSUME Init PROVE IInv
  OBVIOUS
<1>1. PagingInit /\ PagingIInv
  BY PagingStarts DEF Init
<1>2. items \in SUBSET Item /\ got = {} /\ open = FALSE
  BY <1>1 DEF PagingInit
<1>3. TypeOK
  <2>1. absent \in [Item -> 0 .. Long]
    BY Times DEF Init
  <2>2. pc \in [Caller -> PC] /\ asked \in [Caller -> Nat] /\ 0 \in 0 .. CacheTTL /\ 0 \in 0 .. MaxCall
    BY Times DEF Init, PC
  <2> QED
    BY <1>1, <2>1, <2>2 DEF Init, TypeOK, PagingIInv
<1>4. LockHeld
  BY <1>2, CacheAssumption DEF Init, LockHeld
<1>5. Complete /\ EpochsAgree
  BY DEF Init, Complete, EpochsAgree
<1>6. AgesBounded
  BY <1>2 DEF Init, AgesBounded
<1> QED
  BY <1>1, <1>3, <1>4, <1>5, <1>6 DEF IInv

-----------------------------------------------------------------------------
\* A request asks for the zones or announces an invalidation.
LEMMA AskKeepsIInv ==
  ASSUME NEW c \in Caller PROVE IInv /\ (Get(c) \/ CallInvalidate(c)) => IInv'
<1> SUFFICES ASSUME IInv, Get(c) \/ CallInvalidate(c) PROVE IInv'
  OBVIOUS
<1>1. /\ UNCHANGED <<pagingVars, mutex, filled, zones, left, spent, absent, drops, epoch, listed>>
      /\ pc[c] = "idle"
      /\ \/ Goto(c, "get") /\ asked' = [asked EXCEPT ![c] = drops]
         \/ Goto(c, "invalidate") /\ asked' = asked
  BY DEF Get, CallInvalidate, cacheVars, listVars, timeVars, epochVars
<1>2. UNCHANGED <<items, got, open, stayed, removed>>
  BY <1>1 DEF pagingVars, callVars, historyVars
<1>3. PagingIInv'
  BY <1>1, PagingStays DEF IInv
<1>4. TypeOK'
  BY <1>1, <1>3 DEF IInv, TypeOK, PC, Goto, PagingIInv
<1>5. LockHeld'
  BY <1>1, <1>2 DEF IInv, TypeOK, LockHeld, Goto
<1>6. Complete'
  BY <1>1, <1>2 DEF IInv, TypeOK, Complete, Goto
<1>7. EpochsAgree'
  BY <1>1 DEF IInv, TypeOK, EpochsAgree
<1>8. AgesBounded'
  BY <1>1, <1>2 DEF IInv, AgesBounded
<1> QED
  BY <1>3, <1>4, <1>5, <1>6, <1>7, <1>8 DEF IInv

\* A get is answered from the cache.
LEMMA HitKeepsIInv ==
  ASSUME NEW c \in Caller PROVE IInv /\ Hit(c) => IInv'
<1> SUFFICES ASSUME IInv, Hit(c) PROVE IInv'
  OBVIOUS
<1>1. /\ UNCHANGED <<pagingVars, mutex, filled, zones, left, spent, absent, drops, epoch, listed>>
      /\ pc[c] = "get" /\ Goto(c, "idle") /\ asked' = [asked EXCEPT ![c] = 0]
  BY DEF Hit, Finish, cacheVars, listVars, timeVars
<1>2. UNCHANGED <<items, got, open, stayed, removed>>
  BY <1>1 DEF pagingVars, callVars, historyVars
<1>3. PagingIInv'
  BY <1>1, PagingStays DEF IInv
<1>4. TypeOK'
  BY <1>1, <1>3 DEF IInv, TypeOK, PC, Goto, PagingIInv
<1>5. LockHeld'
  BY <1>1, <1>2 DEF IInv, TypeOK, LockHeld, Goto
<1>6. Complete'
  BY <1>1, <1>2 DEF IInv, TypeOK, Complete, Goto
<1>7. EpochsAgree'
  BY <1>1 DEF IInv, TypeOK, EpochsAgree
<1>8. AgesBounded'
  BY <1>1, <1>2 DEF IInv, AgesBounded
<1> QED
  BY <1>3, <1>4, <1>5, <1>6, <1>7, <1>8 DEF IInv

\* A listing begins only when the mutex is free, so there is one at most.
LEMMA MissKeepsIInv ==
  ASSUME NEW c \in Caller PROVE IInv /\ Miss(c) => IInv'
<1> SUFFICES ASSUME IInv, Miss(c) PROVE IInv'
  OBVIOUS
<1>1. /\ UNCHANGED <<filled, zones, left, absent, drops, listed, asked>>
      /\ pc[c] = "get" /\ Goto(c, "list")
      /\ mutex = Nil /\ mutex' = c /\ spent' = 0 /\ epoch' = drops
      /\ items' = items /\ got' = {} /\ open' = TRUE /\ BeginListing
  BY DEF Miss, BeginListing, listVars
<1>2. PagingIInv'
  BY <1>1, BeginKept DEF IInv
<1>3. TypeOK'
  BY <1>1, <1>2, Times DEF IInv, TypeOK, PC, Goto, PagingIInv
<1>4. LockHeld'
  BY <1>1, CacheAssumption DEF IInv, TypeOK, LockHeld, Goto
<1>5. Complete'
  BY <1>1, CacheAssumption DEF IInv, TypeOK, LockHeld, Complete, Goto
<1>6. EpochsAgree'
  BY <1>1 DEF IInv, EpochsAgree
<1>7. AgesBounded'
  BY <1>1 DEF IInv, AgesBounded
<1> QED
  BY <1>2, <1>3, <1>4, <1>5, <1>6, <1>7 DEF IInv

\* After the last page the listing has all that stayed.
LEMMA FetchKeepsIInv ==
  ASSUME NEW c \in Caller PROVE IInv /\ Fetch(c) => IInv'
<1> SUFFICES ASSUME IInv, Fetch(c) PROVE IInv'
  OBVIOUS
<1>1. /\ UNCHANGED <<mutex, filled, zones, left, spent, absent, drops, epoch, listed, asked>>
      /\ pc[c] = "list" /\ FetchPage
      /\ IF IsLast(items) THEN Goto(c, "store") ELSE UNCHANGED pc
  BY DEF Fetch, cacheVars, listVars, timeVars, epochVars
<1>2. /\ got' = got \cup Page(items)
      /\ UNCHANGED <<items, open, stayed, removed>>
  BY <1>1 DEF FetchPage, historyVars
<1>3. mutex = c /\ open
  BY <1>1, CacheAssumption DEF IInv, LockHeld
<1>4. PagingIInv'
  BY <1>1, <1>3, FetchKept DEF IInv
<1>5. TypeOK'
  BY <1>1, <1>4 DEF IInv, TypeOK, PC, Goto, PagingIInv
<1>6. LockHeld'
  BY <1>1, <1>2, <1>3 DEF IInv, TypeOK, LockHeld, Goto
<1>7. Complete'
  <2>1. CASE IsLast(items)
    BY <1>1, <1>2, <1>4, <2>1, LastPageCompletes DEF IInv, Complete
  <2>2. CASE ~IsLast(items)
    <3>1. \A d \in Caller : pc'[d] # "store"
      BY <1>1, <1>3, <2>2 DEF IInv, LockHeld
    <3> QED
      BY <3>1 DEF Complete
  <2> QED
    BY <2>1, <2>2
<1>8. EpochsAgree'
  BY <1>1 DEF IInv, EpochsAgree
<1>9. AgesBounded'
  <2>1. Page(items) \subseteq items
    BY PagePart
  <2>2. spent \in Nat
    BY Times DEF IInv, TypeOK
  <2> QED
    BY <1>1, <1>2, <2>1, <2>2 DEF IInv, AgesBounded
<1> QED
  BY <1>4, <1>5, <1>6, <1>7, <1>8, <1>9 DEF IInv

\* A listing that fails lets go of the mutex and leaves the old list.
LEMMA FetchFailsKeepsIInv ==
  ASSUME NEW c \in Caller PROVE IInv /\ FetchFails(c) => IInv'
<1> SUFFICES ASSUME IInv, FetchFails(c) PROVE IInv'
  OBVIOUS
<1>1. /\ UNCHANGED <<filled, zones, left, absent, drops, listed>>
      /\ pc[c] = "list" /\ Goto(c, "idle") /\ asked' = [asked EXCEPT ![c] = 0]
      /\ mutex' = Nil /\ spent' = 0 /\ epoch' = 0
      /\ items' = items /\ got' = {} /\ open' = FALSE /\ EndListing
  BY DEF FetchFails, Finish, EndListing, listVars
<1>2. PagingIInv'
  BY <1>1, EndKept DEF IInv
<1>3. TypeOK'
  BY <1>1, <1>2, Times DEF IInv, TypeOK, PC, Goto, PagingIInv
<1>4. mutex = c
  BY <1>1 DEF IInv, LockHeld
<1>5. LockHeld'
  BY <1>1, <1>4, CacheAssumption DEF IInv, TypeOK, LockHeld, Goto
<1>6. Complete'
  BY <1>1, <1>4 DEF IInv, TypeOK, LockHeld, Complete, Goto
<1>7. EpochsAgree'
  BY <1>1 DEF IInv, TypeOK, EpochsAgree
<1>8. AgesBounded'
  BY <1>1 DEF IInv, AgesBounded
<1> QED
  BY <1>2, <1>3, <1>5, <1>6, <1>7, <1>8 DEF IInv

\* What is stored is as old as its listing at most.
LEMMA StoreKeepsIInv ==
  ASSUME NEW c \in Caller PROVE IInv /\ Store(c) => IInv'
<1> SUFFICES ASSUME IInv, Store(c) PROVE IInv'
  OBVIOUS
<1>1. /\ UNCHANGED <<absent, drops>> /\ filled' = TRUE /\ zones' = Kept(got)
      /\ left' = CacheTTL /\ listed' = epoch
      /\ pc[c] = "store" /\ Goto(c, "idle") /\ asked' = [asked EXCEPT ![c] = 0]
      /\ mutex' = Nil /\ spent' = 0 /\ epoch' = 0
      /\ items' = items /\ got' = {} /\ open' = FALSE /\ EndListing
  BY DEF Store, Finish, EndListing
<1>2. PagingIInv'
  BY <1>1, EndKept DEF IInv
<1>3. mutex = c /\ mutex # Nil
  BY <1>1, CacheAssumption DEF IInv, LockHeld
<1>4. got \in SUBSET Item /\ Kept(got) \subseteq got
  BY KeptPart DEF IInv, PagingIInv, PagingTypeOK
<1>5. TypeOK'
  BY <1>1, <1>2, <1>4, Times DEF IInv, TypeOK, PC, Goto, PagingIInv
<1>6. LockHeld'
  BY <1>1, <1>3, CacheAssumption DEF IInv, TypeOK, LockHeld, Goto
<1>7. Complete'
  BY <1>1, <1>3 DEF IInv, TypeOK, LockHeld, Complete, Goto
<1>8. EpochsAgree'
  BY <1>1, <1>3 DEF IInv, TypeOK, EpochsAgree
<1>9. AgesBounded'
  <2>1. \A z \in Kept(got) : absent[z] \in Nat /\ absent[z] <= MaxCall
    BY <1>4, Times DEF IInv, TypeOK, AgesBounded
  <2>2. \A z \in Kept(got) : absent[z] + CacheTTL <= CacheTTL + MaxCall
    BY <2>1, Times
  <2> QED
    BY <1>1, <2>2 DEF IInv, AgesBounded
<1> QED
  BY <1>2, <1>5, <1>6, <1>7, <1>8, <1>9 DEF IInv

\* An invalidation has to wait for a listing.
LEMMA InvalidateKeepsIInv ==
  ASSUME NEW c \in Caller PROVE IInv /\ Invalidate(c) => IInv'
<1> SUFFICES ASSUME IInv, Invalidate(c) PROVE IInv'
  OBVIOUS
<1>1. /\ UNCHANGED <<pagingVars, mutex, left, spent, absent, epoch, listed>>
      /\ filled' = FALSE /\ zones' = {} /\ drops' = drops + 1 /\ mutex = Nil
      /\ pc[c] = "invalidate" /\ Goto(c, "idle") /\ asked' = [asked EXCEPT ![c] = 0]
  BY DEF Invalidate, Finish, timeVars
<1>2. UNCHANGED <<items, got, open, stayed, removed>>
  BY <1>1 DEF pagingVars, callVars, historyVars
<1>3. PagingIInv'
  BY <1>1, PagingStays DEF IInv
<1>4. TypeOK'
  <2>1. pc' \in [Caller -> PC] /\ asked' \in [Caller -> Nat]
    BY <1>1 DEF IInv, TypeOK, PC, Goto
  <2>2. drops' \in Nat
    BY <1>1 DEF IInv, TypeOK
  <2> QED
    BY <1>1, <1>3, <2>1, <2>2 DEF IInv, TypeOK, PagingIInv
<1>5. LockHeld'
  BY <1>1, <1>2 DEF IInv, TypeOK, LockHeld, Goto
<1>6. Complete'
  BY <1>1, <1>2 DEF IInv, TypeOK, Complete, Goto
<1>7. EpochsAgree'
  <2>1. \A d \in Caller : asked[d] \in Nat /\ asked[d] <= drops /\ drops \in Nat
    BY DEF IInv, TypeOK, EpochsAgree
  <2>2. \A d \in Caller : asked'[d] <= drops'
    BY <1>1, <2>1 DEF IInv, TypeOK
  <2> QED
    BY <1>1, <2>2 DEF EpochsAgree
<1>8. AgesBounded'
  BY <1>1, <1>2 DEF IInv, AgesBounded
<1> QED
  BY <1>3, <1>4, <1>5, <1>6, <1>7, <1>8 DEF IInv

-----------------------------------------------------------------------------
\* Zones come and go in the Portal.
LEMMA ZonesChangeKeepsIInv ==
  ASSUME NEW z \in Item PROVE IInv /\ (ZoneAppears(z) \/ ZoneDisappears(z)) => IInv'
<1> SUFFICES ASSUME IInv, ZoneAppears(z) \/ ZoneDisappears(z) PROVE IInv'
  OBVIOUS
<1>1. /\ UNCHANGED <<pc, mutex, filled, zones, left, spent, drops, epoch, listed, asked>>
      /\ \/ AddItem(z) /\ absent' = [absent EXCEPT ![z] = 0]
         \/ RemoveItem(z) /\ absent' = absent
  BY DEF ZoneAppears, ZoneDisappears, cacheVars, listVars, timeVars, epochVars
<1>2. /\ UNCHANGED <<got, open>>
      /\ removed' \in BOOLEAN /\ (~removed' /\ open => ~removed)
      /\ stayed' \subseteq stayed /\ items' \subseteq items \cup {z}
  BY <1>1 DEF AddItem, RemoveItem, callVars, IInv, PagingIInv, PagingTypeOK
<1>3. PagingIInv'
  BY <1>1, AddKept, RemoveKept DEF IInv
<1>4. TypeOK'
  BY <1>1, <1>3, Times DEF IInv, TypeOK, PagingIInv
<1>5. LockHeld'
  BY <1>1, <1>2 DEF IInv, LockHeld
<1>6. Complete'
  BY <1>1, <1>2, CacheAssumption DEF IInv, LockHeld, Complete
<1>7. EpochsAgree'
  BY <1>1 DEF IInv, EpochsAgree
<1>8. AgesBounded'
  <2>1. \A i \in Item : absent'[i] \in Nat /\ absent[i] \in Nat /\ absent'[i] <= absent[i]
    BY <1>1, Times DEF IInv, TypeOK
  <2>2. \A i \in items' : absent'[i] = 0
    BY <1>1, <1>2 DEF IInv, TypeOK, PagingTypeOK, AgesBounded, RemoveItem
  <2>3. got \subseteq Item /\ zones \subseteq Item /\ spent \in Nat /\ left \in Nat
    BY Times DEF IInv, TypeOK, PagingTypeOK
  <2>4. \A i \in got' : absent'[i] <= spent'
    <3> SUFFICES ASSUME NEW i \in got PROVE absent'[i] <= spent
      BY <1>1, <1>2
    <3>1. absent[i] <= spent
      BY DEF IInv, AgesBounded
    <3> QED
      BY <2>1, <2>3, <3>1
  <2>5. filled' /\ left' > 0 => \A i \in zones' : absent'[i] + left' <= CacheTTL + MaxCall
    <3> SUFFICES ASSUME filled, left > 0, NEW i \in zones
                 PROVE  absent'[i] + left <= CacheTTL + MaxCall
      BY <1>1
    <3>1. absent[i] + left <= CacheTTL + MaxCall
      BY DEF IInv, AgesBounded
    <3> QED
      BY <2>1, <2>3, <3>1, Times
  <2> QED
    BY <2>2, <2>4, <2>5 DEF AgesBounded
<1> QED
  BY <1>3, <1>4, <1>5, <1>6, <1>7, <1>8 DEF IInv

\* As time passes, what a zone is gone grows by what the list loses.
LEMMA TickKeepsIInv == IInv /\ Tick => IInv'
<1> SUFFICES ASSUME IInv, Tick PROVE IInv'
  OBVIOUS
<1>1. /\ UNCHANGED <<pagingVars, pc, mutex, filled, zones, drops, epoch, listed, asked>>
      /\ mutex # Nil => spent < MaxCall
      /\ spent' = IF mutex = Nil THEN spent ELSE spent + 1
      /\ left' = IF left > 0 THEN left - 1 ELSE 0
      /\ absent' = [i \in Item |-> IF i \in items \/ absent[i] = Long THEN absent[i]
                                   ELSE absent[i] + 1]
  BY DEF Tick, epochVars
<1>2. UNCHANGED <<items, got, open, stayed, removed>>
  BY <1>1 DEF pagingVars, callVars, historyVars
<1>3. PagingIInv'
  BY <1>1, PagingStays DEF IInv
<1>4. \A i \in Item : /\ absent[i] \in 0 .. Long /\ absent'[i] \in 0 .. Long
                      /\ absent'[i] <= absent[i] + 1
                      /\ i \in items => absent'[i] = absent[i]
  BY <1>1, Times DEF IInv, TypeOK
<1>5. spent \in 0 .. MaxCall /\ spent' \in 0 .. MaxCall /\ left \in 0 .. CacheTTL /\ left' \in 0 .. CacheTTL
  BY <1>1, Times DEF IInv, TypeOK
<1>6. absent' \in [Item -> 0 .. Long]
  BY <1>1, <1>4
<1>7. TypeOK'
  BY <1>1, <1>3, <1>5, <1>6 DEF IInv, TypeOK, PagingIInv
<1>8. LockHeld' /\ Complete' /\ EpochsAgree'
  BY <1>1, <1>2 DEF IInv, LockHeld, Complete, EpochsAgree
<1>9. got \subseteq Item /\ zones \subseteq Item /\ items \subseteq Item
  BY DEF IInv, TypeOK, PagingTypeOK
<1>10. \A i \in got : absent'[i] <= spent'
  <2> SUFFICES ASSUME NEW i \in got PROVE absent'[i] <= spent'
    OBVIOUS
  <2>1. mutex # Nil
    BY DEF IInv, LockHeld, PagingIInv, CallIsLocal
  <2>2. absent[i] <= spent /\ spent' = spent + 1
    BY <1>1, <2>1 DEF IInv, AgesBounded
  <2> QED
    BY <1>4, <1>5, <1>9, <2>2
<1>11. filled /\ left' > 0 => \A i \in zones : absent'[i] + left' <= CacheTTL + MaxCall
  <2> SUFFICES ASSUME filled, left' > 0, NEW i \in zones
               PROVE  absent'[i] + left' <= CacheTTL + MaxCall
    OBVIOUS
  <2>1. left > 0 /\ left' = left - 1
    BY <1>1, <1>5
  <2>2. absent[i] + left <= CacheTTL + MaxCall
    BY <2>1 DEF IInv, AgesBounded
  <2> QED
    BY <1>4, <1>5, <1>9, <2>1, <2>2, Times
<1>12. AgesBounded'
  BY <1>1, <1>2, <1>4, <1>9, <1>10, <1>11 DEF IInv, AgesBounded
<1> QED
  BY <1>3, <1>7, <1>8, <1>12 DEF IInv

-----------------------------------------------------------------------------
\* No step breaks the invariant.
LEMMA CacheNextIInv == IInv /\ [Next]_allVars => IInv'
<1> SUFFICES ASSUME IInv, [Next]_allVars PROVE IInv'
  OBVIOUS
<1>1. CASE \E c \in Caller : Step(c)
  BY <1>1, AskKeepsIInv, HitKeepsIInv, MissKeepsIInv, FetchKeepsIInv, FetchFailsKeepsIInv,
     StoreKeepsIInv, InvalidateKeepsIInv
     DEF Step, Locked, Call
<1>2. CASE Surroundings
  BY <1>2, ZonesChangeKeepsIInv, TickKeepsIInv DEF Surroundings
<1>3. CASE UNCHANGED allVars
  <2>1. PagingIInv'
    BY <1>3, PagingStays DEF IInv, allVars
  <2>2. UNCHANGED <<items, got, open, stayed, removed, pc, mutex, filled, zones, left,
                    spent, absent, drops, epoch, listed, asked>>
    BY <1>3 DEF allVars, pagingVars, callVars, historyVars, cacheVars, listVars, timeVars, epochVars
  <2>3. TypeOK' /\ LockHeld' /\ Complete'
    BY <2>1, <2>2 DEF IInv, PagingIInv, TypeOK, LockHeld, Complete
  <2>4. EpochsAgree' /\ AgesBounded'
    BY <2>2 DEF IInv, EpochsAgree, AgesBounded
  <2> QED
    BY <2>1, <2>3, <2>4 DEF IInv
<1> QED
  BY <1>1, <1>2, <1>3 DEF Next

\* The invariant of the cache, its mutex and its clock (zoneCache).
THEOREM CacheInvariance == Spec => []IInv
<1>1. Init => IInv
  BY CacheStarts
<1>2. IInv /\ [Next]_allVars => IInv'
  BY CacheNextIInv
<1> QED
  BY <1>1, <1>2, PTL DEF Spec

\* A listing of any number of pages misses an item that stays only if another
\* goes meanwhile (ListZones).
THEOREM ReadsWhatStays == Spec => []ReadSoFar
<1>1. IInv => ReadSoFar
  BY DEF IInv, PagingIInv
<1> QED
  BY <1>1, CacheInvariance, PTL

\* ... and returns one twice only if another comes (ListZones).
THEOREM ReadsOnce == Spec => []Unrepeated
<1>1. IInv => Unrepeated
  BY DEF IInv, PagingIInv
<1> QED
  BY <1>1, CacheInvariance, PTL

\* The one who returns either finds the list in the cache or has stored it.
LEMMA ReturnIsHitOrStore ==
  ASSUME IInv, [Next]_allVars, NEW c \in Caller, Returns(c)
  PROVE  Hit(c) \/ Store(c)
<1>1. pc[c] \in {"get", "store"} /\ pc'[c] = "idle" /\ pc'[c] # pc[c]
  BY DEF Returns
<1>2. pc \in [Caller -> PC]
  BY DEF IInv, TypeOK
<1>3. PICK d \in Caller : Step(d)
  BY <1>1 DEF Next, Surroundings, ZoneAppears, ZoneDisappears, Tick, allVars
<1>4. Step(c)
  <2>1. \A s : Goto(d, s) => d = c
    BY <1>1, <1>2 DEF Goto
  <2> QED
    BY <1>1, <1>3, <2>1 DEF Step, Locked, Call, Get, CallInvalidate, Hit, Miss, Invalidate,
                           Fetch, FetchFails, Store, Finish
<1>5. ~Get(c) /\ ~CallInvalidate(c) /\ ~Invalidate(c) /\ ~Fetch(c) /\ ~FetchFails(c)
  BY <1>1 DEF Get, CallInvalidate, Invalidate, Fetch, FetchFails
<1>6. ~Miss(c)
  BY <1>1, <1>2 DEF Miss, Goto
<1> QED
  BY <1>4, <1>5, <1>6 DEF Step, Locked, Call

\* A list from before an invalidation is not returned to a later request,
\* however the two interleave (get, invalidate).
THEOREM NoneFromBefore == Spec => InvalidationHolds
<1>1. IInv /\ [Next]_allVars => \A c \in Caller : Returns(c) => listed' >= asked[c]
  <2> SUFFICES ASSUME IInv, [Next]_allVars, NEW c \in Caller, Returns(c)
               PROVE  listed' >= asked[c]
    OBVIOUS
  <2>1. asked[c] <= drops /\ asked[c] \in Nat /\ drops \in Nat
    BY DEF IInv, TypeOK, EpochsAgree
  <2>2. CASE Hit(c)
    BY <2>1, <2>2 DEF Hit, Unexpired, IInv, EpochsAgree
  <2>3. CASE Store(c)
    <3>1. mutex = c /\ mutex # Nil
      BY <2>3, CacheAssumption DEF Store, IInv, LockHeld
    <3> QED
      BY <2>1, <2>3, <3>1 DEF Store, IInv, EpochsAgree
  <2> QED
    BY <2>2, <2>3, ReturnIsHitOrStore
<1> QED
  BY <1>1, CacheInvariance, PTL DEF Spec, InvalidationHolds

\* What a request gets is older than the TTL by one listing at most (get).
THEOREM AnswersAreRecent == Spec => Recent
<1>1. IInv /\ [Next]_allVars =>
        \A c \in Caller : Returns(c) => \A z \in zones' : absent[z] <= CacheTTL + MaxCall
  <2> SUFFICES ASSUME IInv, [Next]_allVars, NEW c \in Caller, Returns(c), NEW z \in zones'
               PROVE  absent[z] <= CacheTTL + MaxCall
    OBVIOUS
  <2>1. CASE Hit(c)
    <3>1. filled /\ left > 0 /\ z \in zones
      BY <2>1 DEF Hit, Unexpired, cacheVars, listVars
    <3>2. absent[z] + left <= CacheTTL + MaxCall
      BY <3>1 DEF IInv, AgesBounded
    <3>3. absent[z] \in Nat /\ left \in Nat
      BY <3>1, Times DEF IInv, TypeOK
    <3> QED
      BY <3>2, <3>3, Times
  <2>2. CASE Store(c)
    <3>1. z \in got /\ z \in Item
      BY <2>2, KeptPart DEF Store, IInv, PagingIInv, PagingTypeOK
    <3>2. absent[z] <= spent /\ absent[z] \in Nat /\ spent \in 0 .. MaxCall
      BY <3>1, Times DEF IInv, TypeOK, AgesBounded
    <3> QED
      BY <3>2, Times
  <2> QED
    BY <2>1, <2>2, ReturnIsHitOrStore
<1> QED
  BY <1>1, CacheInvariance, PTL DEF Spec, Recent

\* A list that is stored has every admitted zone that stayed during all its
\* pages, unless one was removed (ListZones, get).
THEOREM ListsEverything == Spec => CachesEverything
<1>1. IInv => \A c \in Caller : Store(c) /\ ~removed => Kept(stayed) \subseteq zones'
  BY KeptPart DEF IInv, Complete, Store
<1> QED
  BY <1>1, CacheInvariance, PTL DEF Spec, CachesEverything
=============================================================================
