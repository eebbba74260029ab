----------------------------- MODULE ZoneCache ------------------------------
(***************************************************************************)
(* The zone cache at the grain of its mutex and its clock                  *)
(* (internal/provider/zones.go).  get keeps the mutex while it lists the   *)
(* zones page by page, so that requests queue behind a listing; invalidate *)
(* takes the same mutex.  An item of Paging is a zone of the view.  Times  *)
(* are relative: what is left until the expiry, and how long ago.          *)
(***************************************************************************)
EXTENDS Paging

CONSTANTS
  Caller,       \* requests that call get or invalidate
  CacheTTL,     \* UDDI_ZONE_CACHE_TTL
  ZoneFilter,   \* UDDI_ZONE_FILTER, entries as zoneSet canonicalises them
  Blank,        \* what zoneSet makes of an empty entry
  NameOf,       \* Item -> FQDN, Blank when the API gives none
  Cloud,        \* items with primary type cloud
  Matching,     \* FQDNs the domain filter matches, or parents of those
  MaxCall,      \* bound on the time a listing takes
  MaxDrops,     \* bound on invalidations
  Nil

ASSUME CacheAssumption ==
  /\ CacheTTL \in Nat /\ MaxCall \in Nat /\ MaxDrops \in Nat
  /\ Cloud \subseteq Item
  /\ IsFiniteSet(Caller) /\ Nil \notin Caller

VARIABLES
  pc,        \* where each caller is
  mutex,     \* the caller that holds zoneCache.mu, or Nil
  filled,    \* zoneCache.zones is not nil
  zones,     \* zoneCache.zones
  left,      \* the time until zoneCache.expiry, 0 when it is past
  \* History, for the properties.
  spent,     \* how long the listing under way has taken
  absent,    \* item -> how long it has been gone, at most Long
  drops,     \* invalidations completed so far
  epoch,     \* how many they were when the listing under way began
  listed,    \* the epoch of the cached list
  asked      \* caller -> how many they were when its get began

listVars == <<filled, zones, left>>
cacheVars == <<mutex, listVars>>
timeVars == <<spent, absent>>
epochVars == <<drops, epoch, listed, asked>>
allVars == <<pagingVars, pc, cacheVars, timeVars, epochVars>>

PC == {"idle", "get", "list", "store", "invalidate"}

\* Longer than a zone may be gone and still be returned.
Long == CacheTTL + MaxCall + 1

TypeOK ==
  /\ PagingTypeOK
  /\ pc \in [Caller -> PC]
  /\ mutex \in Caller \cup {Nil}
  /\ filled \in BOOLEAN
  /\ zones \in SUBSET Item
  /\ left \in 0 .. CacheTTL
  /\ spent \in 0 .. MaxCall
  /\ absent \in [Item -> 0 .. Long]
  /\ drops \in Nat /\ epoch \in Nat /\ listed \in Nat
  /\ asked \in [Caller -> Nat]

Init ==
  /\ PagingInit
  /\ pc = [c \in Caller |-> "idle"]
  /\ mutex = Nil /\ filled = FALSE /\ zones = {} /\ left = 0
  /\ spent = 0 /\ absent = [i \in Item |-> IF i \in items THEN 0 ELSE Long]
  /\ drops = 0 /\ epoch = 0 /\ listed = 0 /\ asked = [c \in Caller |-> 0]

-----------------------------------------------------------------------------
\* zoneSet: blank entries do not count, and without any other there is no set.
only == ZoneFilter \ {Blank}

\* The zones of a listing that get keeps.
Kept(S) ==
  {z \in S \cap Cloud : /\ NameOf[z] # Blank
                        /\ only # {} => NameOf[z] \in only
                        /\ NameOf[z] \in Matching}

Goto(c, step) == pc' = [pc EXCEPT ![c] = step]

\* The call of c ends.
Finish(c) == Goto(c, "idle") /\ asked' = [asked EXCEPT ![c] = 0]

Get(c) ==
  /\ pc[c] = "idle"
  /\ Goto(c, "get")
  /\ asked' = [asked EXCEPT ![c] = drops]
  /\ UNCHANGED <<pagingVars, cacheVars, timeVars, drops, epoch, listed>>

\* Faulty variant of Unexpired: the list never grows old.
Ageless == filled

Unexpired == filled /\ left > 0

\* The mutex is taken and released again at once.
Hit(c) ==
  /\ pc[c] = "get" /\ mutex = Nil
  /\ Unexpired
  /\ Finish(c)
  /\ UNCHANGED <<pagingVars, cacheVars, timeVars, drops, epoch, listed>>

\* The mutex is taken and kept.
Miss(c) ==
  /\ pc[c] = "get" /\ mutex = Nil
  /\ ~Unexpired
  /\ Goto(c, "list")
  /\ mutex' = c
  /\ BeginListing
  /\ spent' = 0
  /\ epoch' = drops
  /\ UNCHANGED <<listVars, absent, drops, listed, asked>>

\* Faulty variant of Fetch: the first page is taken for the whole list.
FetchOnePage(c) ==
  /\ pc[c] = "list"
  /\ FetchPage
  /\ Goto(c, "store")
  /\ UNCHANGED <<cacheVars, timeVars, epochVars>>

Fetch(c) ==
  /\ pc[c] = "list"
  /\ FetchPage
  /\ IF IsLast(items) THEN Goto(c, "store") ELSE UNCHANGED pc
  /\ UNCHANGED <<cacheVars, timeVars, epochVars>>

\* Faulty variant of FetchFails: the error return leaves the mutex locked.
FetchFailsLocked(c) ==
  /\ pc[c] = "list"
  /\ Finish(c)
  /\ EndListing
  /\ spent' = 0 /\ epoch' = 0
  /\ UNCHANGED <<cacheVars, absent, drops, listed>>

\* A page cannot be fetched, or the request is cancelled: the old list stays.
FetchFails(c) ==
  /\ pc[c] = "list"
  /\ Finish(c)
  /\ mutex' = Nil
  /\ EndListing
  /\ spent' = 0 /\ epoch' = 0
  /\ UNCHANGED <<listVars, absent, drops, listed>>

\* The end of the listing: the clock is read after it.
Store(c) ==
  /\ pc[c] = "store"
  /\ Finish(c)
  /\ filled' = TRUE /\ zones' = Kept(got)
  /\ left' = CacheTTL
  /\ mutex' = Nil
  /\ EndListing
  /\ spent' = 0 /\ epoch' = 0
  /\ listed' = epoch
  /\ UNCHANGED <<absent, drops>>

CallInvalidate(c) ==
  /\ pc[c] = "idle"
  /\ drops + Cardinality({d \in Caller : pc[d] = "invalidate"}) < MaxDrops
  /\ Goto(c, "invalidate")
  /\ UNCHANGED <<pagingVars, cacheVars, timeVars, epochVars>>

\* Faulty variant of Invalidate: it does not wait for the mutex.
InvalidateUnlocked(c) ==
  /\ pc[c] = "invalidate"
  /\ filled' = FALSE /\ zones' = {}
  /\ drops' = drops + 1
  /\ Finish(c)
  /\ UNCHANGED <<pagingVars, mutex, left, timeVars, epoch, listed>>

Invalidate(c) ==
  /\ pc[c] = "invalidate" /\ mutex = Nil
  /\ filled' = FALSE /\ zones' = {}
  /\ drops' = drops + 1
  /\ Finish(c)
  /\ UNCHANGED <<pagingVars, mutex, left, timeVars, epoch, listed>>

-----------------------------------------------------------------------------
(* The surroundings.                                                       *)

ZoneAppears(z) ==
  /\ AddItem(z)
  /\ absent' = [absent EXCEPT ![z] = 0]
  /\ UNCHANGED <<pc, cacheVars, spent, epochVars>>

ZoneDisappears(z) ==
  /\ RemoveItem(z)
  /\ UNCHANGED <<pc, cacheVars, timeVars, epochVars>>

\* Time goes on.  A listing does not take longer than MaxCall.
Tick ==
  /\ mutex # Nil => spent < MaxCall
  /\ spent' = IF mutex = Nil THEN spent ELSE spent + 1
  /\ left' = IF left > 0 THEN left - 1 ELSE 0
  /\ absent' = [i \in Item |-> IF i \in items \/ absent[i] = Long THEN absent[i]
                               ELSE absent[i] + 1]
  /\ UNCHANGED <<pagingVars, pc, mutex, filled, zones, epochVars>>

-----------------------------------------------------------------------------
Locked(c) == Hit(c) \/ Miss(c) \/ Invalidate(c)
Call(c) == Fetch(c) \/ FetchFails(c)
Step(c) == Get(c) \/ CallInvalidate(c) \/ Locked(c) \/ Call(c) \/ Store(c)

Surroundings ==
  \/ \E z \in Item : ZoneAppears(z) \/ ZoneDisappears(z)
  \/ Tick

Next == (\E c \in Caller : Step(c)) \/ Surroundings

\* sync.Mutex serves a waiter that starves; a call of the API ends, with a
\* page or with an error.
Fairness ==
  \A c \in Caller : /\ SF_allVars(Locked(c))
                    /\ WF_allVars(Call(c) \/ Store(c))

Spec == Init /\ [][Next]_allVars /\ Fairness

-----------------------------------------------------------------------------
\* get returns the cached list as it is after the step.
Returns(c) == pc[c] \in {"get", "store"} /\ pc'[c] = "idle"

\* After invalidate, no get that begins later is answered from a listing that
\* began before it, even if that listing ended after it.
InvalidationHolds ==
  [][\A c \in Caller : Returns(c) => listed' >= asked[c]]_allVars

\* An answer is older than UDDI_ZONE_CACHE_TTL by no more than a listing takes:
\* a zone in it was there at most that long ago.
Recent ==
  [][\A c \in Caller : Returns(c) =>
       \A z \in zones' : absent[z] <= CacheTTL + MaxCall]_allVars

\* A new list leaves no zone out that was there during the whole listing and
\* that the filters admit, unless a zone was removed meanwhile.
CachesEverything ==
  [][\A c \in Caller : Store(c) /\ ~removed => Kept(stayed) \subseteq zones']_allVars

\* The mutex is held exactly during a listing, and a complete listing has all
\* that stayed.
LockHeld ==
  /\ \A c \in Caller : pc[c] \in {"list", "store"} <=> mutex = c
  /\ open <=> mutex # Nil
Complete ==
  (\E c \in Caller : pc[c] = "store") /\ ~removed => stayed \subseteq got

\* No invalidation gets between a listing and its storing.
EpochsAgree ==
  /\ mutex # Nil => epoch = drops
  /\ filled => listed = drops
  /\ \A c \in Caller : asked[c] <= drops

\* What was read is as old as the listing at most; what is cached grows older
\* as its time runs out.
AgesBounded ==
  /\ \A i \in items : absent[i] = 0
  /\ \A z \in got : absent[z] <= spent
  /\ filled /\ left > 0 => \A z \in zones : absent[z] + left <= CacheTTL + MaxCall

IInv ==
  /\ TypeOK /\ PagingIInv /\ LockHeld
  /\ Complete /\ EpochsAgree /\ AgesBounded

\* A get or invalidate always ends, although a listing keeps the mutex through
\* all its requests.
EveryCallEnds ==
  \A c \in Caller : pc[c] # "idle" ~> pc[c] = "idle"
=============================================================================
