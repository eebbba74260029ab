--------------------------- MODULE ProviderProofs ---------------------------
(***************************************************************************)
(* Proofs about Provider, for any number of requests, zones and records    *)
(* and any plans, in three parts: the ids the provider holds; that it      *)
(* carries plans out as PlanStore says; and where it writes, with what a   *)
(* request that reports success has written.                               *)
(***************************************************************************)
EXTENDS Provider, SequenceProofs

-----------------------------------------------------------------------------
(* Typing.                                                                 *)

\* A list without elements has whatever type is wanted.
LEMMA EmptyLists == <<>> \in Seq(Zone) /\ <<>> \in Seq(Listed) /\ <<>> \in Seq(Op)
<1>1. <<>> \in Seq(Zone)
  OBVIOUS
<1>2. <<>> \in Seq(Listed)
  OBVIOUS
<1>3. <<>> \in Seq(Op)
  OBVIOUS
<1> QED
  BY <1>1, <1>2, <1>3

\* The idle request is a request.
LEMMA IdleJobType == IdleJob \in Job
  BY DEF IdleJob, Job, PC

\* Initially every variable has its type.
LEMMA InitTypeOK == Init => TypeOK
<1> SUFFICES ASSUME Init PROVE TypeOK
    OBVIOUS
<1>1. IdleJob \in Job
  BY IdleJobType
<1>2. portal \in [ID -> Record \cup {None}]
  BY DEF Init
<1>3. nextID \in 1 .. MaxID + 1
  BY InputsAssumption DEF Init
<1>4. portalZones \in SUBSET Zone
  BY ZonesAssumption DEF Init
<1>5. index \in [Key -> Entry \cup {None}]
  BY DEF Init
<1>6. cachedZones \in Seq(Zone) /\ cacheValid \in BOOLEAN
  BY EmptyLists DEF Init
<1>7. job \in [Handler -> Job]
  BY <1>1 DEF Init
<1> QED
  BY <1>2, <1>3, <1>4, <1>5, <1>6, <1>7 DEF TypeOK

\* A step of one request keeps every request a request, and changes no other.
LEMMA BecomesType ==
  ASSUME job \in [Handler -> Job], NEW h \in Handler, NEW j \in Job, Becomes(h, j)
  PROVE  /\ job' \in [Handler -> Job]
         /\ job'[h] = j
         /\ \A g \in Handler : g # h => job'[g] = job[g]
  BY DEF Becomes

\* The request Reject leaves behind.
LEMMA RejectType ==
  ASSUME job \in [Handler -> Job], NEW h \in Handler, Reject(h)
  PROVE  /\ job' \in [Handler -> Job]
         /\ job'[h].pc = "reply" /\ job'[h].seen = <<>>
         /\ \A g \in Handler : g # h => job'[g] = job[g]
<1> DEFINE j == [IdleJob EXCEPT !.pc = "reply", !.outcome = "error"]
<1>1. j \in Job
  BY IdleJobType DEF Job, PC
<1>2. j.pc = "reply" /\ j.seen = <<>>
  BY DEF IdleJob
<1> HIDE DEF j
<1>3. Becomes(h, j)
  BY DEF Reject, j
<1> QED
  BY <1>1, <1>2, <1>3, BecomesType

\* The request EndOp leaves behind.
LEMMA EndOpType ==
  ASSUME job \in [Handler -> Job], NEW h \in Handler, NEW soft \in BOOLEAN,
         EndOp(h, soft)
  PROVE  /\ job' \in [Handler -> Job]
         /\ job'[h].pc = "next" /\ job'[h].seen = <<>>
         /\ \A g \in Handler : g # h => job'[g] = job[g]
<1> DEFINE j == [job[h] EXCEPT !.pc = "next", !.soft = soft, !.op = None,
                               !.zone = None, !.id = None, !.seen = <<>>]
<1>0. job[h] \in Job
  OBVIOUS
<1>1. j.pc = "next" /\ j.seen = <<>>
  BY <1>0 DEF Job
<1>2. j \in Job
  BY <1>0, EmptyLists DEF Job, PC
<1> HIDE DEF j
<1>3. Becomes(h, j)
  BY DEF EndOp, j
<1> QED
  BY <1>1, <1>2, <1>3, BecomesType

\* Whatever a failed operation leads to, the request is past it.
LEMMA OpFailsType ==
  ASSUME job \in [Handler -> Job], NEW h \in Handler, NEW error, OpFails(h, error)
  PROVE  /\ job' \in [Handler -> Job]
         /\ job'[h].pc \in {"reply", "next"} /\ job'[h].seen = <<>>
         /\ \A g \in Handler : g # h => job'[g] = job[g]
<1>1. CASE Aborts(error)
  BY <1>1, RejectType DEF OpFails
<1>2. CASE ~Aborts(error)
  BY <1>2, EndOpType DEF OpFails
<1> QED
  BY <1>1, <1>2

\* Moving to another step changes nothing else of the request.
LEMMA GotoType ==
  ASSUME job \in [Handler -> Job], NEW h \in Handler, NEW pc \in PC, Goto(h, pc)
  PROVE  /\ job' \in [Handler -> Job]
         /\ job'[h] = [job[h] EXCEPT !.pc = pc]
         /\ \A g \in Handler : g # h => job'[g] = job[g]
<1>0. job[h] \in Job
  OBVIOUS
<1>1. [job[h] EXCEPT !.pc = pc] \in Job
  BY <1>0 DEF Job
<1> QED
  BY <1>1, BecomesType DEF Goto

\* A found id continues with the operation's own action.
LEMMA FoundIDType ==
  ASSUME job \in [Handler -> Job], NEW h \in Handler, NEW id \in ID,
         job[h].op.action \in {"update", "delete"}, FoundID(h, id)
  PROVE  /\ job' \in [Handler -> Job]
         /\ job'[h] = [job[h] EXCEPT !.pc = job[h].op.action, !.id = id]
         /\ \A g \in Handler : g # h => job'[g] = job[g]
<1>0. job[h] \in Job
  OBVIOUS
<1>1. [job[h] EXCEPT !.pc = job[h].op.action, !.id = id] \in Job
  BY <1>0 DEF Job, PC
<1> QED
  BY <1>1, BecomesType DEF FoundID

\* Portal steps keep records records.
LEMMA InsertType ==
  ASSUME TypeOK, NEW r \in RRset, NEW t \in Target, NEW ttl \in TTL,
         Insert(r, t, ttl)
  PROVE  portal' \in [ID -> Record \cup {None}] /\ nextID' \in 1 .. MaxID + 1
<1>1. PICK z \in findZone(portalZones, r) :
         portal' = [portal EXCEPT ![nextID] =
                      [rrset |-> r, target |-> t, ttl |-> ttl, zone |-> z]]
  BY DEF Insert
<1>2. z \in Zone
  BY DEF findZone, TypeOK
<1>3. [rrset |-> r, target |-> t, ttl |-> ttl, zone |-> z] \in Record
  BY <1>2 DEF Record
<1>4. portal' \in [ID -> Record \cup {None}]
  BY <1>1, <1>3 DEF TypeOK
<1>5. nextID' \in 1 .. MaxID + 1
  BY InputsAssumption DEF Insert, TypeOK, ID
<1> QED
  BY <1>4, <1>5

LEMMA PatchType ==
  ASSUME TypeOK, NEW id \in ID, portal[id] # None,
         NEW target \in Target, NEW ttl \in TTL, Patch(id, target, ttl)
  PROVE  portal' \in [ID -> Record \cup {None}]
  BY ZenonT(30) DEF Patch, TypeOK, Record

\* An empty list has no elements.
LEMMA NoRange == Range(<<>>) = {}
  BY DEF Range

\* The zones that a get stores, read twice or missed included, pass the filter.
GetsZones(h) == ListZones(h) \/ ListZonesMisread(h)

LEMMA ZonesListed ==
  ASSUME NEW h \in Handler, GetsZones(h), portalZones \in SUBSET Zone
  PROVE  /\ ListsZones(h)
         /\ \E zs \in Seq(Zone) : Range(zs) \subseteq Managed /\ StoreZones(h, zs)
<1> DEFINE Z == portalZones \cap Managed
<1>1. IsFiniteSet(Z) /\ Z \subseteq Zone /\ Z \subseteq Managed
  BY ZonesAssumption, FS_Subset
<1>2. ManagedLists \subseteq Seq(Z)
  BY <1>1, OrdersType DEF ManagedLists
<1> HIDE DEF Z
<1>3. PICK zs \in Seq(Z) : StoreZones(h, zs)
  BY <1>2, InsertAndRemoveType DEF GetsZones, ListZones, ListZonesMisread, Misread
<1>4. Range(zs) \subseteq Managed
  BY <1>1, RangeOfSeq
<1>5. zs \in Seq(Zone)
  BY <1>1, SeqMonotone
<1> QED
  BY <1>3, <1>4, <1>5 DEF GetsZones, ListZones, ListZonesMisread

\* An index built from a listing has an entry of a record with that key.
LEMMA IndexOfType ==
  ASSUME NEW recs \in Seq(Listed), NEW rrsets, NEW k \in DOMAIN IndexOf(recs, rrsets)
  PROVE  \E i \in DOMAIN recs :
           KeyOf(recs[i]) = k /\ IndexOf(recs, rrsets)[k] = EntryOf(recs[i])
<1> DEFINE T == {i \in DOMAIN recs : KeyOf(recs[i]) = k}
<1>1. k \in ListedKeys(recs, rrsets) /\ IndexOf(recs, rrsets)[k] = EntryOf(recs[Max(T)])
  BY DEF IndexOf
<1>2. T \in SUBSET (1..Len(recs)) /\ T # {} /\ Len(recs) \in Nat
  BY <1>1 DEF ListedKeys
<1>3. Max(T) \in T
  BY <1>2, LastPosition
<1> QED
  BY <1>1, <1>3

-----------------------------------------------------------------------------
(* What the Portal may do to a record while a request holds its id.        *)

\* Existing ids are never given to another record, and a record keeps its key.
PortalStep ==
  /\ nextID <= nextID'
  /\ \A i \in ID : i < nextID =>
       \/ portal'[i] = None
       \/ portal[i] # None /\ KeyOf(portal'[i]) = KeyOf(portal[i])

\* Nothing happens in the Portal.
LEMMA PortalStill ==
  ASSUME FreshIDs, UNCHANGED <<portal, nextID>>, nextID \in Nat
  PROVE  PortalStep /\ FreshIDs'
  BY DEF PortalStep, FreshIDs

\* A record is created under a fresh id.
LEMMA PortalInsert ==
  ASSUME TypeOK, FreshIDs, NEW r \in RRset, NEW t \in Target, NEW ttl \in TTL,
         Insert(r, t, ttl)
  PROVE  /\ PortalStep /\ FreshIDs'
         /\ nextID \in ID /\ nextID' = nextID + 1
         /\ KeyOf(portal'[nextID]) = <<r, t>>
<1>1. PICK z \in findZone(portalZones, r) :
         portal' = [portal EXCEPT ![nextID] =
                      [rrset |-> r, target |-> t, ttl |-> ttl, zone |-> z]]
  BY DEF Insert
<1>2. nextID \in ID /\ nextID' = nextID + 1 /\ ID \subseteq Nat
  BY DEF Insert, ID
<1>3. \A i \in ID : i # nextID => portal'[i] = portal[i]
  BY <1>1 DEF TypeOK
<1>4. KeyOf(portal'[nextID]) = <<r, t>>
  <2>1. portal'[nextID] = [rrset |-> r, target |-> t, ttl |-> ttl, zone |-> z]
    BY <1>1, <1>2 DEF TypeOK
  <2> QED
    BY <2>1 DEF KeyOf
<1>5. PortalStep
  <2>1. ASSUME NEW i \in ID, i < nextID
        PROVE  portal'[i] = None \/ (portal[i] # None /\ KeyOf(portal'[i]) = KeyOf(portal[i]))
    <3>1. portal'[i] = portal[i]
      BY <1>2, <1>3, <2>1
    <3> QED
      BY <3>1
  <2>2. nextID <= nextID'
    BY <1>2
  <2> QED
    BY <2>1, <2>2, Zenon DEF PortalStep
<1>6. FreshIDs'
  BY <1>2, <1>3 DEF FreshIDs
<1> QED
  BY <1>2, <1>4, <1>5, <1>6

\* A record is patched by a request that holds its id for its own key.
LEMMA PortalPatch ==
  ASSUME TypeOK, FreshIDs, NEW id \in ID, NEW r \in RRset, NEW t \in Target,
         NEW ttl \in TTL, portal[id] # None, Names(id, <<r, t>>),
         Patch(id, t, ttl), nextID' = nextID
  PROVE  PortalStep /\ FreshIDs'
<1>1. portal[id] \in Record /\ KeyOf(portal[id]) = <<r, t>> /\ id < nextID
  BY DEF TypeOK, Names
<1>2. portal'[id] = [[portal[id] EXCEPT !.target = t] EXCEPT !.ttl = ttl]
  BY DEF Patch, TypeOK
<1>3. KeyOf(portal'[id]) = KeyOf(portal[id])
  BY <1>1, <1>2 DEF KeyOf, Record
<1>4. \A i \in ID : i # id => portal'[i] = portal[i]
  BY DEF Patch, TypeOK
<1>5. nextID \in Nat /\ ID \subseteq Nat
  BY InputsAssumption DEF TypeOK, ID
<1>6. PortalStep
  <2>1. nextID <= nextID'
    BY <1>5
  <2>2. ASSUME NEW i \in ID PROVE portal'[i] = portal[i] \/ i = id
    BY <1>4
  <2> QED
    BY <1>3, <2>1, <2>2, Zenon DEF PortalStep
<1>7. FreshIDs'
  BY <1>1, <1>4, <1>5 DEF FreshIDs
<1> QED
  BY <1>6, <1>7

\* A record is removed.
LEMMA PortalRemove ==
  ASSUME TypeOK, FreshIDs, NEW id \in ID,
         portal' = [portal EXCEPT ![id] = None], nextID' = nextID
  PROVE  /\ PortalStep /\ FreshIDs'
         /\ portal' \in [ID -> Record \cup {None}]
<1>1. nextID \in Nat /\ ID \subseteq Nat
  BY InputsAssumption DEF TypeOK, ID
<1> QED
  BY <1>1 DEF PortalStep, FreshIDs, TypeOK

\* An id held for a key stays good.
LEMMA NamesKept ==
  ASSUME PortalStep, nextID \in Nat, nextID' \in Nat
  PROVE  \A id \in ID : \A k :
           Names(id, k) => /\ id < nextID'
                           /\ portal'[id] # None => KeyOf(portal'[id]) = k
                           /\ portal[id] = None => portal'[id] = None
<1> SUFFICES ASSUME NEW id \in ID, NEW k, Names(id, k)
             PROVE  /\ id < nextID'
                    /\ portal'[id] # None => KeyOf(portal'[id]) = k
                    /\ portal[id] = None => portal'[id] = None
  OBVIOUS
<1>1. id \in Nat /\ id < nextID /\ nextID <= nextID'
  BY DEF Names, PortalStep, ID
<1>2. \/ portal'[id] = None
      \/ portal[id] # None /\ KeyOf(portal'[id]) = KeyOf(portal[id])
  BY <1>1 DEF PortalStep
<1>3. portal[id] # None => KeyOf(portal[id]) = k
  BY DEF Names
<1>4. id < nextID'
  BY <1>1
<1> QED
  BY <1>2, <1>3, <1>4

-----------------------------------------------------------------------------
(* The inductive step, one lemma per group of actions.                     *)

\* The ids that the type invariant speaks of.
LEMMA IDTypes ==
  ASSUME TypeOK
  PROVE  /\ nextID \in Nat
         /\ \A k \in Key : index[k] # None => index[k].id \in ID
         /\ \A h \in Handler : \A r \in Range(job[h].seen) : r \in Listed /\ r.id \in ID
         /\ \A h \in Handler : job[h].id # None => job[h].id \in ID
<1>1. nextID \in Nat
  BY InputsAssumption DEF TypeOK
<1>2. \A k \in Key : index[k] # None => index[k].id \in ID
  BY DEF TypeOK, Entry
<1>3. ASSUME NEW h \in Handler
      PROVE  Range(job[h].seen) \subseteq Listed /\ job[h].id \in ID \cup {None}
  BY RangeOfSeq DEF TypeOK, Job
<1>4. \A h \in Handler : \A r \in Range(job[h].seen) : r \in Listed /\ r.id \in ID
  BY <1>3 DEF Listed
<1> QED
  BY <1>1, <1>2, <1>3, <1>4

\* An index that does not change stays good.
LEMMA IndexKept ==
  ASSUME TypeOK, TypeOK', IndexNames, PortalStep, index' = index
  PROVE  IndexNames'
<1> SUFFICES ASSUME NEW k \in Key, index[k] # None
             PROVE  Names(index[k].id, k)'
  BY DEF IndexNames, Names
<1>1. index[k].id \in ID /\ nextID \in Nat
  BY IDTypes
<1>2. nextID' \in Nat
  BY InputsAssumption DEF TypeOK
<1>3. Names(index[k].id, k)
  BY DEF IndexNames
<1>4. Names(index[k].id, k)'
  BY <1>1, <1>2, <1>3 DEF PortalStep, Names, ID
<1> QED
  BY <1>4

\* What a request has listed stays good.
LEMMA SeenKept ==
  ASSUME TypeOK, TypeOK', PortalStep, NEW h \in Handler, SeenNames(h),
         job'[h].seen \in {job[h].seen, <<>>}
  PROVE  SeenNames(h)'
<1> SUFFICES ASSUME NEW r \in Range(job'[h].seen) PROVE Names(r.id, KeyOf(r))'
  BY DEF SeenNames
<1>1. nextID \in Nat /\ nextID' \in Nat
  BY InputsAssumption DEF TypeOK
<1>2. r \in Range(job[h].seen) /\ r.id \in ID /\ Names(r.id, KeyOf(r))
  BY NoRange, IDTypes DEF SeenNames
<1>3. KeyOf(r)' = KeyOf(r)
  BY DEF KeyOf
<1>4. r.id < nextID' /\ (portal'[r.id] # None => KeyOf(portal'[r.id]) = KeyOf(r))
  BY <1>1, <1>2, NamesKept
<1> QED
  BY <1>3, <1>4 DEF Names

\* A request that does nothing keeps its ids good.
LEMMA OthersKept ==
  ASSUME TypeOK, TypeOK', PortalStep, NEW g \in Handler, SeenNames(g), OpNames(g),
         job'[g] = job[g]
  PROVE  SeenNames(g)' /\ OpNames(g)'
<1>1. nextID \in Nat /\ nextID' \in Nat /\ ID \subseteq Nat
  BY InputsAssumption DEF TypeOK, ID
<1>3. SeenNames(g)'
  BY SeenKept
<1>4. OpKey(g)' = OpKey(g)
  BY DEF OpKey, KeyOf
<1>5. ASSUME job[g].id \in ID, Names(job[g].id, OpKey(g))
      PROVE  /\ Names(job[g].id, OpKey(g))'
             /\ portal[job[g].id] = None => portal'[job[g].id] = None
  <2>1. /\ job[g].id < nextID'
        /\ portal'[job[g].id] # None => KeyOf(portal'[job[g].id]) = OpKey(g)
        /\ portal[job[g].id] = None => portal'[job[g].id] = None
    BY <1>1, <1>5, NamesKept
  <2> QED
    BY <1>4, <2>1 DEF Names
<1>6. job[g].id # None => job[g].id \in ID
  BY IDTypes
<1>7. OpNames(g)'
  BY <1>4, <1>5, <1>6 DEF OpNames, Names
<1> QED
  BY <1>3, <1>7

\* What is left to show of a step of handler h.
LEMMA RequestStep ==
  ASSUME IInv, TypeOK', PortalStep, FreshIDs', IndexNames', NEW h \in Handler,
         \A g \in Handler : g # h => job'[g] = job[g],
         SeenNames(h)', OpNames(h)'
  PROVE  IInv'
<1>1. ASSUME NEW g \in Handler PROVE SeenNames(g)' /\ OpNames(g)'
  <2>1. CASE g = h
    BY <2>1
  <2>2. CASE g # h
    BY <2>2, OthersKept DEF IInv
  <2> QED
    BY <2>1, <2>2
<1> QED
  BY <1>1 DEF IInv

\* The steps at which a request holds no id outside its listing.
AtRest == {"idle", "recordsZones", "list", "applyZones", "next", "reply"}

\* What is left to show when the request comes to rest.
LEMMA RestStep ==
  ASSUME IInv, TypeOK', PortalStep, FreshIDs', IndexNames', NEW h \in Handler,
         \A g \in Handler : g # h => job'[g] = job[g],
         job'[h].pc \in AtRest, job'[h].seen \in {job[h].seen, <<>>}
  PROVE  IInv'
<1>1. SeenNames(h)'
  BY SeenKept DEF IInv
<1>2. OpNames(h)'
  BY DEF OpNames, AtRest
<1> QED
  BY <1>1, <1>2, RequestStep

\* Nothing but the request of handler h changes.
OnlyRequest(h) ==
  /\ UNCHANGED <<portalVars, cacheVars, index>>
  /\ job' \in [Handler -> Job]
  /\ \A g \in Handler : g # h => job'[g] = job[g]

\* Such a step moves nothing in the Portal.
LEMMA OnlyRequestStep ==
  ASSUME IInv, NEW h \in Handler, OnlyRequest(h)
  PROVE  TypeOK' /\ PortalStep /\ FreshIDs' /\ IndexNames'
<1>1. TypeOK' /\ index' = index /\ UNCHANGED <<portal, nextID>>
  BY DEF IInv, OnlyRequest, TypeOK, portalVars, cacheVars
<1>2. PortalStep /\ FreshIDs'
  BY <1>1, PortalStill, IDTypes DEF IInv
<1>3. IndexNames'
  BY <1>1, <1>2, IndexKept DEF IInv
<1> QED
  BY <1>1, <1>2, <1>3

\* Requests that come to rest without any other effect.
LEMMA OnlyRequestRests ==
  ASSUME IInv, NEW h \in Handler, OnlyRequest(h),
         job'[h].pc \in AtRest, job'[h].seen \in {job[h].seen, <<>>}
  PROVE  IInv'
  BY OnlyRequestStep, RestStep DEF OnlyRequest

\* An arriving plan keeps the invariant, whatever its operations are.
LEMMA StartApplyKeepsIInv ==
  ASSUME IInv, NEW h \in Handler, NEW ops \in Seq(Op), StartApply(h, ops)
  PROVE  IInv'
<1>0. job[h] \in Job /\ job \in [Handler -> Job]
  BY DEF IInv, TypeOK
<1> DEFINE j == [job[h] EXCEPT !.batch = ops, !.todo = ops,
                   !.pc = IF ops = <<>> THEN "reply" ELSE "applyZones",
                   !.outcome = IF ops = <<>> THEN "ok" ELSE "none"]
<1>1. j \in Job /\ j.pc \in AtRest /\ j.seen = job[h].seen
  <2>1. CASE ops = <<>>
    BY <1>0, <2>1, ZenonT(30) DEF Job, PC, AtRest
  <2>2. CASE ops # <<>>
    BY <1>0, <2>2 DEF Job, PC, AtRest
  <2> QED
    BY <2>1, <2>2
<1>2. Becomes(h, j) /\ UNCHANGED <<portalVars, cacheVars, index>>
  BY DEF StartApply
<1> HIDE DEF j
<1>3. OnlyRequest(h) /\ job'[h] = j
  BY <1>0, <1>1, <1>2, BecomesType DEF OnlyRequest
<1> QED
  BY <1>1, <1>3, OnlyRequestRests

\* Arriving, cancelled and answered requests keep the invariant.
LEMMA RequestKeepsIInv ==
  ASSUME IInv, NEW h \in Handler, Request(h)
  PROVE  IInv'
<1>0. job[h] \in Job /\ job \in [Handler -> Job]
  BY DEF IInv, TypeOK
<1>1. CASE StartRecords(h)
  <2>1. /\ OnlyRequest(h)
        /\ job'[h] = [job[h] EXCEPT !.pc = "recordsZones"]
    BY <1>0, <1>1, GotoType DEF StartRecords, OnlyRequest, PC
  <2>2. job'[h].pc = "recordsZones" /\ job'[h].seen = job[h].seen
    BY <1>0, <2>1 DEF Job
  <2> QED
    BY <2>1, <2>2, OnlyRequestRests DEF AtRest
<1>2. ASSUME NEW ops \in Batches, StartApply(h, ops) PROVE IInv'
  BY <1>2, InputsAssumption, StartApplyKeepsIInv
<1>3. CASE Cancel(h)
  <2> DEFINE j == [job[h] EXCEPT !.ctxDone = TRUE]
  <2>1. /\ j \in Job /\ j.pc = job[h].pc /\ j.seen = job[h].seen
        /\ j.op = job[h].op /\ j.zone = job[h].zone /\ j.id = job[h].id
    BY <1>0 DEF Job
  <2>2. Becomes(h, j) /\ UNCHANGED <<portalVars, cacheVars, index>>
    BY <1>3 DEF Cancel
  <2> HIDE DEF j
  <2>3. OnlyRequest(h) /\ job'[h] = j
    BY <1>0, <2>1, <2>2, BecomesType DEF OnlyRequest
  <2>4. TypeOK' /\ PortalStep /\ FreshIDs' /\ IndexNames'
    BY <2>3, OnlyRequestStep
  <2>5. SeenNames(h)'
    BY <2>1, <2>3, <2>4, SeenKept DEF IInv
  <2>6. OpNames(h)'
    BY <2>1, <2>2, <2>3 DEF IInv, OpNames, OpKey, Names, KeyOf, portalVars
  <2> QED
    BY <2>3, <2>4, <2>5, <2>6, RequestStep DEF OnlyRequest
<1>4. CASE Respond(h)
  <2>1. OnlyRequest(h) /\ job'[h] = IdleJob
    BY <1>0, <1>4, IdleJobType, BecomesType DEF Respond, OnlyRequest
  <2> QED
    BY <2>1, OnlyRequestRests DEF AtRest, IdleJob
<1> QED
  BY <1>1, <1>2, <1>3, <1>4 DEF Request

\* Fetching the zones keeps the invariant: no id is involved.
LEMMA ZonesKeepIInv ==
  ASSUME IInv, NEW h \in Handler,
         CachedZones(h) \/ GetsZones(h) \/ ListZonesFails(h)
  PROVE  IInv'
<1>0. job[h] \in Job /\ job \in [Handler -> Job]
  BY DEF IInv, TypeOK
<1>1. ASSUME NEW zs \in Seq(Zone), GotZones(h, zs)
      PROVE  /\ job' \in [Handler -> Job]
             /\ job'[h].pc \in AtRest /\ job'[h].seen = job[h].seen
             /\ \A g \in Handler : g # h => job'[g] = job[g]
  <2> DEFINE j == [job[h] EXCEPT
                    !.zones = zs,
                    !.pending = IF job[h].pc = "recordsZones" THEN zs ELSE <<>>,
                    !.pc = IF job[h].pc = "recordsZones" THEN "list" ELSE "next"]
  <2>1. j.pc \in AtRest /\ j.seen = job[h].seen
    BY <1>0 DEF Job, AtRest
  <2>3. j \in Job
    <3>1. CASE job[h].pc = "recordsZones"
      BY <1>0, <3>1 DEF Job, PC
    <3>2. CASE job[h].pc # "recordsZones"
      BY <1>0, <3>2, EmptyLists DEF Job, PC
    <3> QED
      BY <3>1, <3>2
  <2>2. Becomes(h, j)
    BY <1>1 DEF GotZones
  <2> HIDE DEF j
  <2> QED
    BY <1>0, <2>1, <2>2, <2>3, BecomesType
<1>2. CASE CachedZones(h)
  <2>1. cachedZones \in Seq(Zone)
    BY DEF IInv, TypeOK
  <2>2. OnlyRequest(h) /\ job'[h].pc \in AtRest /\ job'[h].seen = job[h].seen
    BY <1>1, <1>2, <2>1 DEF CachedZones, OnlyRequest
  <2> QED
    BY <2>2, OnlyRequestRests
<1>3. CASE GetsZones(h)
  <2>1. PICK zs \in Seq(Zone) : StoreZones(h, zs)
    BY <1>3, ZonesListed DEF IInv, TypeOK
  <2>2. /\ job' \in [Handler -> Job]
        /\ job'[h].pc \in AtRest /\ job'[h].seen = job[h].seen
        /\ \A g \in Handler : g # h => job'[g] = job[g]
    BY <1>1, <2>1 DEF StoreZones
  <2>3. TypeOK' /\ index' = index /\ UNCHANGED <<portal, nextID>>
    BY <2>1, <2>2 DEF StoreZones, IInv, TypeOK, portalVars
  <2>4. PortalStep /\ FreshIDs'
    BY <2>3, PortalStill, IDTypes DEF IInv
  <2>5. IndexNames'
    BY <2>3, <2>4, IndexKept DEF IInv
  <2> QED
    BY <2>2, <2>3, <2>4, <2>5, RestStep
<1>4. CASE ListZonesFails(h)
  <2>1. OnlyRequest(h) /\ job'[h].pc = "reply" /\ job'[h].seen = <<>>
    BY <1>0, <1>4, RejectType DEF ListZonesFails, OnlyRequest
  <2> QED
    BY <2>1, OnlyRequestRests DEF AtRest
<1> QED
  BY <1>2, <1>3, <1>4

\* Records heard of, each with an id that names it.
Named == {r \in Listed : Names(r.id, KeyOf(r))}

\* A listing shows only live records, and so does one read in shifting pages.
LEMMA ListingNames ==
  ASSUME TypeOK, FreshIDs, NEW z \in Zone, NEW recs \in Listings(z)
  PROVE  recs \in Seq(Named) /\ Misread(recs) \subseteq Seq(Named)
<1> DEFINE L == {i \in Live : portal[i].zone = z}
<1>1. IsFiniteSet(L) /\ L \subseteq ID
  <2>1. IsFiniteSet(ID)
    BY InputsAssumption, FS_Interval DEF ID
  <2> QED
    BY <2>1, FS_Subset DEF Live
<1>2. PICK ids \in SetToSeqs(L) : recs = [n \in DOMAIN ids |-> Row(ids[n])]
  BY DEF Listings
<1>3. ids \in Seq(L)
  BY <1>1, <1>2, OrdersType
<1>4. ASSUME NEW i \in L PROVE Row(i) \in Named
  <2>1. i \in ID /\ portal[i] \in Record /\ portal[i] # None
    BY <1>4 DEF Live, TypeOK
  <2>2. Row(i) \in Listed /\ Row(i).id = i /\ KeyOf(Row(i)) = KeyOf(portal[i])
    BY <2>1 DEF Row, Listed, Record, KeyOf
  <2>3. i < nextID
    BY <2>1, InputsAssumption DEF FreshIDs, TypeOK, ID
  <2> QED
    BY <2>2, <2>3 DEF Named, Names
<1> HIDE DEF L
<1>5. recs \in Seq(Named)
  BY <1>2, <1>3, <1>4
<1>6. Misread(recs) \subseteq Seq(Named)
  BY <1>5, InsertAndRemoveType DEF Misread
<1> QED
  BY <1>5, <1>6

\* What a call that lists the next zone hears.
HearsZone(h) == ListRecords(h) \/ ListRecordsMisread(h)

LEMMA ZoneHeard ==
  ASSUME TypeOK, FreshIDs, NEW h \in Handler, HearsZone(h)
  PROVE  /\ ListsZone(h) /\ Tail(job[h].pending) \in Seq(Zone)
         /\ \E recs \in Seq(Named) : Hears(h, recs)
<1>1. ListsZone(h) /\ job[h].pending \in Seq(Zone)
  BY DEF HearsZone, ListRecords, ListRecordsMisread, TypeOK, Job
<1>2. Head(job[h].pending) \in Zone /\ Tail(job[h].pending) \in Seq(Zone)
  BY <1>1, TailOfSeq DEF ListsZone
<1> QED
  BY <1>1, <1>2, ListingNames DEF HearsZone, ListRecords, ListRecordsMisread

\* What a call that lists a zone again hears.
HearsAgain(h) == Relist(h) \/ RelistMisread(h)

LEMMA ZoneRelisted ==
  ASSUME TypeOK, FreshIDs, NEW h \in Handler, HearsAgain(h), job[h].zone \in Zone
  PROVE  job[h].pc = "relist" /\ \E recs \in Seq(Named) : RelistsZone(h, recs)
  BY ListingNames DEF HearsAgain, Relist, RelistMisread

\* An index built from records that are named names them.
LEMMA IndexedNames ==
  ASSUME NEW recs \in Seq(Listed), \A r \in Range(recs) : Names(r.id, KeyOf(r)),
         NEW rrsets, NEW k \in DOMAIN IndexOf(recs, rrsets)
  PROVE  /\ IndexOf(recs, rrsets)[k] \in Entry
         /\ Names(IndexOf(recs, rrsets)[k].id, k)
<1>1. PICK i \in DOMAIN recs :
        KeyOf(recs[i]) = k /\ IndexOf(recs, rrsets)[k] = EntryOf(recs[i])
  BY IndexOfType
<1>2. recs[i] \in Listed /\ recs[i] \in Range(recs)
  BY DEF Range
<1>3. EntryOf(recs[i]) \in Entry /\ EntryOf(recs[i]).id = recs[i].id
  BY <1>2 DEF EntryOf, Entry, Listed
<1> QED
  BY <1>1, <1>2, <1>3

\* Entries of a sound index may be taken over whenever the Portal stands still.
LEMMA NewIndexNames ==
  ASSUME UNCHANGED <<portal, nextID>>,
         \A k \in Key : index'[k] # None => Names(index'[k].id, k)
  PROVE  IndexNames'
  BY DEF IndexNames, Names

\* Listing the zones and publishing the index keep the invariant.
LEMMA RecordsKeepIInv ==
  ASSUME IInv, NEW h \in Handler, HearsZone(h) \/ SwapIndex(h) \/ ListRecordsFails(h)
  PROVE  IInv'
<1>0. job[h] \in Job /\ job \in [Handler -> Job] /\ TypeOK /\ FreshIDs
  BY DEF IInv, TypeOK
<1>1. CASE HearsZone(h)
  <2>0. PICK recs \in Seq(Named) : Hears(h, recs)
    BY <1>0, <1>1, ZoneHeard
  <2> DEFINE j == [job[h] EXCEPT !.seen = @ \o recs, !.pending = Tail(@)]
  <2>1. /\ j \in Job /\ j.pc = "list" /\ j.seen = job[h].seen \o recs
        /\ job[h].seen \in Seq(Listed) /\ recs \in Seq(Listed)
    <3>1. job[h].pc = "list" /\ Tail(job[h].pending) \in Seq(Zone)
      BY <1>0, <1>1, ZoneHeard DEF ListsZone
    <3>2. recs \in Seq(Listed) /\ job[h].seen \in Seq(Listed)
      BY <1>0, SeqMonotone DEF Named, Job
    <3>3. job[h].seen \o recs \in Seq(Listed)
      BY <3>2
    <3> QED
      BY <1>0, <3>1, <3>2, <3>3 DEF Job
  <2>2. Becomes(h, j) /\ UNCHANGED <<portalVars, cacheVars, index>>
    BY <2>0 DEF Hears
  <2> HIDE DEF j
  <2>3. OnlyRequest(h) /\ job'[h] = j
    BY <1>0, <2>1, <2>2, BecomesType DEF OnlyRequest
  <2>4. ASSUME NEW r \in Range(job[h].seen \o recs) PROVE Names(r.id, KeyOf(r))
    <3>1. r \in Range(job[h].seen) \/ r \in Range(recs)
      BY <2>1, RangeConcatenation
    <3>2. Range(recs) \subseteq Named
      BY RangeOfSeq
    <3> QED
      BY <3>1, <3>2 DEF IInv, SeenNames, Named
  <2>5. SeenNames(h)'
    BY <2>1, <2>2, <2>3, <2>4 DEF SeenNames, Names, KeyOf, portalVars
  <2>6. OpNames(h)'
    BY <2>1, <2>3 DEF OpNames
  <2> QED
    BY <2>3, <2>5, <2>6, OnlyRequestStep, RequestStep DEF OnlyRequest
<1>2. CASE SwapIndex(h)
  <2> DEFINE j == [job[h] EXCEPT !.pc = "reply", !.outcome = "ok"]
             new == IndexOf(job[h].seen, Reported)
  <2>1. j \in Job /\ j.pc \in AtRest /\ j.seen = job[h].seen
    BY <1>0 DEF Job, PC, AtRest
  <2>2. Becomes(h, j) /\ UNCHANGED <<portalVars, cacheVars>>
    BY <1>2 DEF SwapIndex
  <2>3. index' = [k \in Key |-> IF k \in DOMAIN new THEN new[k] ELSE None]
    BY <1>2 DEF SwapIndex
  <2>4. job[h].seen \in Seq(Listed) /\ \A r \in Range(job[h].seen) : Names(r.id, KeyOf(r))
    BY <1>0 DEF Job, IInv, SeenNames
  <2>6. \A k \in DOMAIN new : new[k] \in Entry /\ Names(new[k].id, k)
    BY <2>4, IndexedNames
  <2> HIDE DEF j, new
  <2>7. index' \in [Key -> Entry \cup {None}]
    BY <2>3, <2>6
  <2>8. IndexNames'
    BY <2>2, <2>3, <2>6, NewIndexNames DEF portalVars
  <2>9. TypeOK'
    BY <1>0, <2>1, <2>2, <2>7, BecomesType DEF TypeOK, portalVars, cacheVars
  <2>10. PortalStep /\ FreshIDs'
    BY <1>0, <2>2, PortalStill, IDTypes DEF portalVars
  <2> QED
    BY <1>0, <2>1, <2>2, <2>8, <2>9, <2>10, BecomesType, RestStep
<1>3. CASE ListRecordsFails(h)
  <2>1. OnlyRequest(h) /\ job'[h].pc = "reply" /\ job'[h].seen = <<>>
    BY <1>0, <1>3, RejectType DEF ListRecordsFails, OnlyRequest
  <2> QED
    BY <2>1, OnlyRequestRests DEF AtRest
<1> QED
  BY <1>1, <1>2, <1>3

\* Steps of the loop over the plan, and operations that fail without an effect
\* in the Portal, leave the request at rest.
LEMMA LoopKeepsIInv ==
  ASSUME IInv, NEW h \in Handler,
         \/ FinishApply(h) \/ StopCancelled(h) \/ SkipOp(h)
         \/ RejectInput(h) \/ CreateRefused(h) \/ UpdateMissing(h) \/ RelistFails(h)
  PROVE  IInv'
<1>0. job[h] \in Job /\ job \in [Handler -> Job]
  BY DEF IInv, TypeOK
<1>1. CASE FinishApply(h)
  <2> DEFINE j == [job[h] EXCEPT !.pc = "reply",
                                 !.outcome = IF job[h].soft THEN "soft" ELSE "ok"]
  <2>1. j \in Job /\ j.pc \in AtRest /\ j.seen = job[h].seen
    BY <1>0, ZenonT(30) DEF Job, PC, AtRest
  <2>2. Becomes(h, j) /\ UNCHANGED <<portalVars, cacheVars, index>>
    BY <1>1 DEF FinishApply
  <2> HIDE DEF j
  <2>3. OnlyRequest(h) /\ job'[h] = j
    BY <1>0, <2>1, <2>2, BecomesType DEF OnlyRequest
  <2> QED
    BY <2>1, <2>3, OnlyRequestRests
<1>2. CASE StopCancelled(h)
  <2>1. OnlyRequest(h) /\ job'[h].pc = "reply" /\ job'[h].seen = <<>>
    BY <1>0, <1>2, RejectType DEF StopCancelled, OnlyRequest
  <2> QED
    BY <2>1, OnlyRequestRests DEF AtRest
<1>3. CASE SkipOp(h)
  <2> DEFINE j == [job[h] EXCEPT !.todo = Tail(@)]
  <2>1. Tail(job[h].todo) \in Seq(Op)
    BY <1>0, <1>3 DEF Job, SkipOp
  <2>2. j \in Job /\ j.pc = "next" /\ j.seen = job[h].seen
    BY <1>0, <1>3, <2>1 DEF Job, SkipOp
  <2>3. Becomes(h, j) /\ UNCHANGED <<portalVars, cacheVars, index>>
    BY <1>3 DEF SkipOp
  <2> HIDE DEF j
  <2>4. OnlyRequest(h) /\ job'[h] = j
    BY <1>0, <2>2, <2>3, BecomesType DEF OnlyRequest
  <2> QED
    BY <2>2, <2>4, OnlyRequestRests DEF AtRest
<1>4. ASSUME NEW error, OpFails(h, error),
             UNCHANGED <<portalVars, cacheVars, index>>
      PROVE  IInv'
  <2>1. /\ OnlyRequest(h)
        /\ job'[h].pc \in {"reply", "next"} /\ job'[h].seen = <<>>
    BY <1>0, <1>4, OpFailsType DEF OnlyRequest
  <2> QED
    BY <2>1, OnlyRequestRests DEF AtRest
<1> QED
  BY <1>1, <1>2, <1>3, <1>4 DEF RejectInput, CreateRefused, UpdateMissing, RelistFails

\* Beginning an operation keeps the invariant: it holds no id yet.
LEMMA TakeOpKeepsIInv ==
  ASSUME IInv, NEW h \in Handler, TakeOp(h)
  PROVE  IInv'
<1>0. job[h] \in Job /\ job \in [Handler -> Job]
  BY DEF IInv, TypeOK
<1> DEFINE op == Head(job[h].todo)
<1>1. PICK z \in ZoneFor(h, op) :
        Becomes(h, [job[h] EXCEPT
          !.todo = Tail(@), !.op = op, !.zone = z,
          !.pc = IF op.action = "create" THEN "create" ELSE "lookup"])
  BY DEF TakeOp
<1>2. op \in Op /\ Tail(job[h].todo) \in Seq(Op)
  BY <1>0 DEF TakeOp, Job
<1>3. z \in Zone
  <2>1. Range(job[h].zones) \subseteq Zone
    BY <1>0, RangeOfSeq DEF Job
  <2> QED
    BY <1>1, <2>1 DEF ZoneFor, findZone
<1>4. op # None /\ z # None
  BY <1>2, <1>3, NoneAssumption
<1> DEFINE pc == IF op.action = "create" THEN "create" ELSE "lookup"
           j == [job[h] EXCEPT !.todo = Tail(@), !.op = op, !.zone = z, !.pc = pc]
<1>5. pc \in {"create", "lookup"} /\ (pc = "lookup" => op.action \in {"update", "delete"})
  BY <1>2 DEF Op, Action
<1> HIDE DEF op, pc
<1>6. /\ j \in Job /\ j.pc = pc /\ j.seen = job[h].seen
      /\ j.op = op /\ j.zone = z
  BY <1>0, <1>2, <1>3, <1>5 DEF Job, PC
<1>7. Becomes(h, j)
  BY <1>1 DEF pc
<1> HIDE DEF j
<1>8. OnlyRequest(h) /\ job'[h] = j
  BY <1>0, <1>6, <1>7, BecomesType DEF OnlyRequest, TakeOp
<1>9. TypeOK' /\ PortalStep /\ FreshIDs' /\ IndexNames'
  BY <1>8, OnlyRequestStep
<1>10. SeenNames(h)'
  BY <1>6, <1>8, <1>9, SeenKept DEF IInv
<1>11. OpNames(h)'
  BY <1>4, <1>5, <1>6, <1>8 DEF OpNames
<1> QED
  BY <1>8, <1>9, <1>10, <1>11, RequestStep DEF OnlyRequest

\* The key of an operation in progress is a key.
LEMMA OpKeyType ==
  ASSUME TypeOK, NEW h \in Handler, job[h].op # None
  PROVE  /\ OpKey(h) \in Key
         /\ OpKey(h) = <<job[h].op.rrset, job[h].op.target>>
         /\ job[h].op \in Op
<1>1. job[h] \in Job
  BY DEF TypeOK
<1>2. job[h].op \in Op
  BY <1>1 DEF Job
<1> QED
  BY <1>2 DEF OpKey, KeyOf, Key, Op

\* A request that goes on with an id that names its record.
LEMMA FoundIDKeepsOpNames ==
  ASSUME TypeOK, NEW h \in Handler, job[h].op # None,
         job[h].op.action \in {"update", "delete"},
         NEW id \in ID, FoundID(h, id), Names(id, OpKey(h)),
         UNCHANGED <<portal, nextID>>
  PROVE  /\ job' \in [Handler -> Job]
         /\ \A g \in Handler : g # h => job'[g] = job[g]
         /\ job'[h].seen = job[h].seen
         /\ OpNames(h)'
<1>1. job[h] \in Job
  BY DEF TypeOK
<1>2. /\ job' \in [Handler -> Job]
      /\ job'[h] = [job[h] EXCEPT !.pc = job[h].op.action, !.id = id]
      /\ \A g \in Handler : g # h => job'[g] = job[g]
  BY FoundIDType DEF TypeOK
<1>3. /\ job'[h].pc = job[h].op.action /\ job'[h].id = id
      /\ job'[h].op = job[h].op /\ job'[h].seen = job[h].seen
  BY <1>1, <1>2 DEF Job
<1>4. id # None
  BY NoneAssumption
<1>5. OpKey(h)' = OpKey(h)
  BY <1>3 DEF OpKey, KeyOf
<1>6. OpNames(h)'
  BY <1>3, <1>4, <1>5 DEF OpNames, Names
<1> QED
  BY <1>2, <1>3, <1>6

\* Looking an id up in the index, or missing it, keeps the invariant.
LEMMA LookupKeepsIInv ==
  ASSUME IInv, NEW h \in Handler, LookupHit(h) \/ LookupMiss(h) \/ HearsAgain(h)
  PROVE  IInv'
<1>0. /\ job[h] \in Job /\ job \in [Handler -> Job] /\ TypeOK /\ FreshIDs
      /\ OpNames(h) /\ SeenNames(h)
  BY DEF IInv, TypeOK
<1>1. /\ job[h].op # None /\ job[h].zone # None
      /\ job[h].op.action \in {"update", "delete"}
  BY <1>0 DEF OpNames, LookupHit, LookupMiss, HearsAgain, Relist, RelistMisread
<1>2. OpKey(h) \in Key
  BY <1>0, <1>1, OpKeyType
<1>3. UNCHANGED <<portalVars, cacheVars, index>>
  BY DEF LookupHit, LookupMiss, HearsAgain, Relist, RelistMisread, RelistsZone
<1>4. CASE LookupHit(h)
  <2> DEFINE id == index[OpKey(h)].id
  <2>1. index[OpKey(h)] # None /\ FoundID(h, id)
    BY <1>4 DEF LookupHit
  <2>2. id \in ID /\ Names(id, OpKey(h))
    BY <1>0, <1>2, <2>1, IDTypes DEF IInv, IndexNames
  <2> HIDE DEF id
  <2>3. /\ OnlyRequest(h) /\ job'[h].seen = job[h].seen /\ OpNames(h)'
    BY <1>0, <1>1, <1>3, <2>1, <2>2, FoundIDKeepsOpNames DEF OnlyRequest, portalVars
  <2>4. SeenNames(h)'
    BY <1>0, <2>3, OnlyRequestStep, SeenKept
  <2> QED
    BY <2>3, <2>4, OnlyRequestStep, RequestStep DEF OnlyRequest
<1>5. CASE LookupMiss(h)
  <2>1. OnlyRequest(h) /\ job'[h] = [job[h] EXCEPT !.pc = "relist"]
    BY <1>0, <1>3, <1>5, GotoType DEF LookupMiss, OnlyRequest, PC
  <2>2. /\ job'[h].pc = "relist" /\ job'[h].seen = job[h].seen
        /\ job'[h].op = job[h].op /\ job'[h].zone = job[h].zone
    BY <1>0, <2>1 DEF Job
  <2>3. SeenNames(h)'
    BY <1>0, <2>1, <2>2, OnlyRequestStep, SeenKept
  <2>4. OpNames(h)'
    BY <1>1, <2>2 DEF OpNames
  <2> QED
    BY <2>1, <2>3, <2>4, OnlyRequestStep, RequestStep DEF OnlyRequest
<1>6. CASE HearsAgain(h)
  <2>1. job[h].zone \in Zone
    BY <1>0, <1>1 DEF Job
  <2>2. PICK recs \in Seq(Named) : RelistsZone(h, recs)
    BY <1>0, <1>6, <2>1, ZoneRelisted
  <2> DEFINE j == [job[h] EXCEPT !.seen = recs, !.pc = "merge"]
  <2>3. /\ j \in Job /\ j.pc = "merge" /\ j.seen = recs
        /\ j.op = job[h].op /\ j.zone = job[h].zone
    <3>1. recs \in Seq(Listed)
      BY SeqMonotone DEF Named
    <3> QED
      BY <1>0, <3>1 DEF Job, PC
  <2>4. Becomes(h, j)
    BY <2>2 DEF RelistsZone
  <2>5. \A r \in Range(recs) : Names(r.id, KeyOf(r))
    BY RangeOfSeq DEF Named
  <2> HIDE DEF j
  <2>6. OnlyRequest(h) /\ job'[h] = j
    BY <1>0, <1>3, <2>3, <2>4, BecomesType DEF OnlyRequest
  <2>7. SeenNames(h)'
    BY <1>3, <2>3, <2>5, <2>6 DEF SeenNames, Names, KeyOf, portalVars
  <2>8. OpNames(h)'
    BY <1>1, <2>3, <2>6 DEF OpNames
  <2> QED
    BY <2>6, <2>7, <2>8, OnlyRequestStep, RequestStep DEF OnlyRequest
<1> QED
  BY <1>4, <1>5, <1>6

\* Merging a fresh listing into the index keeps the invariant, whatever other
\* requests did to the index since the listing was taken.
LEMMA MergeKeepsIInv ==
  ASSUME IInv, NEW h \in Handler, MergeListing(h)
  PROVE  IInv'
<1>0. /\ job[h] \in Job /\ job \in [Handler -> Job] /\ TypeOK /\ FreshIDs
      /\ OpNames(h) /\ SeenNames(h) /\ IndexNames
  BY DEF IInv, TypeOK
<1>1. /\ job[h].op # None /\ job[h].zone # None
      /\ job[h].op.action \in {"update", "delete"}
  BY <1>0 DEF OpNames, MergeListing
<1>2. OpKey(h) \in Key
  BY <1>0, <1>1, OpKeyType
<1>3. UNCHANGED <<portalVars, cacheVars>>
  BY DEF MergeListing
<1> DEFINE new == IndexOf(job[h].seen, Supported)
<1>4. index' = [k \in Key |->
                  IF k \in DOMAIN new THEN new[k]
                  ELSE IF index[k] # None /\ index[k].zone = job[h].zone THEN None
                  ELSE index[k]]
  BY DEF MergeListing
<1>5. job[h].seen \in Seq(Listed) /\ \A r \in Range(job[h].seen) : Names(r.id, KeyOf(r))
  BY <1>0 DEF Job, SeenNames
<1>7. \A k \in DOMAIN new : new[k] \in Entry /\ Names(new[k].id, k)
  BY <1>5, IndexedNames
<1> HIDE DEF new
<1>8. index' \in [Key -> Entry \cup {None}]
  BY <1>0, <1>4, <1>7 DEF TypeOK
<1>9. \A k \in Key : index'[k] # None => Names(index'[k].id, k)
  BY <1>0, <1>4, <1>7 DEF IndexNames
<1>10. IndexNames'
  BY <1>3, <1>9, NewIndexNames DEF portalVars
<1>11. PortalStep /\ FreshIDs'
  BY <1>0, <1>3, PortalStill, IDTypes DEF portalVars
<1>12. ASSUME job' \in [Handler -> Job] PROVE TypeOK'
  BY <1>0, <1>3, <1>8, <1>12 DEF TypeOK, portalVars, cacheVars
<1>13. CASE index'[OpKey(h)] # None
  <2> DEFINE id == index'[OpKey(h)].id
  <2>1. id \in ID /\ Names(id, OpKey(h))
    BY <1>2, <1>8, <1>9, <1>13 DEF Entry
  <2>2. FoundID(h, id)
    BY <1>13 DEF MergeListing
  <2> HIDE DEF id
  <2>3. /\ job' \in [Handler -> Job]
        /\ \A g \in Handler : g # h => job'[g] = job[g]
        /\ job'[h].seen = job[h].seen /\ OpNames(h)'
    BY <1>0, <1>1, <1>3, <2>1, <2>2, FoundIDKeepsOpNames DEF portalVars
  <2>4. SeenNames(h)'
    BY <1>0, <1>11, <1>12, <2>3, SeenKept
  <2> QED
    BY <1>10, <1>11, <1>12, <2>3, <2>4, RequestStep
<1>14. CASE index'[OpKey(h)] = None /\ job[h].op.action = "delete"
  <2>1. EndOp(h, job[h].soft) /\ job[h].soft \in BOOLEAN
    BY <1>0, <1>14 DEF MergeListing, Job
  <2>2. /\ job' \in [Handler -> Job] /\ job'[h].pc = "next" /\ job'[h].seen = <<>>
        /\ \A g \in Handler : g # h => job'[g] = job[g]
    BY <1>0, <2>1, EndOpType
  <2> QED
    BY <1>10, <1>11, <1>12, <2>2, RestStep DEF AtRest
<1>15. CASE index'[OpKey(h)] = None /\ job[h].op.action # "delete"
  <2>1. Goto(h, "create")
    BY <1>15 DEF MergeListing
  <2>2. /\ job' \in [Handler -> Job]
        /\ job'[h] = [job[h] EXCEPT !.pc = "create"]
        /\ \A g \in Handler : g # h => job'[g] = job[g]
    BY <1>0, <2>1, GotoType DEF PC
  <2>3. /\ job'[h].pc = "create" /\ job'[h].seen = job[h].seen
        /\ job'[h].op = job[h].op /\ job'[h].zone = job[h].zone
    BY <1>0, <2>2 DEF Job
  <2>4. SeenNames(h)'
    BY <1>0, <1>11, <1>12, <2>2, <2>3, SeenKept
  <2>5. OpNames(h)'
    BY <1>1, <2>3 DEF OpNames
  <2> QED
    BY <1>10, <1>11, <1>12, <2>2, <2>4, <2>5, RequestStep
<1> QED
  BY <1>13, <1>14, <1>15

\* A change of the Portal by a request that then comes to rest.
LEMMA PortalRestStep ==
  ASSUME IInv, NEW h \in Handler, PortalStep, FreshIDs',
         portal' \in [ID -> Record \cup {None}], nextID' \in 1 .. MaxID + 1,
         UNCHANGED <<portalZones, cacheVars, index>>, job' \in [Handler -> Job],
         \A g \in Handler : g # h => job'[g] = job[g],
         job'[h].pc \in AtRest, job'[h].seen \in {job[h].seen, <<>>}
  PROVE  IInv'
<1>1. TypeOK'
  BY DEF IInv, TypeOK, cacheVars
<1>2. IndexNames'
  BY <1>1, IndexKept DEF IInv
<1> QED
  BY <1>1, <1>2, RestStep

\* Creating a record, with or without an answer, keeps the invariant.
LEMMA CreateKeepsIInv ==
  ASSUME IInv, NEW h \in Handler, CreateRecord(h) \/ CreateRecordFails(h)
  PROVE  IInv'
<1>0. /\ job[h] \in Job /\ job \in [Handler -> Job] /\ TypeOK /\ FreshIDs
      /\ OpNames(h) /\ SeenNames(h)
  BY DEF IInv, TypeOK
<1>1. job[h].op # None /\ job[h].zone # None
  BY <1>0 DEF OpNames, CreateRecord, CreateRecordFails
<1>2. /\ OpKey(h) = <<job[h].op.rrset, job[h].op.target>>
      /\ job[h].op.rrset \in RRset /\ job[h].op.target \in Target
      /\ job[h].op.ttl \in TTL
  BY <1>0, <1>1, OpKeyType DEF Op
<1>3. ASSUME Insert(job[h].op.rrset, job[h].op.target, job[h].op.ttl)
      PROVE  /\ PortalStep /\ FreshIDs' /\ nextID \in ID /\ nextID' = nextID + 1
             /\ KeyOf(portal'[nextID]) = OpKey(h)
             /\ portal' \in [ID -> Record \cup {None}]
             /\ nextID' \in 1 .. MaxID + 1
  BY <1>0, <1>2, <1>3, InsertType, PortalInsert
<1>4. CASE CreateRecord(h)
  <2> DEFINE j == [job[h] EXCEPT !.pc = "setIndex", !.id = nextID]
  <2>1. Insert(job[h].op.rrset, job[h].op.target, job[h].op.ttl) /\ Becomes(h, j)
        /\ UNCHANGED <<portalZones, cacheVars, index>>
    BY <1>4 DEF CreateRecord
  <2>2. /\ j \in Job /\ j.pc = "setIndex" /\ j.seen = job[h].seen
        /\ j.op = job[h].op /\ j.zone = job[h].zone /\ j.id = nextID
    BY <1>0, <1>3, <2>1 DEF Job, PC
  <2> HIDE DEF j
  <2>3. /\ job' \in [Handler -> Job] /\ job'[h] = j
        /\ \A g \in Handler : g # h => job'[g] = job[g]
    BY <1>0, <2>1, <2>2, BecomesType
  <2>4. TypeOK'
    BY <1>0, <1>3, <2>1, <2>3 DEF TypeOK, cacheVars
  <2>5. IndexNames'
    BY <1>0, <1>3, <2>1, <2>4, IndexKept DEF IInv
  <2>6. SeenNames(h)'
    BY <1>0, <1>3, <2>1, <2>2, <2>3, <2>4, SeenKept
  <2>7. OpKey(h)' = OpKey(h)
    BY <2>2, <2>3 DEF OpKey, KeyOf
  <2>8. nextID # None /\ nextID < nextID'
    BY <1>3, <2>1, NoneAssumption DEF ID
  <2>9. OpNames(h)'
    BY <1>1, <1>3, <2>1, <2>2, <2>3, <2>7, <2>8 DEF OpNames, Names
  <2> QED
    BY <1>3, <2>1, <2>3, <2>4, <2>5, <2>6, <2>9, RequestStep
<1>5. CASE CreateRecordFails(h)
  <2>1. PICK f \in Faults(h) :
          /\ OpFails(h, f.error)
          /\ IF f.effect THEN Insert(job[h].op.rrset, job[h].op.target, job[h].op.ttl)
             ELSE UNCHANGED <<portal, nextID>>
    BY <1>5 DEF CreateRecordFails
  <2>2. /\ job' \in [Handler -> Job]
        /\ job'[h].pc \in AtRest /\ job'[h].seen = <<>>
        /\ \A g \in Handler : g # h => job'[g] = job[g]
    BY <1>0, <2>1, OpFailsType DEF AtRest
  <2>3. PortalStep /\ FreshIDs' /\ portal' \in [ID -> Record \cup {None}]
        /\ nextID' \in 1 .. MaxID + 1
    <3>1. CASE UNCHANGED <<portal, nextID>>
      BY <1>0, <3>1, PortalStill, IDTypes DEF TypeOK
    <3> QED
      BY <1>3, <2>1, <3>1
  <2>4. UNCHANGED <<portalZones, cacheVars, index>>
    BY <1>5 DEF CreateRecordFails
  <2> QED
    BY <2>2, <2>3, <2>4, PortalRestStep
<1> QED
  BY <1>4, <1>5

\* Patching a record, with or without an answer, keeps the invariant.
LEMMA UpdateKeepsIInv ==
  ASSUME IInv, NEW h \in Handler, UpdateRecord(h) \/ UpdateRecordFails(h)
  PROVE  IInv'
<1>0. /\ job[h] \in Job /\ job \in [Handler -> Job] /\ TypeOK /\ FreshIDs
      /\ OpNames(h) /\ SeenNames(h)
  BY DEF IInv, TypeOK
<1>1. /\ job[h].op # None /\ job[h].id # None /\ Names(job[h].id, OpKey(h))
  BY <1>0 DEF OpNames, UpdateRecord, UpdateRecordFails
<1>2. /\ OpKey(h) = <<job[h].op.rrset, job[h].op.target>>
      /\ job[h].op.rrset \in RRset /\ job[h].op.target \in Target
      /\ job[h].op.ttl \in TTL /\ job[h].id \in ID
  BY <1>0, <1>1, OpKeyType, IDTypes DEF Op
<1>3. nextID' = nextID /\ nextID \in 1 .. MaxID + 1
  BY <1>0 DEF TypeOK, UpdateRecord, UpdateRecordFails
<1>4. ASSUME portal[job[h].id] # None,
             Patch(job[h].id, job[h].op.target, job[h].op.ttl)
      PROVE  PortalStep /\ FreshIDs' /\ portal' \in [ID -> Record \cup {None}]
  BY <1>0, <1>1, <1>2, <1>3, <1>4, PatchType, PortalPatch
<1>5. UNCHANGED <<portalZones, cacheVars, index>>
  BY DEF UpdateRecord, UpdateRecordFails
<1>6. CASE UpdateRecord(h)
  <2>1. EndOp(h, job[h].soft) /\ job[h].soft \in BOOLEAN
    BY <1>0, <1>6 DEF UpdateRecord, Job
  <2>2. /\ job' \in [Handler -> Job] /\ job'[h].pc = "next" /\ job'[h].seen = <<>>
        /\ \A g \in Handler : g # h => job'[g] = job[g]
    BY <1>0, <2>1, EndOpType
  <2>3. PortalStep /\ FreshIDs' /\ portal' \in [ID -> Record \cup {None}]
    BY <1>4, <1>6 DEF UpdateRecord
  <2> QED
    BY <1>3, <1>5, <2>2, <2>3, PortalRestStep DEF AtRest
<1>7. CASE UpdateRecordFails(h)
  <2>1. PICK f \in Faults(h) :
          /\ OpFails(h, f.error)
          /\ IF f.effect /\ portal[job[h].id] # None
             THEN Patch(job[h].id, job[h].op.target, job[h].op.ttl)
             ELSE UNCHANGED portal
    BY <1>7 DEF UpdateRecordFails
  <2>2. /\ job' \in [Handler -> Job]
        /\ job'[h].pc \in AtRest /\ job'[h].seen = <<>>
        /\ \A g \in Handler : g # h => job'[g] = job[g]
    BY <1>0, <2>1, OpFailsType DEF AtRest
  <2>3. PortalStep /\ FreshIDs' /\ portal' \in [ID -> Record \cup {None}]
    <3>1. CASE UNCHANGED portal
      BY <1>0, <1>3, <3>1, PortalStill, IDTypes DEF TypeOK
    <3> QED
      BY <1>4, <2>1, <3>1
  <2> QED
    BY <1>3, <1>5, <2>2, <2>3, PortalRestStep
<1> QED
  BY <1>6, <1>7

\* Deleting a record, with or without an answer, keeps the invariant.
LEMMA DeleteKeepsIInv ==
  ASSUME IInv, NEW h \in Handler, DeleteRecord(h) \/ DeleteRecordFails(h)
  PROVE  IInv'
<1>0. /\ job[h] \in Job /\ job \in [Handler -> Job] /\ TypeOK /\ FreshIDs
      /\ OpNames(h) /\ SeenNames(h)
  BY DEF IInv, TypeOK
<1>1. /\ job[h].op # None /\ job[h].id # None /\ Names(job[h].id, OpKey(h))
      /\ job[h].id \in ID
  BY <1>0, IDTypes DEF OpNames, DeleteRecord, DeleteRecordFails
<1>2. nextID' = nextID /\ nextID' \in 1 .. MaxID + 1
  BY <1>0 DEF TypeOK, DeleteRecord, DeleteRecordFails
<1>3. UNCHANGED <<portalZones, cacheVars, index>>
  BY DEF DeleteRecord, DeleteRecordFails
<1>4. ASSUME portal' = [portal EXCEPT ![job[h].id] = None]
      PROVE  PortalStep /\ FreshIDs' /\ portal' \in [ID -> Record \cup {None}]
  BY <1>0, <1>1, <1>2, <1>4, PortalRemove
<1>5. CASE DeleteRecord(h)
  <2>1. portal' = [portal EXCEPT ![job[h].id] = None] /\ Goto(h, "dropIndex")
    BY <1>5 DEF DeleteRecord
  <2>2. /\ job' \in [Handler -> Job]
        /\ job'[h] = [job[h] EXCEPT !.pc = "dropIndex"]
        /\ \A g \in Handler : g # h => job'[g] = job[g]
    BY <1>0, <2>1, GotoType DEF PC
  <2>3. /\ job'[h].pc = "dropIndex" /\ job'[h].seen = job[h].seen
        /\ job'[h].op = job[h].op /\ job'[h].id = job[h].id
    BY <1>0, <2>2 DEF Job
  <2>4. PortalStep /\ FreshIDs' /\ TypeOK'
    BY <1>0, <1>2, <1>3, <1>4, <2>1, <2>2 DEF TypeOK, cacheVars
  <2>5. IndexNames'
    BY <1>3, <2>4, IndexKept DEF IInv
  <2>6. SeenNames(h)'
    BY <1>0, <2>3, <2>4, SeenKept
  <2>7. OpKey(h)' = OpKey(h)
    BY <2>3 DEF OpKey, KeyOf
  <2>8. portal'[job[h].id] = None /\ job[h].id < nextID'
    BY <1>0, <1>1, <1>2, <2>1 DEF TypeOK, Names, DeleteRecord
  <2>9. OpNames(h)'
    BY <1>1, <2>3, <2>7, <2>8 DEF OpNames, Names
  <2> QED
    BY <2>2, <2>4, <2>5, <2>6, <2>9, RequestStep
<1>6. CASE DeleteRecordFails(h)
  <2>1. PICK f \in Faults(h) :
          /\ OpFails(h, f.error)
          /\ portal' = IF f.effect THEN [portal EXCEPT ![job[h].id] = None] ELSE portal
    BY <1>6 DEF DeleteRecordFails
  <2>2. /\ job' \in [Handler -> Job]
        /\ job'[h].pc \in AtRest /\ job'[h].seen = <<>>
        /\ \A g \in Handler : g # h => job'[g] = job[g]
    BY <1>0, <2>1, OpFailsType DEF AtRest
  <2>3. PortalStep /\ FreshIDs' /\ portal' \in [ID -> Record \cup {None}]
    <3>1. CASE UNCHANGED portal
      BY <1>0, <1>2, <1>6, <3>1, PortalStill, IDTypes DEF TypeOK, DeleteRecordFails
    <3> QED
      BY <1>4, <2>1, <3>1
  <2> QED
    BY <1>2, <1>3, <2>2, <2>3, PortalRestStep
<1> QED
  BY <1>5, <1>6

\* Entering a created record into the index, or dropping a deleted one from it,
\* keeps the invariant.
LEMMA IndexWriteKeepsIInv ==
  ASSUME IInv, NEW h \in Handler, SetIndex(h) \/ DropIndex(h)
  PROVE  IInv'
<1>0. /\ job[h] \in Job /\ job \in [Handler -> Job] /\ TypeOK /\ FreshIDs
      /\ OpNames(h) /\ IndexNames
  BY DEF IInv, TypeOK
<1>1. /\ job[h].op # None /\ job[h].id # None /\ Names(job[h].id, OpKey(h))
      /\ job[h].pc = "setIndex" => job[h].zone # None
  BY <1>0 DEF OpNames, SetIndex, DropIndex
<1>2. OpKey(h) \in Key /\ job[h].id \in ID
  BY <1>0, <1>1, OpKeyType, IDTypes
<1>3. UNCHANGED <<portalVars, cacheVars>> /\ EndOp(h, job[h].soft) /\ job[h].soft \in BOOLEAN
  BY <1>0 DEF SetIndex, DropIndex, Job
<1>4. /\ job' \in [Handler -> Job] /\ job'[h].pc = "next" /\ job'[h].seen = <<>>
      /\ \A g \in Handler : g # h => job'[g] = job[g]
  BY <1>0, <1>3, EndOpType
<1>5. PortalStep /\ FreshIDs'
  BY <1>0, <1>3, PortalStill, IDTypes DEF portalVars
<1>6. /\ index' \in [Key -> Entry \cup {None}]
      /\ \A k \in Key : index'[k] # None => Names(index'[k].id, k)
  <2>1. CASE SetIndex(h)
    <3> DEFINE e == [id |-> job[h].id, zone |-> job[h].zone]
    <3>1. e \in Entry /\ e.id = job[h].id
      BY <1>0, <1>1, <1>2, <2>1 DEF SetIndex, Entry, Job
    <3>2. index' = [index EXCEPT ![OpKey(h)] = e]
      BY <2>1 DEF SetIndex
    <3> HIDE DEF e
    <3> QED
      BY <1>0, <1>1, <1>2, <3>1, <3>2 DEF TypeOK, IndexNames
  <2>2. CASE DropIndex(h)
    BY <1>0, <1>2, <2>2 DEF DropIndex, TypeOK, IndexNames
  <2> QED
    BY <2>1, <2>2
<1>7. IndexNames'
  BY <1>3, <1>6, NewIndexNames DEF portalVars
<1>8. TypeOK'
  BY <1>0, <1>3, <1>4, <1>6 DEF TypeOK, portalVars, cacheVars
<1> QED
  BY <1>4, <1>5, <1>7, <1>8, RestStep DEF AtRest

\* A change of the Portal that no request takes part in.
LEMMA PortalOnlyStep ==
  ASSUME IInv, PortalStep, FreshIDs', TypeOK', UNCHANGED <<index, job>>
  PROVE  IInv'
<1>1. IndexNames'
  BY IndexKept DEF IInv
<1>2. ASSUME NEW g \in Handler PROVE SeenNames(g)' /\ OpNames(g)'
  BY OthersKept DEF IInv
<1> QED
  BY <1>1, <1>2 DEF IInv

\* Operators, the passing of time and a restart keep the invariant.
LEMMA SurroundingsKeepIInv ==
  ASSUME IInv, Operator \/ DropZones \/ Restart \/ UNCHANGED vars
  PROVE  IInv'
<1>0. TypeOK /\ FreshIDs /\ nextID \in Nat
  BY IDTypes DEF IInv
<1>1. ASSUME NEW r \in RRset, NEW t \in Target, NEW ttl \in TTL,
             OperatorCreates(r, t, ttl)
      PROVE  IInv'
  <2>1. PortalStep /\ FreshIDs' /\ TypeOK'
    BY <1>0, <1>1, PortalInsert, InsertType DEF OperatorCreates, TypeOK, cacheVars
  <2> QED
    BY <1>1, <2>1, PortalOnlyStep DEF OperatorCreates
<1>2. ASSUME NEW id \in ID, OperatorDeletes(id) PROVE IInv'
  <2>1. PortalStep /\ FreshIDs' /\ TypeOK'
    BY <1>0, <1>2, PortalRemove DEF OperatorDeletes, TypeOK, cacheVars
  <2> QED
    BY <1>2, <2>1, PortalOnlyStep DEF OperatorDeletes
<1>3. ASSUME NEW z \in Zone, OperatorAddsZone(z) PROVE IInv'
  <2>1. PortalStep /\ FreshIDs' /\ TypeOK'
    BY <1>0, <1>3, PortalStill DEF OperatorAddsZone, TypeOK, cacheVars
  <2> QED
    BY <1>3, <2>1, PortalOnlyStep DEF OperatorAddsZone
<1>4. ASSUME NEW z \in Zone, OperatorRemovesZone(z) PROVE IInv'
  <2>1. portal' \in [ID -> Record \cup {None}]
    BY <1>0, <1>4 DEF OperatorRemovesZone, TypeOK
  <2>2. TypeOK'
    BY <1>0, <1>4, <2>1 DEF OperatorRemovesZone, TypeOK, cacheVars
  <2>3. PortalStep /\ FreshIDs'
    BY <1>0, <1>4 DEF OperatorRemovesZone, PortalStep, FreshIDs, TypeOK
  <2> QED
    BY <1>4, <2>2, <2>3, PortalOnlyStep DEF OperatorRemovesZone
<1>5. CASE DropZones
  <2>1. PortalStep /\ FreshIDs' /\ TypeOK'
    BY <1>0, <1>5, PortalStill DEF DropZones, TypeOK, portalVars
  <2> QED
    BY <1>5, <2>1, PortalOnlyStep DEF DropZones
<1>6. CASE Restart
  <2>1. PortalStep /\ FreshIDs'
    BY <1>0, <1>6, PortalStill DEF Restart, portalVars
  <2>2. TypeOK'
    BY <1>0, <1>6, IdleJobType, EmptyLists DEF Restart, TypeOK, portalVars
  <2>3. IndexNames'
    BY <1>6 DEF Restart, IndexNames
  <2>4. ASSUME NEW g \in Handler PROVE SeenNames(g)' /\ OpNames(g)'
    BY <1>6, NoRange DEF Restart, SeenNames, OpNames, IdleJob
  <2> QED
    BY <2>1, <2>2, <2>3, <2>4 DEF IInv
<1>7. CASE UNCHANGED vars
  <2>1. PortalStep /\ FreshIDs' /\ TypeOK'
    BY <1>0, <1>7, PortalStill DEF vars, TypeOK
  <2> QED
    BY <1>7, <2>1, PortalOnlyStep DEF vars
<1> QED
  BY <1>1, <1>2, <1>3, <1>4, <1>5, <1>6, <1>7 DEF Operator

-----------------------------------------------------------------------------
(* The theorems.                                                           *)

\* Nothing is known of any record when the provider starts.
LEMMA InitIInv == Init => IInv
<1> SUFFICES ASSUME Init PROVE IInv
  OBVIOUS
<1>1. TypeOK
  BY InitTypeOK
<1>2. FreshIDs
  BY DEF Init, FreshIDs
<1>3. IndexNames
  BY DEF Init, IndexNames
<1>4. ASSUME NEW h \in Handler PROVE SeenNames(h) /\ OpNames(h)
  BY NoRange DEF Init, SeenNames, OpNames, IdleJob
<1> QED
  BY <1>1, <1>2, <1>3, <1>4 DEF IInv

\* Every step of the system keeps the inductive invariant.
LEMMA NextIInv == IInv /\ [Next]_vars => IInv'
<1> SUFFICES ASSUME IInv, [Next]_vars PROVE IInv'
  OBVIOUS
<1>1. ASSUME NEW h \in Handler, Request(h) PROVE IInv'
  BY <1>1, RequestKeepsIInv
<1>2. ASSUME NEW h \in Handler, HandlerStep(h) PROVE IInv'
  <2>1. CASE CachedZones(h) \/ ListZones(h)
    BY <2>1, ZonesKeepIInv DEF GetsZones
  <2>2. CASE RecordsStep(h)
    BY <2>2, RecordsKeepIInv DEF RecordsStep, HearsZone
  <2>3. CASE ApplyStep(h)
    BY <2>3, LoopKeepsIInv, TakeOpKeepsIInv, LookupKeepsIInv, MergeKeepsIInv,
       CreateKeepsIInv, UpdateKeepsIInv, DeleteKeepsIInv, IndexWriteKeepsIInv
       DEF ApplyStep, HearsAgain
  <2> QED
    BY <1>2, <2>1, <2>2, <2>3 DEF HandlerStep
<1>3. ASSUME NEW h \in Handler, FaultStep(h) PROVE IInv'
  BY <1>3, ZonesKeepIInv, RecordsKeepIInv, LoopKeepsIInv, CreateKeepsIInv,
     UpdateKeepsIInv, DeleteKeepsIInv DEF FaultStep
<1>4. ASSUME NEW h \in Handler, MisreadStep(h) PROVE IInv'
  BY <1>4, ZonesKeepIInv, RecordsKeepIInv, LookupKeepsIInv
     DEF MisreadStep, GetsZones, HearsZone, HearsAgain
<1>5. CASE Operator \/ DropZones \/ Restart \/ UNCHANGED vars
  BY <1>5, SurroundingsKeepIInv
<1> QED
  BY <1>1, <1>2, <1>3, <1>4, <1>5 DEF Next, ProviderNext

\* However many requests overlap, every id the provider holds in its index, in
\* a listing or in an operation names the record it is held for, and all state
\* is well typed.
THEOREM Invariance == Spec => []IInv
<1>1. Init => IInv
  BY InitIInv
<1>2. IInv /\ [Next]_vars => IInv'
  BY NextIInv
<1> QED
  BY <1>1, <1>2, PTL DEF Spec

\* The type invariant of the provider, its requests and the Portal.
THEOREM TypeCorrect == Spec => []TypeOK
<1>1. IInv => TypeOK
  BY DEF IInv
<1> QED
  BY <1>1, Invariance, PTL

\* The record index never leads to a live record with another name, type or
\* target (Provider.index).
THEOREM IndexIsSound == Spec => []IndexSound
<1>1. IInv => IndexSound
  BY DEF IInv, IndexNames, IndexSound, Names
<1> QED
  BY <1>1, Invariance, PTL

-----------------------------------------------------------------------------
(* What a step may do to the records of the Portal.                        *)

\* A step that leaves the Portal's records alone touches none of them.
LEMMA NothingTouched ==
  ASSUME portal' = portal
  PROVE  PlannedWrite
  BY DEF PlannedWrite, Touched

\* A new record takes an id that no live record has.
LEMMA InsertTouchesNothing ==
  ASSUME IInv, NEW r \in RRset, NEW t \in Target, NEW ttl \in TTL, Insert(r, t, ttl)
  PROVE  PlannedWrite
<1>1. \A i \in ID : i # nextID => portal'[i] = portal[i]
  BY DEF Insert, IInv, TypeOK
<1>2. nextID \in ID => portal[nextID] = None
  BY DEF IInv, FreshIDs, ID
<1>3. Touched = {}
  BY <1>1, <1>2 DEF Touched, Live
<1> QED
  BY <1>3 DEF PlannedWrite

\* A request that changes the record it holds the id of changes nothing else.
LEMMA OwnRecordTouched ==
  ASSUME IInv, NEW h \in Handler, job[h].pc \in {"update", "delete"},
         job'[h].pc # job[h].pc,
         \A i \in ID : i # job[h].id => portal'[i] = portal[i]
  PROVE  PlannedWrite
<1>1. OpNames(h)
  BY DEF IInv
<1>2. job[h].op.action = job[h].pc /\ Names(job[h].id, OpKey(h))
  BY <1>1 DEF OpNames
<1>3. ASSUME NEW i \in Touched PROVE KeyOf(portal[i]) = OpKey(h)
  <2>1. i = job[h].id /\ portal[i] # None
    BY DEF Touched, Live
  <2> QED
    BY <1>2, <2>1 DEF Names
<1> QED
  BY <1>2, <1>3 DEF PlannedWrite

\* Every step of the system is a planned write or none.
LEMMA NextPlanned == IInv /\ Next => PlannedWrite
<1> SUFFICES ASSUME IInv, Next PROVE PlannedWrite
  OBVIOUS
<1>0. /\ job \in [Handler -> Job] /\ portal \in [ID -> Record \cup {None}]
      /\ TypeOK
  BY DEF IInv, TypeOK
<1>1. ASSUME NEW h \in Handler, Request(h) PROVE PlannedWrite
  BY <1>1, NothingTouched
     DEF Request, StartRecords, StartApply, Cancel, Respond, portalVars
<1>2. ASSUME NEW h \in Handler,
             CachedZones(h) \/ ListZones(h) \/ RecordsStep(h) \/ MisreadStep(h)
      PROVE  PlannedWrite
  BY <1>2, NothingTouched
     DEF CachedZones, ListZones, StoreZones, RecordsStep, ListRecords, Hears, SwapIndex,
         MisreadStep, ListZonesMisread, ListRecordsMisread, RelistMisread, RelistsZone,
         portalVars
<1>3. ASSUME NEW h \in Handler,
             \/ FinishApply(h) \/ StopCancelled(h) \/ SkipOp(h) \/ TakeOp(h)
             \/ LookupHit(h) \/ LookupMiss(h) \/ Relist(h) \/ MergeListing(h)
             \/ RejectInput(h) \/ CreateRefused(h) \/ SetIndex(h)
             \/ UpdateMissing(h) \/ DropIndex(h)
      PROVE  PlannedWrite
  BY <1>3, NothingTouched
     DEF FinishApply, StopCancelled, SkipOp, TakeOp, LookupHit, LookupMiss, Relist,
         RelistsZone, MergeListing, RejectInput, CreateRefused, SetIndex, UpdateMissing,
         DropIndex, portalVars
<1>4. ASSUME NEW h \in Handler, CreateRecord(h) \/ CreateRecordFails(h)
      PROVE  PlannedWrite
  <2>1. job[h].op # None
    BY <1>4 DEF IInv, OpNames, CreateRecord, CreateRecordFails
  <2>2. /\ job[h].op.rrset \in RRset /\ job[h].op.target \in Target
        /\ job[h].op.ttl \in TTL
    BY <1>0, <2>1, OpKeyType DEF Op
  <2>3. \/ Insert(job[h].op.rrset, job[h].op.target, job[h].op.ttl)
        \/ portal' = portal
    BY <1>4 DEF CreateRecord, CreateRecordFails
  <2> QED
    BY <2>2, <2>3, InsertTouchesNothing, NothingTouched
<1>5. ASSUME NEW h \in Handler, UpdateRecord(h) \/ UpdateRecordFails(h)
      PROVE  PlannedWrite
  <2>1. job[h].pc = "update" /\ job[h].soft \in BOOLEAN
    BY <1>0, <1>5 DEF UpdateRecord, UpdateRecordFails, Job
  <2>2. job'[h].pc \in {"next", "reply"}
    BY <1>0, <1>5, <2>1, EndOpType, OpFailsType DEF UpdateRecord, UpdateRecordFails
  <2>3. \A i \in ID : i # job[h].id => portal'[i] = portal[i]
    BY <1>0, <1>5 DEF UpdateRecord, UpdateRecordFails, Patch
  <2> QED
    BY <2>1, <2>2, <2>3, OwnRecordTouched
<1>6. ASSUME NEW h \in Handler, DeleteRecord(h) \/ DeleteRecordFails(h)
      PROVE  PlannedWrite
  <2>1. job[h].pc = "delete"
    BY <1>6 DEF DeleteRecord, DeleteRecordFails
  <2>2. job'[h].pc # "delete"
    <3>1. CASE DeleteRecord(h)
      <4>1. job'[h] = [job[h] EXCEPT !.pc = "dropIndex"]
        BY <1>0, <3>1, GotoType DEF DeleteRecord, PC
      <4> QED
        BY <1>0, <4>1 DEF Job
    <3>2. CASE DeleteRecordFails(h)
      BY <1>0, <3>2, OpFailsType DEF DeleteRecordFails
    <3> QED
      BY <1>6, <3>1, <3>2
  <2>3. \A i \in ID : i # job[h].id => portal'[i] = portal[i]
    BY <1>0, <1>6 DEF DeleteRecord, DeleteRecordFails
  <2> QED
    BY <2>1, <2>2, <2>3, OwnRecordTouched
<1>7. ASSUME NEW h \in Handler,
             ListZonesFails(h) \/ ListRecordsFails(h) \/ RelistFails(h)
      PROVE  PlannedWrite
  BY <1>7, NothingTouched
     DEF ListZonesFails, ListRecordsFails, RelistFails, portalVars
<1>8. CASE Operator
  BY <1>8 DEF Operator, OperatorCreates, OperatorDeletes, OperatorAddsZone,
              OperatorRemovesZone, PlannedWrite
<1>9. CASE DropZones \/ Restart
  BY <1>9, NothingTouched DEF DropZones, Restart, portalVars
<1> QED
  BY <1>1, <1>2, <1>3, <1>4, <1>5, <1>6, <1>7, <1>8, <1>9
     DEF Next, ProviderNext, HandlerStep, ApplyStep, FaultStep

\* However requests overlap, restarts and operators included, a request updates
\* or deletes only records that have the name, type and target of the operation
\* it is executing (applyUpdate, applyDelete).
THEOREM OnlyPlannedWrites == Spec => PlannedWritesOnly
<1>1. IInv /\ [Next]_vars => [PlannedWrite]_vars
  BY NextPlanned
<1> QED
  BY <1>1, Invariance, PTL DEF Spec, PlannedWritesOnly

-----------------------------------------------------------------------------
(*                                                                         *)
(* Provider implements PlanStore.                                          *)
(*                                                                         *)
-----------------------------------------------------------------------------
(* Plans are sequences taken apart from the front.                         *)

\* Taking the first operation back gives the plan it was taken from.
LEMMA HeadAndTail ==
  ASSUME NEW S, NEW s \in Seq(S), s # <<>>
  PROVE  Head(s) \in S /\ Tail(s) \in Seq(S) /\ <<Head(s)>> \o Tail(s) = s
  OBVIOUS

\* The first operation and the others.
LEMMA FirstAndRest ==
  ASSUME NEW S, NEW a \in S, NEW t \in Seq(S)
  PROVE  <<a>> \o t # <<>> /\ Head(<<a>> \o t) = a /\ Tail(<<a>> \o t) = t
  OBVIOUS

-----------------------------------------------------------------------------
(* What the mapping needs beyond IInv: a request between two operations    *)
(* has none in progress.                                                   *)

BetweenOps == {"idle", "recordsZones", "list", "applyZones", "next", "reply"}

Disciplined(h) ==
  /\ job[h].pc \in BetweenOps => job[h].op = None
  /\ job[h].pc = "idle" => job[h].todo = <<>>
  /\ job[h].pc = "create" => job[h].op.action \in {"create", "update"}

RInv == IInv /\ \A h \in Handler : Disciplined(h)

\* The parts of a request, and the plan of one with an operation in progress.
LEMMA JobParts ==
  ASSUME RInv, NEW h \in Handler
  PROVE  /\ job \in [Handler -> Job] /\ job[h] \in Job
         /\ job[h].op \in Op \cup {None} /\ job[h].todo \in Seq(Op) /\ job[h].soft \in BOOLEAN
         /\ job[h].pc \in PC
         /\ Disciplined(h) /\ OpNames(h)
  BY DEF RInv, IInv, TypeOK, Job

LEMMA InProgress ==
  ASSUME RInv, NEW h \in Handler, job[h].op # None, job[h].pc \notin {"setIndex", "dropIndex"}
  PROVE  /\ job[h].op \in Op /\ job[h].todo \in Seq(Op)
         /\ Unfinished(h) = <<job[h].op>> \o job[h].todo
  BY JobParts DEF Unfinished

-----------------------------------------------------------------------------
(* What a step of one request may do to its plan.                          *)

Rests(h) ==
  /\ Disciplined(h)'
  /\ \A g \in Handler : g # h => job'[g] = job[g]

Keeps(h) == Unfinished(h)' = Unfinished(h) /\ UNCHANGED <<portal, nextID>>
Drops(h) == Unfinished(h)' = <<>> /\ UNCHANGED <<portal, nextID>>
Accepts(h) ==
  /\ Unfinished(h) = <<>> /\ Unfinished(h)' \in Seq(Op)
  /\ UNCHANGED <<portal, nextID>>
Executes(h) ==
  \E op \in Op, rest \in Seq(Op) :
    /\ Unfinished(h) = <<op>> \o rest
    /\ Store!Effect(op)
    /\ Unfinished(h)' = rest \/ Unfinished(h)' = <<>>

Maps(h) == Rests(h) /\ (Keeps(h) \/ Drops(h) \/ Accepts(h) \/ Executes(h))

Plan == [g \in Handler |-> Unfinished(g)]

\* Such a step is one of PlanStore or changes nothing it speaks of.
LEMMA MapsIsStep ==
  ASSUME RInv, IInv', NEW h \in Handler, Maps(h)
  PROVE  RInv' /\ [Store!Next]_(Store!vars)
<1>1. \A g \in Handler : g # h => job'[g] = job[g]
  BY DEF Maps, Rests
<1>2. RInv'
  <2>1. ASSUME NEW g \in Handler PROVE Disciplined(g)'
    <3>1. CASE g = h
      BY <3>1 DEF Maps, Rests
    <3>2. CASE g # h
      BY <1>1, <3>2 DEF RInv, Disciplined
    <3> QED
      BY <3>1, <3>2
  <2> QED
    BY <2>1 DEF RInv
<1>3. Plan' = [Plan EXCEPT ![h] = Unfinished(h)']
  <2>1. \A g \in Handler : g # h => Unfinished(g)' = Unfinished(g)
    BY <1>1 DEF Unfinished
  <2> QED
    BY <2>1 DEF Plan
<1>4. Plan[h] = Unfinished(h) /\ Plan'[h] = Unfinished(h)'
  BY DEF Plan
<1>5. CASE Keeps(h)
  <2>1. Plan' = Plan
    BY <1>3, <1>5 DEF Keeps, Plan
  <2> QED
    BY <1>2, <1>5, <2>1 DEF Keeps, Store!vars, Plan
<1>6. CASE Drops(h)
  <2>1. Store!GiveUp(h)
    BY <1>3, <1>6 DEF Drops, Store!GiveUp, Plan
  <2> QED
    BY <1>2, <2>1 DEF Store!Next
<1>7. CASE Accepts(h)
  <2>1. Store!Accept(h)
    BY <1>3, <1>4, <1>7 DEF Accepts, Store!Accept, Plan
  <2> QED
    BY <1>2, <2>1 DEF Store!Next
<1>8. CASE Executes(h)
  <2>1. PICK op \in Op, rest \in Seq(Op) :
          /\ Unfinished(h) = <<op>> \o rest
          /\ Store!Effect(op)
          /\ Unfinished(h)' = rest \/ Unfinished(h)' = <<>>
    BY <1>8 DEF Executes
  <2>2. Plan[h] # <<>> /\ Head(Plan[h]) = op /\ Tail(Plan[h]) = rest
    BY <1>4, <2>1, FirstAndRest
  <2>3. \/ Plan' = [Plan EXCEPT ![h] = Tail(Plan[h])]
        \/ Plan' = [Plan EXCEPT ![h] = <<>>]
    BY <1>3, <2>1, <2>2
  <2>4. Store!Execute(h)
    BY <2>1, <2>2, <2>3 DEF Store!Execute, Plan
  <2> QED
    BY <1>2, <2>4 DEF Store!Next
<1> QED
  BY <1>5, <1>6, <1>7, <1>8 DEF Maps

\* A request that only moves on keeps its plan.
LEMMA RequestMovesOn ==
  ASSUME RInv, NEW h \in Handler, NEW j \in Job, Becomes(h, j),
         j.op = job[h].op, j.todo = job[h].todo,
         j.pc \in {"setIndex", "dropIndex"} <=> job[h].pc \in {"setIndex", "dropIndex"},
         j.pc \in BetweenOps => j.op = None,
         j.pc # "idle",
         j.pc = "create" => j.op.action \in {"create", "update"},
         UNCHANGED <<portal, nextID>>
  PROVE  Maps(h)
<1>1. job'[h] = j /\ \A g \in Handler : g # h => job'[g] = job[g]
  BY JobParts, BecomesType
<1>2. Disciplined(h)'
  BY <1>1 DEF Disciplined
<1>3. Keeps(h)
  BY <1>1 DEF Keeps, Unfinished
<1> QED
  BY <1>1, <1>2, <1>3 DEF Maps, Rests

\* A request that is over, with an answer or without, has no plan.
LEMMA RejectDrops ==
  ASSUME RInv, NEW h \in Handler, Reject(h)
  PROVE  Rests(h) /\ Unfinished(h)' = <<>>
<1> DEFINE j == [IdleJob EXCEPT !.pc = "reply", !.outcome = "error"]
<1>1. j \in Job
  BY IdleJobType DEF Job, PC
<1>2. j.pc = "reply" /\ j.op = None /\ j.todo = <<>>
  BY DEF IdleJob
<1> HIDE DEF j
<1>3. job'[h] = j /\ \A g \in Handler : g # h => job'[g] = job[g]
  BY <1>1, JobParts, BecomesType DEF Reject, j
<1> QED
  BY <1>2, <1>3 DEF Rests, Disciplined, Unfinished

\* The end of an operation leaves the rest of the plan.
LEMMA EndOpLeaves ==
  ASSUME RInv, NEW h \in Handler, NEW soft \in BOOLEAN, EndOp(h, soft)
  PROVE  Rests(h) /\ Unfinished(h)' = job[h].todo
<1> DEFINE j == [job[h] EXCEPT !.pc = "next", !.soft = soft, !.op = None,
                               !.zone = None, !.id = None, !.seen = <<>>]
<1>0. job[h] \in Job /\ job \in [Handler -> Job]
  BY JobParts
<1>1. j.pc = "next" /\ j.op = None /\ j.todo = job[h].todo
  BY <1>0 DEF Job
<1>2. j \in Job
  BY <1>0, EmptyLists DEF Job, PC
<1> HIDE DEF j
<1>3. Becomes(h, j)
  BY DEF EndOp, j
<1>4. job'[h] = j /\ \A g \in Handler : g # h => job'[g] = job[g]
  BY <1>0, <1>2, <1>3, BecomesType
<1> QED
  BY <1>1, <1>4 DEF Rests, Disciplined, Unfinished

\* A failed operation leaves the rest of the plan or nothing.
LEMMA OpFailsLeaves ==
  ASSUME RInv, NEW h \in Handler, NEW error, OpFails(h, error)
  PROVE  Rests(h) /\ Unfinished(h)' \in {job[h].todo, <<>>}
<1>1. CASE Aborts(error)
  BY <1>1, RejectDrops DEF OpFails
<1>2. CASE ~Aborts(error)
  BY <1>2, EndOpLeaves DEF OpFails
<1> QED
  BY <1>1, <1>2

\* An operation that is over has had its effect.
LEMMA OpIsOver ==
  ASSUME RInv, NEW h \in Handler, job[h].op # None,
         job[h].pc \notin {"setIndex", "dropIndex"},
         Store!Effect(job[h].op), Rests(h), Unfinished(h)' \in {job[h].todo, <<>>}
  PROVE  Maps(h)
<1>1. job[h].op \in Op /\ job[h].todo \in Seq(Op) /\ Unfinished(h) = <<job[h].op>> \o job[h].todo
  BY InProgress
<1>2. Executes(h)
  BY <1>1 DEF Executes
<1> QED
  BY <1>2 DEF Maps

-----------------------------------------------------------------------------
(* The steps of a request.                                                 *)

\* A request arrives, is cancelled, or gets its answer.
LEMMA RequestMaps ==
  ASSUME RInv, NEW h \in Handler, Request(h)
  PROVE  Maps(h)
<1>0. /\ job \in [Handler -> Job] /\ job[h] \in Job
      /\ Disciplined(h)
  BY JobParts
<1>1. CASE StartRecords(h)
  <2>1. [job[h] EXCEPT !.pc = "recordsZones"] \in Job
    BY <1>0 DEF Job, PC
  <2> QED
    BY <1>0, <1>1, <2>1, RequestMovesOn
       DEF StartRecords, Goto, Job, Disciplined, BetweenOps, portalVars
<1>2. CASE \E ops \in Batches : StartApply(h, ops)
  <2>1. PICK ops \in Batches : StartApply(h, ops)
    BY <1>2
  <2> DEFINE j == [job[h] EXCEPT
                     !.batch = ops, !.todo = ops,
                     !.pc = IF ops = <<>> THEN "reply" ELSE "applyZones",
                     !.outcome = IF ops = <<>> THEN "ok" ELSE "none"]
  <2>2. ops \in Seq(Op)
    BY InputsAssumption
  <2>3. job[h].op = None /\ job[h].todo = <<>> /\ job[h].pc = "idle"
    BY <1>0, <2>1 DEF StartApply, Disciplined, BetweenOps
  <2>4. j \in Job /\ j.op = job[h].op /\ j.todo = ops /\ j.pc \in {"reply", "applyZones"}
    BY <1>0, <2>2, ZenonT(30) DEF Job, PC
  <2> HIDE DEF j
  <2>5. job'[h] = j /\ \A g \in Handler : g # h => job'[g] = job[g]
    BY <1>0, <2>1, <2>4, BecomesType DEF StartApply, j
  <2>6. Rests(h)
    BY <2>3, <2>4, <2>5 DEF Rests, Disciplined
  <2>7. Accepts(h)
    BY <2>1, <2>2, <2>3, <2>4, <2>5 DEF Accepts, Unfinished, StartApply, portalVars
  <2> QED
    BY <2>6, <2>7 DEF Maps
<1>3. CASE Cancel(h)
  <2>1. [job[h] EXCEPT !.ctxDone = TRUE] \in Job
    BY <1>0 DEF Job
  <2> QED
    BY <1>0, <1>3, <2>1, RequestMovesOn DEF Cancel, Job, Disciplined, portalVars
<1>4. CASE Respond(h)
  <2>1. job'[h] = IdleJob /\ \A g \in Handler : g # h => job'[g] = job[g]
    BY <1>0, <1>4, IdleJobType, BecomesType DEF Respond
  <2>2. Rests(h) /\ Drops(h)
    BY <1>4, <2>1 DEF Rests, Drops, Disciplined, Unfinished, IdleJob, Respond, portalVars
  <2> QED
    BY <2>2 DEF Maps
<1> QED
  BY <1>1, <1>2, <1>3, <1>4 DEF Request

\* The zones are known, or they are not and the request ends.
LEMMA ZonesMap ==
  ASSUME RInv, NEW h \in Handler, CachedZones(h) \/ GetsZones(h) \/ ListZonesFails(h)
  PROVE  Maps(h)
<1>0. /\ job \in [Handler -> Job] /\ job[h] \in Job
      /\ Disciplined(h) /\ cachedZones \in Seq(Zone) /\ portalZones \in SUBSET Zone
  BY JobParts DEF RInv, IInv, TypeOK
<1>1. ASSUME NEW zs \in Seq(Zone), GotZones(h, zs), WantsZones(h), UNCHANGED portalVars
      PROVE  Maps(h)
  <2> DEFINE j == [job[h] EXCEPT
                     !.zones = zs,
                     !.pending = IF job[h].pc = "recordsZones" THEN zs ELSE <<>>,
                     !.pc = IF job[h].pc = "recordsZones" THEN "list" ELSE "next"]
  <2>1. j.op = job[h].op /\ j.todo = job[h].todo /\ j.pc \in {"list", "next"}
    BY <1>0 DEF Job
  <2>3. j \in Job
    <3>1. CASE job[h].pc = "recordsZones"
      BY <1>0, <3>1 DEF Job, PC
    <3>2. CASE job[h].pc # "recordsZones"
      BY <1>0, <3>2, EmptyLists DEF Job, PC
    <3> QED
      BY <3>1, <3>2
  <2> HIDE DEF j
  <2>2. Becomes(h, j)
    BY <1>1 DEF GotZones, j
  <2>4. job[h].op = None /\ job[h].pc \in {"recordsZones", "applyZones"}
    BY <1>0, <1>1 DEF Disciplined, BetweenOps, WantsZones
  <2> QED
    BY <1>1, <2>1, <2>2, <2>3, <2>4, RequestMovesOn DEF portalVars
<1>2. CASE CachedZones(h)
  BY <1>0, <1>1, <1>2 DEF CachedZones, portalVars
<1>3. CASE GetsZones(h)
  <2>1. WantsZones(h) /\ \E zs \in Seq(Zone) : StoreZones(h, zs)
    BY <1>0, <1>3, ZonesListed DEF ListsZones
  <2> QED
    BY <1>1, <2>1 DEF StoreZones, portalVars
<1>4. CASE ListZonesFails(h)
  BY <1>4, RejectDrops DEF ListZonesFails, Maps, Drops, portalVars
<1> QED
  BY <1>2, <1>3, <1>4

\* Records reads and answers.
LEMMA RecordsMap ==
  ASSUME RInv, NEW h \in Handler, HearsZone(h) \/ SwapIndex(h) \/ ListRecordsFails(h)
  PROVE  Maps(h)
<1>0. /\ job \in [Handler -> Job] /\ job[h] \in Job
      /\ Disciplined(h) /\ TypeOK /\ FreshIDs
  BY JobParts DEF RInv, IInv
<1>1. CASE HearsZone(h)
  <2>1. PICK recs \in Seq(Named) : Hears(h, recs)
    BY <1>0, <1>1, ZoneHeard
  <2> DEFINE j == [job[h] EXCEPT !.seen = @ \o recs, !.pending = Tail(@)]
  <2>2. j \in Job /\ j.op = job[h].op /\ j.todo = job[h].todo /\ j.pc = "list"
    <3>1. job[h].pc = "list" /\ Tail(job[h].pending) \in Seq(Zone)
      BY <1>0, <1>1, ZoneHeard DEF ListsZone
    <3>2. recs \in Seq(Listed) /\ job[h].seen \in Seq(Listed)
      BY <1>0, SeqMonotone DEF Named, Job
    <3>3. job[h].seen \o recs \in Seq(Listed)
      BY <3>2
    <3> QED
      BY <1>0, <3>1, <3>3 DEF Job
  <2> HIDE DEF j
  <2>3. Becomes(h, j) /\ UNCHANGED portalVars
    BY <2>1 DEF Hears, j
  <2>4. job[h].pc = "list"
    BY <1>0, <1>1, ZoneHeard DEF ListsZone
  <2> QED
    BY <1>0, <2>2, <2>3, <2>4, RequestMovesOn DEF Disciplined, BetweenOps, portalVars
<1>2. CASE SwapIndex(h)
  <2> DEFINE j == [job[h] EXCEPT !.pc = "reply", !.outcome = "ok"]
  <2>1. j \in Job /\ j.op = job[h].op /\ j.todo = job[h].todo /\ j.pc = "reply"
    BY <1>0 DEF Job, PC
  <2> HIDE DEF j
  <2>2. Becomes(h, j) /\ job[h].pc = "list" /\ UNCHANGED portalVars
    BY <1>2 DEF SwapIndex, j
  <2> QED
    BY <1>0, <2>1, <2>2, RequestMovesOn DEF Disciplined, BetweenOps, portalVars
<1>3. CASE ListRecordsFails(h)
  BY <1>3, RejectDrops DEF ListRecordsFails, Maps, Drops, portalVars
<1> QED
  BY <1>1, <1>2, <1>3

\* The loop of ApplyChanges ends, skips an operation, or takes one.
LEMMA LoopMaps ==
  ASSUME RInv, NEW h \in Handler,
         FinishApply(h) \/ StopCancelled(h) \/ SkipOp(h) \/ TakeOp(h)
  PROVE  Maps(h)
<1>0. /\ job \in [Handler -> Job] /\ job[h] \in Job
      /\ Disciplined(h) /\ job[h].todo \in Seq(Op)
  BY JobParts
<1>1. job[h].pc = "next" /\ job[h].op = None /\ UNCHANGED <<portal, nextID>>
  BY <1>0 DEF FinishApply, StopCancelled, SkipOp, TakeOp, Disciplined, BetweenOps, portalVars
<1>2. CASE FinishApply(h)
  <2> DEFINE j == [job[h] EXCEPT !.pc = "reply",
                                 !.outcome = IF job[h].soft THEN "soft" ELSE "ok"]
  <2>1. j \in Job /\ j.op = job[h].op /\ j.todo = job[h].todo /\ j.pc = "reply"
    BY <1>0, ZenonT(30) DEF Job, PC
  <2> HIDE DEF j
  <2>2. Becomes(h, j)
    BY <1>2 DEF FinishApply, j
  <2> QED
    BY <1>1, <2>1, <2>2, RequestMovesOn DEF BetweenOps
<1>3. CASE StopCancelled(h)
  BY <1>1, <1>3, RejectDrops DEF StopCancelled, Maps, Drops
<1>4. CASE SkipOp(h)
  <2> DEFINE j == [job[h] EXCEPT !.todo = Tail(@)]
  <2>1. job[h].todo # <<>>
    BY <1>4 DEF SkipOp
  <2>2. /\ Head(job[h].todo) \in Op /\ Tail(job[h].todo) \in Seq(Op)
        /\ <<Head(job[h].todo)>> \o Tail(job[h].todo) = job[h].todo
    BY <1>0, <2>1, HeadAndTail
  <2>3. j \in Job /\ j.op = None /\ j.todo = Tail(job[h].todo) /\ j.pc = "next"
    BY <1>0, <1>1, <2>2 DEF Job
  <2> HIDE DEF j
  <2>4. job'[h] = j /\ \A g \in Handler : g # h => job'[g] = job[g]
    BY <1>0, <1>4, <2>3, BecomesType DEF SkipOp, j
  <2>5. Rests(h)
    BY <2>3, <2>4 DEF Rests, Disciplined
  <2>6. Unfinished(h) = <<Head(job[h].todo)>> \o Tail(job[h].todo)
    BY <1>1, <2>2 DEF Unfinished
  <2>7. Unfinished(h)' = Tail(job[h].todo)
    BY <2>3, <2>4 DEF Unfinished
  <2>8. Store!Effect(Head(job[h].todo))
    BY <1>1 DEF Store!Effect
  <2>9. Executes(h)
    BY <2>2, <2>6, <2>7, <2>8 DEF Executes
  <2> QED
    BY <2>5, <2>9 DEF Maps
<1>5. CASE TakeOp(h)
  <2>1. job[h].todo # <<>>
    BY <1>5 DEF TakeOp
  <2> DEFINE op == Head(job[h].todo)
             rest == Tail(job[h].todo)
  <2>2. op \in Op /\ rest \in Seq(Op) /\ <<op>> \o rest = job[h].todo
    BY <1>0, <2>1, HeadAndTail
  <2>3. PICK z \in ZoneFor(h, op) :
          Becomes(h, [job[h] EXCEPT
            !.todo = rest, !.op = op, !.zone = z,
            !.pc = IF op.action = "create" THEN "create" ELSE "lookup"])
    BY <1>5 DEF TakeOp
  <2>4. z \in Zone
    <3>1. Range(job[h].zones) \subseteq Zone
      BY <1>0, RangeOfSeq DEF Job
    <3> QED
      BY <2>3, <3>1 DEF ZoneFor, findZone
  <2> HIDE DEF op, rest
  <2> DEFINE j == [job[h] EXCEPT
                     !.todo = rest, !.op = op, !.zone = z,
                     !.pc = IF op.action = "create" THEN "create" ELSE "lookup"]
  <2>5. /\ j \in Job /\ j.op = op /\ j.todo = rest
        /\ j.pc = IF op.action = "create" THEN "create" ELSE "lookup"
    BY <1>0, <2>2, <2>4 DEF Job, PC
  <2> HIDE DEF j
  <2>6. job'[h] = j /\ \A g \in Handler : g # h => job'[g] = job[g]
    BY <1>0, <2>3, <2>5, BecomesType DEF j
  <2>7. Rests(h)
    BY <2>5, <2>6 DEF Rests, Disciplined, BetweenOps
  <2>8. op # None
    BY <2>2, NoneAssumption
  <2>9. Unfinished(h) = job[h].todo
    BY <1>1 DEF Unfinished
  <2>10. Unfinished(h)' = <<op>> \o rest
    BY <2>5, <2>6, <2>8 DEF Unfinished
  <2>11. Keeps(h)
    BY <1>1, <2>2, <2>9, <2>10 DEF Keeps
  <2> QED
    BY <2>7, <2>11 DEF Maps
<1> QED
  BY <1>2, <1>3, <1>4, <1>5

-----------------------------------------------------------------------------
\* An operation without an effect is allowed.
LEMMA NoEffect ==
  ASSUME NEW op, UNCHANGED <<portal, nextID>>
  PROVE  Store!Effect(op)
  BY DEF Store!Effect

\* Finding an id goes on with the operation's own action.
LEMMA FoundIDMaps ==
  ASSUME RInv, NEW h \in Handler, NEW id \in ID, FoundID(h, id),
         job[h].op.action \in {"update", "delete"}, job[h].op # None,
         job[h].pc \notin {"setIndex", "dropIndex"}, UNCHANGED <<portal, nextID>>
  PROVE  Maps(h)
<1> DEFINE j == [job[h] EXCEPT !.pc = job[h].op.action, !.id = id]
<1>0. job[h] \in Job /\ job[h].op.action \in PC
  BY JobParts DEF PC
<1>1. j \in Job /\ j.op = job[h].op /\ j.todo = job[h].todo /\ j.pc = job[h].op.action
  BY <1>0 DEF Job
<1> HIDE DEF j
<1>2. Becomes(h, j)
  BY DEF FoundID, j
<1> QED
  BY <1>1, <1>2, RequestMovesOn DEF BetweenOps

\* Looking an id up keeps the plan; a record that is not there is deleted.
LEMMA LookupMaps ==
  ASSUME RInv, NEW h \in Handler,
         \/ LookupHit(h) \/ LookupMiss(h) \/ HearsAgain(h)
         \/ RelistFails(h) \/ MergeListing(h)
  PROVE  Maps(h)
<1>0. /\ job \in [Handler -> Job] /\ job[h] \in Job /\ TypeOK /\ FreshIDs /\ IInv
      /\ job[h].soft \in BOOLEAN /\ OpNames(h)
  BY JobParts DEF RInv, IInv
<1>1. /\ job[h].pc \in {"lookup", "relist", "merge"} /\ UNCHANGED <<portal, nextID>>
      /\ job[h].op # None /\ job[h].zone # None /\ job[h].op.action \in {"update", "delete"}
  BY <1>0 DEF LookupHit, LookupMiss, HearsAgain, Relist, RelistMisread, RelistsZone,
              RelistFails, MergeListing, OpNames, portalVars
<1>2. OpKey(h) \in Key
  BY <1>0, <1>1, OpKeyType
<1>3. Store!Effect(job[h].op)
  BY <1>1, NoEffect
<1>4. CASE LookupHit(h)
  <2>1. index[OpKey(h)].id \in ID
    BY <1>0, <1>2, <1>4, IDTypes DEF LookupHit
  <2> QED
    BY <1>1, <1>4, <2>1, FoundIDMaps DEF LookupHit
<1>5. CASE LookupMiss(h)
  <2> DEFINE j == [job[h] EXCEPT !.pc = "relist"]
  <2>1. j \in Job /\ j.op = job[h].op /\ j.todo = job[h].todo /\ j.pc = "relist"
    BY <1>0 DEF Job, PC
  <2> HIDE DEF j
  <2>2. Becomes(h, j)
    BY <1>5 DEF LookupMiss, Goto, j
  <2> QED
    BY <1>1, <2>1, <2>2, RequestMovesOn DEF BetweenOps
<1>6. CASE HearsAgain(h)
  <2>1. job[h].zone \in Zone
    BY <1>0, <1>1 DEF Job
  <2>2. PICK recs \in Seq(Named) : RelistsZone(h, recs)
    BY <1>0, <1>6, <2>1, ZoneRelisted
  <2> DEFINE j == [job[h] EXCEPT !.seen = recs, !.pc = "merge"]
  <2>3. j \in Job /\ j.op = job[h].op /\ j.todo = job[h].todo /\ j.pc = "merge"
    <3>1. recs \in Seq(Listed)
      BY SeqMonotone DEF Named
    <3> QED
      BY <1>0, <3>1 DEF Job, PC
  <2> HIDE DEF j
  <2>4. Becomes(h, j)
    BY <2>2 DEF RelistsZone, j
  <2> QED
    BY <1>1, <2>3, <2>4, RequestMovesOn DEF BetweenOps
<1>7. CASE RelistFails(h)
  BY <1>1, <1>3, <1>7, OpFailsLeaves, OpIsOver DEF RelistFails
<1>8. CASE MergeListing(h)
  <2>1. TypeOK'
    BY <1>0, <1>8, NextIInv DEF RInv, Next, ProviderNext, HandlerStep, ApplyStep, IInv
  <2>2. CASE index'[OpKey(h)] # None
    <3>1. index'[OpKey(h)].id \in ID
      BY <1>2, <2>1, <2>2 DEF TypeOK, Entry
    <3> QED
      BY <1>1, <1>8, <2>2, <3>1, FoundIDMaps DEF MergeListing
  <2>3. CASE index'[OpKey(h)] = None /\ job[h].op.action = "delete"
    <3>1. EndOp(h, job[h].soft)
      BY <1>8, <2>3 DEF MergeListing
    <3>2. Rests(h) /\ Unfinished(h)' = job[h].todo
      BY <1>0, <3>1, EndOpLeaves
    <3> QED
      BY <1>1, <1>3, <3>2, OpIsOver
  <2>4. CASE index'[OpKey(h)] = None /\ job[h].op.action # "delete"
    <3> DEFINE j == [job[h] EXCEPT !.pc = "create"]
    <3>1. j \in Job /\ j.op = job[h].op /\ j.todo = job[h].todo /\ j.pc = "create"
      BY <1>0 DEF Job, PC
    <3> HIDE DEF j
    <3>2. Becomes(h, j)
      BY <1>8, <2>4 DEF MergeListing, Goto, j
    <3> QED
      BY <1>1, <2>4, <3>1, <3>2, RequestMovesOn DEF BetweenOps
  <2> QED
    BY <2>2, <2>3, <2>4
<1> QED
  BY <1>4, <1>5, <1>6, <1>7, <1>8

\* A create adds one record for its operation, also when it reports an error.
LEMMA CreateMaps ==
  ASSUME RInv, NEW h \in Handler,
         CreateRecord(h) \/ CreateRecordFails(h) \/ CreateRefused(h) \/ RejectInput(h)
  PROVE  Maps(h)
<1>0. /\ job \in [Handler -> Job] /\ job[h] \in Job /\ TypeOK
      /\ OpNames(h) /\ Disciplined(h)
  BY JobParts DEF RInv, IInv
<1>1. /\ job[h].pc \in {"create", "update"} /\ job[h].op # None
  BY <1>0 DEF CreateRecord, CreateRecordFails, CreateRefused, RejectInput, OpNames
<1>2. ASSUME job[h].pc = "create", Insert(job[h].op.rrset, job[h].op.target, job[h].op.ttl)
      PROVE  Store!Effect(job[h].op)
  <2>1. job[h].op.action \in {"create", "update"}
    BY <1>0, <1>2 DEF Disciplined
  <2>2. findZone(portalZones, job[h].op.rrset) \subseteq Zone
    BY <1>0 DEF findZone, TypeOK
  <2>3. Store!Creates(job[h].op)
    BY <1>2, <2>2 DEF Insert, Store!Creates
  <2> QED
    BY <2>1, <2>3 DEF Store!Effect
<1>3. CASE CreateRecord(h)
  <2> DEFINE j == [job[h] EXCEPT !.pc = "setIndex", !.id = nextID]
  <2>1. nextID \in ID
    BY <1>3 DEF CreateRecord, Insert
  <2>2. j \in Job /\ j.pc = "setIndex" /\ j.op = job[h].op /\ j.todo = job[h].todo
    BY <1>0, <2>1 DEF Job, PC
  <2> HIDE DEF j
  <2>3. job'[h] = j /\ \A g \in Handler : g # h => job'[g] = job[g]
    BY <1>0, <1>3, <2>2, BecomesType DEF CreateRecord, j
  <2>4. Rests(h) /\ Unfinished(h)' = job[h].todo
    BY <2>2, <2>3 DEF Rests, Disciplined, Unfinished, BetweenOps
  <2>5. Store!Effect(job[h].op) /\ job[h].pc = "create"
    BY <1>2, <1>3 DEF CreateRecord
  <2> QED
    BY <1>1, <2>4, <2>5, OpIsOver
<1>4. CASE CreateRecordFails(h)
  <2>1. job[h].pc = "create"
    BY <1>4 DEF CreateRecordFails
  <2>2. PICK f \in Faults(h) :
          /\ OpFails(h, f.error)
          /\ IF f.effect THEN Insert(job[h].op.rrset, job[h].op.target, job[h].op.ttl)
             ELSE UNCHANGED <<portal, nextID>>
    BY <1>4 DEF CreateRecordFails
  <2>3. Store!Effect(job[h].op)
    BY <1>2, <2>1, <2>2, NoEffect
  <2> QED
    BY <1>1, <2>2, <2>3, OpFailsLeaves, OpIsOver
<1>5. CASE CreateRefused(h) \/ RejectInput(h)
  <2>1. UNCHANGED <<portal, nextID>>
    BY <1>5 DEF CreateRefused, RejectInput, portalVars
  <2>2. OpFails(h, "client") \/ OpFails(h, "input")
    BY <1>5 DEF CreateRefused, RejectInput
  <2> QED
    BY <1>1, <2>1, <2>2, NoEffect, OpFailsLeaves, OpIsOver
<1> QED
  BY <1>3, <1>4, <1>5

\* An update retunes one record of its own key.
LEMMA UpdateMaps ==
  ASSUME RInv, NEW h \in Handler,
         UpdateRecord(h) \/ UpdateMissing(h) \/ UpdateRecordFails(h)
  PROVE  Maps(h)
<1>0. /\ job \in [Handler -> Job] /\ job[h] \in Job /\ TypeOK
      /\ job[h].soft \in BOOLEAN /\ OpNames(h)
  BY JobParts DEF RInv, IInv
<1>1. /\ job[h].pc = "update" /\ job[h].op # None /\ job[h].op.action = "update"
      /\ job[h].id # None /\ Names(job[h].id, OpKey(h)) /\ nextID' = nextID
  BY <1>0 DEF UpdateRecord, UpdateMissing, UpdateRecordFails, OpNames, portalVars
<1>2. ASSUME Patch(job[h].id, job[h].op.target, job[h].op.ttl), portal[job[h].id] # None
      PROVE  Store!Effect(job[h].op)
  <2>1. job[h].id \in ID /\ portal[job[h].id] \in Record /\ portal \in [ID -> Record \cup {None}]
    BY <1>0, <1>1, <1>2, IDTypes DEF TypeOK
  <2>2. portal[job[h].id].rrset = job[h].op.rrset /\ portal[job[h].id].target = job[h].op.target
    BY <1>1, <1>2 DEF Names, KeyOf, OpKey
  <2>3. [[portal[job[h].id] EXCEPT !.target = job[h].op.target] EXCEPT !.ttl = job[h].op.ttl]
          = [portal[job[h].id] EXCEPT !.ttl = job[h].op.ttl]
    BY <2>1, <2>2 DEF Record
  <2>4. portal' = [portal EXCEPT ![job[h].id].ttl = job[h].op.ttl]
    BY <1>2, <2>1, <2>3 DEF Patch
  <2>5. job[h].id \in Store!About(job[h].op)
    BY <1>2, <2>1, <2>2 DEF Store!About
  <2>6. Store!Retunes(job[h].op)
    BY <1>1, <2>4, <2>5 DEF Store!Retunes
  <2> QED
    BY <1>1, <2>6 DEF Store!Effect
<1>3. CASE UpdateRecord(h)
  <2>1. Store!Effect(job[h].op)
    BY <1>2, <1>3 DEF UpdateRecord
  <2>2. Rests(h) /\ Unfinished(h)' = job[h].todo
    BY <1>0, <1>3, EndOpLeaves DEF UpdateRecord
  <2> QED
    BY <1>1, <2>1, <2>2, OpIsOver
<1>4. CASE UpdateMissing(h)
  <2>1. Store!Effect(job[h].op)
    BY <1>4, NoEffect DEF UpdateMissing, portalVars
  <2>2. Rests(h) /\ Unfinished(h)' \in {job[h].todo, <<>>}
    BY <1>4, OpFailsLeaves DEF UpdateMissing
  <2> QED
    BY <1>1, <2>1, <2>2, OpIsOver
<1>5. CASE UpdateRecordFails(h)
  <2>1. PICK f \in Faults(h) :
          /\ OpFails(h, f.error)
          /\ IF f.effect /\ portal[job[h].id] # None
             THEN Patch(job[h].id, job[h].op.target, job[h].op.ttl)
             ELSE UNCHANGED portal
    BY <1>5 DEF UpdateRecordFails
  <2>2. Store!Effect(job[h].op)
    BY <1>1, <1>2, <2>1, NoEffect
  <2>3. Rests(h) /\ Unfinished(h)' \in {job[h].todo, <<>>}
    BY <2>1, OpFailsLeaves
  <2> QED
    BY <1>1, <2>2, <2>3, OpIsOver
<1> QED
  BY <1>3, <1>4, <1>5

\* A delete removes one record of its own key, or finds it gone.
LEMMA DeleteMaps ==
  ASSUME RInv, NEW h \in Handler, DeleteRecord(h) \/ DeleteRecordFails(h)
  PROVE  Maps(h)
<1>0. /\ job \in [Handler -> Job] /\ job[h] \in Job /\ TypeOK /\ OpNames(h)
  BY JobParts DEF RInv, IInv
<1>1. /\ job[h].pc = "delete" /\ job[h].op # None /\ job[h].op.action = "delete"
      /\ job[h].id # None /\ Names(job[h].id, OpKey(h)) /\ nextID' = nextID
  BY <1>0 DEF DeleteRecord, DeleteRecordFails, OpNames
<1>2. job[h].id \in ID /\ portal \in [ID -> Record \cup {None}]
  BY <1>0, <1>1, IDTypes DEF TypeOK
<1>3. ASSUME portal' = [portal EXCEPT ![job[h].id] = None]
      PROVE  Store!Effect(job[h].op)
  <2>1. CASE portal[job[h].id] = None
    <3>1. portal' = portal
      BY <1>2, <1>3, <2>1
    <3> QED
      BY <1>1, <3>1, NoEffect
  <2>2. CASE portal[job[h].id] # None
    <3>1. /\ portal[job[h].id].rrset = job[h].op.rrset
          /\ portal[job[h].id].target = job[h].op.target
      BY <1>1, <2>2 DEF Names, KeyOf, OpKey
    <3>2. Store!Removes(job[h].op)
      BY <1>1, <1>2, <1>3, <2>2, <3>1 DEF Store!Removes, Store!About
    <3> QED
      BY <1>1, <3>2 DEF Store!Effect
  <2> QED
    BY <2>1, <2>2
<1>4. CASE DeleteRecord(h)
  <2> DEFINE j == [job[h] EXCEPT !.pc = "dropIndex"]
  <2>1. j \in Job /\ j.pc = "dropIndex" /\ j.op = job[h].op /\ j.todo = job[h].todo
    BY <1>0 DEF Job, PC
  <2> HIDE DEF j
  <2>2. job'[h] = j /\ \A g \in Handler : g # h => job'[g] = job[g]
    BY <1>0, <1>4, <2>1, BecomesType DEF DeleteRecord, Goto, j
  <2>3. Rests(h) /\ Unfinished(h)' = job[h].todo
    BY <2>1, <2>2 DEF Rests, Disciplined, Unfinished, BetweenOps
  <2> QED
    BY <1>1, <1>3, <1>4, <2>3, OpIsOver DEF DeleteRecord
<1>5. CASE DeleteRecordFails(h)
  <2>1. PICK f \in Faults(h) :
          /\ OpFails(h, f.error)
          /\ portal' = IF f.effect THEN [portal EXCEPT ![job[h].id] = None] ELSE portal
    BY <1>5 DEF DeleteRecordFails
  <2>2. Store!Effect(job[h].op)
    BY <1>1, <1>3, <2>1, NoEffect
  <2>3. Rests(h) /\ Unfinished(h)' \in {job[h].todo, <<>>}
    BY <2>1, OpFailsLeaves
  <2> QED
    BY <1>1, <2>2, <2>3, OpIsOver
<1> QED
  BY <1>4, <1>5

\* Writing the index ends an operation that has had its effect.
LEMMA IndexWriteMaps ==
  ASSUME RInv, NEW h \in Handler, SetIndex(h) \/ DropIndex(h)
  PROVE  Maps(h)
<1>1. /\ job[h].pc \in {"setIndex", "dropIndex"} /\ EndOp(h, job[h].soft)
      /\ UNCHANGED <<portal, nextID>>
  BY DEF SetIndex, DropIndex, portalVars
<1>2. Rests(h) /\ Unfinished(h)' = job[h].todo
  BY <1>1, JobParts, EndOpLeaves
<1>3. Keeps(h)
  BY <1>1, <1>2 DEF Keeps, Unfinished
<1> QED
  BY <1>2, <1>3 DEF Maps

-----------------------------------------------------------------------------
\* What happens around the requests: a restart drops every plan, nothing else
\* concerns the records.
LEMMA SurroundingsMap ==
  ASSUME RInv, IInv',
         DropZones \/ Restart \/ (Operator /\ UNCHANGED portal) \/ UNCHANGED vars
  PROVE  RInv' /\ [Store!Next]_(Store!vars)
<1>1. CASE Restart
  <2>1. \A g \in Handler : job'[g] = IdleJob
    BY <1>1 DEF Restart
  <2>2. \A g \in Handler : Unfinished(g)' = <<>> /\ Disciplined(g)'
    BY <2>1 DEF Unfinished, Disciplined, IdleJob
  <2>3. Plan' = [g \in Handler |-> <<>>]
    BY <2>2 DEF Plan
  <2>4. Store!Restart
    BY <1>1, <2>3 DEF Store!Restart, Restart, portalVars, Plan
  <2> QED
    BY <2>2, <2>4 DEF RInv, Store!Next
<1>2. CASE DropZones \/ (Operator /\ UNCHANGED portal) \/ UNCHANGED vars
  <2>1. UNCHANGED <<job, portal>>
    BY <1>2 DEF DropZones, Operator, OperatorCreates, OperatorDeletes, OperatorAddsZone,
                OperatorRemovesZone, vars, portalVars
  <2>2. ASSUME NEW r \in RRset, NEW t \in Target, NEW ttl \in TTL, OperatorCreates(r, t, ttl)
        PROVE  FALSE
    <3>1. PICK z \in findZone(portalZones, r) :
            portal' = [portal EXCEPT ![nextID] =
                         [rrset |-> r, target |-> t, ttl |-> ttl, zone |-> z]]
      BY <2>2 DEF OperatorCreates, Insert
    <3>2. z \in Zone
      BY DEF findZone, RInv, IInv, TypeOK
    <3>3. nextID \in ID /\ portal \in [ID -> Record \cup {None}] /\ portal[nextID] = None
      BY <2>2 DEF OperatorCreates, Insert, RInv, IInv, TypeOK, FreshIDs, ID
    <3>4. portal'[nextID] \in Record
      BY <3>1, <3>2, <3>3 DEF Record
    <3> QED
      BY <2>1, <3>3, <3>4, NoneAssumption
  <2>3. nextID' = nextID
    BY <1>2, <2>2 DEF DropZones, Operator, OperatorDeletes, OperatorAddsZone,
                      OperatorRemovesZone, vars, portalVars
  <2>4. \A g \in Handler : Unfinished(g)' = Unfinished(g) /\ Disciplined(g)'
    BY <2>1 DEF Unfinished, Disciplined, RInv
  <2>5. Plan' = Plan
    BY <2>4 DEF Plan
  <2> QED
    BY <2>1, <2>3, <2>4, <2>5 DEF RInv, Store!vars, Plan
<1> QED
  BY <1>1, <1>2

\* Every step of the system is a step of PlanStore or none.
LEMMA StepMaps ==
  ASSUME RInv, [ProviderNext \/ (Operator /\ UNCHANGED portal)]_vars
  PROVE  RInv' /\ [Store!Next]_(Store!vars)
<1>1. IInv'
  BY NextIInv DEF RInv, Next
<1>2. ASSUME NEW h \in Handler,
             Request(h) \/ HandlerStep(h) \/ FaultStep(h) \/ MisreadStep(h)
      PROVE  Maps(h)
  BY <1>2, RequestMaps, ZonesMap, RecordsMap, LoopMaps, LookupMaps, CreateMaps, UpdateMaps,
     DeleteMaps, IndexWriteMaps
     DEF HandlerStep, RecordsStep, ApplyStep, FaultStep, MisreadStep, GetsZones, HearsZone,
         HearsAgain
<1>3. CASE \E h \in Handler :
             Request(h) \/ HandlerStep(h) \/ FaultStep(h) \/ MisreadStep(h)
  BY <1>1, <1>2, <1>3, MapsIsStep
<1>4. CASE DropZones \/ Restart \/ (Operator /\ UNCHANGED portal) \/ UNCHANGED vars
  BY <1>1, <1>4, SurroundingsMap
<1> QED
  BY <1>3, <1>4 DEF ProviderNext

\* Whatever fails, is cancelled or restarts, and however requests overlap, the
\* provider carries its plans out in order, each operation at most once and on
\* a record of its own key (ApplyChanges).
THEOREM CarriesPlansOut == SoleWriterSpec => ImplementsPlanStore
<1>1. Init => RInv /\ Store!Init
  <2> SUFFICES ASSUME Init PROVE RInv /\ Store!Init
    OBVIOUS
  <2>1. IInv
    BY InitIInv
  <2>2. \A h \in Handler : Disciplined(h) /\ Unfinished(h) = <<>>
    BY DEF Init, Disciplined, Unfinished, IdleJob
  <2>3. Plan = [h \in Handler |-> <<>>]
    BY <2>2 DEF Plan
  <2> QED
    BY <2>1, <2>2, <2>3 DEF Init, RInv, Store!Init, Plan
<1>2. RInv /\ [ProviderNext \/ (Operator /\ UNCHANGED portal)]_vars
        => RInv' /\ [Store!Next]_(Store!vars)
  BY StepMaps
<1> QED
  BY <1>1, <1>2, PTL DEF SoleWriterSpec, ImplementsPlanStore, Store!Spec

-----------------------------------------------------------------------------
(*                                                                         *)
(* What Provider writes, and where.                                        *)
(*                                                                         *)
-----------------------------------------------------------------------------
(* How a step of a request changes the job.                                *)

\* The steps at which an operation is in progress.
Busy == {"lookup", "relist", "merge", "create", "setIndex", "update", "delete",
         "dropIndex"}

\* The plan of the request and its zones stay, and how far the plan has come.
SamePlan(h) ==
  /\ job'[h].batch = job[h].batch /\ job'[h].todo = job[h].todo
  /\ job'[h].zones = job[h].zones

\* The request goes on with what it was doing.
GoesOn(h) ==
  /\ SamePlan(h)
  /\ job'[h].op = job[h].op /\ job'[h].soft = job[h].soft
  /\ job'[h].outcome = job[h].outcome
  /\ \/ job'[h].pc = job[h].pc /\ job[h].pc # "idle"
     \/ job'[h].pc \in Busy

\* The operation in progress is over.
Ends(h) ==
  /\ SamePlan(h)
  /\ job[h].op # None /\ job'[h].op = None /\ job'[h].pc = "next"
  /\ job'[h].outcome = job[h].outcome

\* The request has neither a plan nor an operation.
Empty(h) ==
  /\ job'[h].batch = <<>> /\ job'[h].todo = <<>> /\ job'[h].op = None
  /\ ~job'[h].soft /\ job'[h].zones = <<>>
  /\ \/ job'[h] = IdleJob
     \/ job'[h].pc = "reply" /\ job'[h].outcome = "error"

\* An operation that fails is over, and the request with it or the plan soft.
LEMMA OpFailsForm ==
  ASSUME job \in [Handler -> Job], NEW h \in Handler, NEW error,
         job[h].op # None, OpFails(h, error)
  PROVE  /\ \A g \in Handler : g # h => job'[g] = job[g]
         /\ Empty(h) \/ (Ends(h) /\ job'[h].soft)
<1>0. job[h] \in Job
  OBVIOUS
<1>1. CASE Aborts(error)
  <2>1. job' = [job EXCEPT ![h] = [IdleJob EXCEPT !.pc = "reply", !.outcome = "error"]]
    BY <1>1 DEF OpFails, Reject, Becomes
  <2> QED
    BY <2>1 DEF Empty, IdleJob
<1>2. CASE ~Aborts(error)
  <2>1. job' = [job EXCEPT ![h] =
                  [job[h] EXCEPT !.pc = "next", !.soft = TRUE, !.op = None,
                                 !.zone = None, !.id = None, !.seen = <<>>]]
    BY <1>2 DEF OpFails, EndOp, Becomes
  <2> QED
    BY <1>0, <2>1 DEF Ends, SamePlan, Job
<1> QED
  BY <1>1, <1>2

\* An operation that ends without a failure.
LEMMA EndOpForm ==
  ASSUME job \in [Handler -> Job], NEW h \in Handler, job[h].op # None,
         EndOp(h, job[h].soft)
  PROVE  /\ \A g \in Handler : g # h => job'[g] = job[g]
         /\ Ends(h) /\ job'[h].soft = job[h].soft
<1>0. job[h] \in Job
  OBVIOUS
<1>1. job' = [job EXCEPT ![h] =
                [job[h] EXCEPT !.pc = "next", !.soft = job[h].soft, !.op = None,
                               !.zone = None, !.id = None, !.seen = <<>>]]
  BY DEF EndOp, Becomes
<1> QED
  BY <1>0, <1>1 DEF Ends, SamePlan, Job

\* A request that is moved to another step of its operation.
LEMMA GotoForm ==
  ASSUME job \in [Handler -> Job], NEW h \in Handler, NEW pc \in Busy, Goto(h, pc)
  PROVE  /\ \A g \in Handler : g # h => job'[g] = job[g]
         /\ GoesOn(h) /\ job'[h].pc = pc
<1>0. job[h] \in Job
  OBVIOUS
<1>1. job' = [job EXCEPT ![h] = [job[h] EXCEPT !.pc = pc]]
  BY DEF Goto, Becomes
<1> QED
  BY <1>0, <1>1 DEF GoesOn, SamePlan, Job

\* A found id moves the request to the call the operation is for.
LEMMA FoundIDForm ==
  ASSUME job \in [Handler -> Job], NEW h \in Handler, NEW id,
         job[h].op.action \in {"update", "delete"}, FoundID(h, id)
  PROVE  /\ \A g \in Handler : g # h => job'[g] = job[g]
         /\ GoesOn(h) /\ job'[h].pc = job[h].op.action
<1>0. job[h] \in Job
  OBVIOUS
<1>1. job' = [job EXCEPT ![h] = [job[h] EXCEPT !.pc = job[h].op.action, !.id = id]]
  BY DEF FoundID, Becomes
<1>2. job[h].op.action \in Busy
  BY DEF Busy
<1> QED
  BY <1>0, <1>1, <1>2 DEF GoesOn, SamePlan, Job

\* A request arrives: for the records, or with a plan.
Arrives(h) ==
  /\ job[h].pc = "idle"
  /\ job'[h].op = job[h].op /\ job'[h].soft = job[h].soft
  /\ job'[h].zones = job[h].zones
  /\ \/ SamePlan(h) /\ job'[h].pc = "recordsZones" /\ job'[h].outcome = job[h].outcome
     \/ /\ job'[h].batch \in Batches /\ job'[h].todo = job'[h].batch
        /\ \/ job'[h].pc = "reply" /\ job'[h].todo = <<>> /\ job'[h].outcome = "ok"
           \/ job'[h].pc = "applyZones" /\ job'[h].outcome = "none"

\* The request gets its zones from the zone cache.
Gets(h) ==
  /\ WantsZones(h) /\ job'[h].zones = cachedZones'
  /\ job'[h].batch = job[h].batch /\ job'[h].todo = job[h].todo
  /\ job'[h].op = job[h].op /\ job'[h].soft = job[h].soft
  /\ job'[h].outcome = job[h].outcome
  /\ job'[h].pc = IF job[h].pc = "recordsZones" THEN "list" ELSE "next"

\* The request is answered.
Finishes(h) ==
  /\ SamePlan(h) /\ job'[h].op = job[h].op /\ job'[h].soft = job[h].soft
  /\ job'[h].pc = "reply"
  /\ \/ job[h].pc = "list" /\ job'[h].outcome = "ok"
     \/ /\ job[h].pc = "next" /\ job[h].todo = <<>>
        /\ job'[h].outcome = IF job[h].soft THEN "soft" ELSE "ok"

\* The next operation of the plan is passed over or begun.
Advances(h) ==
  /\ job[h].pc = "next" /\ job[h].todo # <<>>
  /\ job'[h].batch = job[h].batch /\ job'[h].todo = Tail(job[h].todo)
  /\ job'[h].zones = job[h].zones
  /\ job'[h].soft = job[h].soft /\ job'[h].outcome = job[h].outcome
  /\ \/ /\ ZoneFor(h, Head(job[h].todo)) = {} \/ DryRun
        /\ job'[h].op = job[h].op /\ job'[h].pc = "next"
     \/ /\ ZoneFor(h, Head(job[h].todo)) # {} /\ ~DryRun
        /\ job'[h].op = Head(job[h].todo) /\ job'[h].pc \in {"create", "lookup"}

\* The request goes on with the same step.
Stays(h) == GoesOn(h) /\ job'[h].pc = job[h].pc

\* What can happen to a request between two operations.
PlanForm(h) ==
  /\ \A g \in Handler : g # h => job'[g] = job[g]
  /\ Empty(h) \/ Arrives(h) \/ Gets(h) \/ Finishes(h) \/ Advances(h) \/ Stays(h)

\* What can happen to a request in any of its steps.
JobForm(h) ==
  /\ \A g \in Handler : g # h => job'[g] = job[g]
  /\ \/ Empty(h) \/ Arrives(h) \/ Gets(h) \/ Finishes(h) \/ Advances(h)
     \/ GoesOn(h) \/ Ends(h)

\* A request that is given up or answered has nothing left.
LEMMA RejectForm ==
  ASSUME job \in [Handler -> Job], NEW h \in Handler, Reject(h) \/ Respond(h)
  PROVE  PlanForm(h)
<1>1. CASE Reject(h)
  <2>1. job' = [job EXCEPT ![h] = [IdleJob EXCEPT !.pc = "reply", !.outcome = "error"]]
    BY <1>1 DEF Reject, Becomes
  <2> QED
    BY <2>1 DEF PlanForm, Empty, IdleJob
<1>2. CASE Respond(h)
  <2>1. job' = [job EXCEPT ![h] = IdleJob]
    BY <1>2 DEF Respond, Becomes
  <2> QED
    BY <2>1 DEF PlanForm, Empty, IdleJob
<1> QED
  BY <1>1, <1>2

\* The steps by which a request arrives or is cancelled.
LEMMA RequestForm ==
  ASSUME job \in [Handler -> Job], NEW h \in Handler, Request(h)
  PROVE  PlanForm(h)
<1>0. job[h] \in Job
  OBVIOUS
<1>1. CASE StartRecords(h)
  <2>1. job' = [job EXCEPT ![h] = [job[h] EXCEPT !.pc = "recordsZones"]]
    BY <1>1 DEF StartRecords, Goto, Becomes
  <2> QED
    BY <1>0, <1>1, <2>1 DEF PlanForm, Arrives, SamePlan, StartRecords, Job
<1>2. ASSUME NEW ops \in Batches, StartApply(h, ops) PROVE PlanForm(h)
  <2> DEFINE j == [job[h] EXCEPT
                     !.batch = ops, !.todo = ops,
                     !.pc = IF ops = <<>> THEN "reply" ELSE "applyZones",
                     !.outcome = IF ops = <<>> THEN "ok" ELSE "none"]
  <2>1. job' = [job EXCEPT ![h] = j]
    BY <1>2 DEF StartApply, Becomes
  <2>2. /\ j.batch = ops /\ j.todo = ops /\ j.op = job[h].op /\ j.soft = job[h].soft
        /\ j.zones = job[h].zones
        /\ j.pc = IF ops = <<>> THEN "reply" ELSE "applyZones"
        /\ j.outcome = IF ops = <<>> THEN "ok" ELSE "none"
    BY <1>0 DEF Job
  <2> HIDE DEF j
  <2> QED
    BY <1>2, <2>1, <2>2 DEF PlanForm, Arrives, StartApply
<1>3. CASE Cancel(h)
  <2>1. job' = [job EXCEPT ![h] = [job[h] EXCEPT !.ctxDone = TRUE]]
    BY <1>3 DEF Cancel, Becomes
  <2> QED
    BY <1>0, <1>3, <2>1 DEF PlanForm, Stays, GoesOn, SamePlan, Cancel, Job
<1>4. CASE Respond(h)
  BY <1>4, RejectForm
<1> QED
  BY <1>1, <1>2, <1>3, <1>4 DEF Request

\* The steps that get the zones, or fail to.
LEMMA ZonesForm ==
  ASSUME job \in [Handler -> Job], NEW h \in Handler,
         CachedZones(h) \/ GetsZones(h) \/ ListZonesFails(h)
  PROVE  PlanForm(h)
<1>0. job[h] \in Job
  OBVIOUS
<1>1. CASE CachedZones(h) \/ GetsZones(h)
  <2>1. WantsZones(h) /\ GotZones(h, cachedZones')
    BY <1>1 DEF CachedZones, GetsZones, ListZones, ListZonesMisread, ListsZones, StoreZones,
                cacheVars
  <2>2. job' = [job EXCEPT ![h] = [job[h] EXCEPT
                  !.zones = cachedZones',
                  !.pending = IF job[h].pc = "recordsZones" THEN cachedZones' ELSE <<>>,
                  !.pc = IF job[h].pc = "recordsZones" THEN "list" ELSE "next"]]
    BY <2>1 DEF GotZones, Becomes
  <2> QED
    BY <1>0, <2>1, <2>2 DEF PlanForm, Gets, Job
<1>2. CASE ListZonesFails(h)
  BY <1>2, RejectForm DEF ListZonesFails
<1> QED
  BY <1>1, <1>2

\* The steps of Records.
LEMMA RecordsForm ==
  ASSUME job \in [Handler -> Job], NEW h \in Handler,
         HearsZone(h) \/ SwapIndex(h) \/ ListRecordsFails(h)
  PROVE  PlanForm(h)
<1>0. job[h] \in Job
  OBVIOUS
<1>1. CASE HearsZone(h)
  <2>1. ListsZone(h) /\ \E recs : Hears(h, recs)
    BY <1>1 DEF HearsZone, ListRecords, ListRecordsMisread
  <2>2. PICK recs : job' = [job EXCEPT ![h] = [job[h] EXCEPT
                      !.seen = job[h].seen \o recs, !.pending = Tail(job[h].pending)]]
    BY <2>1 DEF Hears, Becomes
  <2> QED
    BY <1>0, <2>1, <2>2 DEF PlanForm, Stays, GoesOn, SamePlan, ListsZone, Job
<1>2. CASE SwapIndex(h)
  <2>1. job' = [job EXCEPT ![h] = [job[h] EXCEPT !.pc = "reply", !.outcome = "ok"]]
    BY <1>2 DEF SwapIndex, Becomes
  <2> QED
    BY <1>0, <1>2, <2>1 DEF PlanForm, Finishes, SamePlan, SwapIndex, Job
<1>3. CASE ListRecordsFails(h)
  BY <1>3, RejectForm DEF ListRecordsFails
<1> QED
  BY <1>1, <1>2, <1>3

\* The step by which an operation begins.
LEMMA TakeForm ==
  ASSUME TypeOK, NEW h \in Handler, TakeOp(h)
  PROVE  PlanForm(h)
<1>0. job[h] \in Job /\ job \in [Handler -> Job]
  BY DEF TypeOK
<1> DEFINE op == Head(job[h].todo)
<1>1. PICK z \in ZoneFor(h, op) :
        Becomes(h, [job[h] EXCEPT
          !.todo = Tail(@), !.op = op, !.zone = z,
          !.pc = IF op.action = "create" THEN "create" ELSE "lookup"])
  BY Zenon DEF TakeOp
<1> HIDE DEF op
<1>2. /\ job'[h].batch = job[h].batch /\ job'[h].todo = Tail(job[h].todo)
      /\ job'[h].zones = job[h].zones /\ job'[h].soft = job[h].soft
      /\ job'[h].outcome = job[h].outcome
      /\ job'[h].op = op /\ job'[h].pc \in {"create", "lookup"}
      /\ \A g \in Handler : g # h => job'[g] = job[g]
  BY <1>0, <1>1 DEF Becomes, Job
<1>3. job[h].pc = "next" /\ job[h].todo # <<>> /\ ~DryRun
  BY DEF TakeOp
<1>4. ZoneFor(h, op) # {}
  BY <1>1
<1> QED
  BY <1>2, <1>3, <1>4 DEF PlanForm, Advances, op

\* The steps of the loop over the plan.
LEMMA LoopForm ==
  ASSUME TypeOK, NEW h \in Handler,
         FinishApply(h) \/ StopCancelled(h) \/ SkipOp(h) \/ TakeOp(h)
  PROVE  PlanForm(h)
<1>0. job[h] \in Job /\ job \in [Handler -> Job]
  BY DEF TypeOK
<1>1. CASE FinishApply(h)
  <2>1. job' = [job EXCEPT ![h] = [job[h] EXCEPT !.pc = "reply",
                  !.outcome = IF job[h].soft THEN "soft" ELSE "ok"]]
    BY <1>1 DEF FinishApply, Becomes
  <2> QED
    BY <1>0, <1>1, <2>1 DEF PlanForm, Finishes, SamePlan, FinishApply, Job
<1>2. CASE StopCancelled(h)
  BY <1>0, <1>2, RejectForm DEF StopCancelled
<1>3. CASE SkipOp(h)
  <2>1. job' = [job EXCEPT ![h] = [job[h] EXCEPT !.todo = Tail(job[h].todo)]]
    BY <1>3 DEF SkipOp, Becomes
  <2> QED
    BY <1>0, <1>3, <2>1 DEF PlanForm, Advances, SkipOp, Job
<1>4. CASE TakeOp(h)
  BY <1>4, TakeForm
<1> QED
  BY <1>1, <1>2, <1>3, <1>4

\* The steps at which a request works on an operation.
WorkStep(h) ==
  \/ LookupHit(h) \/ LookupMiss(h) \/ HearsAgain(h) \/ MergeListing(h)
  \/ RejectInput(h) \/ CreateRecord(h) \/ CreateRefused(h) \/ SetIndex(h)
  \/ UpdateRecord(h) \/ UpdateMissing(h) \/ DeleteRecord(h) \/ DropIndex(h)
  \/ RelistFails(h) \/ CreateRecordFails(h) \/ UpdateRecordFails(h)
  \/ DeleteRecordFails(h)

\* Such a request has an operation.
LEMMA WorkHasOp ==
  ASSUME IInv, NEW h \in Handler, WorkStep(h)
  PROVE  /\ job \in [Handler -> Job] /\ job[h] \in Job /\ OpNames(h)
         /\ job[h].op # None /\ job[h].op \in Op
         /\ job[h].pc \in Busy /\ OpKey(h) \in Key
<1>1. job \in [Handler -> Job] /\ job[h] \in Job /\ OpNames(h)
  BY DEF IInv, TypeOK
<1>2. job[h].pc \in Busy
  BY DEF WorkStep, Busy, LookupHit, LookupMiss, HearsAgain, Relist, RelistMisread,
     MergeListing, RejectInput,
     CreateRecord, CreateRefused, SetIndex, UpdateRecord, UpdateMissing,
     DeleteRecord, DropIndex, RelistFails, CreateRecordFails, UpdateRecordFails,
     DeleteRecordFails
<1>3. job[h].op # None
  BY <1>1, <1>2 DEF OpNames, Busy
<1>4. job[h].op \in Op
  BY <1>1, <1>3 DEF Job
<1> QED
  BY <1>1, <1>2, <1>3, <1>4 DEF OpKey, KeyOf, Key, Op

\* Where the operation is when the request goes on, and what it has done when
\* it ends: it has failed, or it is carried out.
LastFine(h) ==
  \/ job'[h].op # None /\ job'[h].pc \notin {"setIndex", "dropIndex"}
  \/ job'[h].soft
  \/ job[h].pc \in {"setIndex", "dropIndex"}
  \/ \E op \in Op : op = job[h].op /\ CarriedOut(h, op)'

\* How a request works on its operation.
WorkForm(h) ==
  /\ \A g \in Handler : g # h => job'[g] = job[g]
  /\ \/ Empty(h)
     \/ /\ GoesOn(h) \/ Ends(h)
        /\ job'[h].soft \/ job'[h].soft = job[h].soft
        /\ LastFine(h)

\* A failed call leaves nothing behind, or a plan that reports it.
LEMMA FailForm ==
  ASSUME IInv, NEW h \in Handler, WorkStep(h), NEW error, OpFails(h, error)
  PROVE  WorkForm(h)
  BY WorkHasOp, OpFailsForm DEF WorkForm, LastFine

\* A delete has nothing to put into the Portal.
LEMMA DeleteCarriedOut ==
  ASSUME NEW h \in Handler, job[h].op \in Op, job[h].op.action = "delete"
  PROVE  \E op \in Op : op = job[h].op /\ CarriedOut(h, op)'
  BY DEF CarriedOut

\* The lookup of the record's id.
LEMMA LookupForm ==
  ASSUME IInv, NEW h \in Handler,
         \/ LookupHit(h) \/ LookupMiss(h) \/ HearsAgain(h)
         \/ MergeListing(h) \/ RelistFails(h)
  PROVE  WorkForm(h)
<1>0. WorkStep(h)
  BY DEF WorkStep
<1>1. /\ job \in [Handler -> Job] /\ job[h] \in Job
      /\ job[h].op # None /\ job[h].op \in Op
      /\ job[h].op.action \in {"update", "delete"}
  BY <1>0, WorkHasOp DEF OpNames, LookupHit, LookupMiss, HearsAgain, Relist, RelistMisread,
                         MergeListing, RelistFails
<1>2. job[h].op.action \notin {"setIndex", "dropIndex"}
  BY <1>1
<1>3. CASE LookupHit(h)
  BY <1>1, <1>2, <1>3, FoundIDForm DEF LookupHit, WorkForm, GoesOn, LastFine
<1>4. CASE LookupMiss(h)
  BY <1>1, <1>4, GotoForm DEF LookupMiss, WorkForm, GoesOn, LastFine, Busy
<1>5. CASE HearsAgain(h)
  <2>1. \E recs : RelistsZone(h, recs)
    BY <1>5 DEF HearsAgain, Relist, RelistMisread
  <2>2. PICK recs : job' = [job EXCEPT ![h] = [job[h] EXCEPT !.seen = recs, !.pc = "merge"]]
    BY <2>1 DEF RelistsZone, Becomes
  <2> QED
    BY <1>1, <2>2 DEF WorkForm, GoesOn, SamePlan, LastFine, Busy, Job
<1>6. CASE MergeListing(h)
  <2>1. CASE \E id : FoundID(h, id)
    BY <1>1, <1>2, <2>1, FoundIDForm DEF WorkForm, GoesOn, LastFine
  <2>2. CASE EndOp(h, job[h].soft) /\ job[h].op.action = "delete"
    BY <1>1, <2>2, EndOpForm, DeleteCarriedOut DEF WorkForm, LastFine
  <2>3. CASE Goto(h, "create")
    BY <1>1, <2>3, GotoForm DEF WorkForm, GoesOn, LastFine, Busy
  <2> QED
    BY <1>6, <2>1, <2>2, <2>3 DEF MergeListing
<1>7. CASE RelistFails(h)
  BY <1>0, <1>7, FailForm DEF RelistFails
<1> QED
  BY <1>3, <1>4, <1>5, <1>6, <1>7

\* What the Portal is left with where the create or update of an operation took
\* effect is what the operation wants.
LEMMA HasIsCarriedOut ==
  ASSUME NEW h \in Handler, job[h].op \in Op, NEW id \in ID, portal'[id] # None,
         KeyOf(portal'[id]) = OpKey(h), portal'[id].ttl = job[h].op.ttl
  PROVE  \E op \in Op : op = job[h].op /\ CarriedOut(h, op)'
<1> SUFFICES ASSUME NEW op \in Op, op = job[h].op PROVE CarriedOut(h, op)'
  OBVIOUS
<1>1. id \in Live' /\ KeyOf(portal[id])' = KeyOf(op)
  BY DEF Live, KeyOf, OpKey
<1> QED
  BY <1>1, Zenon DEF CarriedOut

\* The creation of a record.
LEMMA CreateForm ==
  ASSUME IInv, NEW h \in Handler,
         \/ RejectInput(h) \/ CreateRecord(h) \/ CreateRecordFails(h)
         \/ CreateRefused(h) \/ SetIndex(h)
  PROVE  WorkForm(h)
<1>0. WorkStep(h)
  BY DEF WorkStep
<1>1. /\ job \in [Handler -> Job] /\ job[h] \in Job
      /\ job[h].op # None /\ job[h].op \in Op /\ TypeOK
  BY <1>0, WorkHasOp DEF IInv
<1>2. CASE RejectInput(h)
  BY <1>0, <1>2, FailForm DEF RejectInput
<1>3. CASE CreateRecord(h)
  <2>1. job' = [job EXCEPT ![h] = [job[h] EXCEPT !.pc = "setIndex", !.id = nextID]]
    BY <1>3 DEF CreateRecord, Becomes
  <2>2. /\ \A g \in Handler : g # h => job'[g] = job[g]
        /\ GoesOn(h) /\ job'[h].soft = job[h].soft
    BY <1>1, <2>1 DEF GoesOn, SamePlan, Busy, Job
  <2>3. PICK z \in findZone(portalZones, job[h].op.rrset) :
          portal' = [portal EXCEPT ![nextID] =
            [rrset |-> job[h].op.rrset, target |-> job[h].op.target,
             ttl |-> job[h].op.ttl, zone |-> z]]
    BY <1>3 DEF CreateRecord, Insert
  <2>4. nextID \in ID
    BY <1>3 DEF CreateRecord, Insert
  <2>5. portal'[nextID] = [rrset |-> job[h].op.rrset, target |-> job[h].op.target,
                           ttl |-> job[h].op.ttl, zone |-> z]
    BY <1>1, <2>3, <2>4 DEF TypeOK
  <2>6. z \in Zone
    BY <1>1 DEF findZone, TypeOK
  <2>7. portal'[nextID] \in Record
    BY <1>1, <2>5, <2>6 DEF Record, Op
  <2>8. /\ portal'[nextID] # None /\ KeyOf(portal'[nextID]) = OpKey(h)
        /\ portal'[nextID].ttl = job[h].op.ttl
    BY <2>5, <2>7, NoneAssumption DEF KeyOf, OpKey
  <2>9. LastFine(h)
    BY <1>1, <2>4, <2>8, HasIsCarriedOut DEF LastFine
  <2> QED
    BY <2>2, <2>9 DEF WorkForm
<1>4. CASE CreateRecordFails(h)
  BY <1>0, <1>4, FailForm DEF CreateRecordFails
<1>5. CASE CreateRefused(h)
  BY <1>0, <1>5, FailForm DEF CreateRefused
<1>6. CASE SetIndex(h)
  BY <1>1, <1>6, EndOpForm DEF SetIndex, WorkForm, LastFine
<1> QED
  BY <1>2, <1>3, <1>4, <1>5, <1>6

\* The update of a record.
LEMMA UpdateForm ==
  ASSUME IInv, NEW h \in Handler,
         UpdateRecord(h) \/ UpdateMissing(h) \/ UpdateRecordFails(h)
  PROVE  WorkForm(h)
<1>0. WorkStep(h)
  BY DEF WorkStep
<1>1. /\ job \in [Handler -> Job] /\ job[h] \in Job /\ OpNames(h)
      /\ job[h].op # None /\ job[h].op \in Op /\ TypeOK
  BY <1>0, WorkHasOp DEF IInv
<1>2. CASE UpdateRecord(h)
  <2> DEFINE id == job[h].id
  <2>1. id \in ID /\ Names(id, OpKey(h)) /\ portal[id] # None
    BY <1>1, <1>2 DEF OpNames, UpdateRecord, Job
  <2>2. portal[id] \in Record /\ KeyOf(portal[id]) = OpKey(h)
    BY <1>1, <2>1 DEF TypeOK, Names
  <2>3. portal'[id] = [[portal[id] EXCEPT !.target = job[h].op.target]
                         EXCEPT !.ttl = job[h].op.ttl]
    BY <1>1, <1>2, <2>1 DEF UpdateRecord, Patch, TypeOK
  <2> HIDE DEF id
  <2>4. portal'[id] \in Record
    BY <1>1, <2>2, <2>3 DEF Record, Op
  <2>5. /\ portal'[id] # None /\ KeyOf(portal'[id]) = OpKey(h)
        /\ portal'[id].ttl = job[h].op.ttl
    BY <2>2, <2>3, <2>4, NoneAssumption DEF KeyOf, OpKey, Record
  <2>6. EndOp(h, job[h].soft)
    BY <1>2 DEF UpdateRecord
  <2>7. LastFine(h)
    BY <1>1, <2>1, <2>5, HasIsCarriedOut DEF LastFine
  <2> QED
    BY <1>1, <2>6, <2>7, EndOpForm DEF WorkForm
<1>3. CASE UpdateMissing(h)
  BY <1>0, <1>3, FailForm DEF UpdateMissing
<1>4. CASE UpdateRecordFails(h)
  BY <1>0, <1>4, FailForm DEF UpdateRecordFails
<1> QED
  BY <1>2, <1>3, <1>4

\* The deletion of a record.
LEMMA DeleteForm ==
  ASSUME IInv, NEW h \in Handler,
         DeleteRecord(h) \/ DeleteRecordFails(h) \/ DropIndex(h)
  PROVE  WorkForm(h)
<1>0. WorkStep(h)
  BY DEF WorkStep
<1>1. /\ job \in [Handler -> Job] /\ job[h] \in Job /\ OpNames(h)
      /\ job[h].op # None /\ job[h].op \in Op
  BY <1>0, WorkHasOp
<1>2. CASE DeleteRecord(h)
  <2>1. job[h].op.action = "delete" /\ Goto(h, "dropIndex")
    BY <1>1, <1>2 DEF DeleteRecord, OpNames
  <2> QED
    BY <1>1, <2>1, GotoForm, DeleteCarriedOut DEF WorkForm, GoesOn, LastFine, Busy
<1>3. CASE DeleteRecordFails(h)
  BY <1>0, <1>3, FailForm DEF DeleteRecordFails
<1>4. CASE DropIndex(h)
  BY <1>1, <1>4, EndOpForm DEF DropIndex, WorkForm, LastFine
<1> QED
  BY <1>2, <1>3, <1>4

\* Whatever a request does to its operation has one of these forms.
LEMMA WorkHasForm ==
  ASSUME IInv, NEW h \in Handler, WorkStep(h)
  PROVE  WorkForm(h) /\ JobForm(h)
<1>1. WorkForm(h)
  BY LookupForm, CreateForm, UpdateForm, DeleteForm DEF WorkStep
<1> QED
  BY <1>1 DEF WorkForm, JobForm

\* The other steps of a request.
PlanStep(h) ==
  \/ Request(h) \/ CachedZones(h) \/ GetsZones(h) \/ ListZonesFails(h)
  \/ HearsZone(h) \/ SwapIndex(h) \/ ListRecordsFails(h)
  \/ FinishApply(h) \/ StopCancelled(h) \/ SkipOp(h) \/ TakeOp(h)

\* They have these forms too, and leave the records alone.
LEMMA PlanStepHasForm ==
  ASSUME TypeOK, NEW h \in Handler, PlanStep(h)
  PROVE  PlanForm(h) /\ JobForm(h) /\ portal' = portal
<1>1. job \in [Handler -> Job]
  BY DEF TypeOK
<1>2. PlanForm(h)
  BY <1>1, RequestForm, ZonesForm, RecordsForm, LoopForm DEF PlanStep
<1>3. portalVars' = portalVars
  <2>1. ASSUME Request(h) PROVE portalVars' = portalVars
    BY <2>1, Zenon DEF Request, StartRecords, StartApply, Cancel, Respond
  <2>2. ASSUME CachedZones(h) \/ GetsZones(h) \/ ListZonesFails(h) PROVE portalVars' = portalVars
    BY <2>2, Zenon DEF CachedZones, GetsZones, ListZones, ListZonesMisread, StoreZones,
       ListZonesFails
  <2>3. ASSUME HearsZone(h) \/ SwapIndex(h) \/ ListRecordsFails(h)
        PROVE  portalVars' = portalVars
    BY <2>3, Zenon DEF HearsZone, ListRecords, ListRecordsMisread, Hears, SwapIndex,
       ListRecordsFails
  <2>4. ASSUME FinishApply(h) \/ StopCancelled(h) \/ SkipOp(h) \/ TakeOp(h)
        PROVE  portalVars' = portalVars
    BY <2>4, Zenon DEF FinishApply, StopCancelled, SkipOp, TakeOp
  <2> QED
    BY <2>1, <2>2, <2>3, <2>4 DEF PlanStep
<1>4. JobForm(h)
  BY <1>2 DEF PlanForm, JobForm, Stays
<1> QED
  BY <1>2, <1>3, <1>4 DEF portalVars

\* There are no other steps of a request.
LEMMA RequestSteps ==
  ASSUME NEW h \in Handler,
         Request(h) \/ HandlerStep(h) \/ FaultStep(h) \/ MisreadStep(h)
  PROVE  PlanStep(h) \/ WorkStep(h)
  BY DEF HandlerStep, FaultStep, MisreadStep, RecordsStep, ApplyStep, PlanStep, WorkStep,
         GetsZones, HearsZone, HearsAgain

-----------------------------------------------------------------------------
(* What a step does to the records.                                        *)

\* What a request can do to the records: create, patch or remove one.
PortalForm(h) ==
  \/ portal' = portal
  \/ /\ job[h].pc = "create"
     /\ Insert(job[h].op.rrset, job[h].op.target, job[h].op.ttl)
  \/ /\ job[h].pc = "update" /\ portal[job[h].id] # None
     /\ Patch(job[h].id, job[h].op.target, job[h].op.ttl)
  \/ /\ job[h].pc = "delete"
     /\ portal' = [portal EXCEPT ![job[h].id] = None]

\* Working on an operation does one of these.
LEMMA WorkPortalForm ==
  ASSUME NEW h \in Handler, WorkStep(h)
  PROVE  PortalForm(h)
<1>1. CASE \/ LookupHit(h) \/ LookupMiss(h) \/ HearsAgain(h) \/ MergeListing(h)
           \/ RejectInput(h) \/ CreateRefused(h) \/ SetIndex(h) \/ UpdateMissing(h)
           \/ DropIndex(h) \/ RelistFails(h)
  <2>1. portalVars' = portalVars
    BY <1>1, Zenon DEF LookupHit, LookupMiss, HearsAgain, Relist, RelistMisread,
       RelistsZone, MergeListing, RejectInput,
       CreateRefused, SetIndex, UpdateMissing, DropIndex, RelistFails
  <2> QED
    BY <2>1 DEF PortalForm, portalVars
<1>2. CASE CreateRecord(h)
  BY <1>2 DEF CreateRecord, PortalForm
<1>3. CASE CreateRecordFails(h)
  <2>1. PICK f \in Faults(h) :
          IF f.effect THEN Insert(job[h].op.rrset, job[h].op.target, job[h].op.ttl)
          ELSE UNCHANGED <<portal, nextID>>
    BY <1>3, Zenon DEF CreateRecordFails
  <2>2. job[h].pc = "create"
    BY <1>3 DEF CreateRecordFails
  <2> QED
    BY <2>1, <2>2 DEF PortalForm
<1>4. CASE UpdateRecord(h)
  BY <1>4 DEF UpdateRecord, PortalForm
<1>5. CASE UpdateRecordFails(h)
  <2>1. PICK f \in Faults(h) :
          IF f.effect /\ portal[job[h].id] # None
          THEN Patch(job[h].id, job[h].op.target, job[h].op.ttl)
          ELSE UNCHANGED portal
    BY <1>5, Zenon DEF UpdateRecordFails
  <2>2. job[h].pc = "update"
    BY <1>5 DEF UpdateRecordFails
  <2> QED
    BY <2>1, <2>2 DEF PortalForm
<1>6. CASE DeleteRecord(h)
  BY <1>6 DEF DeleteRecord, PortalForm
<1>7. CASE DeleteRecordFails(h)
  <2>1. PICK f \in Faults(h) :
          portal' = IF f.effect THEN [portal EXCEPT ![job[h].id] = None] ELSE portal
    BY <1>7, Zenon DEF DeleteRecordFails
  <2>2. job[h].pc = "delete"
    BY <1>7 DEF DeleteRecordFails
  <2> QED
    BY <2>1, <2>2 DEF PortalForm
<1> QED
  BY <1>1, <1>2, <1>3, <1>4, <1>5, <1>6, <1>7 DEF WorkStep

\* A new record is where its name allows, under an id that no record had.
LEMMA InsertFits ==
  ASSUME TypeOK, FreshIDs, NEW r \in RRset, NEW t \in Target, NEW ttl \in TTL,
         Insert(r, t, ttl)
  PROVE  /\ nextID \in ID /\ portal[nextID] = None
         /\ \A i \in ID : i # nextID => portal'[i] = portal[i]
         /\ portal'[nextID] \in Record /\ portal'[nextID].rrset = r
         /\ portal'[nextID].zone \in ZonesOf[r]
<1>1. PICK z \in findZone(portalZones, r) :
         portal' = [portal EXCEPT ![nextID] =
                      [rrset |-> r, target |-> t, ttl |-> ttl, zone |-> z]]
  BY DEF Insert
<1>2. nextID \in ID /\ portal[nextID] = None
  BY DEF Insert, FreshIDs, ID
<1>3. z \in ZonesOf[r] /\ z \in Zone
  BY DEF findZone, TypeOK
<1>4. /\ \A i \in ID : i # nextID => portal'[i] = portal[i]
      /\ portal'[nextID] = [rrset |-> r, target |-> t, ttl |-> ttl, zone |-> z]
  BY <1>1, <1>2 DEF TypeOK
<1> QED
  BY <1>2, <1>3, <1>4 DEF Record

\* A patched record keeps its name and zone; all others stay as they are.
LEMMA PatchFits ==
  ASSUME TypeOK, NEW id \in ID, NEW t \in Target, NEW ttl \in TTL,
         portal[id] # None, Patch(id, t, ttl)
  PROVE  /\ \A i \in ID : i # id => portal'[i] = portal[i]
         /\ portal'[id] \in Record /\ portal'[id].rrset = portal[id].rrset
         /\ portal'[id].target = t /\ portal'[id].ttl = ttl
         /\ portal'[id].zone = portal[id].zone
<1>1. portal[id] \in Record
  BY DEF TypeOK
<1>2. portal'[id] = [[portal[id] EXCEPT !.target = t] EXCEPT !.ttl = ttl]
  BY DEF Patch, TypeOK
<1>3. \A i \in ID : i # id => portal'[i] = portal[i]
  BY DEF Patch, TypeOK
<1> QED
  BY <1>1, <1>2, <1>3 DEF Record

\* Records stay in zones of their names.
RecordsFit == \A i \in Live : portal[i].zone \in ZonesOf[portal[i].rrset]

\* A step of a request keeps them there.
LEMMA WorkKeepsRecordsFit ==
  ASSUME IInv, RecordsFit, NEW h \in Handler, WorkStep(h)
  PROVE  RecordsFit'
<1>0. /\ TypeOK /\ FreshIDs /\ OpNames(h) /\ job[h] \in Job
      /\ job[h].op \in Op
  BY WorkHasOp DEF IInv
<1>1. job[h].op.rrset \in RRset /\ job[h].op.target \in Target /\ job[h].op.ttl \in TTL
  BY <1>0 DEF Op
<1>2. job[h].pc \in {"update", "delete"} => job[h].id \in ID
  BY <1>0 DEF OpNames, Job
<1> SUFFICES ASSUME NEW i \in ID, portal'[i] # None
             PROVE  portal'[i].zone \in ZonesOf[portal'[i].rrset]
  BY DEF RecordsFit, Live
<1>3. portal[i] # None => portal[i].zone \in ZonesOf[portal[i].rrset]
  BY DEF RecordsFit, Live
<1>4. CASE portal' = portal
  BY <1>3, <1>4
<1>5. CASE Insert(job[h].op.rrset, job[h].op.target, job[h].op.ttl)
  BY <1>0, <1>1, <1>3, <1>5, InsertFits
<1>6. CASE /\ job[h].pc = "update" /\ portal[job[h].id] # None
           /\ Patch(job[h].id, job[h].op.target, job[h].op.ttl)
  BY <1>0, <1>1, <1>2, <1>3, <1>6, PatchFits
<1>7. CASE job[h].pc = "delete" /\ portal' = [portal EXCEPT ![job[h].id] = None]
  BY <1>0, <1>2, <1>3, <1>7 DEF TypeOK
<1> QED
  BY <1>4, <1>5, <1>6, <1>7, WorkPortalForm DEF PortalForm

\* So does an operator.
LEMMA OperatorKeepsRecordsFit ==
  ASSUME IInv, RecordsFit, Operator
  PROVE  RecordsFit'
<1>0. TypeOK /\ FreshIDs
  BY DEF IInv
<1> SUFFICES ASSUME NEW i \in ID, portal'[i] # None
             PROVE  portal'[i].zone \in ZonesOf[portal'[i].rrset]
  BY DEF RecordsFit, Live
<1>1. portal[i] # None => portal[i].zone \in ZonesOf[portal[i].rrset]
  BY DEF RecordsFit, Live
<1>2. ASSUME NEW r \in RRset, NEW t \in Target, NEW ttl \in TTL, OperatorCreates(r, t, ttl)
      PROVE  portal'[i].zone \in ZonesOf[portal'[i].rrset]
  BY <1>0, <1>1, <1>2, InsertFits DEF OperatorCreates
<1>3. ASSUME NEW id \in ID, OperatorDeletes(id)
      PROVE  portal'[i].zone \in ZonesOf[portal'[i].rrset]
  BY <1>0, <1>1, <1>3 DEF OperatorDeletes, TypeOK
<1>4. ASSUME NEW z \in Zone, OperatorAddsZone(z) \/ OperatorRemovesZone(z)
      PROVE  portal'[i].zone \in ZonesOf[portal'[i].rrset]
  BY <1>0, <1>1, <1>4 DEF OperatorAddsZone, OperatorRemovesZone
<1> QED
  BY <1>2, <1>3, <1>4 DEF Operator

-----------------------------------------------------------------------------
(* Plans are gone through from the first operation to the last.            *)

\* What Begun counts.
LEMMA BegunNat ==
  ASSUME TypeOK, NEW h \in Handler, InPlan(h)
  PROVE  /\ job[h].batch \in Seq(Op) /\ job[h].todo \in Seq(Op)
         /\ Len(job[h].batch) \in Nat /\ Len(job[h].todo) \in Nat
         /\ Begun(h) \in Nat /\ Begun(h) + Len(job[h].todo) = Len(job[h].batch)
<1>1. job[h].batch \in Seq(Op) /\ job[h].todo \in Seq(Op)
  BY DEF TypeOK, Job
<1>2. Len(job[h].batch) \in Nat /\ Len(job[h].todo) \in Nat
  BY <1>1
<1> QED
  BY <1>1, <1>2 DEF InPlan, Begun

\* A request that keeps its plan is as far as before.
LEMMA SameBegun ==
  ASSUME NEW h \in Handler, job'[h].batch = job[h].batch, job'[h].todo = job[h].todo
  PROVE  Begun(h)' = Begun(h)
  BY DEF Begun

\* The next operation of a plan is the first one left.
LEMMA AdvanceBegun ==
  ASSUME TypeOK, NEW h \in Handler, InPlan(h), Advances(h)
  PROVE  /\ Begun(h)' = Begun(h) + 1
         /\ Head(job[h].todo) \in Op
         /\ Head(job[h].todo) = job[h].batch[Begun(h) + 1]
         /\ \A i \in DOMAIN Tail(job[h].todo) :
              Tail(job[h].todo)[i] = job[h].batch[Begun(h) + 1 + i]
<1> DEFINE todo == job[h].todo
<1>0. /\ job[h].batch \in Seq(Op) /\ todo \in Seq(Op)
      /\ Begun(h) \in Nat /\ Begun(h) + Len(todo) = Len(job[h].batch)
  BY BegunNat
<1>1. /\ Len(todo) \in Nat \ {0} /\ Len(Tail(todo)) = Len(todo) - 1
      /\ Tail(todo) \in Seq(Op)
      /\ \A i \in 1 .. Len(todo) - 1 : Tail(todo)[i] = todo[i + 1]
      /\ Head(todo) = todo[1] /\ Head(todo) \in Op
  BY <1>0 DEF Advances
<1>2. job'[h].todo = Tail(todo) /\ job'[h].batch = job[h].batch
  BY DEF Advances
<1>3. Begun(h)' = Begun(h) + 1
  <2>1. Begun(h)' = Len(job[h].batch) - (Len(todo) - 1)
    BY <1>1, <1>2 DEF Begun
  <2>2. Len(job[h].batch) \in Nat /\ Len(todo) \in Nat
    BY <1>0
  <2>3. \A m, n \in Nat : m - (n - 1) = (m - n) + 1
    OBVIOUS
  <2>4. Len(job[h].batch) - (Len(todo) - 1) = (Len(job[h].batch) - Len(todo)) + 1
    BY <2>2, <2>3
  <2> QED
    BY <2>1, <2>4 DEF Begun
<1>4. \A i \in DOMAIN todo : todo[i] = job[h].batch[Begun(h) + i]
  BY DEF InPlan
<1>5. Head(todo) = job[h].batch[Begun(h) + 1]
  BY <1>0, <1>1, <1>4
<1>6. DOMAIN Tail(todo) = 1 .. Len(todo) - 1 /\ DOMAIN todo = 1 .. Len(todo)
  BY <1>0, <1>1
<1>7. ASSUME NEW i \in DOMAIN Tail(todo)
      PROVE  Tail(todo)[i] = job[h].batch[Begun(h) + 1 + i]
  <2>1. i \in Nat /\ i + 1 \in DOMAIN todo
    BY <1>1, <1>6
  <2>2. Tail(todo)[i] = todo[i + 1]
    BY <1>1, <1>6
  <2>3. Begun(h) + (i + 1) = Begun(h) + 1 + i
    BY <1>0, <2>1
  <2> QED
    BY <1>4, <2>1, <2>2, <2>3
<1> QED
  BY <1>1, <1>3, <1>5, <1>7

\* Every step of a request leads on in its plan.
LEMMA StepKeepsInPlan ==
  ASSUME TypeOK, TypeOK', NEW h \in Handler, OpNames(h), InPlan(h), JobForm(h)
  PROVE  InPlan(h)'
<1>0. /\ job[h].batch \in Seq(Op) /\ job[h].todo \in Seq(Op)
      /\ Begun(h) \in Nat /\ Begun(h) + Len(job[h].todo) = Len(job[h].batch)
  BY BegunNat
<1>1. CASE Empty(h)
  <2>1. Begun(h)' = 0
    BY <1>1 DEF Begun, Empty
  <2>2. job'[h].pc \in {"idle", "reply"} /\ job'[h].outcome # "ok"
    BY <1>1 DEF Empty, IdleJob
  <2>3. job'[h].pc = "idle" => job'[h] = IdleJob
    BY <1>1 DEF Empty
  <2> QED
    BY <1>1, <2>1, <2>2, <2>3 DEF InPlan, Empty
<1>2. CASE Arrives(h)
  <2>1. job[h] = IdleJob
    BY <1>2 DEF Arrives, InPlan
  <2>2. job[h].batch = <<>> /\ job[h].todo = <<>> /\ job[h].op = None /\ ~job[h].soft
        /\ job[h].outcome = "none"
    BY <2>1 DEF IdleJob
  <2>3. CASE SamePlan(h) /\ job'[h].pc = "recordsZones" /\ job'[h].outcome = job[h].outcome
    <3>1. Begun(h)' = 0
      BY <2>2, <2>3 DEF SamePlan, Begun
    <3> QED
      BY <1>2, <2>2, <2>3, <3>1 DEF InPlan, SamePlan, Arrives
  <2>4. CASE /\ job'[h].batch \in Batches /\ job'[h].todo = job'[h].batch
             /\ \/ job'[h].pc = "reply" /\ job'[h].todo = <<>>
                \/ job'[h].pc = "applyZones" /\ job'[h].outcome = "none"
    <3>1. job'[h].batch \in Seq(Op)
      BY <2>4, InputsAssumption
    <3>2. Begun(h)' = 0
      BY <2>4, <3>1 DEF Begun
    <3>3. \A i \in DOMAIN job'[h].todo : job'[h].todo[i] = job'[h].batch[0 + i]
      BY <2>4, <3>1
    <3>4. /\ job'[h].op = None /\ ~job'[h].soft
          /\ \/ job'[h].pc = "reply" /\ job'[h].todo = <<>>
             \/ job'[h].pc = "applyZones" /\ job'[h].outcome = "none"
      <4>1. job[h].op = None /\ ~job[h].soft
        BY <2>2
      <4>2. job'[h].op = job[h].op /\ job'[h].soft = job[h].soft
        BY <1>2 DEF Arrives
      <4>3. \/ job'[h].pc = "reply" /\ job'[h].todo = <<>>
            \/ job'[h].pc = "applyZones" /\ job'[h].outcome = "none"
        BY <2>4
      <4> QED
        BY <4>1, <4>2, <4>3
    <3> QED
      BY <2>4, <3>2, <3>3, <3>4 DEF InPlan
  <2> QED
    BY <1>2, <2>3, <2>4 DEF Arrives
<1>3. CASE Gets(h)
  <2>1. Begun(h)' = Begun(h)
    BY <1>3, SameBegun DEF Gets
  <2>2. job[h].pc \in {"recordsZones", "applyZones"} /\ job'[h].pc \in {"list", "next"}
    BY <1>3 DEF Gets, WantsZones
  <2> QED
    BY <1>3, <2>1, <2>2 DEF InPlan, Gets, WantsZones
<1>4. CASE Finishes(h)
  <2>1. Begun(h)' = Begun(h)
    BY <1>4, SameBegun DEF Finishes, SamePlan
  <2>2. job[h].pc \in {"list", "next"} /\ job[h].op = None
    BY <1>4 DEF Finishes, InPlan
  <2>3. job[h].pc = "list" => job[h].batch = <<>> /\ ~job[h].soft
    BY DEF InPlan
  <2>4. job[h].pc = "list" => Len(job[h].todo) = 0
    BY <1>0, <2>3
  <2>5. job[h].todo = <<>>
    BY <1>0, <1>4, <2>4 DEF Finishes
  <2> QED
    BY <1>4, <2>1, <2>2, <2>3, <2>5 DEF InPlan, Finishes, SamePlan
<1>5. CASE Advances(h)
  <2> DEFINE todo == job[h].todo
  <2>1. /\ Begun(h)' = Begun(h) + 1
        /\ Head(todo) = job[h].batch[Begun(h) + 1]
        /\ \A i \in DOMAIN Tail(todo) : Tail(todo)[i] = job[h].batch[Begun(h) + 1 + i]
    BY <1>5, AdvanceBegun
  <2>2. job[h].op = None /\ job[h].outcome # "ok"
    BY <1>5 DEF InPlan, Advances
  <2>3. job'[h].pc \in {"next", "create", "lookup"} /\ job'[h].todo = Tail(todo)
        /\ job'[h].batch = job[h].batch /\ job'[h].outcome = job[h].outcome
        /\ job'[h].op \in {None, Head(todo)} /\ (job'[h].pc = "next" => job'[h].op = None)
    BY <1>5, <2>2 DEF Advances
  <2>4. Begun(h) + 1 \in Nat /\ Begun(h) + 1 > 0
    BY <1>0
  <2> HIDE DEF todo
  <2> QED
    BY <2>1, <2>2, <2>3, <2>4 DEF InPlan
<1>6. CASE GoesOn(h)
  <2>1. Begun(h)' = Begun(h)
    BY <1>6, SameBegun DEF GoesOn, SamePlan
  <2> QED
    BY <1>6, <2>1 DEF InPlan, GoesOn, SamePlan, Busy
<1>7. CASE Ends(h)
  <2>1. Begun(h)' = Begun(h)
    BY <1>7, SameBegun DEF Ends, SamePlan
  <2> QED
    BY <1>7, <2>1 DEF InPlan, Ends, SamePlan
<1> QED
  BY <1>1, <1>2, <1>3, <1>4, <1>5, <1>6, <1>7 DEF JobForm

-----------------------------------------------------------------------------
(* Where a request writes.                                                 *)

\* The zones of a request are managed, and its operation is in one of them.
JobZones(h) ==
  /\ Range(job[h].zones) \subseteq Managed
  /\ job[h].op # None => Range(job[h].zones) \cap ZonesOf[job[h].op.rrset] # {}

\* Every step of a request keeps that.
LEMMA StepKeepsJobZones ==
  ASSUME NEW h \in Handler, InPlan(h), JobZones(h), Range(cachedZones') \subseteq Managed,
         JobForm(h)
  PROVE  JobZones(h)'
<1>1. CASE Empty(h)
  BY <1>1, NoRange DEF JobZones, Empty
<1>2. CASE Arrives(h)
  BY <1>2 DEF JobZones, Arrives
<1>3. CASE Gets(h)
  <2>1. job[h].op = None
    BY <1>3 DEF Gets, WantsZones, InPlan
  <2> QED
    BY <1>3, <2>1 DEF JobZones, Gets
<1>4. CASE Finishes(h) \/ GoesOn(h) \/ Ends(h)
  BY <1>4 DEF JobZones, Finishes, GoesOn, Ends, SamePlan
<1>5. CASE Advances(h)
  <2>1. job'[h].zones = job[h].zones
    BY <1>5 DEF Advances
  <2>2. CASE job'[h].op = job[h].op
    BY <2>1, <2>2 DEF JobZones
  <2>3. CASE ZoneFor(h, Head(job[h].todo)) # {} /\ job'[h].op = Head(job[h].todo)
    <3>1. PICK z \in ZoneFor(h, Head(job[h].todo)) : TRUE
      BY <2>3
    <3>2. z \in Range(job[h].zones) \cap ZonesOf[job'[h].op.rrset]
      BY <2>3, <3>1 DEF ZoneFor, findZone
    <3> QED
      BY <2>1, <3>2 DEF JobZones
  <2> QED
    BY <1>5, <2>2, <2>3 DEF Advances
<1> QED
  BY <1>1, <1>2, <1>3, <1>4, <1>5 DEF JobForm

\* The zone cache only ever holds zones that passed the filters.
LEMMA CacheIsFiltered ==
  ASSUME TypeOK, Next, Range(cachedZones) \subseteq Managed
  PROVE  Range(cachedZones') \subseteq Managed
<1>1. ASSUME NEW h \in Handler, GetsZones(h) PROVE Range(cachedZones') \subseteq Managed
  BY <1>1, ZonesListed DEF StoreZones, TypeOK
<1>2. ASSUME NEW h \in Handler, WorkStep(h) PROVE cacheVars' = cacheVars
  BY <1>2, Zenon DEF WorkStep, LookupHit, LookupMiss, HearsAgain, Relist, RelistMisread,
     RelistsZone, MergeListing, RejectInput,
     CreateRefused, SetIndex, UpdateMissing, DropIndex, RelistFails, CreateRecord,
     CreateRecordFails, UpdateRecord, UpdateRecordFails, DeleteRecord, DeleteRecordFails
<1>3. ASSUME NEW h \in Handler, PlanStep(h), ~GetsZones(h) PROVE cacheVars' = cacheVars
  BY <1>3, Zenon DEF PlanStep, Request, StartRecords, StartApply, Cancel, Respond,
     CachedZones, ListZonesFails, HearsZone, ListRecords, ListRecordsMisread, Hears,
     SwapIndex, ListRecordsFails, FinishApply, StopCancelled, SkipOp, TakeOp
<1>4. CASE Operator
  <2>1. cacheVars' = cacheVars
    BY <1>4, Zenon DEF Operator, OperatorCreates, OperatorDeletes, OperatorAddsZone,
       OperatorRemovesZone
  <2> QED
    BY <2>1 DEF cacheVars
<1>5. CASE DropZones \/ Restart
  BY <1>5, NoRange DEF DropZones, Restart
<1> QED
  BY <1>1, <1>2, <1>3, <1>4, <1>5, RequestSteps DEF Next, ProviderNext, cacheVars

\* A request that does nothing is as far in its plan as before.
LEMMA SameInPlan ==
  ASSUME NEW g \in Handler, InPlan(g), job'[g] = job[g]
  PROVE  InPlan(g)'
<1>1. Begun(g)' = Begun(g)
  BY SameBegun
<1> QED
  BY <1>1 DEF InPlan

\* What holds of all requests when one of them takes a step.
LEMMA ByJobForm ==
  ASSUME IInv, IInv', ZonesFit, \A g \in Handler : InPlan(g),
         Range(cachedZones') \subseteq Managed, RecordsFit', NEW h \in Handler, JobForm(h)
  PROVE  ZonesFit' /\ \A g \in Handler : InPlan(g)'
<1>1. TypeOK /\ TypeOK' /\ OpNames(h) /\ JobZones(h)
  BY DEF IInv, ZonesFit, JobZones
<1>2. InPlan(h)' /\ JobZones(h)'
  BY <1>1, StepKeepsInPlan, StepKeepsJobZones
<1>3. ASSUME NEW g \in Handler, g # h PROVE InPlan(g)' /\ JobZones(g)'
  <2>1. job'[g] = job[g]
    BY <1>3 DEF JobForm
  <2>2. InPlan(g)'
    BY <2>1, SameInPlan
  <2>3. JobZones(g)'
    BY <2>1 DEF JobZones, ZonesFit
  <2> QED
    BY <2>2, <2>3
<1>4. \A g \in Handler : InPlan(g)' /\ JobZones(g)'
  BY <1>2, <1>3
<1> QED
  BY <1>4 DEF ZonesFit, RecordsFit, JobZones

\* Writes stay in zones of the names that are written, and plans in order.
LEMMA NextZonesFit ==
  ASSUME IInv, IInv', ZonesFit, \A g \in Handler : InPlan(g), [Next]_vars
  PROVE  ZonesFit' /\ \A g \in Handler : InPlan(g)'
<1>0. RecordsFit /\ TypeOK
  BY DEF ZonesFit, RecordsFit, IInv
<1>1. ASSUME job' = job, Range(cachedZones') \subseteq Managed, RecordsFit'
      PROVE  ZonesFit' /\ \A g \in Handler : InPlan(g)'
  BY <1>1 DEF ZonesFit, RecordsFit, InPlan, Begun
<1>2. CASE UNCHANGED vars
  BY <1>2 DEF vars, ZonesFit, InPlan, Begun, Live
<1>3. CASE Next
  <2>1. Range(cachedZones') \subseteq Managed
    BY <1>0, <1>3, CacheIsFiltered DEF ZonesFit
  <2>2. portal' = portal => RecordsFit'
    BY <1>0 DEF RecordsFit, Live
  <2>3. ASSUME NEW h \in Handler, PlanStep(h)
        PROVE  ZonesFit' /\ \A g \in Handler : InPlan(g)'
    BY <1>0, <2>1, <2>2, <2>3, PlanStepHasForm, ByJobForm
  <2>4. ASSUME NEW h \in Handler, WorkStep(h)
        PROVE  ZonesFit' /\ \A g \in Handler : InPlan(g)'
    BY <1>0, <2>1, <2>4, WorkHasForm, WorkKeepsRecordsFit, ByJobForm
  <2>5. CASE Operator
    <3>1. job' = job
      BY <2>5, Zenon DEF Operator, OperatorCreates, OperatorDeletes, OperatorAddsZone,
         OperatorRemovesZone
    <3> QED
      BY <1>0, <1>1, <2>1, <2>5, <3>1, OperatorKeepsRecordsFit
  <2>6. CASE DropZones
    <3>1. job' = job /\ portal' = portal
      BY <2>6 DEF DropZones, portalVars
    <3> QED
      BY <1>1, <2>1, <2>2, <3>1
  <2>7. CASE Restart
    <3>1. job' = [h \in Handler |-> IdleJob] /\ portal' = portal
      BY <2>7 DEF Restart, portalVars
    <3>2. \A g \in Handler : JobZones(g)'
      BY <3>1, NoRange DEF JobZones, IdleJob
    <3>3. \A g \in Handler : InPlan(g)'
      BY <3>1 DEF InPlan, Begun, IdleJob
    <3>4. ZonesFit'
      BY <2>1, <2>2, <3>1, <3>2 DEF ZonesFit, RecordsFit, JobZones
    <3> QED
      BY <3>3, <3>4
  <2> QED
    BY <1>3, <2>3, <2>4, <2>5, <2>6, <2>7, RequestSteps DEF Next, ProviderNext
<1> QED
  BY <1>2, <1>3

\* Initially nothing is held and nothing cached.
LEMMA InitZonesFit == Init => ZonesFit /\ \A g \in Handler : InPlan(g)
<1> SUFFICES ASSUME Init PROVE ZonesFit /\ \A g \in Handler : InPlan(g)
  OBVIOUS
<1>1. Live = {}
  BY DEF Init, Live
<1>2. cachedZones = <<>> /\ \A g \in Handler : job[g] = IdleJob
  BY DEF Init
<1>3. ZonesFit
  BY <1>1, <1>2, NoRange DEF ZonesFit, IdleJob
<1>4. ASSUME NEW g \in Handler PROVE InPlan(g)
  <2>1. Begun(g) = 0
    BY <1>2 DEF Begun, IdleJob
  <2>2. /\ job[g].batch = <<>> /\ job[g].todo = <<>> /\ job[g].op = None
        /\ job[g].pc = "idle" /\ job[g].outcome = "none"
    BY <1>2 DEF IdleJob
  <2>3. job[g] = IdleJob
    BY <1>2
  <2> QED
    BY <2>1, <2>2, <2>3 DEF InPlan
<1> QED
  BY <1>3, <1>4

\* Records stay in zones of their names, plans are gone through in order, and
\* the zones of operations are managed ones (findZone, zoneCache.get).
THEOREM WritesInvariance ==
  Spec => [](IInv /\ ZonesFit /\ \A g \in Handler : InPlan(g))
<1> DEFINE WInv == ZonesFit /\ \A g \in Handler : InPlan(g)
<1>1. Init => WInv
  BY InitZonesFit
<1>2. IInv /\ IInv' /\ WInv /\ [Next]_vars => WInv'
  BY NextZonesFit
<1> HIDE DEF WInv
<1>3. Spec => []WInv
  BY <1>1, <1>2, Invariance, PTL DEF Spec
<1>4. Spec => [](IInv /\ WInv)
  BY <1>3, Invariance, PTL
<1> QED
  BY <1>4 DEF WInv

\* The filters keep all zones that a name can be in, or none of them.
FilterKeepsNesting ==
  \A r \in RRset : ZonesOf[r] \subseteq Managed \/ ZonesOf[r] \cap Managed = {}

\* Then a request writes only in managed zones.
WriteIsFiltered ==
  job' # job =>
    \A i \in ID : portal'[i] # portal[i] =>
      (IF portal[i] # None THEN portal[i] ELSE portal'[i]).zone \in Managed

\* A record that a request creates, patches or removes has the name of its
\* operation, and so a zone that the operation may write in.
LEMMA WorkIsFiltered ==
  ASSUME FilterKeepsNesting, IInv, ZonesFit, RecordsFit', NEW h \in Handler, WorkStep(h)
  PROVE  WriteIsFiltered
<1>0. /\ TypeOK /\ FreshIDs /\ OpNames(h) /\ job[h] \in Job
      /\ job[h].op \in Op /\ job[h].op # None
  BY WorkHasOp DEF IInv
<1>1. job[h].op.rrset \in RRset /\ job[h].op.target \in Target /\ job[h].op.ttl \in TTL
  BY <1>0 DEF Op
<1>2. ZonesOf[job[h].op.rrset] \subseteq Managed
  BY <1>0, <1>1 DEF ZonesFit, FilterKeepsNesting
<1>3. job[h].pc \in {"update", "delete"} =>
        job[h].id \in ID /\ (portal[job[h].id] # None =>
                               portal[job[h].id].rrset = job[h].op.rrset)
  <2>1. job[h].pc \in {"update", "delete"} => job[h].id \in ID /\ Names(job[h].id, OpKey(h))
    BY <1>0 DEF OpNames, Job
  <2> QED
    BY <1>0, <2>1 DEF Names, KeyOf, OpKey
<1> SUFFICES ASSUME NEW i \in ID, portal'[i] # portal[i]
             PROVE  (IF portal[i] # None THEN portal[i] ELSE portal'[i]).zone \in Managed
  BY DEF WriteIsFiltered
<1>4. portal[i] # None => portal[i].zone \in ZonesOf[portal[i].rrset]
  BY DEF ZonesFit, Live
<1>5. CASE Insert(job[h].op.rrset, job[h].op.target, job[h].op.ttl)
  BY <1>0, <1>1, <1>2, <1>5, InsertFits
<1>6. CASE /\ job[h].pc = "update" /\ portal[job[h].id] # None
           /\ Patch(job[h].id, job[h].op.target, job[h].op.ttl)
  BY <1>0, <1>1, <1>2, <1>3, <1>4, <1>6, PatchFits
<1>7. CASE job[h].pc = "delete" /\ portal' = [portal EXCEPT ![job[h].id] = None]
  BY <1>0, <1>2, <1>3, <1>4, <1>7 DEF TypeOK
<1> QED
  BY <1>5, <1>6, <1>7, WorkPortalForm DEF PortalForm

\* No step of a request writes elsewhere.
LEMMA NextIsFiltered ==
  ASSUME FilterKeepsNesting, IInv, ZonesFit, RecordsFit', [Next]_vars
  PROVE  WriteIsFiltered
<1>0. TypeOK
  BY DEF IInv
<1>1. portal' = portal \/ job' = job => WriteIsFiltered
  BY DEF WriteIsFiltered
<1>2. ASSUME NEW h \in Handler, PlanStep(h) PROVE WriteIsFiltered
  BY <1>0, <1>1, <1>2, PlanStepHasForm
<1>3. ASSUME NEW h \in Handler, WorkStep(h) PROVE WriteIsFiltered
  BY <1>3, WorkIsFiltered
<1>4. CASE Operator \/ DropZones \/ UNCHANGED vars
  <2>1. job' = job
    BY <1>4, Zenon DEF Operator, OperatorCreates, OperatorDeletes, OperatorAddsZone,
       OperatorRemovesZone, DropZones, vars
  <2> QED
    BY <1>1, <2>1
<1>5. CASE Restart
  BY <1>1, <1>5 DEF Restart, portalVars
<1> QED
  BY <1>2, <1>3, <1>4, <1>5, RequestSteps DEF Next, ProviderNext

\* Where the filters keep all zones of a name or none, every record that any
\* request creates, updates or deletes is in a zone they allow, whatever zones
\* come and go and whatever else fails or overlaps.
THEOREM WritesStayInside ==
  ASSUME FilterKeepsNesting
  PROVE  Spec => WritesInsideZoneFilter
<1> DEFINE WInv == IInv /\ ZonesFit /\ \A g \in Handler : InPlan(g)
<1>1. WInv /\ WInv' /\ [Next]_vars => [WriteIsFiltered]_vars
  <2> SUFFICES ASSUME WInv, WInv', [Next]_vars PROVE WriteIsFiltered
    OBVIOUS
  <2>1. RecordsFit'
    BY DEF ZonesFit, RecordsFit
  <2> QED
    BY <2>1, NextIsFiltered
<1> HIDE DEF WInv
<1>2. Spec => []WInv
  BY WritesInvariance DEF WInv
<1>3. Spec => [][WriteIsFiltered]_vars
  BY <1>1, <1>2, PTL DEF Spec
<1> QED
  BY <1>3 DEF WritesInsideZoneFilter, WriteIsFiltered

-----------------------------------------------------------------------------
(* What a request that reports success has written.  One request runs at a *)
(* time, and nobody else writes records.                                   *)

OneAtATime == \A g, h \in Handler : g = h

\* Once a plan has created or updated a record, it does not delete it again or
\* give it another TTL. The plans of planChanges have no key twice at all.
PlansAgree ==
  \A b \in Batches : \A i, j \in DOMAIN b :
    i < j /\ KeyOf(b[i]) = KeyOf(b[j]) /\ b[i].action # "delete" =>
      b[j].action # "delete" /\ b[j].ttl = b[i].ttl

\* What is carried out stays so while the records stay.
LEMMA SameCarriedOut ==
  ASSUME NEW h \in Handler, portal' = portal, job'[h].zones = job[h].zones, NEW op \in Op,
         CarriedOut(h, op)
  PROVE  CarriedOut(h, op)'
  BY DEF CarriedOut, ZoneFor, KeyOf, Live

\* It survives the operation in progress, unless the two are at odds.
LEMMA SurvivesWork ==
  ASSUME IInv, NEW h \in Handler, WorkStep(h), job'[h].zones = job[h].zones,
         NEW op \in Op, op.action # "delete", CarriedOut(h, op),
         KeyOf(op) = OpKey(h) => job[h].op.action # "delete" /\ job[h].op.ttl = op.ttl
  PROVE  CarriedOut(h, op)'
<1>0. /\ TypeOK /\ FreshIDs /\ OpNames(h) /\ job[h] \in Job
      /\ job[h].op \in Op
  BY WorkHasOp DEF IInv
<1>1. job[h].op.rrset \in RRset /\ job[h].op.target \in Target /\ job[h].op.ttl \in TTL
  BY <1>0 DEF Op
<1> DEFINE id == job[h].id
<1>2. job[h].pc \in {"update", "delete"} =>
        /\ id \in ID /\ job[h].op.action = job[h].pc
        /\ portal[id] # None => KeyOf(portal[id]) = OpKey(h)
  BY <1>0 DEF OpNames, Job, Names
<1> HIDE DEF id
<1> SUFFICES ASSUME ~DryRun, ZoneFor(h, op) # {}
             PROVE  \E i \in ID : /\ portal'[i] # None /\ KeyOf(portal'[i]) = KeyOf(op)
                                  /\ portal'[i].ttl = op.ttl
  BY DEF CarriedOut, ZoneFor, Live, KeyOf
<1>3. PICK i \in ID : portal[i] # None /\ KeyOf(portal[i]) = KeyOf(op) /\ portal[i].ttl = op.ttl
  BY DEF CarriedOut, Live
<1>4. CASE portal' = portal
  BY <1>3, <1>4
<1>5. CASE Insert(job[h].op.rrset, job[h].op.target, job[h].op.ttl)
  <2>1. portal'[i] = portal[i]
    BY <1>0, <1>1, <1>3, <1>5, InsertFits
  <2> QED
    BY <1>3, <2>1
<1>6. CASE /\ job[h].pc = "update" /\ portal[id] # None
           /\ Patch(id, job[h].op.target, job[h].op.ttl)
  <2>1. /\ \A n \in ID : n # id => portal'[n] = portal[n]
        /\ portal'[id] \in Record /\ portal'[id].rrset = portal[id].rrset
        /\ portal'[id].target = job[h].op.target /\ portal'[id].ttl = job[h].op.ttl
    BY <1>0, <1>1, <1>2, <1>6, PatchFits
  <2>2. CASE i = id
    <3>1. KeyOf(op) = OpKey(h)
      BY <1>2, <1>3, <1>6, <2>2
    <3>2. portal[id].rrset = job[h].op.rrset
      BY <1>2, <1>6 DEF KeyOf, OpKey
    <3>3. KeyOf(portal'[id]) = OpKey(h)
      BY <2>1, <3>2 DEF KeyOf, OpKey
    <3>4. portal'[id] # None
      BY <2>1, NoneAssumption
    <3> QED
      BY <2>1, <2>2, <3>1, <3>3, <3>4
  <2>3. CASE i # id
    BY <1>3, <2>1, <2>3
  <2> QED
    BY <2>2, <2>3
<1>7. CASE job[h].pc = "delete" /\ portal' = [portal EXCEPT ![id] = None]
  <2>1. KeyOf(op) # OpKey(h)
    BY <1>2, <1>7
  <2>2. i # id
    BY <1>2, <1>3, <1>7, <2>1
  <2>3. portal'[i] = portal[i]
    BY <1>0, <1>7, <2>2 DEF TypeOK
  <2> QED
    BY <1>3, <2>3
<1> QED
  BY <1>4, <1>5, <1>6, <1>7, WorkPortalForm DEF PortalForm, id

\* An operation that was begun before the one in progress is not at odds with it.
LEMMA EarlierAgrees ==
  ASSUME PlansAgree, TypeOK, NEW h \in Handler, InPlan(h), job[h].op # None,
         NEW i \in 1 .. Begun(h) - 1, job[h].batch[i].action # "delete"
  PROVE  /\ job[h].batch[i] \in Op
         /\ KeyOf(job[h].batch[i]) = OpKey(h) =>
              job[h].op.action # "delete" /\ job[h].op.ttl = job[h].batch[i].ttl
<1> DEFINE b == job[h].batch
           n == Begun(h)
<1>1. b \in Seq(Op) /\ job[h].todo \in Seq(Op) /\ n \in Nat /\ n + Len(job[h].todo) = Len(b)
  BY BegunNat
<1>2. n > 0 /\ job[h].op = b[n] /\ b \in Batches \cup {<<>>}
  BY DEF InPlan
<1> HIDE DEF b, n
<1>3. Len(b) \in Nat /\ Len(job[h].todo) \in Nat
  BY <1>1
<1>4. i \in Nat /\ i < n /\ i \in 1 .. Len(b) /\ n \in 1 .. Len(b)
  <2>1. \A m, left, all \in Nat : m > 0 /\ m + left = all =>
          /\ m \in 1 .. all
          /\ \A k \in 1 .. m - 1 : k \in Nat /\ k < m /\ k \in 1 .. all
    OBVIOUS
  <2>2. i \in 1 .. n - 1
    BY DEF n
  <2> QED
    BY <1>1, <1>2, <1>3, <2>1, <2>2
<1>5. DOMAIN b = 1 .. Len(b) /\ b[i] \in Op
  BY <1>1, <1>4
<1>6. b \in Batches
  <2>1. b # <<>>
    BY <1>3, <1>4
  <2> QED
    BY <1>2, <2>1
<1>7. KeyOf(b[i]) = KeyOf(b[n]) => b[n].action # "delete" /\ b[n].ttl = b[i].ttl
  BY <1>4, <1>5, <1>6 DEF PlansAgree, b
<1> QED
  BY <1>2, <1>5, <1>7 DEF OpKey, b

\* What is left to show of a request whose plan and progress stay.
LEMMA AppliedStep ==
  ASSUME NEW h \in Handler, Begun(h)' = Begun(h), job'[h].batch = job[h].batch,
         \/ job'[h].soft
         \/ \A i \in 1 .. Begun(h) : \A op : op = job[h].batch[i] =>
              \/ CarriedOut(h, op)'
              \/ /\ i = Begun(h) /\ job'[h].op # None
                 /\ job'[h].pc \notin {"setIndex", "dropIndex"}
  PROVE  AppliedSoFar(h)'
  BY DEF AppliedSoFar, CarriedOut, ZoneFor, KeyOf

\* Working on an operation keeps what was done before it, and ends with the
\* operation done, or rejected.
LEMMA WorkKeepsApplied ==
  ASSUME PlansAgree, IInv, NEW h \in Handler, InPlan(h), AppliedSoFar(h), WorkStep(h)
  PROVE  AppliedSoFar(h)'
<1>0. TypeOK /\ WorkForm(h) /\ job[h].op # None /\ job[h].op \in Op
  BY WorkHasForm, WorkHasOp DEF IInv
<1>1. CASE Empty(h)
  <2>1. Begun(h)' = 0
    BY <1>1 DEF Begun, Empty
  <2> QED
    BY <2>1 DEF AppliedSoFar
<1>2. CASE /\ GoesOn(h) \/ Ends(h)
           /\ job'[h].soft \/ job'[h].soft = job[h].soft
           /\ LastFine(h)
  <2>1. SamePlan(h)
    BY <1>2 DEF GoesOn, Ends
  <2>2. Begun(h)' = Begun(h)
    BY <2>1, SameBegun DEF SamePlan
  <2>3. ASSUME ~job'[h].soft, NEW i \in 1 .. Begun(h), NEW op, op = job[h].batch[i]
        PROVE  \/ CarriedOut(h, op)'
               \/ /\ i = Begun(h) /\ job'[h].op # None
                  /\ job'[h].pc \notin {"setIndex", "dropIndex"}
    <3>1. job'[h].zones = job[h].zones
      BY <2>1 DEF SamePlan
    <3>2. \/ CarriedOut(h, op)
          \/ i = Begun(h) /\ job[h].pc \notin {"setIndex", "dropIndex"}
      BY <1>2, <2>3 DEF AppliedSoFar
    <3>3. Begun(h) \in Nat /\ job[h].op = job[h].batch[Begun(h)]
      BY <1>0 DEF InPlan
    <3>4. CASE i = Begun(h)
      <4>1. op = job[h].op /\ op \in Op
        BY <1>0, <2>3, <3>3, <3>4
      <4>2. CASE job'[h].op # None /\ job'[h].pc \notin {"setIndex", "dropIndex"}
        BY <3>4, <4>2
      <4>3. CASE job[h].pc \in {"setIndex", "dropIndex"}
        <5>1. portal' = portal
          BY <4>3, WorkPortalForm DEF PortalForm
        <5>2. CarriedOut(h, op)
          BY <3>2, <4>3
        <5> QED
          BY <3>1, <4>1, <5>1, <5>2, SameCarriedOut
      <4>4. CASE \E o \in Op : o = job[h].op /\ CarriedOut(h, o)'
        BY <4>1, <4>4
      <4> QED
        BY <1>2, <2>3, <4>2, <4>3, <4>4 DEF LastFine
    <3>5. CASE i # Begun(h)
      <4>1. i \in 1 .. Begun(h) - 1 /\ CarriedOut(h, op)
        BY <3>2, <3>3, <3>5
      <4>2. CASE op.action = "delete"
        BY <4>2 DEF CarriedOut
      <4>3. CASE op.action # "delete"
        <5>1. /\ op \in Op
              /\ KeyOf(op) = OpKey(h) =>
                   job[h].op.action # "delete" /\ job[h].op.ttl = op.ttl
          BY <1>0, <2>3, <4>1, <4>3, EarlierAgrees
        <5> QED
          BY <3>1, <4>1, <4>3, <5>1, SurvivesWork
      <4> QED
        BY <4>2, <4>3
    <3> QED
      BY <3>4, <3>5
  <2> QED
    BY <2>1, <2>2, <2>3, AppliedStep DEF SamePlan
<1> QED
  BY <1>0, <1>1, <1>2 DEF WorkForm

\* An operation that was begun is an operation of the plan.
LEMMA ElementOfPlan ==
  ASSUME NEW b \in Seq(Op), NEW left \in Seq(Op), NEW n \in Nat, n + Len(left) = Len(b)
  PROVE  \A i \in 1 .. n : i \in DOMAIN b /\ b[i] \in Op
<1>1. Len(b) \in Nat /\ Len(left) \in Nat /\ DOMAIN b = 1 .. Len(b)
  OBVIOUS
<1>2. \A m, l, all \in Nat : m + l = all => 1 .. m \subseteq 1 .. all
  OBVIOUS
<1>3. 1 .. n \subseteq DOMAIN b
  BY <1>1, <1>2
<1> QED
  BY <1>3

\* Between two operations nothing is undone, and what is passed over counts as
\* carried out.
LEMMA PlanKeepsApplied ==
  ASSUME TypeOK, NEW h \in Handler, InPlan(h), AppliedSoFar(h), portal' = portal,
         PlanForm(h)
  PROVE  AppliedSoFar(h)'
<1>0. /\ job[h].batch \in Seq(Op) /\ job[h].todo \in Seq(Op)
      /\ Begun(h) \in Nat /\ Begun(h) + Len(job[h].todo) = Len(job[h].batch)
  BY BegunNat
<1>1. ASSUME Begun(h)' = 0 PROVE AppliedSoFar(h)'
  BY <1>1 DEF AppliedSoFar
<1>2. CASE Empty(h)
  <2>1. Begun(h)' = 0
    BY <1>2 DEF Begun, Empty
  <2> QED
    BY <1>1, <2>1
<1>3. CASE Arrives(h)
  <2>1. job[h].batch = <<>> /\ job[h].todo = <<>>
    BY <1>3 DEF Arrives, InPlan, IdleJob
  <2>2. CASE SamePlan(h)
    <3>1. Begun(h)' = 0
      BY <2>1, <2>2 DEF Begun, SamePlan
    <3> QED
      BY <1>1, <3>1
  <2>3. CASE job'[h].batch \in Batches /\ job'[h].todo = job'[h].batch
    <3>1. job'[h].batch \in Seq(Op)
      BY <2>3, InputsAssumption
    <3>2. Begun(h)' = 0
      BY <2>3, <3>1 DEF Begun
    <3> QED
      BY <1>1, <3>2
  <2> QED
    BY <1>3, <2>2, <2>3 DEF Arrives
<1>4. CASE Gets(h)
  <2>1. Begun(h)' = Begun(h)
    BY <1>4, SameBegun DEF Gets
  <2>2. Len(job[h].todo) \in Nat /\ Len(job[h].batch) \in Nat
    BY BegunNat
  <2>3. job[h].batch = <<>> \/ job[h].todo = job[h].batch
    BY <1>4 DEF Gets, WantsZones, InPlan
  <2>4. Len(job[h].batch) = 0 \/ Len(job[h].todo) = Len(job[h].batch)
    BY <2>3
  <2>5. \A n, l, m \in Nat : n + l = m /\ (m = 0 \/ l = m) => n = 0
    OBVIOUS
  <2>6. Begun(h) = 0
    BY <1>0, <2>2, <2>4, <2>5
  <2> QED
    BY <1>1, <2>1, <2>6
<1>5. CASE Finishes(h) \/ Stays(h)
  <2>1. /\ SamePlan(h) /\ job'[h].op = job[h].op /\ job'[h].soft = job[h].soft
        /\ job[h].op = None \/ job'[h].pc = job[h].pc
    BY <1>5 DEF Finishes, Stays, GoesOn, InPlan
  <2>2. Begun(h)' = Begun(h)
    BY <2>1, SameBegun DEF SamePlan
  <2>3. ASSUME ~job'[h].soft, NEW i \in 1 .. Begun(h), NEW op, op = job[h].batch[i]
        PROVE  \/ CarriedOut(h, op)'
               \/ /\ i = Begun(h) /\ job'[h].op # None
                  /\ job'[h].pc \notin {"setIndex", "dropIndex"}
    <3>1. \/ CarriedOut(h, op)
          \/ i = Begun(h) /\ job[h].op # None /\ job[h].pc \notin {"setIndex", "dropIndex"}
      BY <2>1, <2>3 DEF AppliedSoFar
    <3>2. op \in Op
      BY <1>0, <2>3, ElementOfPlan
    <3>3. CarriedOut(h, op) => CarriedOut(h, op)'
      BY <2>1, <3>2, SameCarriedOut DEF SamePlan
    <3> QED
      BY <2>1, <3>1, <3>3
  <2> QED
    BY <2>1, <2>2, <2>3, AppliedStep DEF SamePlan
<1>6. CASE Advances(h)
  <2> DEFINE first == Head(job[h].todo)
  <2>1. /\ job[h].op = None /\ job'[h].soft = job[h].soft
        /\ job'[h].batch = job[h].batch /\ job'[h].zones = job[h].zones
    BY <1>6 DEF Advances, InPlan
  <2>2. Begun(h)' = Begun(h) + 1 /\ first \in Op /\ first = job[h].batch[Begun(h) + 1]
    BY <1>6, AdvanceBegun
  <2> HIDE DEF first
  <2>3. ASSUME ~job'[h].soft, NEW i \in 1 .. Begun(h) + 1, NEW op, op = job[h].batch[i]
        PROVE  \/ CarriedOut(h, op)'
               \/ /\ i = Begun(h) + 1 /\ job'[h].op # None
                  /\ job'[h].pc \notin {"setIndex", "dropIndex"}
    <3>1. CASE i \in 1 .. Begun(h)
      <4>1. CarriedOut(h, op)
        BY <2>1, <2>3, <3>1 DEF AppliedSoFar
      <4>2. op \in Op
        BY <1>0, <2>3, <3>1, ElementOfPlan
      <4> QED
        BY <2>1, <4>1, <4>2, SameCarriedOut
    <3>2. CASE i = Begun(h) + 1
      <4>1. op = first
        BY <2>2, <2>3, <3>2
      <4>2. CASE ZoneFor(h, first) = {} \/ DryRun
        BY <2>1, <4>1, <4>2 DEF CarriedOut, ZoneFor
      <4>3. CASE job'[h].op = first /\ job'[h].pc \in {"create", "lookup"}
        BY <2>2, <3>2, <4>3, NoneAssumption
      <4> QED
        BY <1>6, <4>2, <4>3 DEF Advances, first
    <3> QED
      BY <1>0, <3>1, <3>2
  <2> QED
    BY <2>1, <2>2, <2>3 DEF AppliedSoFar, CarriedOut, ZoneFor, KeyOf
<1> QED
  BY <1>2, <1>3, <1>4, <1>5, <1>6 DEF PlanForm

\* One request at a time, with nobody else writing records, keeps the invariant.
LEMMA NextApplied ==
  ASSUME OneAtATime, PlansAgree, IInv, \A h \in Handler : InPlan(h) /\ AppliedSoFar(h),
         [ProviderNext \/ (Operator /\ UNCHANGED portal)]_vars
  PROVE  \A h \in Handler : AppliedSoFar(h)'
<1> SUFFICES ASSUME NEW h \in Handler PROVE AppliedSoFar(h)'
  OBVIOUS
<1>0. TypeOK /\ InPlan(h) /\ AppliedSoFar(h)
  BY DEF IInv
<1>1. ASSUME NEW g \in Handler, PlanStep(g) PROVE AppliedSoFar(h)'
  <2>1. g = h
    BY DEF OneAtATime
  <2> QED
    BY <1>0, <1>1, <2>1, PlanStepHasForm, PlanKeepsApplied
<1>2. ASSUME NEW g \in Handler, WorkStep(g) PROVE AppliedSoFar(h)'
  <2>1. g = h
    BY DEF OneAtATime
  <2> QED
    BY <1>0, <1>2, <2>1, WorkKeepsApplied
<1>3. ASSUME job' = job, portal' = portal PROVE AppliedSoFar(h)'
  BY <1>0, <1>3 DEF AppliedSoFar, Begun, CarriedOut, ZoneFor, Live
<1>4. CASE Operator /\ UNCHANGED portal
  <2>1. job' = job
    BY <1>4, Zenon DEF Operator, OperatorCreates, OperatorDeletes, OperatorAddsZone,
       OperatorRemovesZone
  <2> QED
    BY <1>3, <1>4, <2>1
<1>5. CASE DropZones \/ UNCHANGED vars
  <2>1. job' = job /\ portal' = portal
    BY <1>5 DEF DropZones, vars, portalVars
  <2> QED
    BY <1>3, <2>1
<1>6. CASE Restart
  <2>1. job'[h] = IdleJob
    BY <1>6 DEF Restart
  <2>2. Begun(h)' = 0
    BY <2>1 DEF Begun, IdleJob
  <2> QED
    BY <2>2 DEF AppliedSoFar
<1> QED
  BY <1>1, <1>2, <1>4, <1>5, <1>6, RequestSteps DEF ProviderNext

\* Nothing was begun when the provider starts.
LEMMA InitApplied == Init => \A h \in Handler : AppliedSoFar(h)
<1> SUFFICES ASSUME Init, NEW h \in Handler PROVE AppliedSoFar(h)
  OBVIOUS
<1>1. job[h] = IdleJob
  BY DEF Init
<1>2. Begun(h) = 0
  BY <1>1 DEF Begun, IdleJob
<1> QED
  BY <1>2 DEF AppliedSoFar

\* Steps of a sole writer are steps of the system.
LEMMA SoleWriterImplements == SoleWriterSpec => Spec
<1>1. [ProviderNext \/ (Operator /\ UNCHANGED portal)]_vars => [Next]_vars
  BY DEF Next
<1> QED
  BY <1>1, PTL DEF SoleWriterSpec, Spec

\* For one request at a time and plans that agree with themselves, whatever
\* fails, is cancelled or dies: every operation begun, the one in progress
\* apart, is carried out or reported (applyOne).
THEOREM AppliedInvariance ==
  ASSUME OneAtATime, PlansAgree
  PROVE  SoleWriterSpec => []AppliedIInv
<1> DEFINE Applied == \A h \in Handler : AppliedSoFar(h)
           InPlans == \A g \in Handler : InPlan(g)
           SoleNext == ProviderNext \/ (Operator /\ UNCHANGED portal)
<1>1. Init => Applied
  BY InitApplied
<1>2. IInv /\ InPlans /\ Applied /\ [SoleNext]_vars => Applied'
  BY NextApplied
<1>3. SoleWriterSpec => [](IInv /\ ZonesFit /\ InPlans)
  BY SoleWriterImplements, WritesInvariance, PTL
<1>4. IInv /\ ZonesFit /\ InPlans /\ Applied => AppliedIInv
  BY DEF AppliedIInv
<1>5. SoleWriterSpec => Init /\ [][SoleNext]_vars
  BY DEF SoleWriterSpec
<1> HIDE DEF Applied, InPlans, SoleNext
<1> QED
  BY <1>1, <1>2, <1>3, <1>4, <1>5, PTL

\* An ApplyChanges that reports no error has put every record that it was asked
\* to create or update into the Portal, with its TTL.
THEOREM SuccessMeansApplied ==
  ASSUME OneAtATime, PlansAgree
  PROVE  SoleWriterSpec => []AppliedIsLive
<1>1. AppliedIInv => AppliedIsLive
  <2> SUFFICES ASSUME AppliedIInv, NEW h \in Handler, job[h].outcome = "ok",
                      NEW i \in DOMAIN job[h].batch
               PROVE  CarriedOut(h, job[h].batch[i])
    BY DEF AppliedIsLive
  <2>1. TypeOK /\ InPlan(h) /\ AppliedSoFar(h)
    BY DEF AppliedIInv, IInv
  <2>2. job[h].todo = <<>> /\ job[h].op = None /\ ~job[h].soft
    BY <2>1 DEF InPlan
  <2>3. /\ job[h].batch \in Seq(Op) /\ Len(job[h].batch) \in Nat
        /\ Begun(h) \in Nat /\ Begun(h) + 0 = Len(job[h].batch)
    BY <2>1, <2>2, BegunNat
  <2>4. i \in 1 .. Begun(h)
    BY <2>3
  <2> QED
    BY <2>1, <2>2, <2>4 DEF AppliedSoFar
<1> QED
  BY <1>1, AppliedInvariance, PTL

=============================================================================
