------------------------------ MODULE Provider ------------------------------
(***************************************************************************)
(* The provider: its Records and ApplyChanges handlers, the zone cache     *)
(* they share and the record index they share (internal/provider), against *)
(* the Universal DDI Portal as internal/uddi describes it.                 *)
(*                                                                         *)
(* Each request runs in a goroutine of its own, so handlers interleave     *)
(* between any two API calls and between an API call and the use of its    *)
(* answer.  A step of a handler is one API call with its answer, or one    *)
(* critical section of Provider.mu or zoneCache.mu.                        *)
(*                                                                         *)
(* A Key is an RRset with a target, in the canonical form of keyOf.        *)
(***************************************************************************)
EXTENDS ChangePlan, FiniteSets

CONSTANTS
  Zone,
  NoSetID,       \* the set identifier of endpoints that Records builds
  Handler,       \* concurrent requests
  ZonesOf,       \* RRset -> the zones whose FQDN is a suffix of the name
  Depth,         \* Zone -> length of the FQDN
  Managed,       \* zones that pass UDDI_ZONE_FILTER and the domain filter
  InDomain,      \* RRsets whose name passes the domain filter
  Supported,     \* RRsets of a supported type
  Invalid,       \* Keys whose target toRdata rejects
  DryRun,        \* the dry-run switch
  DefaultTTL,    \* UDDI_DEFAULT_TTL, 0 for the zone default
  Batches,       \* results of planChanges that ApplyChanges may be given
  Failures,      \* ways an API call can fail: error class, effect done or not
  PagesShift,    \* whether items come and go while a listing reads its pages
  InitialZones,  \* zones the Portal starts with
  MaxID,         \* bound on the records ever created
  None

Key == RRset \X Target
ID == 1 .. MaxID
Record == [rrset : RRset, target : Target, ttl : TTL, zone : Zone]
Listed == [id : ID, rrset : RRset, target : Target, ttl : TTL, zone : Zone]
Entry == [id : ID, zone : Zone]

\* How a call can fail by itself: no response (status 0), 429, 5xx, other.
CallError == {"network", "throttled", "server", "client"}
\* A cancelled context, an unknown record id, the provider's own inputError.
ErrorClass == CallError \cup {"cancelled", "notFound", "input"}

ASSUME ZonesAssumption ==
  /\ ZonesOf \in [RRset -> SUBSET Zone]
  /\ Depth \in [Zone -> Nat]
  /\ Managed \subseteq Zone
  /\ IsFiniteSet(Zone)
  /\ InitialZones \subseteq Zone
  \* Two suffixes of one name with the same length are the same zone.
  /\ \A r \in RRset : \A y, z \in ZonesOf[r] : Depth[y] = Depth[z] => y = z
ASSUME InputsAssumption ==
  /\ Batches \subseteq Seq(Op)
  /\ Failures \subseteq [error : CallError, effect : BOOLEAN]
  /\ DryRun \in BOOLEAN /\ PagesShift \in BOOLEAN
  /\ MaxID \in Nat
ASSUME NoneAssumption == None \notin Entry \cup Record \cup ID \cup Op \cup Zone

VARIABLES
  portal,       \* ID -> the Portal's record with that id, or None
  nextID,       \* the id the next created record gets
  portalZones,  \* zones that exist in the Portal
  index,        \* Provider.index: Key -> Entry or None
  cachedZones,  \* zoneCache.zones
  cacheValid,   \* zoneCache.zones is not nil and has not expired
  job           \* Handler -> the request it serves

portalVars == <<portal, nextID, portalZones>>
cacheVars == <<cachedZones, cacheValid>>
vars == <<portal, nextID, portalZones, index, cachedZones, cacheValid, job>>

PC == {"idle", "recordsZones", "list", "applyZones", "next", "lookup",
       "relist", "merge", "create", "setIndex", "update", "delete",
       "dropIndex", "reply"}

Job ==
  [pc      : PC,
   ctxDone : BOOLEAN,            \* the request's context is cancelled
   zones   : Seq(Zone),          \* what zoneCache.get returned
   pending : Seq(Zone),          \* Records: zones still to list
   seen    : Seq(Listed),        \* records listed so far
   batch   : Seq(Op),            \* ApplyChanges: the whole plan
   todo    : Seq(Op),            \* ApplyChanges: operations not begun
   op      : Op \cup {None},     \* the operation in progress
   zone    : Zone \cup {None},   \* its zone
   id      : ID \cup {None},     \* the record id it works on
   soft    : BOOLEAN,            \* some operation was rejected
   outcome : {"none", "ok", "soft", "error"}]

IdleJob ==
  [pc |-> "idle", ctxDone |-> FALSE, zones |-> <<>>, pending |-> <<>>,
   seen |-> <<>>, batch |-> <<>>, todo |-> <<>>, op |-> None, zone |-> None,
   id |-> None, soft |-> FALSE, outcome |-> "none"]

KeyOf(r) == <<r.rrset, r.target>>

\* The zone of zs whose FQDN is the longest suffix of the name, as a set with
\* at most one member (findZone, and the Portal's own placement of a record).
findZone(zs, rrset) ==
  {z \in zs \cap ZonesOf[rrset] :
     \A y \in zs \cap ZonesOf[rrset] : Depth[y] <= Depth[z]}

\* Error.Retryable and IsRetryable: an inputError wraps no API error.
IsRetryable(error) == error \in {"network", "throttled", "server"}

\* The error of applyOne that stops the batch.
Aborts(error) == error # "input" /\ IsRetryable(error)

-----------------------------------------------------------------------------
TypeOK ==
  /\ portal \in [ID -> Record \cup {None}]
  /\ nextID \in 1 .. MaxID + 1
  /\ portalZones \in SUBSET Zone
  /\ index \in [Key -> Entry \cup {None}]
  /\ cachedZones \in Seq(Zone)
  /\ cacheValid \in BOOLEAN
  /\ job \in [Handler -> Job]

Init ==
  /\ portal = [i \in ID |-> None]
  /\ nextID = 1
  /\ portalZones = InitialZones
  /\ index = [k \in Key |-> None]
  /\ cachedZones = <<>>
  /\ cacheValid = FALSE
  /\ job = [h \in Handler |-> IdleJob]

-----------------------------------------------------------------------------
(* The Portal.                                                             *)

Live == {i \in ID : portal[i] # None}

\* Record i as a listing shows it.
Row(i) ==
  [id |-> i, rrset |-> portal[i].rrset, target |-> portal[i].target,
   ttl |-> portal[i].ttl, zone |-> portal[i].zone]

\* The records of a zone as ListRecords returns them. The Portal promises no
\* order.
Listings(z) ==
  {[n \in DOMAIN ids |-> Row(ids[n])] : ids \in SetToSeqs({i \in Live : portal[i].zone = z})}

\* What ListZones and ListRecords make of a list when an item in front of the
\* offset is added or removed between two pages: they read one item twice, or
\* one not at all.
Misread(list) ==
  {InsertAt(list, n, list[n]) : n \in DOMAIN list} \cup {RemoveAt(list, n) : n \in DOMAIN list}

\* A new record gets a fresh id; the Portal picks the zone by name alone.
Insert(rrset, target, ttl) ==
  /\ nextID \in ID
  /\ \E z \in findZone(portalZones, rrset) :
       portal' = [portal EXCEPT ![nextID] =
                    [rrset |-> rrset, target |-> target, ttl |-> ttl, zone |-> z]]
  /\ nextID' = nextID + 1

\* The request of handler h becomes j.
Becomes(h, j) == job' = [job EXCEPT ![h] = j]

\* Move handler h to pc, and nothing else of its job.
Goto(h, pc) == Becomes(h, [job[h] EXCEPT !.pc = pc])

\* How a call of h can fail now. Under a cancelled context nothing succeeds,
\* yet a request already sent may still take effect.
Faults(h) == IF job[h].ctxDone THEN [error : {"cancelled"}, effect : BOOLEAN]
             ELSE Failures

\* The request ends with an error.
Reject(h) ==
  Becomes(h, [IdleJob EXCEPT !.pc = "reply", !.outcome = "error"])

\* The operation is over, its local variables with it; soft tells whether an
\* operation of the batch was rejected so far.
EndOp(h, soft) ==
  Becomes(h, [job[h] EXCEPT !.pc = "next", !.soft = soft, !.op = None,
                            !.zone = None, !.id = None, !.seen = <<>>])

\* Faulty variant of OpFails: a rejected operation is not reported.
OpFailsSilently(h, error) ==
  IF Aborts(error) THEN Reject(h) ELSE EndOp(h, job[h].soft)

\* Faulty variant of OpFails: an operation that may succeed later is tried
\* again, whatever its failed call has done.
OpFailsRetrying(h, error) ==
  IF Aborts(error)
  THEN Becomes(h, [job[h] EXCEPT !.pc = "next", !.todo = <<job[h].op>> \o @, !.op = None,
                                 !.zone = None, !.id = None, !.seen = <<>>])
  ELSE EndOp(h, TRUE)

\* applyOne's verdict on an operation that failed.
OpFails(h, error) == IF Aborts(error) THEN Reject(h) ELSE EndOp(h, TRUE)

-----------------------------------------------------------------------------
(* Requests arrive, are cancelled by their client, and get their answer.   *)

StartRecords(h) ==
  /\ job[h].pc = "idle"
  /\ Goto(h, "recordsZones")
  /\ UNCHANGED <<portalVars, cacheVars, index>>

\* An empty plan is answered without any API call.
StartApply(h, ops) ==
  /\ job[h].pc = "idle"
  /\ Becomes(h, [job[h] EXCEPT
       !.batch = ops, !.todo = ops,
       !.pc = IF ops = <<>> THEN "reply" ELSE "applyZones",
       !.outcome = IF ops = <<>> THEN "ok" ELSE "none"])
  /\ UNCHANGED <<portalVars, cacheVars, index>>

Cancel(h) ==
  /\ job[h].pc \notin {"idle", "reply"}
  /\ ~job[h].ctxDone
  /\ Becomes(h, [job[h] EXCEPT !.ctxDone = TRUE])
  /\ UNCHANGED <<portalVars, cacheVars, index>>

Respond(h) ==
  /\ job[h].pc = "reply"
  /\ Becomes(h, IdleJob)
  /\ UNCHANGED <<portalVars, cacheVars, index>>

-----------------------------------------------------------------------------
(* zoneCache.get holds zoneCache.mu across ListZones, so it is one step.   *)

\* The zones the get of handler h returns, and the step it continues with.
GotZones(h, zs) ==
  Becomes(h, [job[h] EXCEPT
    !.zones = zs,
    !.pending = IF job[h].pc = "recordsZones" THEN zs ELSE <<>>,
    !.pc = IF job[h].pc = "recordsZones" THEN "list" ELSE "next"])

WantsZones(h) == job[h].pc \in {"recordsZones", "applyZones"}

CachedZones(h) ==
  /\ WantsZones(h)
  /\ cacheValid
  /\ GotZones(h, cachedZones)
  /\ UNCHANGED <<portalVars, cacheVars, index>>

\* The list is stored, and the get goes on with it.
StoreZones(h, zs) ==
  /\ cachedZones' = zs
  /\ cacheValid' = TRUE
  /\ GotZones(h, zs)
  /\ UNCHANGED <<portalVars, index>>

ListsZones(h) == WantsZones(h) /\ ~cacheValid /\ ~job[h].ctxDone

\* Faulty variant of ManagedLists: the zone filter is not applied.
UnfilteredLists == SetToSeqs(portalZones)

\* The zones that the filters keep, in an order the Portal does not promise.
ManagedLists == SetToSeqs(portalZones \cap Managed)

ListZones(h) ==
  /\ ListsZones(h)
  /\ \E zs \in ManagedLists : StoreZones(h, zs)

\* A zone is listed twice or missed, until the list expires.
ListZonesMisread(h) ==
  /\ ListsZones(h)
  /\ PagesShift
  /\ \E zs \in ManagedLists : \E list \in Misread(zs) : StoreZones(h, list)

ListZonesFails(h) ==
  /\ WantsZones(h)
  /\ ~cacheValid
  /\ Faults(h) # {}
  /\ Reject(h)
  /\ UNCHANGED <<portalVars, cacheVars, index>>

\* UDDI_ZONE_CACHE_TTL passes, or InvalidateZones is called.
DropZones ==
  /\ cacheValid
  /\ cacheValid' = FALSE
  /\ UNCHANGED <<portalVars, cachedZones, index, job>>

-----------------------------------------------------------------------------
(* Records.                                                                *)

EntryOf(r) == [id |-> r.id, zone |-> r.zone]

\* The names and types that recordBuilder.add lets through.
Reported == Supported \cap InDomain

\* The records of one name and type, in listing order.
Group(recs, rrset) ==
  LET kept[i \in 0 .. Len(recs)] ==
        IF i = 0 THEN <<>>
        ELSE IF recs[i].rrset = rrset THEN Append(kept[i - 1], recs[i])
        ELSE kept[i - 1]
  IN kept[Len(recs)]

\* Faulty variant of EndpointOf: the TTL of the records is not read.
EndpointWithoutTTL(group) ==
  [rrset |-> group[1].rrset, setID |-> NoSetID, ttl |-> 0,
   targets |-> [i \in DOMAIN group |-> group[i].target]]

\* The endpoint of a group: a target per record listed, a record that is listed
\* twice included, and the TTL of the one listed first.
EndpointOf(group) ==
  [rrset |-> group[1].rrset, setID |-> NoSetID, ttl |-> group[1].ttl,
   targets |-> [i \in DOMAIN group |-> group[i].target]]

\* The endpoints Records answers with: one per name and type.
EndpointsOf(recs) ==
  {EndpointOf(Group(recs, rrset)) :
     rrset \in Reported \cap {recs[i].rrset : i \in DOMAIN recs}}

\* AdjustEndpoints, on a set of endpoints: unsupported types are dropped and
\* the default TTL fills in where none is configured.
AdjustEndpoints(eps) ==
  {[ep EXCEPT !.ttl = IF ep.ttl = 0 THEN DefaultTTL ELSE ep.ttl] :
     ep \in {e \in eps : e.rrset \in Supported}}

\* The keys of the records with one of these names and types.
ListedKeys(recs, rrsets) ==
  {KeyOf(recs[i]) : i \in {j \in DOMAIN recs : recs[j].rrset \in rrsets}}

\* Faulty variant of IndexOf: keys are compared by name and type alone.
IndexByName(recs, rrsets) ==
  [k \in ListedKeys(recs, rrsets) |->
     EntryOf(recs[Max({i \in DOMAIN recs : recs[i].rrset = k[1]})])]

\* Of several records with one key the index keeps the one listed last.
IndexOf(recs, rrsets) ==
  [k \in ListedKeys(recs, rrsets) |->
     EntryOf(recs[Max({i \in DOMAIN recs : KeyOf(recs[i]) = k})])]

\* The next zone is listed, with this result.
Hears(h, recs) ==
  /\ Becomes(h, [job[h] EXCEPT !.seen = @ \o recs, !.pending = Tail(@)])
  /\ UNCHANGED <<portalVars, cacheVars, index>>

ListsZone(h) == job[h].pc = "list" /\ job[h].pending # <<>> /\ ~job[h].ctxDone

ListRecords(h) ==
  /\ ListsZone(h)
  /\ \E recs \in Listings(Head(job[h].pending)) : Hears(h, recs)

ListRecordsMisread(h) ==
  /\ ListsZone(h)
  /\ PagesShift
  /\ \E recs \in Listings(Head(job[h].pending)) : \E list \in Misread(recs) : Hears(h, list)

ListRecordsFails(h) ==
  /\ job[h].pc = "list"
  /\ job[h].pending # <<>>
  /\ Faults(h) # {}
  /\ Reject(h)
  /\ UNCHANGED <<portalVars, cacheVars, index>>

\* The last zone is listed: publish the new index and answer with endpoints.
SwapIndex(h) ==
  /\ job[h].pc = "list"
  /\ job[h].pending = <<>>
  /\ LET new == IndexOf(job[h].seen, Reported)
     IN index' = [k \in Key |-> IF k \in DOMAIN new THEN new[k] ELSE None]
  /\ Becomes(h, [job[h] EXCEPT !.pc = "reply", !.outcome = "ok"])
  /\ UNCHANGED <<portalVars, cacheVars>>

-----------------------------------------------------------------------------
(* ApplyChanges: the loop over the plan.                                   *)

FinishApply(h) ==
  /\ job[h].pc = "next"
  /\ job[h].todo = <<>>
  /\ Becomes(h, [job[h] EXCEPT !.pc = "reply",
                               !.outcome = IF job[h].soft THEN "soft" ELSE "ok"])
  /\ UNCHANGED <<portalVars, cacheVars, index>>

StopCancelled(h) ==
  /\ job[h].pc = "next"
  /\ job[h].todo # <<>>
  /\ job[h].ctxDone
  /\ Reject(h)
  /\ UNCHANGED <<portalVars, cacheVars, index>>

\* The zones applyOne may write op in: none for an unsupported type.
ZoneFor(h, op) ==
  IF op.rrset \in Supported THEN findZone(Range(job[h].zones), op.rrset) ELSE {}

SkipOp(h) ==
  /\ job[h].pc = "next"
  /\ job[h].todo # <<>>
  /\ ~job[h].ctxDone
  /\ ZoneFor(h, Head(job[h].todo)) = {} \/ DryRun
  /\ Becomes(h, [job[h] EXCEPT !.todo = Tail(@)])
  /\ UNCHANGED <<portalVars, cacheVars, index>>

TakeOp(h) ==
  /\ job[h].pc = "next"
  /\ job[h].todo # <<>>
  /\ ~job[h].ctxDone
  /\ ~DryRun
  /\ LET op == Head(job[h].todo)
     IN \E z \in ZoneFor(h, op) :
          Becomes(h, [job[h] EXCEPT
            !.todo = Tail(@), !.op = op, !.zone = z,
            !.pc = IF op.action = "create" THEN "create" ELSE "lookup"])
  /\ UNCHANGED <<portalVars, cacheVars, index>>

-----------------------------------------------------------------------------
(* lookupID: the index, and after a miss a fresh listing of the zone.      *)

OpKey(h) == KeyOf(job[h].op)

\* Where an update or delete goes on once its record's id is known.
FoundID(h, id) ==
  Becomes(h, [job[h] EXCEPT !.pc = job[h].op.action, !.id = id])

LookupHit(h) ==
  /\ job[h].pc = "lookup"
  /\ index[OpKey(h)] # None
  /\ FoundID(h, index[OpKey(h)].id)
  /\ UNCHANGED <<portalVars, cacheVars, index>>

LookupMiss(h) ==
  /\ job[h].pc = "lookup"
  /\ index[OpKey(h)] = None
  /\ Goto(h, "relist")
  /\ UNCHANGED <<portalVars, cacheVars, index>>

RelistsZone(h, recs) ==
  /\ Becomes(h, [job[h] EXCEPT !.seen = recs, !.pc = "merge"])
  /\ UNCHANGED <<portalVars, cacheVars, index>>

Relist(h) ==
  /\ job[h].pc = "relist"
  /\ ~job[h].ctxDone
  /\ \E recs \in Listings(job[h].zone) : RelistsZone(h, recs)

RelistMisread(h) ==
  /\ job[h].pc = "relist"
  /\ ~job[h].ctxDone
  /\ PagesShift
  /\ \E recs \in Listings(job[h].zone) : \E list \in Misread(recs) : RelistsZone(h, list)

RelistFails(h) ==
  /\ job[h].pc = "relist"
  /\ \E f \in Faults(h) : OpFails(h, f.error)
  /\ UNCHANGED <<portalVars, cacheVars, index>>

\* Replace the zone's entries by the listing. Unlike Records this keeps names
\* outside the domain filter. A record still missing is created by an update
\* and taken as deleted by a delete.
MergeListing(h) ==
  /\ job[h].pc = "merge"
  /\ LET new == IndexOf(job[h].seen, Supported)
     IN index' = [k \in Key |->
                   IF k \in DOMAIN new THEN new[k]
                   ELSE IF index[k] # None /\ index[k].zone = job[h].zone THEN None
                   ELSE index[k]]
  /\ IF index'[OpKey(h)] # None THEN FoundID(h, index'[OpKey(h)].id)
     ELSE IF job[h].op.action = "delete" THEN EndOp(h, job[h].soft)
     ELSE Goto(h, "create")
  /\ UNCHANGED <<portalVars, cacheVars>>

-----------------------------------------------------------------------------
(* applyCreate.                                                            *)

RejectInput(h) ==
  /\ job[h].pc \in {"create", "update"}
  /\ OpKey(h) \in Invalid
  /\ OpFails(h, "input")
  /\ UNCHANGED <<portalVars, cacheVars, index>>

CreateRecord(h) ==
  /\ job[h].pc = "create"
  /\ OpKey(h) \notin Invalid
  /\ ~job[h].ctxDone
  /\ Insert(job[h].op.rrset, job[h].op.target, job[h].op.ttl)
  /\ Becomes(h, [job[h] EXCEPT !.pc = "setIndex", !.id = nextID])
  /\ UNCHANGED <<portalZones, cacheVars, index>>

\* The answer is lost or an error: the record may exist all the same.
CreateRecordFails(h) ==
  /\ job[h].pc = "create"
  /\ OpKey(h) \notin Invalid
  /\ \E f \in Faults(h) :
       /\ OpFails(h, f.error)
       /\ IF f.effect THEN Insert(job[h].op.rrset, job[h].op.target, job[h].op.ttl)
          ELSE UNCHANGED <<portal, nextID>>
  /\ UNCHANGED <<portalZones, cacheVars, index>>

\* No zone of the Portal holds the name any more, so the API refuses.
CreateRefused(h) ==
  /\ job[h].pc = "create"
  /\ OpKey(h) \notin Invalid
  /\ ~job[h].ctxDone
  /\ findZone(portalZones, job[h].op.rrset) = {}
  /\ OpFails(h, "client")
  /\ UNCHANGED <<portalVars, cacheVars, index>>

\* Faulty variant of SetIndex: the entry does not say which zone it is in.
SetIndexNoZone(h) ==
  /\ job[h].pc = "setIndex"
  /\ index' = [index EXCEPT ![OpKey(h)] = [id |-> job[h].id, zone |-> None]]
  /\ EndOp(h, job[h].soft)
  /\ UNCHANGED <<portalVars, cacheVars>>

SetIndex(h) ==
  /\ job[h].pc = "setIndex"
  /\ index' = [index EXCEPT ![OpKey(h)] = [id |-> job[h].id, zone |-> job[h].zone]]
  /\ EndOp(h, job[h].soft)
  /\ UNCHANGED <<portalVars, cacheVars>>

-----------------------------------------------------------------------------
(* applyUpdate and applyDelete, with the id that lookupID found.           *)

\* The API patches rdata and TTL; the record keeps its name, type and zone.
Patch(id, target, ttl) ==
  portal' = [portal EXCEPT ![id].target = target, ![id].ttl = ttl]

UpdateRecord(h) ==
  /\ job[h].pc = "update"
  /\ OpKey(h) \notin Invalid
  /\ ~job[h].ctxDone
  /\ portal[job[h].id] # None
  /\ Patch(job[h].id, job[h].op.target, job[h].op.ttl)
  /\ EndOp(h, job[h].soft)
  /\ UNCHANGED <<nextID, portalZones, cacheVars, index>>

UpdateMissing(h) ==
  /\ job[h].pc = "update"
  /\ OpKey(h) \notin Invalid
  /\ ~job[h].ctxDone
  /\ portal[job[h].id] = None
  /\ OpFails(h, "notFound")
  /\ UNCHANGED <<portalVars, cacheVars, index>>

UpdateRecordFails(h) ==
  /\ job[h].pc = "update"
  /\ OpKey(h) \notin Invalid
  /\ \E f \in Faults(h) :
       /\ OpFails(h, f.error)
       /\ IF f.effect /\ portal[job[h].id] # None
          THEN Patch(job[h].id, job[h].op.target, job[h].op.ttl)
          ELSE UNCHANGED portal
  /\ UNCHANGED <<nextID, portalZones, cacheVars, index>>

\* A 404 answer counts as deleted.
DeleteRecord(h) ==
  /\ job[h].pc = "delete"
  /\ ~job[h].ctxDone
  /\ portal' = [portal EXCEPT ![job[h].id] = None]
  /\ Goto(h, "dropIndex")
  /\ UNCHANGED <<nextID, portalZones, cacheVars, index>>

\* Faulty variant of DeleteRecordFails: every error counts as deleted.
DeleteRecordFailsQuietly(h) ==
  /\ job[h].pc = "delete"
  /\ \E f \in Faults(h) :
       portal' = IF f.effect THEN [portal EXCEPT ![job[h].id] = None] ELSE portal
  /\ Goto(h, "dropIndex")
  /\ UNCHANGED <<nextID, portalZones, cacheVars, index>>

DeleteRecordFails(h) ==
  /\ job[h].pc = "delete"
  /\ \E f \in Faults(h) :
       /\ OpFails(h, f.error)
       /\ portal' = IF f.effect THEN [portal EXCEPT ![job[h].id] = None] ELSE portal
  /\ UNCHANGED <<nextID, portalZones, cacheVars, index>>

DropIndex(h) ==
  /\ job[h].pc = "dropIndex"
  /\ index' = [index EXCEPT ![OpKey(h)] = None]
  /\ EndOp(h, job[h].soft)
  /\ UNCHANGED <<portalVars, cacheVars>>

-----------------------------------------------------------------------------
(* Around the handlers: the process dies and starts again with nothing in  *)
(* memory; an operator works in the Portal.                                *)

Restart ==
  /\ job' = [h \in Handler |-> IdleJob]
  /\ index' = [k \in Key |-> None]
  /\ cachedZones' = <<>>
  /\ cacheValid' = FALSE
  /\ UNCHANGED portalVars

OperatorCreates(rrset, target, ttl) ==
  /\ Insert(rrset, target, ttl)
  /\ UNCHANGED <<portalZones, cacheVars, index, job>>

OperatorDeletes(id) ==
  /\ portal[id] # None
  /\ portal' = [portal EXCEPT ![id] = None]
  /\ UNCHANGED <<nextID, portalZones, cacheVars, index, job>>

OperatorAddsZone(z) ==
  /\ z \notin portalZones
  /\ portalZones' = portalZones \cup {z}
  /\ UNCHANGED <<portal, nextID, cacheVars, index, job>>

\* A zone goes with its records.
OperatorRemovesZone(z) ==
  /\ z \in portalZones
  /\ portalZones' = portalZones \ {z}
  /\ portal' = [i \in ID |-> IF portal[i] # None /\ portal[i].zone = z
                             THEN None ELSE portal[i]]
  /\ UNCHANGED <<nextID, cacheVars, index, job>>

-----------------------------------------------------------------------------
\* The steps of Records and of ApplyChanges that no fault disturbs.
RecordsStep(h) ==
  \/ ListRecords(h) \/ SwapIndex(h)

ApplyStep(h) ==
  \/ FinishApply(h) \/ StopCancelled(h) \/ SkipOp(h) \/ TakeOp(h)
  \/ LookupHit(h) \/ LookupMiss(h) \/ Relist(h) \/ MergeListing(h)
  \/ RejectInput(h) \/ CreateRecord(h) \/ CreateRefused(h) \/ SetIndex(h)
  \/ UpdateRecord(h) \/ UpdateMissing(h) \/ DeleteRecord(h) \/ DropIndex(h)

\* What the goroutine of handler h does by itself.
HandlerStep(h) ==
  \/ CachedZones(h) \/ ListZones(h) \/ RecordsStep(h) \/ ApplyStep(h)

\* A call of handler h fails.
FaultStep(h) ==
  \/ ListZonesFails(h) \/ ListRecordsFails(h) \/ RelistFails(h)
  \/ CreateRecordFails(h) \/ UpdateRecordFails(h) \/ DeleteRecordFails(h)

\* The pages that a call of handler h reads do not fit together.
MisreadStep(h) == ListZonesMisread(h) \/ ListRecordsMisread(h) \/ RelistMisread(h)

Request(h) ==
  \/ StartRecords(h)
  \/ \E ops \in Batches : StartApply(h, ops)
  \/ Cancel(h)
  \/ Respond(h)

Operator ==
  \/ \E r \in RRset, t \in Target, ttl \in TTL : OperatorCreates(r, t, ttl)
  \/ \E id \in ID : OperatorDeletes(id)
  \/ \E z \in Zone : OperatorAddsZone(z) \/ OperatorRemovesZone(z)

\* What the provider and its clients do while nobody else works in the Portal.
ProviderNext ==
  \/ \E h \in Handler : Request(h) \/ HandlerStep(h) \/ FaultStep(h) \/ MisreadStep(h)
  \/ DropZones \/ Restart

Next == ProviderNext \/ Operator

Spec == Init /\ [][Next]_vars

\* The provider is the only one to write records; empty zones come and go.
SoleWriterSpec == Init /\ [][ProviderNext \/ (Operator /\ UNCHANGED portal)]_vars

-----------------------------------------------------------------------------
(* Correctness.                                                            *)

\* Records and ApplyChanges share the index without agreeing on its age, yet
\* an entry never names a live record with another name, type or target: a
\* stale entry leads to a deleted record or to the right one (Provider.index).
IndexSound ==
  \A k \in Key :
    index[k] # None /\ portal[index[k].id] # None => KeyOf(portal[index[k].id]) = k

\* IndexSound is not inductive: ids also travel in listings and in requests. An
\* id names k when its record, if it still exists, has key k for good.
Names(id, k) ==
  /\ id < nextID
  /\ portal[id] # None => KeyOf(portal[id]) = k

FreshIDs == \A i \in ID : i >= nextID => portal[i] = None
IndexNames == \A k \in Key : index[k] # None => Names(index[k].id, k)
SeenNames(h) == \A r \in Range(job[h].seen) : Names(r.id, KeyOf(r))

\* The operation in progress fits the step, and the id found names its record.
OpNames(h) ==
  LET j == job[h] IN
  /\ j.pc \in {"lookup", "relist", "merge"} =>
       j.op # None /\ j.zone # None /\ j.op.action \in {"update", "delete"}
  /\ j.pc \in {"create", "setIndex"} => j.op # None /\ j.zone # None
  /\ j.pc \in {"update", "delete"} => j.op # None /\ j.op.action = j.pc
  /\ j.pc = "dropIndex" => j.op # None /\ portal[j.id] = None
  /\ j.pc \in {"setIndex", "update", "delete", "dropIndex"} =>
       j.id # None /\ Names(j.id, OpKey(h))

\* The inductive invariant of the handlers: every id the provider holds, in its
\* index, in a listing or in an operation, names the record it is held for.
IInv ==
  /\ TypeOK /\ FreshIDs /\ IndexNames
  /\ \A h \in Handler : SeenNames(h) /\ OpNames(h)

\* The records that a handler changed or removed in a step.
Touched == {i \in Live : portal'[i] # portal[i]}

\* However requests overlap, a handler updates or deletes only a record with
\* the name, type and target of the operation it executes (applyUpdate,
\* applyDelete): what the plan does not mention is left alone.
PlannedWrite ==
  job' # job =>
    \A i \in Touched : \E h \in Handler :
      /\ job'[h] # job[h]
      /\ job[h].pc = job[h].op.action
      /\ job[h].op.action \in {"update", "delete"}
      /\ KeyOf(portal[i]) = OpKey(h)

PlannedWritesOnly == [][PlannedWrite]_vars

\* Every record a handler creates, updates or deletes is in a zone that the
\* zone filter and the domain filter allow (README: "the provider never lists
\* or writes a zone outside that list").
WritesInsideZoneFilter ==
  [][job' # job =>
       \A i \in ID : portal'[i] # portal[i] =>
         (IF portal[i] # None THEN portal[i] ELSE portal'[i]).zone \in Managed]_vars

\* The operation has had its effect, unless h has no zone to write it in.
CarriedOut(h, op) ==
  op.action # "delete" /\ ~DryRun /\ ZoneFor(h, op) # {} =>
    \E id \in Live : KeyOf(portal[id]) = KeyOf(op) /\ portal[id].ttl = op.ttl

\* An ApplyChanges that reports no error has put every record it was asked to
\* create or update into the Portal, skipped operations apart. Holds for one
\* request at a time while nobody else writes records.
AppliedIsLive ==
  \A h \in Handler : job[h].pc = "reply" /\ job[h].outcome = "ok" =>
    \A i \in DOMAIN job[h].batch : CarriedOut(h, job[h].batch[i])

\* Why writes stay in managed zones: a record is in a zone of its name, and an
\* operation begins only for a name with a managed zone.
ZonesFit ==
  /\ \A i \in Live : portal[i].zone \in ZonesOf[portal[i].rrset]
  /\ Range(cachedZones) \subseteq Managed
  /\ \A h \in Handler :
       /\ Range(job[h].zones) \subseteq Managed
       /\ job[h].op # None => Range(job[h].zones) \cap ZonesOf[job[h].op.rrset] # {}

\* How many operations of its plan a request has begun.
Begun(h) == Len(job[h].batch) - Len(job[h].todo)

\* A request goes through its plan from the first operation to the last.
InPlan(h) ==
  LET j == job[h] IN
  /\ j.batch \in Batches \cup {<<>>}
  /\ Begun(h) \in Nat
  /\ \A i \in DOMAIN j.todo : j.todo[i] = j.batch[Begun(h) + i]
  /\ j.op # None => Begun(h) > 0 /\ j.op = j.batch[Begun(h)]
  /\ j.pc = "idle" => j = IdleJob
  /\ j.pc \in {"recordsZones", "list"} => j.batch = <<>> /\ ~j.soft
  /\ j.pc = "applyZones" => j.todo = j.batch
  /\ j.pc \in {"recordsZones", "list", "applyZones", "next"} => j.op = None
  /\ j.outcome = "ok" => j.todo = <<>> /\ j.op = None /\ ~j.soft

\* As long as nothing was rejected, all operations begun but the one in
\* progress are carried out.
AppliedSoFar(h) ==
  \/ job[h].soft
  \/ \A i \in 1 .. Begun(h) :
       \/ CarriedOut(h, job[h].batch[i])
       \/ i = Begun(h) /\ job[h].op # None /\ job[h].pc \notin {"setIndex", "dropIndex"}

\* The inductive invariant of one request at a time (ApplyChanges, applyOne).
AppliedIInv ==
  /\ IInv /\ ZonesFit
  /\ \A h \in Handler : InPlan(h) /\ AppliedSoFar(h)

\* What is left of the plan of h: the operation in progress counts until the
\* Portal has carried it out.
Unfinished(h) ==
  LET j == job[h]
  IN IF j.op = None \/ j.pc \in {"setIndex", "dropIndex"} THEN j.todo ELSE <<j.op>> \o j.todo

Store == INSTANCE PlanStore WITH plan <- [h \in Handler |-> Unfinished(h)]

\* Whatever fails, is cancelled or dies, the provider carries plans out as
\* PlanStore says: in order, each operation at most once and on its own key.
ImplementsPlanStore == Store!Spec
=============================================================================
