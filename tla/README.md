# Verification of external-dns-uddi-webhook

TLA+ models of the ExternalDNS webhook provider for Infoblox Universal DDI,
the TLC runs that check them on small instances, and TLAPS proofs of the
properties that matter most.

## 1. Inventory of the system

One process runs beside ExternalDNS in a pod. ExternalDNS calls it over HTTP on
localhost: `GET /records`, `POST /adjustendpoints`, `POST /records`. The provider
turns these into calls to the Universal DDI Portal, which stores one object per
DNS record.

| Component | State | Operations | What makes it correct |
|---|---|---|---|
| Change planning (`provider.go:332-468`) | none | `planChanges` and its helpers | the operations lead from the old endpoints to the new ones, in an order without conflicts or gaps, none of them wasted |
| Provider handlers (`provider.go:155-330`, `470-602`) | `index` under `mu`; per request: zones, plan, collected errors | `Records`, `AdjustEndpoints`, `ApplyChanges` | only records the plan names are touched; what is reported as done is done |
| Zone cache and zone choice (`zones.go`) | `zones`, `expiry` under `mu` | `get`, `invalidate`, `findZone` | no zone outside the filters is listed or written; a list is complete, not older than promised, and gone once invalidated |
| API client (`internal/uddi/client.go`, `errors.go`) | per list call: the offset and the pages so far | list by pages, create, update, delete; retry classes | a failure is classified so that the batch stops or goes on rightly; a listing is complete |
| Record data (`rdata.go`, `keyOf`) | none | `toRdata`, `fromRdata`, `quoteTXT`, `unquoteTXT` | what is written reads back as the same target, and is found again by its key |
| Start-up (`main.go`, `internal/config`, `resolveView`) | the configuration, the view id | load, validate, resolve, run | a configuration or a view that cannot be used stops the start; a signal does, too |
| Server (`internal/server`) | `ready`, `errCh`, listeners | `Start`, `Shutdown`, `Run` | readiness tells the truth, a signal ends the process, errors are reported |
| Metrics, logging, build, deployment | - | - | nothing that influences the rest |

How they interact: each HTTP request runs in a goroutine of its own, and all of
them share the record index, the zone cache and the Portal. ExternalDNS sends one
request at a time but gives up on a slow one and starts over, while the handler
of the old one may keep running. The Portal is also edited by people.

What is hard here:

- `Records` publishes an index that is as old as its first listing, while another
  request changes records and the same index;
- an id that was looked up is used after the mutex is released;
- batches end half-way: by a retryable error, a cancelled context, a process exit;
- a call may take effect although its answer is lost;
- zones appear and disappear while their list is read page by page, and while it
  is cached;
- requests queue behind a mutex that is held during a call over the network;
- the Portal stores TXT text without quotes and addresses in one spelling, while
  plans are calculated from what it lists;
- four goroutines touch readiness and shutdown state.

`PROJECT.json` lists each hazard at its line, with the properties that cover it.

## 2. Modules

| Module | Models | Extends |
|---|---|---|
| `ChangePlan` | `planChanges` and its helpers, as operators on endpoints | - |
| `ExternalDNS` | the planner of ExternalDNS: which `plan.Changes` can arrive (external) | `ChangePlan` |
| `PlanExecution` | a plan executed in order on an ideal zone: a reference for what plans achieve | `ExternalDNS` |
| `Provider` | the handlers, the index, the zone cache, and the Portal as they see it | `ChangePlan` |
| `PlanStore` | abstract specification: what `ApplyChanges` promises about the records | - |
| `Reconcile` | the ExternalDNS control loop that drives `Provider` | `Provider`, `ExternalDNS` |
| `Paging` | a list call of the API client that reads pages of a changing collection | - |
| `ZoneCache` | the zone cache with its mutex, its clock and the pages of its listing | `Paging` |
| `RecordData` | conversion and comparison of targets, round after round | - |
| `Lifecycle` | start-up, listeners, readiness, shutdown and exit of the process | - |
| `Startup` | the start in detail: configuration, view resolution; implements `Lifecycle` | `Lifecycle` |
| `SequenceProofs` | lemmas about sequences: induction, flattening, selections, and lists as an API returns them | - |
| `ChangePlanProofs` | what `planChanges` returns, for any changes and any endpoints | `ExternalDNS`, `SequenceProofs` |
| `PlanProofs` | that plans work | `PlanExecution`, `ChangePlanProofs` |
| `ProviderProofs` | ids, the refinement of `PlanStore`, where requests write and what success means | `Provider`, `SequenceProofs` |
| `ReconcileProofs` | what the loop is told, asks for and gets | `Reconcile`, `ProviderProofs`, `ChangePlanProofs` |
| `ZoneCacheProofs` | what listings and the cached list contain | `ZoneCache` |
| `RecordDataProofs` | what is written reads back | `RecordData`, `SequenceProofs` |
| `StartupProofs` | the process from its configuration to its exit | `Startup` |
| `MCPlanExecution`, `MCProvider`, `MCReconcile`, `MCZoneCache`, `MCRecordData`, `MCStartup` | values of the constants for TLC | |

Operators described as a *faulty variant* are the mutants of `PROJECT.json`: each
is a plausible bug, and shows that a property would notice it. No specification
uses them.

### How the models correspond to the code

**Names and records.** An `RRset` is a DNS name with a record type, and a `Target`
a record value, both in the canonical form that `changeKey` and `keyOf` compute. A
TTL of 0 is "not configured". In an endpoint the TTL is a number; in a record of
the Portal 0 stands for the inherited zone default. Comments, tags and the view
never influence control and are left out.

**Provider.** The state is the Portal (`portal`, `nextID`, `portalZones`), the
shared memory of the process (`index`, `cachedZones`, `cacheValid`) and one `job`
per handler, whose `pc` says where in `Records` or `ApplyChanges` its goroutine
is. One step is one API call with its answer, or one critical section of
`Provider.mu` or `zoneCache.mu`. So `lookupID` is four actions (`LookupHit`,
`LookupMiss`, `Relist`, `MergeListing`), and `applyCreate` is the call
(`CreateRecord` and its failures) followed by `SetIndex`. Between any two of them
other handlers, a restart and the operator may step in.

- `zoneCache.get` keeps its mutex across `ListZones`, so it is a single step here;
  `ZoneCache` looks into it;
- `UDDI_ZONE_CACHE_TTL` is not a clock: the cache may expire at any time
  (`DropZones`), which covers every TTL, 0 included, and `InvalidateZones`;
- an API call succeeds, or fails with one of the error classes of `errors.go`, and
  a failed call may have taken effect (`Failures`, `Faults`). After `Cancel` a
  call no longer succeeds;
- whether a client that gives up cancels the handler's context depends on the
  HTTP layer, so `Cancel` may or may not happen;
- the Portal gives every record a fresh id, and places it in the zone with the
  longest matching name among *all* zones of the view: `CreateRecord` sends only
  the name and the view (`client.go:164`);
- listings are sequences, in any order (`Listings`): an endpoint has the TTL of the
  record listed first, the index keeps the record listed last;
- pages are addressed by offset, so a list that changes while it is read may have an
  item twice or lack one. With `PagesShift` a listing of zones or of records can
  go wrong in this way, in one item (`Misread`); `Paging` shows how it comes about;
- the operator creates and deletes records and adds and removes zones, but edits
  no record in place.

**PlanStore** has the records of the Portal and, per request, the operations not
carried out yet. A step executes the first operation of a plan: it has its effect
on one record of its own key, or none, and the plan goes on or is given up. How a
record is found, the index, the zones and the failures are left out. `Provider`
implements it under the mapping `plan <- Unfinished`: an operation counts as not
carried out from `Next` until the Portal has carried it out or refused it, so that
looking an id up, listing, and updating the index are stutters. A call that took
effect although it failed is an execution whose plan goes on, or is given up. The
refinement holds for `SoleWriterSpec`, in which no operator writes records
(`PlanStore` has no actor for that); zones, restarts and cancellation are there.

**Reconcile.** ExternalDNS reads records, adjusts its own endpoints, calculates
the difference, and applies it unless it is empty. It can time out in either wait
and start over with a free handler, while the request it gave up runs on.
`undisturbed` is history for `SuccessMeansDone`: whether a synchronization began with
nobody else at work, no duplicates and a zone list that is right, and no restart,
vanished record or misread listing came in between.

**Paging.** `items` is what the Portal would list now, in the order of the ids;
`offset` and `got` are the locals of `ListZones` or `ListRecords`. Between two
pages items come and go. `stayed`, `removed`, `added` are history for the
properties.

**ZoneCache.** An item of `Paging` is a zone of the view. `get` is `Get`, then
`Hit`, or `Miss` with one `Fetch` per page, then `Store`; the mutex is held from
`Miss` to `Store` or `FetchFails`. Time is relative: `left` is what remains until
`expiry`, `spent` how long the listing has taken, `absent` how long a zone has been
gone. `drops`, `epoch`, `listed` and `asked` count invalidations, so that an answer
can be compared with the listing it comes from. `only` is `zoneSet`, and an entry
of `ZoneFilter` may be blank.

**RecordData.** One RRset and the rdata of its records. A TXT value is a sequence
of characters, of which the quote and the backslash matter; a target of another
type is a record of its numbers, its host and whether a dot follows. `Sync` is one
round: `Records`, `AdjustEndpoints`, the planner and `ApplyChanges` without faults.
`Removals` leaves open which of several records with one key a delete finds.
`PortalText` is the Portal's side: it takes a value apart only if it is exactly one
character-string, and is defined without the code's own `unquoteTXT`; that the two take
every text alike is proved, not assumed. `nested` remembers that a value in quotes twice
was wanted: what the Portal stores for it is in quotes still, and `keyOf` unquotes it again.

**Lifecycle and Startup.** One action per statement that other goroutines can
observe: `select` cases, channel sends, stores to `ready`, listener events. `conns` is
not in the code: net/http counts the connections that `Shutdown` waits for.
`Lifecycle` has one step, `Initialise`, for everything before `server.Run`;
`Startup` splits it into `Load`, which accepts or refuses the settings, and the reply of the
Portal to the one call of `New`, which differs by how `UDDI_VIEW` is written, which
views exist, which of them the key can read, and whether it may list views at all.

## 3. Runs

| Run | Question | Result |
|---|---|---|
| `plan_execution` | do plans reach what is wanted, without conflicts and gaps? | holds |
| `provider_overlap` | can overlapping requests touch the wrong record? | no |
| `provider_faults` | under every kind of failing call: does a success report mean success, are plans carried out as `PlanStore` says, do writes stay inside the zone filter? | yes, with a filter that keeps all zones of a name or none |
| `zone_filter_nested` | do they with an unmanaged zone below a managed one? | **no** |
| `reconcile` | does a plan say what ExternalDNS wants changed, has an undisturbed success done all of it, and does the loop converge and come to rest, with faults, misread listings and given-up requests beside their successors? | yes; duplicates of a target that differ in TTL may be patched for ever |
| `duplicates_stay` | do duplicates of one target disappear again? | **no** |
| `mixed_ttls` | does an interrupted TTL change get finished? | **no** |
| `zone_cache` | is a list complete, recent, and gone once invalidated; does everybody get through? | yes, up to zones that move while pages are read |
| `record_data` | does what is written read back as the same target, and the plan become empty? | yes, with the exceptions below |
| `txt_rewritten` | is the plan for a TXT record stable, whatever its text? | **no** |
| `startup` | configuration, view, readiness, exit codes, shutdown | holds |
| `lifecycle_ready_flag` | does the ready flag stay cleared after `Shutdown`? | **no** |

The bold answers are disagreements between the code and a comment or document,
described under `findings` in `PROJECT.json`:

1. *Zone filter.* `findZone` looks only at filtered zones, the Portal at all of
   them. A name below an unmanaged child zone of a managed zone is written to the
   child. The reverse case exists, too, with `Managed` the child only: a name in a
   managed child of an unmanaged zone is written to the parent when the child is
   removed while the cache still has it (the run's instance, so changed, shows it in
   six states). `WritesStayInside` proves that nothing else leads out: both need a
   name with a managed and an unmanaged zone.
2. *TXT.* `quoteTXT` puts text that ends in a backslash into quotes without escaping
   the backslash, so the closing quote becomes an escaped one. The Portal keeps such a
   value as it is, `quoteTXT` does not recognise it as quoted and adds other quotes, and
   what `Records` reports differs from what `AdjustEndpoints` wants: the record is deleted
   and created again at every synchronization.
3. *Duplicates.* Two overlapping batches can create one target twice; a plan
   compares target sets, so ExternalDNS asks for an update at every synchronization
   and both records stay. While their TTLs agree the provider does nothing. Once the
   TTL changes it patches the record listed last, which the index has
   (`provider.go:204`), while ExternalDNS compares the TTL of the one listed first
   (`provider.go:213`): the same record may be patched for ever. `WritesCease` excepts
   this (`TTLsDisagree`).
4. *TTL.* An endpoint's TTL is that of the record listed first.
5. *Ready flag.* The API's start message can be taken up after `Shutdown`.

Two observations beside these:

- `provider.go:513` says of an update "Create the record if it disappeared after the plan
  was built." The code does so when `lookupID` finds nothing. While the index still has
  the id of the deleted record, `UpdateRecord` answers 404 and the change is rejected
  (`UpdateMissing`), whereas a delete handles the 404 (`provider.go:547`). The next
  `Records` refreshes the index, so the loop still converges.
- A zone that a listing misses stays missing from the cached list until that expires.
  Operations in it are skipped (`SkipOp`) and the request reports success. In `reconcile`
  such a listing counts as a fault, and `SuccessMeansDone` leaves it out.

### Bounds, and why they are enough

- `plan_execution`: an RRset and a CNAME of the same name that exclude each other,
  and one RRset shared by two set identifiers; lists of up to two targets in both
  orders, TTLs 0 and 60. Plans act on every RRset separately, and per RRset there
  are only the cases created, kept, patched and deleted, all of which occur at
  once with two targets. The two set identifiers have different targets: the
  provider stores no set identifier, so a shared target is one record for both.
  `WorldsAssumption` states what the instance fixes, and the theorems need only that.
- `provider_overlap`: two handlers (symmetric), one name, two targets, two record
  ids, one TTL. Every conflict is between two parties over one key, and the operator and
  restarts act as a third; the second id lets a record be replaced by a new one
  with the same key. A patch then only shows where it meets the wrong record, which is
  what the properties are about. Calls here fail only through cancellation, and no
  listing is misread; the theorems below cover every other failure, misread listings,
  and every other bound.
- `provider_faults`: one handler; all five combinations of error class and effect;
  a target that `toRdata` rejects and an unsupported type; a managed and an unmanaged
  zone, and each comes and goes; three record ids, so that a record can be created
  twice, or deleted and created anew twice. Listings come in every order and may
  be misread. There is one handler because `AppliedIsLive` is about one request at a
  time: another one may delete what this one created. Nested zones are left to
  `zone_filter_nested`, since with them and misread listings the instance is too large.
  The theorems about the filter, `PlanStore` and a success cover any zones.
- `zone_filter_nested`: these zones and a nested one, unmanaged, below the managed one.
- `reconcile`: one RRset. A scenario fixes what the cluster may wish for and how
  many faults may occur: one target that comes and goes with two faults, one target
  whose TTL changes with one fault, a second target that comes and goes beside the first with one
  fault. The wish changes at most `MaxWishes` (1) times. Both must be bounded for the
  system to come to rest at all. A fault is a failing call, a timeout, a restart, a
  vanished record or a listing that misses or repeats an item; a timeout is what makes
  two requests overlap. `MaxID` bounds the records ever created; a handler that ran out
  of ids would be stuck, which `RecordsConverge` or the deadlock check would report, so
  a passing run shows that the bound is never the reason for anything.
- `duplicates_stay`, `mixed_ttls`: the smallest scenario each, TTLs 0, 60 and 120 for
  the second.
- `zone_cache`: two zones read by pages of one, so that any change of the
  collection moves a zone across a page, and a last, empty page is read; two
  callers, so that one queues behind the other; a TTL of 2, listings that take up
  to `MaxCall` (1), `MaxDrops` (2) invalidations, of which one can precede, and one
  interrupt, a listing. The zone filter has a blank entry only. The theorems cover
  every other value. In the repository only a test calls `InvalidateZones`, which is
  exported: its interleavings with listings are those an embedding program could meet.
- `record_data`: every TXT value of up to four characters (a letter, the quote, the
  backslash), every one of up to six quotes and backslashes, and all pairs of values
  of up to two characters; for the other types two hosts and none, the numbers 0, 65535 and
  65536, addresses of either family, one that is none, and one address in two
  spellings. The theorems of `RecordDataProofs` cover values of every length. No
  value is left out of the instance or assumed away; the properties except what the code
  does not settle, and say that this is all:
  - a text that ends in a backslash is rewritten in every round (finding 2);
  - an address in an unusual spelling settles, since the planner compares addresses by
    value, but is deleted and created again whenever another target of its name changes,
    and next to a rejected target in every round (`Rewritten`);
  - after a value whose text is itself in quotes (`"\"a\""`, seven characters) nothing is
    claimed (`nested`): `keyOf` takes the stored text for the text without its quotes.
- `txt_rewritten`: one value, a letter and a backslash.
- `startup`: two views, every way to write either in `UDDI_VIEW`, settings that are
  accepted and settings that are not; two health connections.

### Fairness

- `Reconcile`: weak fairness for ExternalDNS sending a request or getting its answer
  (`LoopStep`, with whichever handler), and that it is never stuck with a plan
  (`[]<>(phase # "plan")`, since it always finds a free handler or nothing to do); for the
  expiry of the zone list, since its TTL passes; and for each handler (`MovesOn`): its
  goroutine takes its next step, its answer to a request that was given up ends it,
  and a call under a cancelled context returns with an error. This is what the Go
  scheduler, the clock and the ExternalDNS interval give, provided that every API call
  returns. The code does not enforce the last point: the HTTP client has no
  timeout. Nothing is assumed about faults, timeouts, restarts or changes of the
  wish; these are bounded.
- `ZoneCache`: strong fairness for what waits for the mutex, since `sync.Mutex` hands
  itself to a waiter that starves; weak fairness for a listing, since a call ends
  with a page or an error. That is again the assumption that calls return.
- `Lifecycle`: weak fairness for the main goroutine, before `server.Run` only once a
  signal has come, and for the watcher. Nothing is assumed about signals, failures
  or clients: `SignalEnds` depends on the shutdown timeout, not on clients that hang
  up.
- `Startup`: weak fairness for what the process does by itself, and for the reply to
  a cancelled call; the Portal may never reply to any other. `ImplementsLifecycle`
  shows that this is enough for the fairness of `Lifecycle`.
- `Provider` states safety only and has no fairness.

Deadlock is checked everywhere except in `plan_execution`, `startup` and
`lifecycle_ready_flag`, which end when the plan or the process does.

## 4. Proofs

`ChangePlanProofs` and `PlanProofs` prove what plans are and do. What plans do is
proved for any endpoints that meet `WorldsAssumption`: a
source hands over a finite set of endpoints with one endpoint per key, none lists a
target twice, a target keeps its set identifier, and no set has a CNAME beside
another type of its name. Except for the set identifier, a limit named in section 5,
this is what ExternalDNS sees to for what is wanted, and what `Records` lists unless
one target has two records (finding 3), a case that `reconcile` has and plans
leave alone.

- `PlanOrder`: a plan is its deletes, then its updates, then its creates, for any
  `plan.Changes` at all;
- `PlanHoldsDifference`: the plan between two sets of endpoints holds the operations
  on the targets in which they differ, and no others. It needs `AreEndpoints` only,
  finitely many endpoints with one per key: a target may be repeated, or shared by
  two set identifiers;
- `PlanIsExact`: the plan between two worlds has one operation for each record in
  which they differ, the one that the difference calls for, and no other;
- `PlanReachesDesired`, `NoTransientConflictEver`, `NoGapEver`, `EveryOpEffective`:
  the four invariants of `plan_execution`, from `PlanInvariance`.

*The argument.* `IInv` of `PlanExecution` says that no two operations left are about
one record, that each finds its record in the state it is made for, that a record
without an operation is as wanted, and that deletes come first. `PlanIsExact` and
`PlanOrder` give it for the initial state, and a step keeps it since it changes
one record only. The four properties follow: while deletes are left, the zone holds
a part of the old world, afterwards a part of the new one, so a conflict would be
one inside a world. `PlanIsExact` and `PlanHoldsDifference` are the long part: they
follow `unmatchedDeletes`, `diffUpdates`, `diffTargets` and `OpsFor` through the
sequences they build, the first by what each position holds (`Enumerates`), the second
by what occurs in them at all (`Covers`). Induction goes by the least length that
fails (`LeastNat`), as the induction theorems of the library cannot be used.

`ProviderProofs` proves, for any number of handlers, records, zones and targets,
any failures, any plans, and listings in any order, misread ones included:

- `Invariance`: `Spec => []IInv`;
- `TypeCorrect`, `IndexIsSound`: `TypeOK` and `IndexSound` are invariants;
- `OnlyPlannedWrites`: `Spec => PlannedWritesOnly`, an action property.

The assumptions are those on the constants (`ZonesAssumption`,
`InputsAssumption`, `NoneAssumption` in `Provider`, `TTLAssumption` in
`ChangePlan`): types, finitely many zones, and a `None` that is nothing else.

*The argument.* `IndexSound` is not inductive: ids reach the index from listings
and from answers, and wait in requests in between. `Names(id, k)` says that `id`
was given out and that its record, while it lives, has key `k`. The Portal never
reuses an id and no step changes the key of a record (`PortalStep`), so a name
once right stays right (`NamesKept`). `IInv` says that the index, every listing
under way and every operation in progress hold only ids that name what they are
held for, and that ids not yet given out have no record. An update patches the
record whose id it holds with its own target, which is the record's target
already; that is why an update keeps the index sound.
For each action there is one step: what it does to the Portal is a `PortalStep`,
which takes care of everybody else (`OthersKept`), and what it does to its own
request is shown conjunct by conjunct.

The second part of `ProviderProofs` proves that `Provider` implements `PlanStore`
(`CarriesPlansOut`), for any number of requests. Besides `IInv` the mapping needs
that a request between two operations has none in progress (`Disciplined`, with
`IInv` in `RInv`). Every action is then a stutter, an `Accept`, an `Execute` or a
`GiveUp` of its request, or a `Restart`. An update or a
delete is about a record of its own key because of `IInv`: without soundness of the
index the refinement would be false.

The third part proves where requests write and what they report:

- `WritesInvariance`, for any number of requests: a record is in a zone of its name,
  the zones of a request are managed ones, its operation has one of them, and
  it goes through its plan from the first operation to the last (`ZonesFit`,
  `InPlan`);
- `WritesStayInside`: `Spec => WritesInsideZoneFilter` under `FilterKeepsNesting`,
  which says that the filters keep all zones that a name can be in, or none. Finding 1
  shows why this is needed, whichever of the zones is the managed one;
- `AppliedInvariance` and `SuccessMeansApplied`: `AppliedIInv` and `AppliedIsLive` for
  `SoleWriterSpec`, one request at a time (`OneAtATime`) and plans that do not take
  back what they did (`PlansAgree`). The last point is weaker than what `PlanIsExact`
  proves of the plans of `planChanges`: these name no record twice.

*The argument.* The record that a step writes has the name of its operation, and
that name has a managed zone; by `FilterKeepsNesting` then every zone of the name is
managed, the one that the Portal chose, too. For a success, `AppliedSoFar` says that
as long as nothing was rejected every operation that has begun has its record in
the Portal, but for the one in progress, which has it from the answer on. A
later operation could undo that only with the same key, which `PlansAgree` rules
out. The proofs take each step apart into what it does to its job (`PlanForm`,
`WorkForm`) and what it does to the Portal (`PortalForm`), and then argue about
these few forms.

`ReconcileProofs` carries this over to the control loop, for any scenarios that meet
`LoopAssumption`: what the cluster wishes for are finite sets of endpoints with one
per key, and a bound on faults and on changes of mind is a number.

- `AnswerSaysWhatIsThere`: for any list of records, in any order and with any
  repetitions, the endpoints that `Records` answers with have exactly the names, types
  and targets of those it reports, the supported ones inside the domain filter;
- `PlanSaysDifference`: carried out on any records, the plan between two sets of
  endpoints turns the keys of the one into the keys of the other, whatever targets
  they repeat, as long as the first has no set identifiers, and answers have none;
- `PlansMeetWishes`: `LoopSpec => []PlanMeetsWish`, so every plan that ExternalDNS
  sends turns what it was told into what it wants;
- `LoopTypeCorrect`, `IndexSoundInLoop`, `OnlyPlannedWritesInLoop`: `LoopTypeOK`,
  `IndexSound` and `PlannedWritesOnly` for `LoopSpec`.

*The argument.* A step of the loop is one of `Provider`, except that the plan a handler
starts with is the one ExternalDNS calculated, not one of `Batches` (`LoopNextIsNext`).
The proofs about `Provider` therefore apply to all steps but that one, which
`StartApplyKeepsIInv` adds for any plan. `LoopIInv` is `LoopTypeOK`, `IInv`, and that
somebody works on the request ExternalDNS waits for. An answer is grouped by name and
type (`GroupCovers`), so it is always a set of endpoints with one per key
(`AnswerType`), which `PlanSaysDifference` needs.

`ZoneCacheProofs` proves for any zones, page size, callers, times
and filters: `ReadsWhatStays` and `ReadsOnce` about the pages, `NoneFromBefore`
(`InvalidationHolds`), `AnswersAreRecent` (`Recent`) and `ListsEverything`
(`CachesEverything`) about the cached list. For the pages the point is that an
item's rank never grows when others are removed and never shrinks when others are
added; so, with `GotBehind`, what is behind the offset has been read unless
something was removed, and what was read is behind the offset unless something was
added. For the cache, `LockHeld` and `EpochsAgree` say that no invalidation gets
between a listing and its storing, and `AgesBounded` that a cached zone grows older
only as the time left runs out.

`RecordDataProofs` proves for any texts over any characters, any addresses and any
hosts that meet `SourceAssumption`:

- `RoundIsFaithful` (`Faithful`): after a round the Portal has the records of what is
  wanted, however it is written, and nothing else;
- `SecondRoundIdle` (`PlanIsStable`): another round over the same targets deletes
  nothing and creates only what is rejected again, apart from the targets that are
  `Rewritten`: text that ends in a backslash and, next to a rejected target, an address
  in an unusual spelling;
- `WantedRecordsStay` (`WantedStays`): no round deletes a record of a wanted target, up to
  the same two kinds of target.

None of them says anything after a text in quotes twice (`nested`). `SourceAssumption` is
about types only: texts are sequences of characters, addresses known ones, and host
names come without their trailing dot, as ExternalDNS hands them over.
`AddressAssumption` says that printing an address twice is printing it once, in the same
family. *The argument.* `PortalAgrees`: the Portal's unquoting and `unquoteTXT` agree on
every text. `TextReturns`: what is stored for a text reads back as the form in which
the text was sent, unless the closing quote is escaped. It is proved for texts of any
length, by the least length that fails: appending one character to a text appends its
escape to the escaped text, and takes back at most what it completes
(`EscapeAppends`, `UnescapedSteps`). `RInv` then says that what is stored is always what
some wish needs.

`StartupProofs` proves `ReadyMeansListening` and `CleanExitOnlyOnSignal` for any
number of connections, from `IInv`: an announced start has happened, and `Run`
leaves its `select` only for a reason. It also proves that `Startup`
implements the safety part of `Lifecycle` (`StartupImplementsLifecycle`), so that
these hold in detail as well, and `ServesRealView` for any views, configurations
and answers of the Portal: only a view that exists passes `resolveView`, and
nothing listens before (`ResolvedOnce`, `NothingYet`).

The assumptions of these modules are named, too: `ItemsAssumption` and
`LimitAssumption` (finitely many objects with ordered ids, a page of at least one),
`CacheAssumption`, `ConnsAssumption`, `SettingsAssumption`, `CharAssumption`,
`AddressAssumption`, `SourceAssumption`; in `PlanExecution`
`WorldsAssumption` and `NotLiveAssumption` (the mark of a missing record is no TTL).
`FilterKeepsNesting`, `OneAtATime` and `PlansAgree` are hypotheses of the theorems
that need them, not assumptions of a module.

*Only model-checked:* liveness (`RecordsConverge`, `WritesCease`, `EveryCallEnds`,
`SignalEnds`, `FailureEnds`, `BecomesReady`, the fairness part of
`ImplementsLifecycle`), which needs fairness and `ENABLED` and is out of the
prover's reach; and `SuccessMeansDone`. Every other invariant and every action property of the
passing runs is stated by a theorem.

## 5. What is not modelled

- `Provider` takes `ListZones` and `ListRecords` as atomic and keys as canonical:
  `Paging` and `RecordData` say how far that is true. A listing misses or repeats one
  item at most, however many come and go while its pages are read.
- A page limit of the server that is smaller than `UDDI_PAGE_LIMIT`: a page is as
  long as asked for, and a shorter one ends the listing.
- A call of the Portal that never ends: it blocks its caller, and everybody who
  waits for the zone cache.
- Rdata that does not have the fields of its type (the errors of `fromRdata`), which
  the Portal does not produce.
- The parsing of the environment, of regular expressions and of tags: what they
  yield are constants.
- The SDK, JSON and HTTP on either side, and the webhook API of ExternalDNS.
- The TXT registry and other ExternalDNS installations in the same zone; they
  appear as the operator.
- Records edited in place: `IndexSound` assumes that the key of a record never
  changes. A shared target of two set identifiers is one record for both.
- How the Portal takes quoted text apart: the repository says that it removes the outer
  quotes of a single character-string (`docs/DESIGN.md:42`). `PortalText` reads this
  as: quotes inside are escaped, the closing one is not, and other text is kept.
- Metrics, logging, build and deployment.

## 6. Plan

1. *Done:* change planning; the provider with its index; the reconciliation loop;
   the server's life cycle; their inductive invariants.
2. *Done:* paging, the zone cache with lock and clock, record data, start-up, the
   abstract specification of `ApplyChanges`, and the proofs about them.
3. *Done:* the proofs about plans, about the zone filter, and about what a reported
   success means.
4. *Done:* the proofs about the control loop, about plans between any endpoints, and
   about record data.
5. *Open: records edited in place:* an operator who edits, and the property that takes the
   place of `IndexSound` then.
