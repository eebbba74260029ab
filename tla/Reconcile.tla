----------------------------- MODULE Reconcile ------------------------------
(***************************************************************************)
(* The provider driven by the ExternalDNS control loop: Records,           *)
(* AdjustEndpoints and a plan, ApplyChanges, and again.  ExternalDNS gives *)
(* a request up after its own timeout and starts over, while the handler   *)
(* goes on.  The loop itself is external code, modelled from the interface *)
(* the provider implements for it.                                         *)
(***************************************************************************)
EXTENDS Provider, ExternalDNS

CONSTANTS
  Scenarios,     \* the wishes of a cluster, with a bound on its faults
  MaxWishes      \* bound on how often the wish changes

ASSUME LoopAssumption ==
  /\ \A s \in Scenarios : s.faults \in Nat /\ \A wish \in s.wishes : AreEndpoints(wish)
  /\ MaxWishes \in Nat
  /\ NoSetID \in SetID /\ DefaultTTL \in TTL
  /\ None \notin Handler

VARIABLES
  scenario,  \* the sets of endpoints that the cluster can ask for, and how many
             \* failing calls, timeouts, restarts and lost records it meets
  desired,   \* the endpoints the cluster asks for
  phase,     \* what ExternalDNS waits for
  worker,    \* the handler that serves its request
  current,   \* the endpoints Records answered with
  wishes,    \* how often desired has changed
  faults,    \* how many faults have happened
  undisturbed  \* nothing has interfered with the synchronization so far

loopVars == <<scenario, desired, phase, worker, current, wishes, faults, undisturbed>>
allVars == <<vars, loopVars>>

Phase == {"rest", "records", "plan", "apply"}

LoopTypeOK ==
  /\ TypeOK
  /\ scenario \in Scenarios
  /\ desired \in scenario.wishes
  /\ phase \in Phase
  /\ worker \in Handler \cup {None}
  /\ AreEndpoints(current) /\ \A ep \in current : ep.setID = NoSetID
  /\ wishes \in 0 .. MaxWishes
  /\ faults \in 0 .. scenario.faults
  /\ undisturbed \in BOOLEAN

LoopInit ==
  /\ Init
  /\ scenario \in Scenarios
  /\ desired \in scenario.wishes
  /\ phase = "rest"
  /\ worker = None
  /\ current = {}
  /\ wishes = 0
  /\ faults = 0
  /\ undisturbed = FALSE

-----------------------------------------------------------------------------
NoDuplicates == \A i, j \in Live : KeyOf(portal[i]) = KeyOf(portal[j]) => i = j

\* Nobody is at work, each target is one record, and the zone list is right.
Orderly ==
  /\ \A h \in Handler : job[h].pc = "idle"
  /\ NoDuplicates
  /\ cacheValid => Range(cachedZones) = portalZones \cap Managed

ChangeWish ==
  /\ wishes < MaxWishes
  /\ \E wish \in scenario.wishes \ {desired} : desired' = wish
  /\ wishes' = wishes + 1
  /\ UNCHANGED <<vars, scenario, phase, worker, current, faults, undisturbed>>

BeginSync(h) ==
  /\ phase = "rest"
  /\ StartRecords(h)
  /\ phase' = "records"
  /\ worker' = h
  /\ undisturbed' = Orderly
  /\ UNCHANGED <<scenario, desired, current, wishes, faults>>

GotRecords(h) ==
  /\ phase = "records"
  /\ h = worker
  /\ Respond(h)
  /\ IF job[h].outcome = "ok"
     THEN /\ phase' = "plan"
          /\ current' = EndpointsOf(job[h].seen)
     ELSE phase' = "rest" /\ UNCHANGED current
  /\ worker' = None
  /\ UNCHANGED <<scenario, desired, wishes, faults, undisturbed>>

\* The changes ExternalDNS finds between what there is and what is wanted.
Diff == Calculate(current, AdjustEndpoints(desired))
NoChanges == [create |-> <<>>, updateOld |-> <<>>, updateNew |-> <<>>, delete |-> <<>>]

\* ExternalDNS does not call ApplyChanges when nothing differs.
NothingToDo ==
  /\ phase = "plan"
  /\ Diff = NoChanges
  /\ phase' = "rest"
  /\ current' = {}
  /\ UNCHANGED <<vars, scenario, desired, worker, wishes, faults, undisturbed>>

BeginApply(h) ==
  /\ phase = "plan"
  /\ phase' = "apply"
  /\ worker' = h
  /\ current' = {}
  /\ UNCHANGED <<scenario, desired, wishes, faults, undisturbed>>
  /\ \E changes \in {Diff} \ {NoChanges} :
       \E ops \in {planChanges(changes)} : StartApply(h, ops)

GotApplied(h) ==
  /\ phase = "apply"
  /\ h = worker
  /\ Respond(h)
  /\ phase' = "rest"
  /\ worker' = None
  /\ UNCHANGED <<scenario, desired, current, wishes, faults, undisturbed>>

\* Nobody waits for this answer any more.
Abandoned(h) ==
  /\ h # worker
  /\ Respond(h)
  /\ UNCHANGED loopVars

Faulty ==
  /\ faults < scenario.faults
  /\ faults' = faults + 1

\* ExternalDNS gives up; the handler may or may not see its context cancelled.
TimesOut ==
  /\ phase \in {"records", "apply"}
  /\ job[worker].pc # "reply"
  /\ Faulty
  /\ phase' = "rest"
  /\ worker' = None
  /\ Cancel(worker) \/ UNCHANGED vars
  /\ UNCHANGED <<scenario, desired, current, wishes, undisturbed>>

\* The provider restarts; ExternalDNS sees its request fail.
ProviderRestarts ==
  /\ Faulty
  /\ Restart
  /\ phase' = IF phase = "plan" THEN "plan" ELSE "rest"
  /\ worker' = None
  /\ undisturbed' = FALSE
  /\ UNCHANGED <<scenario, desired, current, wishes>>

\* An operator deletes a record by hand.
RecordVanishes(id) ==
  /\ Faulty
  /\ OperatorDeletes(id)
  /\ undisturbed' = FALSE
  /\ UNCHANGED <<scenario, desired, phase, worker, current, wishes>>

\* A call fails, or is bound to fail because its context is cancelled.
CallFails(h) ==
  /\ FaultStep(h)
  /\ IF job[h].ctxDone THEN UNCHANGED faults ELSE Faulty
  /\ UNCHANGED <<scenario, desired, phase, worker, current, wishes, undisturbed>>

\* Somebody else works in the Portal while a listing reads its pages.
ListingShifts(h) ==
  /\ Faulty
  /\ MisreadStep(h)
  /\ undisturbed' = FALSE
  /\ UNCHANGED <<scenario, desired, phase, worker, current, wishes>>

Works(h) == HandlerStep(h) /\ UNCHANGED loopVars

ZonesExpire == DropZones /\ UNCHANGED loopVars

\* ExternalDNS sends a request or gets its answer.
LoopStep(h) == BeginSync(h) \/ GotRecords(h) \/ GotApplied(h)

LoopNext ==
  \/ NothingToDo
  \/ \E h \in Handler :
       \/ LoopStep(h) \/ BeginApply(h) \/ Abandoned(h)
       \/ Works(h) \/ CallFails(h) \/ ListingShifts(h)
  \/ ChangeWish \/ TimesOut \/ ProviderRestarts \/ ZonesExpire
  \/ \E id \in ID : RecordVanishes(id)

LoopSpec == LoopInit /\ [][LoopNext]_allVars

\* What the goroutine of handler h must come to do: under a cancelled context its
\* calls must fail.
MovesOn(h) ==
  /\ job[h].pc # "idle"
  /\ Works(h) \/ Abandoned(h) \/ (job[h].ctxDone /\ CallFails(h))

\* The scheduler runs every goroutine, every call returns, ExternalDNS keeps
\* synchronizing and is never stuck with a plan, and a zone list expires when
\* its time has passed. Nothing is promised about faults or changes.
Fairness ==
  /\ WF_allVars(\E h \in Handler : LoopStep(h))
  /\ []<>(phase # "plan")
  /\ WF_allVars(ZonesExpire)
  /\ \A h \in Handler : WF_allVars(MovesOn(h))

FairLoopSpec == LoopSpec /\ Fairness

-----------------------------------------------------------------------------
(* Correctness.                                                            *)

\* The keys of a set of endpoints, and of the operations of a kind in a plan.
KeysOf(eps) == UNION {{<<ep.rrset, t>> : t \in targetSet(ep.targets)} : ep \in eps}
KeysFor(ops, action) ==
  {KeyOf(ops[i]) : i \in {j \in DOMAIN ops : ops[j].action = action}}

\* What the wish amounts to: the keys that should be live.
Wanted == KeysOf(AdjustEndpoints(desired))

LiveKeys == {KeyOf(portal[i]) : i \in Live}

\* A plan says the whole difference: taking away what it deletes from what
\* Records answered, and adding what it creates, gives what the cluster asks
\* for, also when several records of one name have the same target or endpoints
\* of one name differ in their set identifier (planChanges, recordBuilder).
PlanMeetsWish ==
  phase = "plan" =>
    LET ops == planChanges(Diff)
    IN (KeysOf(current) \ KeysFor(ops, "delete")) \cup KeysFor(ops, "create") = Wanted

\* However the cluster's wish changes, calls fail, requests time out and overlap
\* and the provider restarts: once that stops, the Portal holds exactly the
\* wanted records, and keeps them.
RecordsConverge == <>[](LiveKeys = Wanted)

\* An ApplyChanges that reports no error to an ExternalDNS that nobody disturbed
\* has done its whole plan: what it was to delete is gone, so that no error but a
\* 404 counts as deleted, and everything else is there with its TTL (applyOne,
\* applyDelete).
SuccessMeansDone ==
  phase = "apply" /\ undisturbed /\ job[worker].pc = "reply" /\ job[worker].outcome = "ok" =>
    \A n \in DOMAIN job[worker].batch :
      LET op == job[worker].batch[n]
          Holders == {i \in Live : KeyOf(portal[i]) = KeyOf(op)}
      IN IF op.action = "delete" THEN Holders = {}
         ELSE \E i \in Holders : portal[i].ttl = op.ttl

\* Two records of one target differ in TTL. A synchronization patches only the
\* one listed last (provider.go:204), while ExternalDNS compares the TTL of the
\* one listed first (provider.go:213).
TTLsDisagree ==
  \E i, j \in Live : KeyOf(portal[i]) = KeyOf(portal[j]) /\ portal[i].ttl # portal[j].ttl

\* The provider comes to rest: records do not appear to change at every
\* synchronization (docs/DESIGN.md), unless a target was written twice and its
\* records disagree on the TTL: then one of them may be patched for ever.
WritesCease ==
  <>[](\/ \A h \in Handler : job[h].pc \notin {"create", "update", "delete"}
       \/ TTLsDisagree)

\* Each wanted target is one record (README.md): duplicates do not stay.
OneRecordPerTarget == <>[]NoDuplicates

\* A configured TTL reaches every record (README.md: "An endpoint TTL or
\* UDDI_DEFAULT_TTL overrides the zone default").
TTLsConverge ==
  <>[](\A ep \in AdjustEndpoints(desired) : \A i \in Live :
         portal[i].rrset = ep.rrset /\ ep.ttl # 0 => portal[i].ttl = ep.ttl)
=============================================================================
