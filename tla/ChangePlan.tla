----------------------------- MODULE ChangePlan -----------------------------
(***************************************************************************)
(* How the provider turns the endpoint changes that ExternalDNS sends into *)
(* operations on single records (internal/provider/provider.go).           *)
(*                                                                         *)
(* An RRset stands for a DNS name together with a record type, in the      *)
(* canonical form of changeKey and keyOf (lower case, no trailing dot).  A *)
(* Target stands for one record value.  A TTL of 0 means "not configured". *)
(***************************************************************************)
EXTENDS Naturals, Sequences, SequencesExt

CONSTANTS RRset, SetID, Target, TTL

ASSUME TTLAssumption == TTL \subseteq Nat

\* The part of an ExternalDNS endpoint the provider reads.
Endpoint ==
  [rrset : RRset, setID : SetID, targets : Seq(Target), ttl : TTL]

\* plan.Changes as ApplyChanges receives it.
Changes ==
  [create : Seq(Endpoint), updateOld : Seq(Endpoint),
   updateNew : Seq(Endpoint), delete : Seq(Endpoint)]

Action == {"create", "update", "delete"}

\* One operation on one record.
Op == [action : Action, rrset : RRset, target : Target, ttl : TTL]

changeKey(ep) == <<ep.rrset, ep.setID>>

\* Faulty variant of OpsFor: the TTL is taken for milliseconds.
OpsInMilliseconds(action, ep) ==
  [i \in DOMAIN ep.targets |->
     [action |-> action, rrset |-> ep.rrset,
      target |-> ep.targets[i], ttl |-> 1000 * ep.ttl]]

OpsFor(action, ep) ==
  [i \in DOMAIN ep.targets |->
     [action |-> action, rrset |-> ep.rrset,
      target |-> ep.targets[i], ttl |-> ep.ttl]]

createsFor(ep) == OpsFor("create", ep)
deletesFor(ep) == OpsFor("delete", ep)

targetSet(targets) == {targets[i] : i \in DOMAIN targets}

\* The operations about one of the targets, in their order.
Among(ops, targets) ==
  LET kept[i \in 0 .. Len(ops)] ==
        IF i = 0 THEN <<>>
        ELSE IF ops[i].target \in targets THEN Append(kept[i - 1], ops[i])
        ELSE kept[i - 1]
  IN kept[Len(ops)]

\* Faulty variants of diffTargets: a changed TTL is ignored; kept targets are
\* replaced; dropped targets are left in place.
diffTargetsWithoutTTL(prev, ep) ==
  LET old == targetSet(prev.targets)
      new == targetSet(ep.targets)
  IN [creates |-> Among(createsFor(ep), new \ old),
      updates |-> <<>>,
      deletes |-> Among(deletesFor(prev), old \ new)]
diffTargetsReplacing(prev, ep) ==
  [creates |-> createsFor(ep), updates |-> <<>>, deletes |-> deletesFor(prev)]
diffTargetsKeeping(prev, ep) ==
  LET old == targetSet(prev.targets)
      new == targetSet(ep.targets)
  IN [creates |-> Among(createsFor(ep), new \ old), updates |-> <<>>, deletes |-> <<>>]

\* The operations that change prev's targets into ep's.
diffTargets(prev, ep) ==
  LET old == targetSet(prev.targets)
      new == targetSet(ep.targets)
  IN [creates |-> Among(createsFor(ep), new \ old),
      updates |-> IF prev.ttl = ep.ttl THEN <<>>
                  ELSE Among(OpsFor("update", ep), new \cap old),
      deletes |-> Among(deletesFor(prev), old \ new)]

KeysIn(eps) == {changeKey(eps[i]) : i \in DOMAIN eps}

\* The last endpoint with a key wins.
indexByKey(eps) ==
  [k \in KeysIn(eps) |->
     LET last == CHOOSE i \in DOMAIN eps :
                   /\ changeKey(eps[i]) = k
                   /\ \A j \in DOMAIN eps : j > i => changeKey(eps[j]) # k
     IN eps[last]]

\* The first UpdateNew endpoint with a key consumes the old one.
Matched(updateNew, old, i) ==
  LET k == changeKey(updateNew[i])
  IN /\ k \in DOMAIN old
     /\ \A j \in 1 .. i - 1 : changeKey(updateNew[j]) # k

diffUpdates(updateNew, old) ==
  LET diff == [i \in DOMAIN updateNew |->
                IF Matched(updateNew, old, i)
                THEN diffTargets(old[changeKey(updateNew[i])], updateNew[i])
                ELSE [creates |-> createsFor(updateNew[i]),
                      updates |-> <<>>, deletes |-> <<>>]]
  IN [creates |-> FlattenSeq([i \in DOMAIN diff |-> diff[i].creates]),
      updates |-> FlattenSeq([i \in DOMAIN diff |-> diff[i].updates]),
      deletes |-> FlattenSeq([i \in DOMAIN diff |-> diff[i].deletes])]

\* Faulty variant of unmatchedDeletes: matched endpoints stay in the old index.
allOldDeletes(updateOld, updateNew) ==
  FlattenSeq([i \in DOMAIN updateOld |-> deletesFor(updateOld[i])])

\* Deletes for UpdateOld endpoints that no UpdateNew endpoint matched.
unmatchedDeletes(updateOld, updateNew) ==
  FlattenSeq([i \in DOMAIN updateOld |->
                IF changeKey(updateOld[i]) \in KeysIn(updateNew) THEN <<>>
                ELSE deletesFor(updateOld[i])])

deletesFromAll(eps) == FlattenSeq([i \in DOMAIN eps |-> deletesFor(eps[i])])
createsFromAll(eps) == FlattenSeq([i \in DOMAIN eps |-> createsFor(eps[i])])

\* Faulty variant of planChanges: creates come first.
planCreatesFirst(changes) ==
  LET diff == diffUpdates(changes.updateNew, indexByKey(changes.updateOld))
  IN diff.creates
     \o createsFromAll(changes.create)
     \o diff.deletes
     \o unmatchedDeletes(changes.updateOld, changes.updateNew)
     \o deletesFromAll(changes.delete)
     \o diff.updates

\* Deletes first, then updates, then creates.
planChanges(changes) ==
  LET diff == diffUpdates(changes.updateNew, indexByKey(changes.updateOld))
  IN diff.deletes
     \o unmatchedDeletes(changes.updateOld, changes.updateNew)
     \o deletesFromAll(changes.delete)
     \o diff.updates
     \o diff.creates
     \o createsFromAll(changes.create)
=============================================================================
