---------------------------- MODULE ExternalDNS -----------------------------
(***************************************************************************)
(* The planner of ExternalDNS, a library of the repository, as the         *)
(* provider meets it: the shape of the plan.Changes that reach             *)
(* ApplyChanges.  External code, modelled from its use in                  *)
(* internal/provider: endpoints are matched by name, type and set          *)
(* identifier, compared by their targets with multiplicity, and by TTL     *)
(* only when the desired endpoint configures one.                          *)
(***************************************************************************)
EXTENDS ChangePlan, FiniteSets

\* A finite set of endpoints, one per name, type and set identifier.
AreEndpoints(eps) ==
  /\ IsFiniteSet(eps) /\ eps \subseteq Endpoint
  /\ \A ep, other \in eps : changeKey(ep) = changeKey(other) => ep = other

Occurrences(targets, t) == Cardinality({i \in DOMAIN targets : targets[i] = t})

SameTargets(a, b) ==
  \A t \in targetSet(a) \cup targetSet(b) : Occurrences(a, t) = Occurrences(b, t)

NeedsUpdate(current, desired) ==
  \/ ~SameTargets(current.targets, desired.targets)
  \/ desired.ttl # 0 /\ desired.ttl # current.ttl

\* The changes between two sets that are AreEndpoints.
Calculate(current, desired) ==
  LET Keys(eps) == {changeKey(ep) : ep \in eps}
      Missing(eps, from) == {ep \in eps : changeKey(ep) \notin Keys(from)}
      Stale == {pair \in current \X desired :
                  /\ changeKey(pair[1]) = changeKey(pair[2])
                  /\ NeedsUpdate(pair[1], pair[2])}
  IN [create    |-> SetToSeq(Missing(desired, current)),
      updateOld |-> SetToSeq({pair[1] : pair \in Stale}),
      updateNew |-> SetToSeq({pair[2] : pair \in Stale}),
      delete    |-> SetToSeq(Missing(current, desired))]
=============================================================================
