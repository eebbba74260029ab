-------------------------- MODULE ReconcileProofs ---------------------------
(***************************************************************************)
(* Proofs about Reconcile, for any scenarios: the control loop keeps the   *)
(* provider's promises, and every plan ExternalDNS computes from the       *)
(* answer of Records says exactly what it wants changed.                   *)
(***************************************************************************)
EXTENDS Reconcile, ProviderProofs, ChangePlanProofs

-----------------------------------------------------------------------------
(* What Records answers with.                                              *)

\* A group holds the records of its name and type.
LEMMA GroupCovers ==
  ASSUME NEW recs \in Seq(Listed), NEW rrset
  PROVE  Covers(Group(recs, rrset), {q \in Range(recs) : q.rrset = rrset})
<1> DEFINE n == Len(recs)
           I == {i \in 0..n : recs[i].rrset = rrset}
           Step(f, i) == IF i = 0 THEN <<>>
                         ELSE IF recs[i].rrset = rrset THEN Append(f[i - 1], recs[i])
                         ELSE f[i - 1]
           P(f) == f = [i \in 0..n |-> Step(f, i)]
           g == CHOOSE f : P(f)
<1>0. n \in Nat /\ DOMAIN recs = 1..n
  OBVIOUS
<1>1. PICK f : Selects(recs, I, n, f)
  BY <1>0, SelectsExist
<1>2. \A f0 : \A i \in 0..n : Selected(recs, I, f0, i) = Step(f0, i)
  BY DEF Selected
<1>3. P(f)
  <2> HIDE DEF Step
  <2> QED
    BY <1>1, <1>2, Zenon DEF Selects
<1>4. P(g)
  BY <1>3, Zenon
<1>5. Group(recs, rrset) = g[n]
  BY DEF Group
<1> HIDE DEF g
<1>6. Selects(recs, I, n, g)
  <2> HIDE DEF Step
  <2> QED
    BY <1>2, <1>4, Zenon DEF Selects
<1>7. Covers(g[n], {recs[i] : i \in I \cap DOMAIN recs})
  BY <1>6, CoversSelection
<1>8. {recs[i] : i \in I \cap DOMAIN recs} = {q \in Range(recs) : q.rrset = rrset}
  BY <1>0 DEF Range
<1> QED
  BY <1>5, <1>7, <1>8

\* The endpoint of one name and type, and the names and types there are.
AnswerOn(recs, rrset) == EndpointOf(Group(recs, rrset))
Answered(recs) == Reported \cap {recs[i].rrset : i \in DOMAIN recs}

\* It has a target for each of the records, and the TTL of one.
LEMMA AnswerOnType ==
  ASSUME NEW recs \in Seq(Listed), NEW rrset \in Answered(recs)
  PROVE  /\ AnswerOn(recs, rrset) \in Endpoint
         /\ AnswerOn(recs, rrset).rrset = rrset /\ AnswerOn(recs, rrset).setID = NoSetID
         /\ targetSet(AnswerOn(recs, rrset).targets) =
              {q.target : q \in {p \in Range(recs) : p.rrset = rrset}}
<1> DEFINE G == {q \in Range(recs) : q.rrset = rrset}
           s == Group(recs, rrset)
           n == Len(s)
           ep == AnswerOn(recs, rrset)
<1>1. G \subseteq Listed /\ (\A q \in G : q.rrset = rrset) /\ G # {}
  BY DEF Range, Answered
<1>2. Covers(s, G)
  BY GroupCovers
<1>3. ep = [rrset |-> s[1].rrset, setID |-> NoSetID, ttl |-> s[1].ttl,
            targets |-> [i \in DOMAIN s |-> s[i].target]]
  BY DEF AnswerOn, EndpointOf
<1> HIDE DEF G, s, ep
<1>4. n \in Nat /\ DOMAIN s = 1..n /\ \A i \in 1..n : s[i] \in G
  BY <1>2 DEF Covers
<1>5. 1 \in 1..n
  <2>1. PICK r \in G : TRUE
    BY <1>1
  <2>2. PICK i \in 1..n : s[i] = r
    BY <1>2, <2>1 DEF Covers
  <2> QED
    BY <1>4, <2>2
<1>6. /\ s[1].rrset = rrset /\ s[1].rrset \in RRset /\ s[1].ttl \in TTL
      /\ \A i \in 1..n : s[i].target \in Target
  BY <1>1, <1>4, <1>5 DEF Listed
<1>7. ep.targets = [i \in 1..n |-> s[i].target] /\ ep.targets \in Seq(Target)
  BY <1>3, <1>4, <1>6
<1>8. ep \in Endpoint
  <2>1. NoSetID \in SetID
    BY LoopAssumption
  <2> QED
    BY <1>3, <1>6, <1>7, <2>1 DEF Endpoint
<1>9. targetSet(ep.targets) = {s[i].target : i \in 1..n}
  BY <1>7 DEF targetSet
<1>10. {s[i].target : i \in 1..n} = {q.target : q \in G}
  <2>1. \A q \in G : \E i \in 1..n : s[i] = q
    BY <1>2 DEF Covers
  <2> QED
    BY <1>4, <2>1
<1>11. ep.rrset = rrset /\ ep.setID = NoSetID
  BY <1>3, <1>6
<1> QED
  BY <1>8, <1>9, <1>10, <1>11 DEF ep, G

\* Records answers with one endpoint per name and type, without set identifiers.
LEMMA AnswerType ==
  ASSUME NEW recs \in Seq(Listed)
  PROVE  AreEndpoints(EndpointsOf(recs)) /\ \A ep \in EndpointsOf(recs) : ep.setID = NoSetID
<1>1. EndpointsOf(recs) = {AnswerOn(recs, rrset) : rrset \in Answered(recs)}
  BY DEF EndpointsOf, AnswerOn, Answered
<1>2. EndpointsOf(recs) \subseteq Endpoint /\ \A ep \in EndpointsOf(recs) : ep.setID = NoSetID
  BY <1>1, AnswerOnType
<1>3. ASSUME NEW r \in Answered(recs), NEW q \in Answered(recs),
             changeKey(AnswerOn(recs, r)) = changeKey(AnswerOn(recs, q))
      PROVE  AnswerOn(recs, r) = AnswerOn(recs, q)
  BY <1>3, AnswerOnType DEF changeKey
<1>4. IsFiniteSet(EndpointsOf(recs))
  <2> DEFINE D == {i \in DOMAIN recs : recs[i].rrset \in Reported}
             f == [i \in D |-> AnswerOn(recs, recs[i].rrset)]
  <2>1. f \in Surjection(D, EndpointsOf(recs))
    <3>1. \A i \in D : recs[i].rrset \in Answered(recs)
      BY DEF Answered
    <3>2. \A rrset \in Answered(recs) : \E i \in D : recs[i].rrset = rrset
      BY DEF Answered
    <3> QED
      BY <1>1, <3>1, <3>2 DEF Surjection
  <2>2. IsFiniteSet(D)
    <3>1. IsFiniteSet(1..Len(recs)) /\ D \in SUBSET (1..Len(recs))
      BY FS_Interval
    <3> QED
      BY <3>1, FS_Subset
  <2> HIDE DEF f, D
  <2> QED
    BY <2>1, <2>2, FS_Surjection
<1> QED
  BY <1>1, <1>2, <1>3, <1>4 DEF AreEndpoints

\* Records answers with the records it heard of that pass its filters, and no
\* others (recordBuilder): no target is lost or made up by putting records of
\* one name together, whatever the order of the listing and however often it
\* shows a record.
THEOREM AnswerSaysWhatIsThere ==
  ASSUME NEW recs \in Seq(Listed)
  PROVE  KeysOf(EndpointsOf(recs)) = ListedKeys(recs, Reported)
<1>1. EndpointsOf(recs) = {AnswerOn(recs, rrset) : rrset \in Answered(recs)}
  BY DEF EndpointsOf, AnswerOn, Answered
<1>2. ListedKeys(recs, Reported) = {KeyOf(r) : r \in {q \in Range(recs) : q.rrset \in Reported}}
  BY DEF ListedKeys, Range
<1>3. ASSUME NEW k \in KeysOf(EndpointsOf(recs))
      PROVE  \E r \in Range(recs) : r.rrset \in Reported /\ KeyOf(r) = k
  <2>1. PICK ep \in EndpointsOf(recs) : k \in {<<ep.rrset, t>> : t \in targetSet(ep.targets)}
    BY DEF KeysOf
  <2>2. PICK t \in targetSet(ep.targets) : k = <<ep.rrset, t>>
    BY <2>1
  <2>3. PICK rrset \in Answered(recs) : ep = AnswerOn(recs, rrset)
    BY <1>1
  <2>4. ep.rrset = rrset /\ \E q \in Range(recs) : q.rrset = rrset /\ q.target = t
    BY <2>2, <2>3, AnswerOnType
  <2>5. PICK q \in Range(recs) : q.rrset = rrset /\ q.target = t
    BY <2>4
  <2>6. KeyOf(q) = k
    BY <2>2, <2>4, <2>5 DEF KeyOf
  <2>7. rrset \in Reported
    BY <2>3 DEF Answered
  <2> QED
    BY <2>5, <2>6, <2>7
<1>4. ASSUME NEW r \in Range(recs), r.rrset \in Reported
      PROVE  KeyOf(r) \in KeysOf(EndpointsOf(recs))
  <2> DEFINE ep == AnswerOn(recs, r.rrset)
  <2>1. r.rrset \in Answered(recs)
    BY <1>4 DEF Answered, Range
  <2>2. ep \in EndpointsOf(recs)
    BY <1>1, <2>1
  <2>3. ep.rrset = r.rrset /\ r.target \in targetSet(ep.targets)
    BY <2>1, AnswerOnType
  <2> HIDE DEF ep
  <2> QED
    BY <2>2, <2>3 DEF KeysOf, KeyOf
<1> QED
  BY <1>2, <1>3, <1>4

-----------------------------------------------------------------------------
(* What a plan says.                                                       *)

\* AdjustEndpoints leaves one endpoint per key.
LEMMA AdjustType ==
  ASSUME NEW eps, AreEndpoints(eps)
  PROVE  AreEndpoints(AdjustEndpoints(eps))
<1> DEFINE E == {e \in eps : e.rrset \in Supported}
           Set(ep) == [ep EXCEPT !.ttl = IF ep.ttl = 0 THEN DefaultTTL ELSE ep.ttl]
           f == [ep \in E |-> Set(ep)]
<1>1. AdjustEndpoints(eps) = {Set(ep) : ep \in E}
  BY DEF AdjustEndpoints
<1>2. ASSUME NEW ep \in E PROVE Set(ep) \in Endpoint /\ changeKey(Set(ep)) = changeKey(ep)
  <2>1. ep \in Endpoint /\ DefaultTTL \in TTL
    BY LoopAssumption DEF AreEndpoints
  <2> QED
    BY <2>1 DEF Endpoint, changeKey
<1>3. E \in SUBSET eps /\ IsFiniteSet(E)
  <2>1. E \in SUBSET eps /\ IsFiniteSet(eps)
    BY DEF AreEndpoints
  <2> QED
    BY <2>1, FS_Subset
<1> HIDE DEF E, Set
<1>4. f \in Surjection(E, AdjustEndpoints(eps))
  BY <1>1 DEF Surjection
<1>5. IsFiniteSet(AdjustEndpoints(eps))
  <2> HIDE DEF f
  <2> QED
    BY <1>3, <1>4, FS_Surjection
<1>6. \A ep, other \in E : changeKey(ep) = changeKey(other) => ep = other
  BY <1>3 DEF AreEndpoints
<1> QED
  BY <1>1, <1>2, <1>5, <1>6 DEF AreEndpoints

\* The keys of the operations of a kind, for a sequence that covers a set.
LEMMA KeysForCovers ==
  ASSUME NEW ops, NEW R, Covers(ops, R), NEW action, NEW k
  PROVE  k \in KeysFor(ops, action) <=> \E op \in R : op.action = action /\ KeyOf(op) = k
<1>1. ops \in Seq(R) /\ DOMAIN ops = 1..Len(ops) /\ \A i \in DOMAIN ops : ops[i] \in R
  BY DEF Covers
<1>2. \A op \in R : \E i \in DOMAIN ops : ops[i] = op
  BY <1>1 DEF Covers
<1> QED
  BY <1>1, <1>2 DEF KeysFor

\* A key of a set of endpoints.
LEMMA KeysOfEndpoints ==
  ASSUME NEW eps, NEW k
  PROVE  k \in KeysOf(eps) <=> \E ep \in eps : \E t \in targetSet(ep.targets) : k = <<ep.rrset, t>>
BY DEF KeysOf

\* What the plan deletes.
LEMMA DeletedKeys ==
  ASSUME NEW b, NEW a, AreEndpoints(b), AreEndpoints(a), NEW k
  PROVE  k \in KeysFor(planChanges(Calculate(b, a)), "delete") <=>
           \/ \E pair \in Stale(b, a) : \E t \in Dropped(pair) : k = <<pair[1].rrset, t>>
           \/ k \in KeysOf(Missing(b, a))
<1>1. k \in KeysFor(planChanges(Calculate(b, a)), "delete") <=>
        \E op \in Planned(b, a) : op.action = "delete" /\ KeyOf(op) = k
  BY PlanHoldsDifference, KeysForCovers
<1>2. \A e, t : /\ \A act : OpOn(act, e, t).action = act
                /\ KeyOf(OpOn("delete", e, t)) = <<e.rrset, t>>
  BY DEF OpOn, KeyOf
<1>3. ASSUME NEW op \in Planned(b, a), op.action = "delete", KeyOf(op) = k
      PROVE  \/ \E pair \in Stale(b, a) : \E t \in Dropped(pair) : k = <<pair[1].rrset, t>>
             \/ k \in KeysOf(Missing(b, a))
  <2>1. CASE op \in DropOps(b, a)
    BY <1>2, <1>3, <2>1, PlannedOps
  <2>2. CASE op \in AllOps("delete", Missing(b, a))
    BY <1>2, <1>3, <2>2, EveryOp, KeysOfEndpoints
  <2>3. CASE op \in KeepOps(b, a) \/ op \in AddOps(b, a)
    <3>1. op.action \in {"update", "create"}
      BY <1>2, <2>3, PlannedOps
    <3> QED
      BY <1>3, <3>1
  <2>4. CASE op \in AllOps("create", Missing(a, b))
    <3>1. op.action = "create"
      BY <1>2, <2>4, EveryOp
    <3> QED
      BY <1>3, <3>1
  <2> QED
    BY <2>1, <2>2, <2>3, <2>4 DEF Planned
<1>4. ASSUME NEW pair \in Stale(b, a), NEW t \in Dropped(pair), k = <<pair[1].rrset, t>>
      PROVE  \E op \in Planned(b, a) : op.action = "delete" /\ KeyOf(op) = k
  <2>1. OpOn("delete", pair[1], t) \in DropOps(b, a)
    BY PlannedOps
  <2> QED
    BY <1>2, <1>4, <2>1 DEF Planned
<1>5. ASSUME k \in KeysOf(Missing(b, a))
      PROVE  \E op \in Planned(b, a) : op.action = "delete" /\ KeyOf(op) = k
  <2>1. PICK e \in Missing(b, a) : \E t \in targetSet(e.targets) : k = <<e.rrset, t>>
    BY <1>5, KeysOfEndpoints
  <2>2. PICK t \in targetSet(e.targets) : k = <<e.rrset, t>>
    BY <2>1
  <2>3. OpOn("delete", e, t) \in AllOps("delete", Missing(b, a))
    BY EveryOp
  <2> QED
    BY <1>2, <2>2, <2>3 DEF Planned
<1> QED
  BY <1>1, <1>3, <1>4, <1>5

\* What the plan creates.
LEMMA CreatedKeys ==
  ASSUME NEW b, NEW a, AreEndpoints(b), AreEndpoints(a), NEW k
  PROVE  k \in KeysFor(planChanges(Calculate(b, a)), "create") <=>
           \/ \E pair \in Stale(b, a) : \E t \in Added(pair) : k = <<pair[2].rrset, t>>
           \/ k \in KeysOf(Missing(a, b))
<1>1. k \in KeysFor(planChanges(Calculate(b, a)), "create") <=>
        \E op \in Planned(b, a) : op.action = "create" /\ KeyOf(op) = k
  BY PlanHoldsDifference, KeysForCovers
<1>2. \A e, t : /\ \A act : OpOn(act, e, t).action = act
                /\ KeyOf(OpOn("create", e, t)) = <<e.rrset, t>>
  BY DEF OpOn, KeyOf
<1>3. ASSUME NEW op \in Planned(b, a), op.action = "create", KeyOf(op) = k
      PROVE  \/ \E pair \in Stale(b, a) : \E t \in Added(pair) : k = <<pair[2].rrset, t>>
             \/ k \in KeysOf(Missing(a, b))
  <2>1. CASE op \in AddOps(b, a)
    BY <1>2, <1>3, <2>1, PlannedOps
  <2>2. CASE op \in AllOps("create", Missing(a, b))
    BY <1>2, <1>3, <2>2, EveryOp, KeysOfEndpoints
  <2>3. CASE op \in KeepOps(b, a) \/ op \in DropOps(b, a)
    <3>1. op.action \in {"update", "delete"}
      BY <1>2, <2>3, PlannedOps
    <3> QED
      BY <1>3, <3>1
  <2>4. CASE op \in AllOps("delete", Missing(b, a))
    <3>1. op.action = "delete"
      BY <1>2, <2>4, EveryOp
    <3> QED
      BY <1>3, <3>1
  <2> QED
    BY <2>1, <2>2, <2>3, <2>4 DEF Planned
<1>4. ASSUME NEW pair \in Stale(b, a), NEW t \in Added(pair), k = <<pair[2].rrset, t>>
      PROVE  \E op \in Planned(b, a) : op.action = "create" /\ KeyOf(op) = k
  <2>1. OpOn("create", pair[2], t) \in AddOps(b, a)
    BY PlannedOps
  <2> QED
    BY <1>2, <1>4, <2>1 DEF Planned
<1>5. ASSUME k \in KeysOf(Missing(a, b))
      PROVE  \E op \in Planned(b, a) : op.action = "create" /\ KeyOf(op) = k
  <2>1. PICK e \in Missing(a, b) : \E t \in targetSet(e.targets) : k = <<e.rrset, t>>
    BY <1>5, KeysOfEndpoints
  <2>2. PICK t \in targetSet(e.targets) : k = <<e.rrset, t>>
    BY <2>1
  <2>3. OpOn("create", e, t) \in AllOps("create", Missing(a, b))
    BY EveryOp
  <2> QED
    BY <1>2, <2>2, <2>3 DEF Planned
<1> QED
  BY <1>1, <1>3, <1>4, <1>5

\* A plan between what Records answers and what is wanted says the whole
\* difference: taking away what it deletes and adding what it creates leaves
\* what is wanted, also when a wanted endpoint repeats a target, or two set
\* identifiers of one name share one (planChanges, unmatchedDeletes).
THEOREM PlanSaysDifference ==
  ASSUME NEW b, NEW a, AreEndpoints(b), AreEndpoints(a), \A ep \in b : ep.setID = NoSetID
  PROVE  LET ops == planChanges(Calculate(b, a))
         IN (KeysOf(b) \ KeysFor(ops, "delete")) \cup KeysFor(ops, "create") = KeysOf(a)
<1> DEFINE ops == planChanges(Calculate(b, a))
<1>1. \A e, f \in b : e.rrset = f.rrset => e = f
  BY DEF AreEndpoints, changeKey
<1>2. \A e, f \in a : changeKey(e) = changeKey(f) => e = f
  BY DEF AreEndpoints
<1>3. \A pair \in Stale(b, a) : /\ pair[1] \in b /\ pair[2] \in a /\ pair[1].rrset = pair[2].rrset
                                /\ changeKey(pair[1]) = changeKey(pair[2])
  BY DEF Stale, changeKey
<1>4. ASSUME NEW e \in b, NEW f \in a, changeKey(e) = changeKey(f),
             NEW t, t \in targetSet(e.targets) <=> t \notin targetSet(f.targets)
      PROVE  <<e, f>> \in Stale(b, a)
  <2>1. e \in Endpoint /\ f \in Endpoint
    BY DEF AreEndpoints
  <2>2. NeedsUpdate(e, f)
    BY <1>4, <2>1, OtherTargetsNeedUpdate
  <2> QED
    BY <1>4, <2>2 DEF Stale
<1>5. ASSUME NEW k \in KeysFor(ops, "create") PROVE k \in KeysOf(a)
  <2>1. CASE \E pair \in Stale(b, a) : \E t \in Added(pair) : k = <<pair[2].rrset, t>>
    BY <1>3, <2>1, KeysOfEndpoints DEF Added
  <2>2. CASE k \in KeysOf(Missing(a, b))
    BY <2>2, KeysOfEndpoints DEF Missing
  <2> QED
    BY <2>1, <2>2, CreatedKeys
<1>6. ASSUME NEW k \in KeysOf(b), k \notin KeysFor(ops, "delete") PROVE k \in KeysOf(a)
  <2>1. PICK e \in b : \E t \in targetSet(e.targets) : k = <<e.rrset, t>>
    BY KeysOfEndpoints
  <2>2. PICK t \in targetSet(e.targets) : k = <<e.rrset, t>>
    BY <2>1
  <2>3. e \notin Missing(b, a)
    <3>1. e \in Missing(b, a) => k \in KeysOf(Missing(b, a))
      BY <2>2, KeysOfEndpoints
    <3> QED
      BY <1>6, <3>1, DeletedKeys
  <2>4. PICK f \in a : changeKey(f) = changeKey(e)
    BY <2>3 DEF Missing
  <2>5. t \in targetSet(f.targets)
    <3>1. SUFFICES ASSUME t \notin targetSet(f.targets) PROVE FALSE
      OBVIOUS
    <3>2. <<e, f>> \in Stale(b, a)
      BY <1>4, <2>2, <2>4, <3>1
    <3>3. t \in Dropped(<<e, f>>) /\ k = <<<<e, f>>[1].rrset, t>>
      BY <2>2, <3>1 DEF Dropped
    <3> QED
      BY <1>6, <3>2, <3>3, DeletedKeys
  <2>6. f.rrset = e.rrset
    BY <2>4 DEF changeKey
  <2> QED
    BY <2>2, <2>5, <2>6, KeysOfEndpoints
<1>7. ASSUME NEW k \in KeysOf(a), k \notin KeysFor(ops, "create")
      PROVE  k \in KeysOf(b) /\ k \notin KeysFor(ops, "delete")
  <2>1. PICK f \in a : \E t \in targetSet(f.targets) : k = <<f.rrset, t>>
    BY KeysOfEndpoints
  <2>2. PICK t \in targetSet(f.targets) : k = <<f.rrset, t>>
    BY <2>1
  <2>3. f \notin Missing(a, b)
    <3>1. f \in Missing(a, b) => k \in KeysOf(Missing(a, b))
      BY <2>2, KeysOfEndpoints
    <3> QED
      BY <1>7, <3>1, CreatedKeys
  <2>4. PICK e \in b : changeKey(e) = changeKey(f)
    BY <2>3 DEF Missing
  <2>5. e.rrset = f.rrset
    BY <2>4 DEF changeKey
  <2>6. t \in targetSet(e.targets)
    <3>1. SUFFICES ASSUME t \notin targetSet(e.targets) PROVE FALSE
      OBVIOUS
    <3>2. <<e, f>> \in Stale(b, a)
      BY <1>4, <2>2, <2>4, <3>1
    <3>3. t \in Added(<<e, f>>) /\ k = <<<<e, f>>[2].rrset, t>>
      BY <2>2, <3>1 DEF Added
    <3> QED
      BY <1>7, <3>2, <3>3, CreatedKeys
  <2>7. k \in KeysOf(b)
    BY <2>2, <2>5, <2>6, KeysOfEndpoints
  <2>8. k \notin KeysOf(Missing(b, a))
    <3>1. SUFFICES ASSUME k \in KeysOf(Missing(b, a)) PROVE FALSE
      OBVIOUS
    <3>2. PICK g \in Missing(b, a) : g.rrset = f.rrset
      BY <2>2, <3>1, KeysOfEndpoints
    <3>3. g = e
      BY <1>1, <2>5, <3>2 DEF Missing
    <3> QED
      BY <2>4, <3>2, <3>3 DEF Missing
  <2>9. ASSUME NEW pair \in Stale(b, a), NEW u \in Dropped(pair), k = <<pair[1].rrset, u>>
        PROVE  FALSE
    <3>1. pair[1].rrset = f.rrset /\ u = t
      BY <2>2, <2>9
    <3>2. pair[1] = e
      BY <1>1, <1>3, <2>5, <3>1
    <3>3. pair[2] = f
      BY <1>2, <1>3, <2>4, <3>2
    <3> QED
      BY <2>2, <3>1, <3>3 DEF Dropped
  <2> QED
    BY <2>7, <2>8, <2>9, DeletedKeys
<1> HIDE DEF ops
<1> QED
  BY <1>5, <1>6, <1>7 DEF ops

\* Calculate and planChanges stay among changes and plans.
LEMMA PlanType ==
  ASSUME NEW b, NEW a, AreEndpoints(b), AreEndpoints(a)
  PROVE  planChanges(Calculate(b, a)) \in Seq(Op)
<1> DEFINE olds == SetToSeq(OldEnds(b, a))
           news == SetToSeq(NewEnds(b, a))
           gone == SetToSeq(Missing(b, a))
           fresh == SetToSeq(Missing(a, b))
<1>1. /\ Enumerates(olds, OldEnds(b, a)) /\ Enumerates(news, NewEnds(b, a))
      /\ Enumerates(gone, Missing(b, a)) /\ Enumerates(fresh, Missing(a, b))
  BY FiniteEnds, SetToSeqEnum
<1>2. /\ OldEnds(b, a) \subseteq Endpoint /\ NewEnds(b, a) \subseteq Endpoint
      /\ Missing(b, a) \subseteq Endpoint /\ Missing(a, b) \subseteq Endpoint
  BY FiniteEnds DEF AreEndpoints
<1>3. Calculate(b, a) = [create |-> fresh, updateOld |-> olds, updateNew |-> news, delete |-> gone]
  BY DEF Calculate, OldEnds, NewEnds, Stale, Missing
<1> HIDE DEF olds, news, gone, fresh
<1>4. /\ olds \in Seq(Endpoint) /\ news \in Seq(Endpoint)
      /\ gone \in Seq(Endpoint) /\ fresh \in Seq(Endpoint)
  BY <1>1, <1>2, SeqMonotone DEF Enumerates
<1>5. Calculate(b, a) \in Changes
  BY <1>3, <1>4 DEF Changes
<1>6. PICK d \in Seq(ActionOps("delete")), u \in Seq(ActionOps("update")),
           c \in Seq(ActionOps("create")) : planChanges(Calculate(b, a)) = d \o u \o c
  BY <1>5, PlanOrder
<1>7. /\ ActionOps("delete") \subseteq Op /\ ActionOps("update") \subseteq Op
      /\ ActionOps("create") \subseteq Op
  BY DEF ActionOps
<1>8. d \in Seq(Op) /\ u \in Seq(Op) /\ c \in Seq(Op)
  BY <1>7, SeqMonotone
<1> QED
  BY <1>6, <1>8

-----------------------------------------------------------------------------
(* The invariant of the loop.                                              *)

\* The provider keeps its invariants, and somebody works on the request that
\* ExternalDNS waits for.
LoopIInv ==
  /\ LoopTypeOK /\ IInv
  /\ phase \in {"records", "apply"} => worker \in Handler

\* What is wanted is what Calculate works on, and so is what there is.
LEMMA DiffType ==
  ASSUME LoopTypeOK
  PROVE  /\ AreEndpoints(current) /\ AreEndpoints(AdjustEndpoints(desired))
         /\ planChanges(Diff) \in Seq(Op)
<1>1. AreEndpoints(current) /\ AreEndpoints(desired)
  BY LoopAssumption DEF LoopTypeOK
<1>2. AreEndpoints(AdjustEndpoints(desired))
  BY <1>1, AdjustType
<1> QED
  BY <1>1, <1>2, PlanType DEF Diff

\* A step of the loop is one of the provider, except that the plan that
\* arrives is the one ExternalDNS has computed.
LEMMA LoopNextIsNext ==
  ASSUME LoopIInv, LoopNext
  PROVE  \/ Next \/ UNCHANGED vars
         \/ \E h \in Handler : StartApply(h, planChanges(Diff))
<1>1. ASSUME NEW h \in Handler, Request(h) \/ HandlerStep(h) \/ FaultStep(h) \/ MisreadStep(h)
      PROVE  Next
  BY <1>1 DEF Next, ProviderNext
<1>2. CASE NothingToDo \/ ChangeWish
  BY <1>2 DEF NothingToDo, ChangeWish
<1>3. ASSUME NEW h \in Handler, BeginSync(h) \/ GotRecords(h) \/ GotApplied(h) \/ Abandoned(h)
      PROVE  Next
  <2>1. StartRecords(h) \/ Respond(h)
    BY <1>3 DEF BeginSync, GotRecords, GotApplied, Abandoned
  <2> QED
    BY <1>1, <2>1 DEF Request
<1>4. ASSUME NEW h \in Handler, BeginApply(h) PROVE StartApply(h, planChanges(Diff))
  BY <1>4 DEF BeginApply
<1>5. ASSUME NEW h \in Handler, Works(h) \/ CallFails(h) \/ ListingShifts(h) PROVE Next
  BY <1>1, <1>5 DEF Works, CallFails, ListingShifts
<1>6. CASE TimesOut
  <2>1. worker \in Handler /\ (Cancel(worker) \/ UNCHANGED vars)
    BY <1>6 DEF TimesOut, LoopIInv
  <2> QED
    BY <1>1, <2>1 DEF Request
<1>7. CASE ProviderRestarts \/ ZonesExpire
  BY <1>7 DEF ProviderRestarts, ZonesExpire, Next, ProviderNext
<1>8. CASE \E id \in ID : RecordVanishes(id)
  BY <1>8 DEF RecordVanishes, Next, Operator
<1> QED
  BY <1>2, <1>3, <1>4, <1>5, <1>6, <1>7, <1>8 DEF LoopNext, LoopStep

\* The provider keeps its invariant in the loop.
LEMMA LoopKeepsProvider ==
  ASSUME LoopIInv, [LoopNext]_allVars
  PROVE  IInv'
<1>1. IInv
  BY DEF LoopIInv
<1>2. CASE \E h \in Handler : StartApply(h, planChanges(Diff))
  <2>1. PICK h \in Handler : StartApply(h, planChanges(Diff))
    BY <1>2
  <2>2. planChanges(Diff) \in Seq(Op)
    BY DiffType DEF LoopIInv
  <2> QED
    BY <1>1, <2>1, <2>2, StartApplyKeepsIInv
<1>3. CASE Next \/ UNCHANGED vars
  BY <1>1, <1>3, NextIInv
<1>4. CASE UNCHANGED allVars
  <2>1. UNCHANGED vars
    BY <1>4 DEF allVars
  <2> QED
    BY <1>3, <2>1
<1> QED
  BY <1>2, <1>3, <1>4, LoopNextIsNext

\* The part of LoopTypeOK that is about ExternalDNS.
LoopTyped ==
  /\ scenario \in Scenarios
  /\ desired \in scenario.wishes
  /\ phase \in Phase
  /\ worker \in Handler \cup {None}
  /\ AreEndpoints(current) /\ \A ep \in current : ep.setID = NoSetID
  /\ wishes \in 0 .. MaxWishes
  /\ faults \in 0 .. scenario.faults
  /\ undisturbed \in BOOLEAN
  /\ phase \in {"records", "apply"} => worker \in Handler

\* The answer to a request for the records is a set of endpoints.
LEMMA HeardType ==
  ASSUME IInv, NEW h \in Handler
  PROVE  /\ AreEndpoints(EndpointsOf(job[h].seen))
         /\ \A ep \in EndpointsOf(job[h].seen) : ep.setID = NoSetID
<1>1. job[h].seen \in Seq(Listed)
  BY DEF IInv, TypeOK, Job
<1> QED
  BY <1>1, AnswerType

\* Nothing is a set of endpoints too.
LEMMA NoEndpoints == AreEndpoints({}) /\ \A ep \in {} : ep.setID = NoSetID
  BY FS_EmptySet DEF AreEndpoints

\* Every step of the loop keeps ExternalDNS's part.
LEMMA LoopKeepsTyped ==
  ASSUME LoopIInv, LoopTyped, [LoopNext]_allVars
  PROVE  LoopTyped'
<1>0. IInv
  BY DEF LoopIInv
<1>1. scenario.faults \in Nat /\ MaxWishes \in Nat
  BY LoopAssumption DEF LoopTyped
<1>2. CASE UNCHANGED allVars \/ UNCHANGED loopVars
  <2>1. UNCHANGED loopVars
    BY <1>2 DEF allVars
  <2> QED
    BY <2>1 DEF loopVars, LoopTyped
<1>3. CASE NothingToDo
  BY <1>3, NoEndpoints DEF NothingToDo, LoopTyped, Phase
<1>4. ASSUME NEW h \in Handler, BeginSync(h) PROVE LoopTyped'
  <2>1. undisturbed' \in BOOLEAN
    BY <1>4 DEF BeginSync, Orderly
  <2> QED
    BY <1>4, <2>1 DEF BeginSync, LoopTyped, Phase
<1>5. ASSUME NEW h \in Handler, GotRecords(h) PROVE LoopTyped'
  <2>1. current' = EndpointsOf(job[h].seen) \/ current' = current
    BY <1>5 DEF GotRecords
  <2>2. AreEndpoints(current') /\ \A ep \in current' : ep.setID = NoSetID
    BY <1>0, <2>1, HeardType DEF LoopTyped
  <2>3. phase' \in {"plan", "rest"} /\ worker' = None
    BY <1>5 DEF GotRecords
  <2>4. UNCHANGED <<scenario, desired, wishes, faults, undisturbed>>
    BY <1>5 DEF GotRecords
  <2> QED
    BY <2>2, <2>3, <2>4 DEF LoopTyped, Phase
<1>6. ASSUME NEW h \in Handler, BeginApply(h) PROVE LoopTyped'
  BY <1>6, NoEndpoints DEF BeginApply, LoopTyped, Phase
<1>7. ASSUME NEW h \in Handler, GotApplied(h) PROVE LoopTyped'
  BY <1>7 DEF GotApplied, LoopTyped, Phase
<1>8. ASSUME NEW h \in Handler, Works(h) \/ Abandoned(h) PROVE LoopTyped'
  BY <1>2, <1>8 DEF Works, Abandoned
<1>9. Faulty => faults' \in 0 .. scenario.faults
  BY <1>1 DEF Faulty, LoopTyped
<1>10. ASSUME NEW h \in Handler, CallFails(h) \/ ListingShifts(h) PROVE LoopTyped'
  <2>1. faults' \in 0 .. scenario.faults /\ undisturbed' \in BOOLEAN
    BY <1>9, <1>10 DEF CallFails, ListingShifts, LoopTyped
  <2>2. UNCHANGED <<scenario, desired, phase, worker, current, wishes>>
    BY <1>10 DEF CallFails, ListingShifts
  <2> QED
    BY <2>1, <2>2 DEF LoopTyped
<1>11. CASE ChangeWish
  <2>1. /\ wishes' \in 0 .. MaxWishes /\ desired' \in scenario.wishes
        /\ UNCHANGED <<scenario, phase, worker, current, faults, undisturbed>>
    BY <1>1, <1>11 DEF ChangeWish, LoopTyped
  <2> QED
    BY <2>1 DEF LoopTyped
<1>12. CASE TimesOut \/ ProviderRestarts
  <2>1. /\ faults' \in 0 .. scenario.faults /\ undisturbed' \in BOOLEAN
        /\ phase' \in {"plan", "rest"} /\ worker' = None
        /\ UNCHANGED <<scenario, desired, current, wishes>>
    BY <1>9, <1>12 DEF TimesOut, ProviderRestarts, LoopTyped
  <2> QED
    BY <2>1 DEF LoopTyped, Phase
<1>13. CASE ZonesExpire
  BY <1>2, <1>13 DEF ZonesExpire
<1>14. CASE \E id \in ID : RecordVanishes(id)
  <2>1. /\ faults' \in 0 .. scenario.faults /\ undisturbed' \in BOOLEAN
        /\ UNCHANGED <<scenario, desired, phase, worker, current, wishes>>
    BY <1>9, <1>14 DEF RecordVanishes
  <2> QED
    BY <2>1 DEF LoopTyped
<1> QED
  BY <1>2, <1>3, <1>4, <1>5, <1>6, <1>7, <1>8, <1>10, <1>11, <1>12, <1>13, <1>14
     DEF LoopNext, LoopStep

\* The invariant of the loop is inductive.
LEMMA LoopInitIInv == LoopInit => LoopIInv
<1> SUFFICES ASSUME LoopInit PROVE LoopIInv
  OBVIOUS
<1>1. Init /\ IInv
  BY InitIInv DEF LoopInit
<1>2. LoopTypeOK
  <2>1. scenario \in Scenarios /\ scenario.faults \in Nat /\ MaxWishes \in Nat
    BY LoopAssumption DEF LoopInit
  <2>2. AreEndpoints(current) /\ \A ep \in current : ep.setID = NoSetID
    BY NoEndpoints DEF LoopInit
  <2>3. undisturbed \in BOOLEAN
    BY DEF LoopInit
  <2>4. wishes \in 0 .. MaxWishes /\ faults \in 0 .. scenario.faults
    BY <2>1 DEF LoopInit
  <2>5. /\ TypeOK /\ scenario \in Scenarios /\ desired \in scenario.wishes
        /\ phase \in Phase /\ worker \in Handler \cup {None}
    BY <1>1 DEF LoopInit, IInv, Phase
  <2> QED
    BY <2>2, <2>3, <2>4, <2>5 DEF LoopTypeOK
<1> QED
  BY <1>1, <1>2 DEF LoopIInv, LoopInit

LEMMA LoopNextIInv == LoopIInv /\ [LoopNext]_allVars => LoopIInv'
<1> SUFFICES ASSUME LoopIInv, [LoopNext]_allVars PROVE LoopIInv'
  OBVIOUS
<1>1. IInv'
  BY LoopKeepsProvider
<1>2. LoopTyped
  BY DEF LoopIInv, LoopTypeOK, LoopTyped
<1>3. LoopTyped'
  BY <1>2, LoopKeepsTyped
<1>4. TypeOK'
  BY <1>1 DEF IInv
<1> QED
  BY <1>1, <1>3, <1>4 DEF LoopIInv, LoopTypeOK, LoopTyped

-----------------------------------------------------------------------------
(* The theorems.                                                           *)

\* However wishes change, calls fail, requests time out and overlap and the
\* provider restarts, the loop keeps its invariant.
THEOREM LoopInvariance == LoopSpec => []LoopIInv
<1>1. LoopInit => LoopIInv
  BY LoopInitIInv
<1>2. LoopIInv /\ [LoopNext]_allVars => LoopIInv'
  BY LoopNextIInv
<1> QED
  BY <1>1, <1>2, PTL DEF LoopSpec

\* What ExternalDNS works on is one endpoint per name, type and set identifier
\* all the time: its planner needs that of Records (recordBuilder).
THEOREM LoopTypeCorrect == LoopSpec => []LoopTypeOK
<1>1. LoopIInv => LoopTypeOK
  BY DEF LoopIInv
<1> QED
  BY <1>1, LoopInvariance, PTL

\* Every plan that reaches ApplyChanges says exactly what is to change from what
\* Records answered to what the cluster asks for (planChanges, recordBuilder).
THEOREM PlansMeetWishes == LoopSpec => []PlanMeetsWish
<1>1. LoopIInv => PlanMeetsWish
  <2> SUFFICES ASSUME LoopIInv PROVE PlanMeetsWish
    OBVIOUS
  <2>1. LoopTypeOK /\ \A ep \in current : ep.setID = NoSetID
    BY DEF LoopIInv, LoopTypeOK
  <2>2. AreEndpoints(current) /\ AreEndpoints(AdjustEndpoints(desired))
    BY <2>1, DiffType
  <2> QED
    BY <2>1, <2>2, PlanSaysDifference DEF PlanMeetsWish, Wanted, Diff
<1> QED
  BY <1>1, LoopInvariance, PTL

\* The plans that ExternalDNS computes cannot make a stale index entry lead to
\* a record of another name, type or target (Provider.index).
THEOREM IndexSoundInLoop == LoopSpec => []IndexSound
<1>1. LoopIInv => IndexSound
  BY DEF LoopIInv, IInv, IndexNames, Names, IndexSound
<1> QED
  BY <1>1, LoopInvariance, PTL

\* In the loop, too, a handler updates or deletes only records with the name,
\* type and target of the operation it executes (applyUpdate, applyDelete).
THEOREM OnlyPlannedWritesInLoop == LoopSpec => PlannedWritesOnly
<1>1. LoopIInv /\ [LoopNext]_allVars => [PlannedWrite]_vars
  <2> SUFFICES ASSUME LoopIInv, [LoopNext]_allVars PROVE [PlannedWrite]_vars
    OBVIOUS
  <2>1. CASE Next
    BY <2>1, NextPlanned DEF LoopIInv
  <2>2. CASE \E h \in Handler : StartApply(h, planChanges(Diff))
    <3>1. portal' = portal
      BY <2>2 DEF StartApply, portalVars
    <3> QED
      BY <3>1, NothingTouched DEF PlannedWrite
  <2>3. CASE UNCHANGED vars
    BY <2>3
  <2>4. CASE UNCHANGED allVars
    BY <2>4 DEF allVars
  <2> QED
    BY <2>1, <2>2, <2>3, <2>4, LoopNextIsNext
<1> QED
  BY <1>1, LoopInvariance, PTL DEF LoopSpec, PlannedWritesOnly

=============================================================================
