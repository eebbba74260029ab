----------------------------- MODULE PlanProofs -----------------------------
(***************************************************************************)
(* What planChanges computes and why its plan works, for every set of      *)
(* worlds: the operations it lists, their order, and the invariant of      *)
(* their execution.                                                        *)
(***************************************************************************)
EXTENDS PlanExecution, ChangePlanProofs

-----------------------------------------------------------------------------
(* Endpoints of the worlds, and the records they stand for.                *)

\* Endpoints that share a record have the same key, in one world or in two.
LEMMA SharedKey ==
  ASSUME NEW v \in Worlds, NEW w \in Worlds, NEW e \in v, NEW f \in w,
         e.rrset = f.rrset, targetSet(e.targets) \cap targetSet(f.targets) # {}
  PROVE  changeKey(e) = changeKey(f)
BY WorldsAssumption DEF changeKey

\* The worlds are what Calculate works on.
LEMMA WorldsAreEndpoints == \A w \in Worlds : AreEndpoints(w)
  BY WorldsAssumption

\* An endpoint of a world, and its targets.
LEMMA WorldEndpoint ==
  ASSUME NEW w \in Worlds, NEW e \in w
  PROVE  /\ e \in Endpoint /\ e.rrset \in RRset /\ e.ttl \in TTL /\ e.ttl # NotLive
         /\ e.targets \in Seq(Target) /\ IsInjective(e.targets)
         /\ targetSet(e.targets) \subseteq Target
         /\ \A f \in w : changeKey(e) = changeKey(f) => e = f
<1>1. e \in Endpoint
  BY WorldsAreEndpoints DEF AreEndpoints
<1>2. e.rrset \in RRset /\ e.ttl \in TTL /\ e.targets \in Seq(Target)
  BY <1>1 DEF Endpoint
<1>3. targetSet(e.targets) \subseteq Target
  BY <1>2 DEF targetSet
<1> QED
  BY <1>1, <1>2, <1>3, WorldsAssumption, NotLiveAssumption DEF AreEndpoints

\* The record of a target an endpoint of the world holds.
LEMMA Held ==
  ASSUME NEW w \in Worlds, NEW e \in w, NEW t \in targetSet(e.targets)
  PROVE  RecordsOf(w)[e.rrset][t] = e.ttl
<1> DEFINE holders == {ep \in w : ep.rrset = e.rrset /\ t \in targetSet(ep.targets)}
<1>1. e.rrset \in RRset /\ t \in Target
  BY WorldEndpoint
<1>2. holders = {e}
  <2>1. ASSUME NEW f \in holders PROVE f = e
    <3>1. f.rrset = e.rrset /\ targetSet(f.targets) \cap targetSet(e.targets) # {}
      OBVIOUS
    <3>2. changeKey(f) = changeKey(e)
      BY <3>1, SharedKey
    <3> QED
      BY <3>2, WorldEndpoint
  <2> QED
    BY <2>1
<1>3. RecordsOf(w)[e.rrset][t] =
        IF holders = {} THEN NotLive ELSE (CHOOSE ep \in holders : TRUE).ttl
  BY <1>1 DEF RecordsOf
<1> HIDE DEF holders
<1> QED
  BY <1>2, <1>3

\* A live record of a world belongs to one of its endpoints.
LEMMA HasHolder ==
  ASSUME NEW w \in Worlds, NEW r \in RRset, NEW t \in Target,
         RecordsOf(w)[r][t] # NotLive
  PROVE  \E e \in w : e.rrset = r /\ t \in targetSet(e.targets)
BY DEF RecordsOf

\* RecordsOf gives every record a TTL or NotLive.
LEMMA RecordsOfType ==
  ASSUME NEW w \in Worlds
  PROVE  RecordsOf(w) \in [RRset -> [Target -> TTL \cup {NotLive}]]
<1>1. ASSUME NEW r \in RRset, NEW t \in Target
      PROVE  RecordsOf(w)[r][t] \in TTL \cup {NotLive}
  <2>1. CASE RecordsOf(w)[r][t] = NotLive
    BY <2>1
  <2>2. CASE RecordsOf(w)[r][t] # NotLive
    <3>1. PICK e \in w : e.rrset = r /\ t \in targetSet(e.targets)
      BY <2>2, HasHolder
    <3>2. RecordsOf(w)[r][t] = e.ttl
      BY <3>1, Held
    <3> QED
      BY <3>2, WorldEndpoint
  <2> QED
    BY <2>1, <2>2
<1>2. RecordsOf(w) = [r \in RRset |-> [t \in Target |-> RecordsOf(w)[r][t]]]
  BY DEF RecordsOf
<1> QED
  BY <1>1, <1>2

-----------------------------------------------------------------------------
(* The plan between two worlds, list by list.                              *)

\* Pairs whose operations are about the same record are the same pair.
LEMMA PairsApart ==
  ASSUME NEW b \in Worlds, NEW a \in Worlds, NEW p \in Stale(b, a), NEW q \in Stale(b, a),
         \/ /\ p[1].rrset = q[1].rrset
            /\ targetSet(p[1].targets) \cap targetSet(q[1].targets) # {}
         \/ /\ p[2].rrset = q[2].rrset
            /\ targetSet(p[2].targets) \cap targetSet(q[2].targets) # {}
  PROVE  p = q
<1>1. /\ p[1] \in b /\ p[2] \in a /\ changeKey(p[1]) = changeKey(p[2]) /\ p = <<p[1], p[2]>>
      /\ q[1] \in b /\ q[2] \in a /\ changeKey(q[1]) = changeKey(q[2]) /\ q = <<q[1], q[2]>>
  BY DEF Stale
<1>2. changeKey(p[1]) = changeKey(q[1]) \/ changeKey(p[2]) = changeKey(q[2])
  BY <1>1, SharedKey
<1>3. p[1] = q[1] /\ p[2] = q[2]
  BY <1>1, <1>2, WorldEndpoint
<1> QED
  BY <1>1, <1>3

\* Among the operations on all targets, those on some of them.
LEMMA AmongOpsFor ==
  ASSUME NEW action, NEW ep \in Endpoint, IsInjective(ep.targets),
         NEW T, T \subseteq targetSet(ep.targets)
  PROVE  Enumerates(Among(OpsFor(action, ep), T), OpsOn(action, ep, T))
<1> DEFINE R == OpsOn(action, ep, targetSet(ep.targets))
<1>1. Enumerates(OpsFor(action, ep), R)
  BY OpsForEnum
<1>2. {op \in R : op.target \in T} = OpsOn(action, ep, T)
  BY DEF OpsOn, OpOn
<1> HIDE DEF R
<1> QED
  BY <1>1, <1>2, AmongEnum

\* What diffTargets lists for a stale pair.
LEMMA DiffTargetsEnum ==
  ASSUME NEW b \in Worlds, NEW a \in Worlds, NEW pair \in Stale(b, a)
  PROVE  LET diff == diffTargets(pair[1], pair[2])
         IN /\ Enumerates(diff.creates, OpsOn("create", pair[2], Added(pair)))
            /\ Enumerates(diff.updates, OpsOn("update", pair[2], Kept(pair)))
            /\ Enumerates(diff.deletes, OpsOn("delete", pair[1], Dropped(pair)))
<1> DEFINE diff == diffTargets(pair[1], pair[2])
           old == targetSet(pair[1].targets)
           new == targetSet(pair[2].targets)
<1>1. pair[1] \in b /\ pair[2] \in a
  BY DEF Stale
<1>2. /\ pair[1] \in Endpoint /\ IsInjective(pair[1].targets)
      /\ pair[2] \in Endpoint /\ IsInjective(pair[2].targets)
  BY <1>1, WorldEndpoint
<1>3. Enumerates(diff.creates, OpsOn("create", pair[2], Added(pair)))
  <2>1. diff.creates = Among(OpsFor("create", pair[2]), new \ old)
    BY DEF diffTargets, createsFor
  <2>2. Added(pair) = new \ old
    BY DEF Added
  <2>3. new \ old \subseteq targetSet(pair[2].targets)
    OBVIOUS
  <2> HIDE DEF diff, old, new
  <2> QED
    BY <1>2, <2>1, <2>2, <2>3, AmongOpsFor
<1>4. Enumerates(diff.deletes, OpsOn("delete", pair[1], Dropped(pair)))
  <2>1. diff.deletes = Among(OpsFor("delete", pair[1]), old \ new)
    BY DEF diffTargets, deletesFor
  <2>2. Dropped(pair) = old \ new
    BY DEF Dropped
  <2>3. old \ new \subseteq targetSet(pair[1].targets)
    OBVIOUS
  <2> HIDE DEF diff, old, new
  <2> QED
    BY <1>2, <2>1, <2>2, <2>3, AmongOpsFor
<1>5. Enumerates(diff.updates, OpsOn("update", pair[2], Kept(pair)))
  <2>1. CASE pair[1].ttl = pair[2].ttl
    <3>1. diff.updates = <<>> /\ OpsOn("update", pair[2], Kept(pair)) = {}
      BY <2>1 DEF diffTargets, Kept, OpsOn
    <3> QED
      BY <3>1, EnumEmpty
  <2>2. CASE pair[1].ttl # pair[2].ttl
    <3>1. diff.updates = Among(OpsFor("update", pair[2]), new \cap old)
      BY <2>2 DEF diffTargets
    <3>2. Kept(pair) = new \cap old
      BY <2>2 DEF Kept
    <3>3. new \cap old \subseteq targetSet(pair[2].targets)
      OBVIOUS
    <3> HIDE DEF diff, old, new
    <3> QED
      BY <1>2, <3>1, <3>2, <3>3, AmongOpsFor
  <2> QED
    BY <2>1, <2>2
<1> QED
  BY <1>3, <1>4, <1>5

\* What diffUpdates lists for all stale pairs.
LEMMA DiffUpdatesEnum ==
  ASSUME NEW b \in Worlds, NEW a \in Worlds,
         NEW olds, Enumerates(olds, OldEnds(b, a)),
         NEW news, Enumerates(news, NewEnds(b, a))
  PROVE  LET diff == diffUpdates(news, indexByKey(olds))
         IN /\ Enumerates(diff.creates, AddOps(b, a))
            /\ Enumerates(diff.updates, KeepOps(b, a))
            /\ Enumerates(diff.deletes, DropOps(b, a))
<1> DEFINE old == indexByKey(olds)
           diff == [i \in DOMAIN news |->
                     IF Matched(news, old, i)
                     THEN diffTargets(old[changeKey(news[i])], news[i])
                     ELSE [creates |-> createsFor(news[i]),
                           updates |-> <<>>, deletes |-> <<>>]]
           N == NewEnds(b, a)
           O == [f \in N |-> old[changeKey(f)]]
           I == [f \in N |-> f]
           cs == [i \in DOMAIN diff |-> diff[i].creates]
           us == [i \in DOMAIN diff |-> diff[i].updates]
           ds == [i \in DOMAIN diff |-> diff[i].deletes]
           C == [f \in N |-> Added(<<O[f], f>>)]
           U == [f \in N |-> Kept(<<O[f], f>>)]
           D == [f \in N |-> Dropped(<<O[f], f>>)]
<1>1. \A f \in N : <<O[f], f>> \in Stale(b, a)
  <2> TAKE f \in N
  <2>1. PICK pair \in Stale(b, a) : f = pair[2]
    BY DEF NewEnds
  <2>2. O[f] = pair[1]
    BY <2>1, WorldsAreEndpoints, Counterpart
  <2>3. pair = <<pair[1], pair[2]>>
    BY DEF Stale
  <2> QED
    BY <2>1, <2>2, <2>3
<1>2. \A pair \in Stale(b, a) : pair[2] \in N /\ pair = <<O[pair[2]], pair[2]>>
  <2> TAKE pair \in Stale(b, a)
  <2>1. pair[2] \in N /\ pair = <<pair[1], pair[2]>>
    BY DEF NewEnds, Stale
  <2>2. O[pair[2]] = pair[1]
    BY <2>1, WorldsAreEndpoints, Counterpart
  <2> QED
    BY <2>1, <2>2
<1>3. ASSUME NEW i \in DOMAIN news
      PROVE  /\ news[i] \in N
             /\ Enumerates(cs[i], OpsOn("create", I[news[i]], C[news[i]]))
             /\ Enumerates(us[i], OpsOn("update", I[news[i]], U[news[i]]))
             /\ Enumerates(ds[i], OpsOn("delete", O[news[i]], D[news[i]]))
  <2>1. news[i] \in N
    BY DEF Enumerates
  <2>2. Matched(news, old, i)
    BY WorldsAreEndpoints, AllMatched
  <2> DEFINE pair == <<O[news[i]], news[i]>>
  <2>3. pair \in Stale(b, a) /\ pair[1] = O[news[i]] /\ pair[2] = news[i]
    BY <1>1, <2>1
  <2>4. O[news[i]] = old[changeKey(news[i])]
    BY <2>1
  <2>5. diff[i] = diffTargets(pair[1], pair[2])
    BY <2>2, <2>3, <2>4
  <2>6. /\ I[news[i]] = pair[2] /\ C[news[i]] = Added(pair)
        /\ U[news[i]] = Kept(pair) /\ D[news[i]] = Dropped(pair)
    BY <2>1
  <2>7. cs[i] = diff[i].creates /\ us[i] = diff[i].updates /\ ds[i] = diff[i].deletes
    OBVIOUS
  <2> HIDE DEF diff, old, N, O, I, C, U, D, cs, us, ds, pair
  <2> QED
    BY <2>1, <2>3, <2>5, <2>6, <2>7, DiffTargetsEnum
<1>4. DOMAIN cs = DOMAIN news /\ DOMAIN us = DOMAIN news /\ DOMAIN ds = DOMAIN news
  OBVIOUS
<1>5. /\ diffUpdates(news, old).creates = FlattenSeq(cs)
      /\ diffUpdates(news, old).updates = FlattenSeq(us)
      /\ diffUpdates(news, old).deletes = FlattenSeq(ds)
  BY DEF diffUpdates
<1>6. ASSUME NEW f \in N, NEW g \in N,
             \/ I[f].rrset = I[g].rrset /\ C[f] \cap C[g] # {}
             \/ I[f].rrset = I[g].rrset /\ U[f] \cap U[g] # {}
             \/ O[f].rrset = O[g].rrset /\ D[f] \cap D[g] # {}
      PROVE  f = g
  <2> DEFINE p == <<O[f], f>>
             q == <<O[g], g>>
  <2>1. p \in Stale(b, a) /\ q \in Stale(b, a)
    BY <1>1
  <2>2. /\ C[f] \subseteq targetSet(f.targets) /\ C[g] \subseteq targetSet(g.targets)
        /\ U[f] \subseteq targetSet(f.targets) /\ U[g] \subseteq targetSet(g.targets)
        /\ D[f] \subseteq targetSet(O[f].targets) /\ D[g] \subseteq targetSet(O[g].targets)
    BY DEF Added, Kept, Dropped
  <2>3. I[f] = f /\ I[g] = g
    OBVIOUS
  <2>4. p[1] = O[f] /\ p[2] = f /\ q[1] = O[g] /\ q[2] = g
    OBVIOUS
  <2> HIDE DEF O, I, C, U, D, p, q
  <2>5. p = q
    BY <1>6, <2>1, <2>2, <2>3, <2>4, PairsApart
  <2> QED
    BY <2>4, <2>5
<1>7. /\ UNION {OpsOn("create", I[f], C[f]) : f \in N} = AddOps(b, a)
      /\ UNION {OpsOn("update", I[f], U[f]) : f \in N} = KeepOps(b, a)
      /\ UNION {OpsOn("delete", O[f], D[f]) : f \in N} = DropOps(b, a)
  <2>1. ASSUME NEW f \in N
        PROVE  \E pair \in Stale(b, a) :
                 /\ I[f] = pair[2] /\ C[f] = Added(pair) /\ U[f] = Kept(pair)
                 /\ O[f] = pair[1] /\ D[f] = Dropped(pair)
    BY <1>1
  <2>2. ASSUME NEW pair \in Stale(b, a)
        PROVE  \E f \in N :
                 /\ I[f] = pair[2] /\ C[f] = Added(pair) /\ U[f] = Kept(pair)
                 /\ O[f] = pair[1] /\ D[f] = Dropped(pair)
    <3> DEFINE f == pair[2]
    <3>1. f \in N /\ pair = <<O[f], f>>
      BY <1>2
    <3>2. I[f] = f /\ C[f] = Added(<<O[f], f>>) /\ U[f] = Kept(<<O[f], f>>)
          /\ D[f] = Dropped(<<O[f], f>>)
      BY <3>1
    <3> HIDE DEF O, I, C, U, D, N
    <3> QED
      BY <3>1, <3>2
  <2> HIDE DEF O, I, C, U, D, N
  <2> QED
    BY <2>1, <2>2 DEF AddOps, KeepOps, DropOps
<1> HIDE DEF old, diff, N, O, I, C, U, D, cs, us, ds
<1>8. Enumerates(news, N)
  BY DEF N
<1>9. Enumerates(FlattenSeq(cs), UNION {OpsOn("create", I[f], C[f]) : f \in N})
  <2>1. \A i \in DOMAIN news : Enumerates(cs[i], OpsOn("create", I[news[i]], C[news[i]]))
    BY <1>3
  <2>2. \A f, g \in N : I[f].rrset = I[g].rrset /\ C[f] \cap C[g] # {} => f = g
    BY <1>6
  <2>3. DOMAIN cs = DOMAIN news
    BY <1>4
  <2>4. Gathers(cs, news, N, "create", I, C)
    BY <1>8, <2>1, <2>2, <2>3 DEF Gathers
  <2> QED
    BY <2>4, CollectEnum
<1>10. Enumerates(FlattenSeq(us), UNION {OpsOn("update", I[f], U[f]) : f \in N})
  <2>1. \A i \in DOMAIN news : Enumerates(us[i], OpsOn("update", I[news[i]], U[news[i]]))
    BY <1>3
  <2>2. \A f, g \in N : I[f].rrset = I[g].rrset /\ U[f] \cap U[g] # {} => f = g
    BY <1>6
  <2>3. DOMAIN us = DOMAIN news
    BY <1>4
  <2>4. Gathers(us, news, N, "update", I, U)
    BY <1>8, <2>1, <2>2, <2>3 DEF Gathers
  <2> QED
    BY <2>4, CollectEnum
<1>11. Enumerates(FlattenSeq(ds), UNION {OpsOn("delete", O[f], D[f]) : f \in N})
  <2>1. \A i \in DOMAIN news : Enumerates(ds[i], OpsOn("delete", O[news[i]], D[news[i]]))
    BY <1>3
  <2>2. \A f, g \in N : O[f].rrset = O[g].rrset /\ D[f] \cap D[g] # {} => f = g
    BY <1>6
  <2>3. DOMAIN ds = DOMAIN news
    BY <1>4
  <2>4. Gathers(ds, news, N, "delete", O, D)
    BY <1>8, <2>1, <2>2, <2>3 DEF Gathers
  <2> QED
    BY <2>4, CollectEnum
<1> QED
  BY <1>5, <1>7, <1>9, <1>10, <1>11 DEF old

\* deletesFromAll and createsFromAll list all operations of a set of endpoints.
LEMMA FromAllEnum ==
  ASSUME NEW w \in Worlds, NEW E, E \subseteq w, NEW eps, Enumerates(eps, E)
  PROVE  /\ Enumerates(deletesFromAll(eps), AllOps("delete", E))
         /\ Enumerates(createsFromAll(eps), AllOps("create", E))
<1> DEFINE I == [e \in E |-> e]
           T == [e \in E |-> targetSet(e.targets)]
           ds == [i \in DOMAIN eps |-> deletesFor(eps[i])]
           cs == [i \in DOMAIN eps |-> createsFor(eps[i])]
<1>1. ASSUME NEW i \in DOMAIN eps
      PROVE  /\ Enumerates(ds[i], OpsOn("delete", I[eps[i]], T[eps[i]]))
             /\ Enumerates(cs[i], OpsOn("create", I[eps[i]], T[eps[i]]))
  <2>1. eps[i] \in E
    BY DEF Enumerates
  <2>2. eps[i] \in Endpoint /\ IsInjective(eps[i].targets)
    BY <2>1, WorldEndpoint
  <2>3. /\ Enumerates(OpsFor("delete", eps[i]), OpsOn("delete", eps[i], targetSet(eps[i].targets)))
        /\ Enumerates(OpsFor("create", eps[i]), OpsOn("create", eps[i], targetSet(eps[i].targets)))
    BY <2>2, OpsForEnum
  <2>4. /\ ds[i] = OpsFor("delete", eps[i]) /\ cs[i] = OpsFor("create", eps[i])
        /\ I[eps[i]] = eps[i] /\ T[eps[i]] = targetSet(eps[i].targets)
    BY <2>1 DEF deletesFor, createsFor
  <2> HIDE DEF I, T, ds, cs
  <2> QED
    BY <2>3, <2>4
<1>2. \A e, f \in E : I[e].rrset = I[f].rrset /\ T[e] \cap T[f] # {} => e = f
  <2>1. ASSUME NEW e \in E, NEW f \in E, e.rrset = f.rrset,
               targetSet(e.targets) \cap targetSet(f.targets) # {}
        PROVE  e = f
    <3>1. e \in w /\ f \in w
      OBVIOUS
    <3>2. changeKey(e) = changeKey(f)
      BY <2>1, <3>1, SharedKey
    <3> QED
      BY <3>1, <3>2, WorldEndpoint
  <2> QED
    BY <2>1
<1>3. /\ UNION {OpsOn("delete", I[e], T[e]) : e \in E} = AllOps("delete", E)
      /\ UNION {OpsOn("create", I[e], T[e]) : e \in E} = AllOps("create", E)
  <2>1. \A e \in E : I[e] = e /\ T[e] = targetSet(e.targets)
    OBVIOUS
  <2> HIDE DEF I, T
  <2> QED
    BY <2>1 DEF AllOps
<1>4. Gathers(ds, eps, E, "delete", I, T) /\ Gathers(cs, eps, E, "create", I, T)
  <2>1. DOMAIN ds = DOMAIN eps /\ DOMAIN cs = DOMAIN eps
    OBVIOUS
  <2> HIDE DEF I, T, ds, cs
  <2> QED
    BY <1>1, <1>2, <2>1 DEF Gathers
<1>5. deletesFromAll(eps) = FlattenSeq(ds) /\ createsFromAll(eps) = FlattenSeq(cs)
  BY DEF deletesFromAll, createsFromAll
<1> HIDE DEF I, T, ds, cs
<1>6. /\ Enumerates(FlattenSeq(ds), UNION {OpsOn("delete", I[e], T[e]) : e \in E})
      /\ Enumerates(FlattenSeq(cs), UNION {OpsOn("create", I[e], T[e]) : e \in E})
  BY <1>4, CollectEnum
<1> QED
  BY <1>3, <1>5, <1>6

\* The lists of a plan have no operation in common.
LEMMA ListsApart ==
  ASSUME NEW b \in Worlds, NEW a \in Worlds
  PROVE  /\ DropOps(b, a) \cap AllOps("delete", Missing(b, a)) = {}
         /\ (DropOps(b, a) \cup AllOps("delete", Missing(b, a))) \cap KeepOps(b, a) = {}
         /\ (DropOps(b, a) \cup AllOps("delete", Missing(b, a)) \cup KeepOps(b, a))
              \cap AddOps(b, a) = {}
         /\ (DropOps(b, a) \cup AllOps("delete", Missing(b, a)) \cup KeepOps(b, a)
               \cup AddOps(b, a)) \cap AllOps("create", Missing(a, b)) = {}
<1>1. \A op \in DropOps(b, a) : op.action = "delete"
  BY PlannedOps DEF OpOn
<1>2. \A op \in AllOps("delete", Missing(b, a)) : op.action = "delete"
  BY EveryOp DEF OpOn
<1>3. \A op \in KeepOps(b, a) : op.action = "update"
  BY PlannedOps DEF OpOn
<1>4. \A op \in AddOps(b, a) : op.action = "create"
  BY PlannedOps DEF OpOn
<1>5. \A op \in AllOps("create", Missing(a, b)) : op.action = "create"
  BY EveryOp DEF OpOn
<1>6. ASSUME NEW op \in DropOps(b, a), op \in AllOps("delete", Missing(b, a)) PROVE FALSE
  <2>1. PICK pair \in Stale(b, a) : \E t \in Dropped(pair) : op = OpOn("delete", pair[1], t)
    BY PlannedOps
  <2>2. PICK t \in Dropped(pair) : op = OpOn("delete", pair[1], t)
    BY <2>1
  <2>3. PICK e \in Missing(b, a) : \E u \in targetSet(e.targets) : op = OpOn("delete", e, u)
    BY <1>6, EveryOp
  <2>4. PICK u \in targetSet(e.targets) : op = OpOn("delete", e, u)
    BY <2>3
  <2>5. pair[1].rrset = e.rrset /\ t = u /\ t \in targetSet(pair[1].targets)
    BY <2>2, <2>4 DEF OpOn, Dropped
  <2>6. pair[1] \in b /\ pair[2] \in a /\ changeKey(pair[1]) = changeKey(pair[2])
    BY DEF Stale
  <2>7. e \in b /\ \A f \in a : changeKey(f) # changeKey(e)
    BY DEF Missing
  <2>8. changeKey(pair[1]) = changeKey(e)
    BY <2>5, <2>6, <2>7, SharedKey
  <2> QED
    BY <2>6, <2>7, <2>8
<1>7. ASSUME NEW op \in AddOps(b, a), op \in AllOps("create", Missing(a, b)) PROVE FALSE
  <2>1. PICK pair \in Stale(b, a) : \E t \in Added(pair) : op = OpOn("create", pair[2], t)
    BY PlannedOps
  <2>2. PICK t \in Added(pair) : op = OpOn("create", pair[2], t)
    BY <2>1
  <2>3. PICK e \in Missing(a, b) : \E u \in targetSet(e.targets) : op = OpOn("create", e, u)
    BY <1>7, EveryOp
  <2>4. PICK u \in targetSet(e.targets) : op = OpOn("create", e, u)
    BY <2>3
  <2>5. pair[2].rrset = e.rrset /\ t = u /\ t \in targetSet(pair[2].targets)
    BY <2>2, <2>4 DEF OpOn, Added
  <2>6. pair[1] \in b /\ pair[2] \in a /\ changeKey(pair[1]) = changeKey(pair[2])
    BY DEF Stale
  <2>7. e \in a /\ \A f \in b : changeKey(f) # changeKey(e)
    BY DEF Missing
  <2>8. changeKey(pair[2]) = changeKey(e)
    BY <2>5, <2>6, <2>7, SharedKey
  <2> QED
    BY <2>6, <2>7, <2>8
<1> QED
  BY <1>1, <1>2, <1>3, <1>4, <1>5, <1>6, <1>7

\* A plan lists each of its operations once.
LEMMA PlanEnum ==
  ASSUME NEW b \in Worlds, NEW a \in Worlds
  PROVE  Enumerates(planChanges(Calculate(b, a)), Planned(b, a))
<1> DEFINE olds == SetToSeq(OldEnds(b, a))
           news == SetToSeq(NewEnds(b, a))
           gone == SetToSeq(Missing(b, a))
           fresh == SetToSeq(Missing(a, b))
           diff == diffUpdates(news, indexByKey(olds))
<1>1. /\ Enumerates(olds, OldEnds(b, a)) /\ Enumerates(news, NewEnds(b, a))
      /\ Enumerates(gone, Missing(b, a)) /\ Enumerates(fresh, Missing(a, b))
  BY WorldsAreEndpoints, FiniteEnds, SetToSeqEnum
<1>2. /\ Calculate(b, a).updateOld = olds /\ Calculate(b, a).updateNew = news
      /\ Calculate(b, a).delete = gone /\ Calculate(b, a).create = fresh
  BY DEF Calculate, OldEnds, NewEnds, Stale, Missing
<1>3. planChanges(Calculate(b, a)) =
        diff.deletes \o unmatchedDeletes(olds, news) \o deletesFromAll(gone)
          \o diff.updates \o diff.creates \o createsFromAll(fresh)
  BY <1>2 DEF planChanges
<1> HIDE DEF olds, news, gone, fresh
<1>4. /\ Enumerates(diff.creates, AddOps(b, a))
      /\ Enumerates(diff.updates, KeepOps(b, a))
      /\ Enumerates(diff.deletes, DropOps(b, a))
  BY <1>1, DiffUpdatesEnum
<1>5. /\ Enumerates(deletesFromAll(gone), AllOps("delete", Missing(b, a)))
      /\ Enumerates(createsFromAll(fresh), AllOps("create", Missing(a, b)))
  BY <1>1, WorldsAreEndpoints, FiniteEnds, FromAllEnum
<1>6. Enumerates(unmatchedDeletes(olds, news), {})
  BY <1>1, WorldsAreEndpoints, NothingUnmatched
<1> HIDE DEF diff
<1>7. Enumerates(diff.deletes \o unmatchedDeletes(olds, news), DropOps(b, a) \cup {})
  BY <1>4, <1>6, EnumConcat
<1>8. Enumerates(diff.deletes \o unmatchedDeletes(olds, news) \o deletesFromAll(gone),
                 DropOps(b, a) \cup {} \cup AllOps("delete", Missing(b, a)))
  BY <1>5, <1>7, EnumConcat, ListsApart
<1>9. Enumerates(diff.deletes \o unmatchedDeletes(olds, news) \o deletesFromAll(gone)
                   \o diff.updates,
                 DropOps(b, a) \cup {} \cup AllOps("delete", Missing(b, a)) \cup KeepOps(b, a))
  BY <1>4, <1>8, EnumConcat, ListsApart
<1>10. Enumerates(diff.deletes \o unmatchedDeletes(olds, news) \o deletesFromAll(gone)
                   \o diff.updates \o diff.creates,
                  DropOps(b, a) \cup {} \cup AllOps("delete", Missing(b, a)) \cup KeepOps(b, a)
                    \cup AddOps(b, a))
  BY <1>4, <1>9, EnumConcat, ListsApart
<1>11. Enumerates(diff.deletes \o unmatchedDeletes(olds, news) \o deletesFromAll(gone)
                    \o diff.updates \o diff.creates \o createsFromAll(fresh),
                  DropOps(b, a) \cup {} \cup AllOps("delete", Missing(b, a)) \cup KeepOps(b, a)
                    \cup AddOps(b, a) \cup AllOps("create", Missing(a, b)))
  BY <1>5, <1>10, EnumConcat, ListsApart
<1> QED
  BY <1>3, <1>11 DEF Planned

-----------------------------------------------------------------------------
(* The plan between two worlds, record by record.                          *)

\* A target that no endpoint with the key holds is not live in that world.
LEMMA NotHeld ==
  ASSUME NEW v \in Worlds, NEW w \in Worlds, NEW e \in v, NEW t \in targetSet(e.targets),
         \A f \in w : changeKey(f) = changeKey(e) => t \notin targetSet(f.targets)
  PROVE  RecordsOf(w)[e.rrset][t] = NotLive
<1> SUFFICES ASSUME RecordsOf(w)[e.rrset][t] # NotLive PROVE FALSE
  OBVIOUS
<1>1. e.rrset \in RRset /\ t \in Target
  BY WorldEndpoint
<1>2. PICK f \in w : f.rrset = e.rrset /\ t \in targetSet(f.targets)
  BY <1>1, HasHolder
<1>3. changeKey(f) = changeKey(e)
  <2>1. targetSet(f.targets) \cap targetSet(e.targets) # {}
    BY <1>2
  <2> QED
    BY <1>2, <2>1, SharedKey
<1> QED
  BY <1>2, <1>3

\* What an operation says of its record: how it was and how it is wanted.
FitsWorlds(op, b, a) ==
  LET had == RecordsOf(b)[op.rrset][op.target]
      wants == RecordsOf(a)[op.rrset][op.target]
  IN /\ op \in Op
     /\ op.action = "create" <=> had = NotLive
     /\ op.action = "delete" <=> wants = NotLive
     /\ op.ttl = IF op.action = "delete" THEN had ELSE wants

\* Every planned operation fits.
LEMMA PlannedFits ==
  ASSUME NEW b \in Worlds, NEW a \in Worlds, NEW op \in Planned(b, a)
  PROVE  FitsWorlds(op, b, a)
<1>1. ASSUME NEW action \in Action, NEW w \in Worlds, NEW e \in w,
             NEW t \in targetSet(e.targets)
      PROVE  OpOn(action, e, t) \in Op
  BY WorldEndpoint DEF OpOn, Op
<1>2. ASSUME NEW e \in b, NEW t \in targetSet(e.targets), op = OpOn("delete", e, t),
             \A f \in a : changeKey(f) = changeKey(e) => t \notin targetSet(f.targets)
      PROVE  FitsWorlds(op, b, a)
  <2>1. RecordsOf(b)[e.rrset][t] = e.ttl /\ e.ttl # NotLive
    BY Held, WorldEndpoint
  <2>2. RecordsOf(a)[e.rrset][t] = NotLive
    BY <1>2, NotHeld
  <2>3. op.rrset = e.rrset /\ op.target = t /\ op.ttl = e.ttl /\ op.action = "delete" /\ op \in Op
    BY <1>1, <1>2 DEF OpOn, Action
  <2> QED
    BY <2>1, <2>2, <2>3 DEF FitsWorlds
<1>3. ASSUME NEW f \in a, NEW t \in targetSet(f.targets), op = OpOn("create", f, t),
             \A e \in b : changeKey(e) = changeKey(f) => t \notin targetSet(e.targets)
      PROVE  FitsWorlds(op, b, a)
  <2>1. RecordsOf(a)[f.rrset][t] = f.ttl /\ f.ttl # NotLive
    BY Held, WorldEndpoint
  <2>2. RecordsOf(b)[f.rrset][t] = NotLive
    BY <1>3, NotHeld
  <2>3. op.rrset = f.rrset /\ op.target = t /\ op.ttl = f.ttl /\ op.action = "create" /\ op \in Op
    BY <1>1, <1>3 DEF OpOn, Action
  <2> QED
    BY <2>1, <2>2, <2>3 DEF FitsWorlds
<1>4. CASE op \in DropOps(b, a)
  <2>1. PICK pair \in Stale(b, a) : \E t \in Dropped(pair) : op = OpOn("delete", pair[1], t)
    BY <1>4, PlannedOps
  <2>2. PICK t \in Dropped(pair) : op = OpOn("delete", pair[1], t)
    BY <2>1
  <2>3. /\ pair[1] \in b /\ pair[2] \in a /\ changeKey(pair[1]) = changeKey(pair[2])
        /\ t \in targetSet(pair[1].targets) /\ t \notin targetSet(pair[2].targets)
    BY DEF Stale, Dropped
  <2>4. \A f \in a : changeKey(f) = changeKey(pair[1]) => f = pair[2]
    BY <2>3, WorldEndpoint
  <2> QED
    BY <1>2, <2>2, <2>3, <2>4
<1>5. CASE op \in AllOps("delete", Missing(b, a))
  <2>1. PICK e \in Missing(b, a) : \E t \in targetSet(e.targets) : op = OpOn("delete", e, t)
    BY <1>5, EveryOp
  <2>2. e \in b /\ \A f \in a : changeKey(f) # changeKey(e)
    BY DEF Missing
  <2> QED
    BY <1>2, <2>1, <2>2
<1>6. CASE op \in AddOps(b, a)
  <2>1. PICK pair \in Stale(b, a) : \E t \in Added(pair) : op = OpOn("create", pair[2], t)
    BY <1>6, PlannedOps
  <2>2. PICK t \in Added(pair) : op = OpOn("create", pair[2], t)
    BY <2>1
  <2>3. /\ pair[1] \in b /\ pair[2] \in a /\ changeKey(pair[1]) = changeKey(pair[2])
        /\ t \in targetSet(pair[2].targets) /\ t \notin targetSet(pair[1].targets)
    BY DEF Stale, Added
  <2>4. \A e \in b : changeKey(e) = changeKey(pair[2]) => e = pair[1]
    BY <2>3, WorldEndpoint
  <2> QED
    BY <1>3, <2>2, <2>3, <2>4
<1>7. CASE op \in AllOps("create", Missing(a, b))
  <2>1. PICK f \in Missing(a, b) : \E t \in targetSet(f.targets) : op = OpOn("create", f, t)
    BY <1>7, EveryOp
  <2>2. f \in a /\ \A e \in b : changeKey(e) # changeKey(f)
    BY DEF Missing
  <2> QED
    BY <1>3, <2>1, <2>2
<1>8. CASE op \in KeepOps(b, a)
  <2>1. PICK pair \in Stale(b, a) : \E t \in Kept(pair) : op = OpOn("update", pair[2], t)
    BY <1>8, PlannedOps
  <2>2. PICK t \in Kept(pair) : op = OpOn("update", pair[2], t)
    BY <2>1
  <2>3. /\ pair[1] \in b /\ pair[2] \in a /\ pair[1].rrset = pair[2].rrset
        /\ t \in targetSet(pair[1].targets) /\ t \in targetSet(pair[2].targets)
    BY DEF Stale, Kept, changeKey
  <2>4. /\ RecordsOf(b)[pair[2].rrset][t] = pair[1].ttl /\ pair[1].ttl # NotLive
        /\ RecordsOf(a)[pair[2].rrset][t] = pair[2].ttl /\ pair[2].ttl # NotLive
    <3>1. /\ RecordsOf(b)[pair[1].rrset][t] = pair[1].ttl
          /\ RecordsOf(a)[pair[2].rrset][t] = pair[2].ttl
      BY <2>3, Held
    <3> QED
      BY <2>3, <3>1, WorldEndpoint
  <2>5. /\ op.rrset = pair[2].rrset /\ op.target = t /\ op.ttl = pair[2].ttl
        /\ op.action = "update" /\ op \in Op
    BY <1>1, <2>2, <2>3 DEF OpOn, Action
  <2> QED
    BY <2>4, <2>5 DEF FitsWorlds
<1> QED
  BY <1>4, <1>5, <1>6, <1>7, <1>8 DEF Planned

\* Two planned operations about the same record are the same operation.
LEMMA PlannedUnique ==
  ASSUME NEW b \in Worlds, NEW a \in Worlds, NEW op \in Planned(b, a),
         NEW other \in Planned(b, a), op.rrset = other.rrset, op.target = other.target
  PROVE  op = other
<1>1. FitsWorlds(op, b, a) /\ FitsWorlds(other, b, a)
  BY PlannedFits
<1>2. op \in Op /\ other \in Op
  BY <1>1 DEF FitsWorlds
<1>3. op.action = other.action
  BY <1>1, <1>2 DEF FitsWorlds, Op, Action
<1>4. op.ttl = other.ttl
  BY <1>1, <1>3 DEF FitsWorlds
<1> QED
  BY <1>2, <1>3, <1>4 DEF Op

\* Every record that is not as it is wanted has an operation.
LEMMA PlannedCovers ==
  ASSUME NEW b \in Worlds, NEW a \in Worlds, NEW r \in RRset, NEW t \in Target,
         \A op \in Planned(b, a) : ~(op.rrset = r /\ op.target = t)
  PROVE  LET had == RecordsOf(b)[r][t]
             wants == RecordsOf(a)[r][t]
         IN \/ had = wants
            \/ wants = 0 /\ NotLive \notin {had, wants}
<1> DEFINE had == RecordsOf(b)[r][t]
           wants == RecordsOf(a)[r][t]
<1>1. ASSUME NEW pair \in Stale(b, a)
      PROVE  /\ ~(pair[1].rrset = r /\ t \in Dropped(pair))
             /\ ~(pair[2].rrset = r /\ t \in Added(pair))
             /\ ~(pair[2].rrset = r /\ t \in Kept(pair))
  <2>1. /\ t \in Dropped(pair) => OpOn("delete", pair[1], t) \in Planned(b, a)
        /\ t \in Added(pair) => OpOn("create", pair[2], t) \in Planned(b, a)
        /\ t \in Kept(pair) => OpOn("update", pair[2], t) \in Planned(b, a)
    BY PlannedOps DEF Planned
  <2> QED
    BY <2>1 DEF OpOn
<1>2. ASSUME NEW e \in Missing(b, a) PROVE ~(e.rrset = r /\ t \in targetSet(e.targets))
  <2>1. t \in targetSet(e.targets) => OpOn("delete", e, t) \in Planned(b, a)
    BY EveryOp DEF Planned
  <2> QED
    BY <2>1 DEF OpOn
<1>3. ASSUME NEW f \in Missing(a, b) PROVE ~(f.rrset = r /\ t \in targetSet(f.targets))
  <2>1. t \in targetSet(f.targets) => OpOn("create", f, t) \in Planned(b, a)
    BY EveryOp DEF Planned
  <2> QED
    BY <2>1 DEF OpOn
<1>4. ASSUME had # NotLive PROVE wants # NotLive
  <2>1. PICK e \in b : e.rrset = r /\ t \in targetSet(e.targets)
    BY <1>4, HasHolder
  <2>2. PICK f \in a : changeKey(f) = changeKey(e)
    BY <1>2, <2>1 DEF Missing
  <2>3. CASE t \in targetSet(f.targets)
    <3>1. f.rrset = r /\ f.ttl # NotLive
      BY <2>1, <2>2, WorldEndpoint DEF changeKey
    <3>2. wants = f.ttl
      BY <2>3, <3>1, Held
    <3> QED
      BY <3>1, <3>2
  <2>4. CASE t \notin targetSet(f.targets)
    <3>1. NeedsUpdate(e, f)
      BY <2>1, <2>4, OtherTargetsNeedUpdate, WorldEndpoint
    <3>2. <<e, f>> \in Stale(b, a) /\ t \in Dropped(<<e, f>>)
      BY <2>1, <2>2, <2>4, <3>1 DEF Stale, Dropped
    <3> QED
      BY <1>1, <2>1, <3>2
  <2> QED
    BY <2>3, <2>4
<1>5. ASSUME wants # NotLive PROVE had # NotLive
  <2>1. PICK f \in a : f.rrset = r /\ t \in targetSet(f.targets)
    BY <1>5, HasHolder
  <2>2. PICK e \in b : changeKey(e) = changeKey(f)
    BY <1>3, <2>1 DEF Missing
  <2>3. CASE t \in targetSet(e.targets)
    <3>1. e.rrset = r /\ e.ttl # NotLive
      BY <2>1, <2>2, WorldEndpoint DEF changeKey
    <3>2. had = e.ttl
      BY <2>3, <3>1, Held
    <3> QED
      BY <3>1, <3>2
  <2>4. CASE t \notin targetSet(e.targets)
    <3>1. NeedsUpdate(e, f)
      BY <2>1, <2>4, OtherTargetsNeedUpdate, WorldEndpoint
    <3>2. <<e, f>> \in Stale(b, a) /\ t \in Added(<<e, f>>)
      BY <2>1, <2>2, <2>4, <3>1 DEF Stale, Added
    <3> QED
      BY <1>1, <2>1, <3>2
  <2> QED
    BY <2>3, <2>4
<1>6. ASSUME had # NotLive, wants # NotLive PROVE had = wants \/ wants = 0
  <2>1. PICK e \in b : e.rrset = r /\ t \in targetSet(e.targets)
    BY <1>6, HasHolder
  <2>2. PICK f \in a : f.rrset = r /\ t \in targetSet(f.targets)
    BY <1>6, HasHolder
  <2>3. had = e.ttl /\ wants = f.ttl
    BY <2>1, <2>2, Held
  <2>4. changeKey(e) = changeKey(f)
    <3>1. targetSet(e.targets) \cap targetSet(f.targets) # {}
      BY <2>1, <2>2
    <3> QED
      BY <2>1, <2>2, <3>1, SharedKey
  <2>5. CASE ~NeedsUpdate(e, f)
    BY <2>3, <2>5 DEF NeedsUpdate
  <2>6. CASE NeedsUpdate(e, f)
    <3>1. <<e, f>> \in Stale(b, a)
      BY <2>4, <2>6 DEF Stale
    <3>2. t \notin Kept(<<e, f>>)
      BY <1>1, <2>2, <3>1
    <3> QED
      BY <2>1, <2>2, <2>3, <3>2 DEF Kept
  <2> QED
    BY <2>5, <2>6
<1> QED
  BY <1>4, <1>5, <1>6

\* The plan between two worlds is exact: it holds at most one operation per
\* record, each fits the record it is about, and every record that is not as
\* it is wanted has one (Calculate, planChanges, diffUpdates, diffTargets).
THEOREM PlanIsExact ==
  ASSUME NEW b \in Worlds, NEW a \in Worlds
  PROVE  LET plan == planChanges(Calculate(b, a))
         IN /\ plan \in Seq(Op)
            /\ \A i, j \in DOMAIN plan :
                 plan[i].rrset = plan[j].rrset /\ plan[i].target = plan[j].target => i = j
            /\ \A i \in DOMAIN plan : FitsWorlds(plan[i], b, a)
            /\ \A r \in RRset, t \in Target :
                 \/ \E i \in DOMAIN plan : plan[i].rrset = r /\ plan[i].target = t
                 \/ RecordsOf(b)[r][t] = RecordsOf(a)[r][t]
                 \/ /\ RecordsOf(a)[r][t] = 0
                    /\ NotLive \notin {RecordsOf(b)[r][t], RecordsOf(a)[r][t]}
<1> DEFINE plan == planChanges(Calculate(b, a))
<1>1. Enumerates(plan, Planned(b, a))
  BY PlanEnum
<1> HIDE DEF plan
<1>2. /\ plan \in Seq(Planned(b, a)) /\ DOMAIN plan = 1..Len(plan)
      /\ \A i \in DOMAIN plan : plan[i] \in Planned(b, a)
  BY <1>1 DEF Enumerates
<1>3. \A i \in DOMAIN plan : FitsWorlds(plan[i], b, a)
  BY <1>2, PlannedFits
<1>4. plan \in Seq(Op)
  <2>1. Planned(b, a) \subseteq Op
    BY PlannedFits DEF FitsWorlds
  <2> QED
    BY <1>2, <2>1, SeqMonotone
<1>5. ASSUME NEW i \in DOMAIN plan, NEW j \in DOMAIN plan,
             plan[i].rrset = plan[j].rrset, plan[i].target = plan[j].target
      PROVE  i = j
  <2>1. plan[i] = plan[j]
    BY <1>2, <1>5, PlannedUnique
  <2> QED
    BY <1>1, <1>2, <2>1 DEF Enumerates
<1>6. ASSUME NEW r \in RRset, NEW t \in Target,
             ~\E i \in DOMAIN plan : plan[i].rrset = r /\ plan[i].target = t
      PROVE  \/ RecordsOf(b)[r][t] = RecordsOf(a)[r][t]
             \/ /\ RecordsOf(a)[r][t] = 0
                /\ NotLive \notin {RecordsOf(b)[r][t], RecordsOf(a)[r][t]}
  <2>1. \A op \in Planned(b, a) : ~(op.rrset = r /\ op.target = t)
    <3>1. \A op \in Planned(b, a) : \E i \in 1..Len(plan) : plan[i] = op
      BY <1>1 DEF Enumerates
    <3> QED
      BY <1>2, <1>6, <3>1
  <2> QED
    BY <2>1, PlannedCovers
<1> QED
  BY <1>3, <1>4, <1>5, <1>6 DEF plan

-----------------------------------------------------------------------------
(* The plan executed.                                                      *)

\* The changes between two worlds are changes ApplyChanges can receive.
LEMMA CalculateType ==
  ASSUME NEW b \in Worlds, NEW a \in Worlds
  PROVE  Calculate(b, a) \in Changes
<1>1. \A S : IsFiniteSet(S) /\ S \subseteq Endpoint => SetToSeq(S) \in Seq(Endpoint)
  <2> TAKE S
  <2> HAVE IsFiniteSet(S) /\ S \subseteq Endpoint
  <2>1. SetToSeq(S) \in Seq(S)
    BY SetToSeqEnum DEF Enumerates
  <2> QED
    BY <2>1, SeqMonotone
<1>2. a \subseteq Endpoint /\ b \subseteq Endpoint
  BY WorldsAreEndpoints DEF AreEndpoints
<1>3. /\ SetToSeq(OldEnds(b, a)) \in Seq(Endpoint) /\ SetToSeq(NewEnds(b, a)) \in Seq(Endpoint)
      /\ SetToSeq(Missing(b, a)) \in Seq(Endpoint) /\ SetToSeq(Missing(a, b)) \in Seq(Endpoint)
  BY <1>1, <1>2, WorldsAreEndpoints, FiniteEnds
<1>4. Calculate(b, a) = [create    |-> SetToSeq(Missing(a, b)),
                         updateOld |-> SetToSeq(OldEnds(b, a)),
                         updateNew |-> SetToSeq(NewEnds(b, a)),
                         delete    |-> SetToSeq(Missing(b, a))]
  BY DEF Calculate, OldEnds, NewEnds, Stale, Missing
<1> QED
  BY <1>3, <1>4 DEF Changes

\* A plan is in phases.
LEMMA PlanPhases ==
  ASSUME NEW changes \in Changes
  PROVE  LET plan == planChanges(changes)
         IN \A i, j \in DOMAIN plan :
              i < j => Phase[plan[i].action] <= Phase[plan[j].action]
<1> DEFINE plan == planChanges(changes)
<1>1. PICK d \in Seq(ActionOps("delete")), u \in Seq(ActionOps("update")),
           c \in Seq(ActionOps("create")) : plan = (d \o u) \o c
  BY PlanOrder
<1> HIDE DEF plan
<1>2. \A a \in Action : ActionOps(a) \subseteq Op
  BY DEF ActionOps
<1>3. d \in Seq(Op) /\ u \in Seq(Op) /\ c \in Seq(Op)
  BY <1>2, SeqMonotone DEF Action
<1>4. Len(d) \in Nat /\ Len(u) \in Nat /\ Len(c) \in Nat
  OBVIOUS
<1>5. d \o u \in Seq(Op) /\ Len(d \o u) = Len(d) + Len(u)
  BY <1>3
<1>6. DOMAIN plan = 1..(Len(d) + Len(u) + Len(c))
  BY <1>1, <1>3, <1>4, <1>5
<1>7. ASSUME NEW i \in DOMAIN plan
      PROVE  Phase[plan[i].action] = IF i <= Len(d) THEN 1
                                     ELSE IF i <= Len(d) + Len(u) THEN 2 ELSE 3
  <2>1. i \in Nat /\ i > 0 /\ i <= Len(d) + Len(u) + Len(c)
    BY <1>4, <1>6
  <2>2. CASE i <= Len(d)
    <3>1. plan[i] = (d \o u)[i] /\ (d \o u)[i] = d[i]
      BY <1>1, <1>3, <1>4, <1>5, <2>1, <2>2
    <3>2. d[i].action = "delete"
      BY <1>4, <2>1, <2>2 DEF ActionOps
    <3> QED
      BY <2>2, <3>1, <3>2 DEF Phase
  <2>3. CASE i > Len(d) /\ i <= Len(d) + Len(u)
    <3>1. plan[i] = (d \o u)[i] /\ (d \o u)[i] = u[i - Len(d)]
      BY <1>1, <1>3, <1>4, <1>5, <2>1, <2>3
    <3>2. u[i - Len(d)].action = "update"
      BY <1>4, <2>1, <2>3 DEF ActionOps
    <3> QED
      BY <1>4, <2>1, <2>3, <3>1, <3>2 DEF Phase
  <2>4. CASE i > Len(d) + Len(u)
    <3>1. plan[i] = c[i - (Len(d) + Len(u))]
      BY <1>1, <1>3, <1>4, <1>5, <2>1, <2>4
    <3>2. c[i - (Len(d) + Len(u))].action = "create"
      BY <1>4, <2>1, <2>4 DEF ActionOps
    <3> QED
      BY <1>4, <2>1, <2>4, <3>1, <3>2 DEF Phase
  <2> QED
    BY <1>4, <2>1, <2>2, <2>3, <2>4
<1>8. ASSUME NEW i \in DOMAIN plan, NEW j \in DOMAIN plan, i < j
      PROVE  Phase[plan[i].action] <= Phase[plan[j].action]
  <2>1. i \in Nat /\ j \in Nat
    BY <1>4, <1>6
  <2>2. /\ Phase[plan[i].action] = IF i <= Len(d) THEN 1
                                   ELSE IF i <= Len(d) + Len(u) THEN 2 ELSE 3
        /\ Phase[plan[j].action] = IF j <= Len(d) THEN 1
                                   ELSE IF j <= Len(d) + Len(u) THEN 2 ELSE 3
    BY <1>7
  <2> QED
    BY <1>4, <1>8, <2>1, <2>2
<1> QED
  BY <1>8 DEF plan

\* At the start no operation has been executed.
LEMMA InitIInv == Init => IInv
<1> SUFFICES ASSUME Init PROVE IInv
  OBVIOUS
<1>1. before \in Worlds /\ after \in Worlds /\ records = RecordsOf(before)
  BY DEF Init
<1>2. todo = planChanges(Calculate(before, after))
  BY DEF Init
<1>3. /\ todo \in Seq(Op)
      /\ \A i, j \in DOMAIN todo :
           todo[i].rrset = todo[j].rrset /\ todo[i].target = todo[j].target => i = j
      /\ \A i \in DOMAIN todo : FitsWorlds(todo[i], before, after)
      /\ \A r \in RRset, t \in Target :
           \/ \E i \in DOMAIN todo : todo[i].rrset = r /\ todo[i].target = t
           \/ RecordsOf(before)[r][t] = RecordsOf(after)[r][t]
           \/ /\ RecordsOf(after)[r][t] = 0
              /\ NotLive \notin {RecordsOf(before)[r][t], RecordsOf(after)[r][t]}
  BY <1>1, <1>2, PlanIsExact, SMTT(30)
<1>4. TypeOK
  BY <1>1, <1>3, RecordsOfType DEF TypeOK
<1>5. OneOpEach
  BY <1>3 DEF OneOpEach
<1>6. InPhases
  BY <1>1, <1>2, CalculateType, PlanPhases DEF InPhases
<1>7. OpsFit
  BY <1>1, <1>3 DEF OpsFit, Fits, FitsWorlds
<1>8. Settled
  BY <1>1, <1>3 DEF Settled
<1>9. DeletesFirst
  BY <1>1 DEF DeletesFirst
<1> QED
  BY <1>4, <1>5, <1>6, <1>7, <1>8, <1>9 DEF IInv

\* The next operation, and those left once it is executed.
LEMMA HeadAndTail ==
  ASSUME NEW S, NEW s \in Seq(S), s # <<>>
  PROVE  /\ Head(s) = s[1] /\ 1 \in DOMAIN s /\ s[1] \in S
         /\ Tail(s) \in Seq(S)
         /\ \A i \in DOMAIN Tail(s) : i + 1 \in DOMAIN s /\ i + 1 > 1 /\ Tail(s)[i] = s[i + 1]
         /\ \A i \in DOMAIN s : i = 1 \/ (i - 1 \in DOMAIN Tail(s) /\ Tail(s)[i - 1] = s[i])
<1>1. Len(s) \in Nat /\ Len(s) > 0 /\ DOMAIN s = 1..Len(s)
  OBVIOUS
<1>2. Tail(s) \in Seq(S) /\ Len(Tail(s)) = Len(s) - 1 /\ DOMAIN Tail(s) = 1..(Len(s) - 1)
  BY <1>1
<1>3. \A i \in 1..(Len(s) - 1) : Tail(s)[i] = s[i + 1]
  BY <1>1
<1>4. Head(s) = s[1] /\ s[1] \in S
  BY <1>1
<1>5. ASSUME NEW i \in 1..Len(s), i # 1
      PROVE  i - 1 \in DOMAIN Tail(s) /\ Tail(s)[i - 1] = s[i]
  <2>1. i - 1 \in 1..(Len(s) - 1) /\ (i - 1) + 1 = i
    BY <1>1, <1>5
  <2> QED
    BY <1>2, <1>3, <2>1
<1> QED
  BY <1>1, <1>2, <1>3, <1>4, <1>5

\* Executing the next operation makes its record as it is wanted, leaves every
\* other record alone and takes the operation off the list.
LEMMA ExecuteStep ==
  ASSUME IInv, NEW action, NEW result, Execute(action, result)
  PROVE  /\ todo # <<>> /\ Head(todo) = todo[1] /\ 1 \in DOMAIN todo /\ todo[1] \in Op
         /\ todo[1].action = action
         /\ \A r \in RRset, t \in Target :
              records'[r][t] = IF r = todo[1].rrset /\ t = todo[1].target THEN result
                               ELSE records[r][t]
         /\ before' = before /\ after' = after /\ todo' \in Seq(Op)
         /\ \A i \in DOMAIN todo' : /\ i + 1 \in DOMAIN todo /\ todo'[i] = todo[i + 1]
                                    /\ i + 1 > 1
         /\ \A i \in DOMAIN todo : i = 1 \/ (i - 1 \in DOMAIN todo' /\ todo'[i - 1] = todo[i])
<1>1. todo \in Seq(Op) /\ todo # <<>> /\ todo' = Tail(todo)
  BY DEF IInv, TypeOK, Execute
<1>2. /\ Head(todo) = todo[1] /\ 1 \in DOMAIN todo /\ todo[1] \in Op
      /\ Tail(todo) \in Seq(Op)
      /\ \A i \in DOMAIN Tail(todo) :
           i + 1 \in DOMAIN todo /\ i + 1 > 1 /\ Tail(todo)[i] = todo[i + 1]
      /\ \A i \in DOMAIN todo :
           i = 1 \/ (i - 1 \in DOMAIN Tail(todo) /\ Tail(todo)[i - 1] = todo[i])
  BY <1>1, HeadAndTail
<1>3. records \in [RRset -> [Target -> TTL \cup {NotLive}]]
  BY DEF IInv, TypeOK
<1>4. /\ todo[1].action = action /\ before' = before /\ after' = after
      /\ records' = [records EXCEPT ![todo[1].rrset][todo[1].target] = result]
  BY <1>2 DEF Execute
<1>5. todo[1].rrset \in RRset /\ todo[1].target \in Target
  BY <1>2 DEF Op
<1> QED
  BY <1>1, <1>2, <1>3, <1>4, <1>5

\* Executing an operation keeps the invariant.
LEMMA ExecuteKeepsIInv ==
  ASSUME IInv, NEW action, NEW result, Execute(action, result),
         result = IF action = "delete" THEN NotLive ELSE Head(todo).ttl
  PROVE  IInv'
<1> DEFINE op == todo[1]
           had == RecordsOf(before)
           wants == RecordsOf(after)
<1>1. /\ todo # <<>> /\ Head(todo) = op /\ 1 \in DOMAIN todo /\ op \in Op
      /\ op.action = action
      /\ \A r \in RRset, t \in Target :
           records'[r][t] = IF r = op.rrset /\ t = op.target THEN result ELSE records[r][t]
      /\ before' = before /\ after' = after /\ todo' \in Seq(Op)
      /\ \A i \in DOMAIN todo' : i + 1 \in DOMAIN todo /\ todo'[i] = todo[i + 1] /\ i + 1 > 1
      /\ \A i \in DOMAIN todo : i = 1 \/ (i - 1 \in DOMAIN todo' /\ todo'[i - 1] = todo[i])
  BY ExecuteStep
<1>2. /\ op.rrset \in RRset /\ op.target \in Target /\ op.ttl \in TTL /\ action \in Action
      /\ \A i \in DOMAIN todo' : todo'[i] \in Op
  <2>1. op.rrset \in RRset /\ op.target \in Target /\ op.ttl \in TTL /\ op.action \in Action
    <3>1. op \in Op
      BY <1>1
    <3> HIDE DEF op
    <3> QED
      BY <3>1 DEF Op
  <2>2. \A i \in DOMAIN todo' : todo'[i] \in Op
    BY <1>1
  <2> QED
    BY <1>1, <2>1, <2>2
<1>3. \A i \in DOMAIN todo' : i \in Nat /\ 1 # i + 1
  BY <1>1
<1>4. /\ records[op.rrset][op.target] = had[op.rrset][op.target]
      /\ action = "create" <=> had[op.rrset][op.target] = NotLive
      /\ action = "delete" <=> wants[op.rrset][op.target] = NotLive
      /\ action # "delete" => op.ttl = wants[op.rrset][op.target]
  BY <1>1 DEF IInv, OpsFit, Fits
<1>5. result = wants[op.rrset][op.target]
  BY <1>1, <1>4
<1>6. RecordsOf(before)' = had /\ RecordsOf(after)' = wants
  BY <1>1
<1>7. TypeOK'
  <2>1. records' \in [RRset -> [Target -> TTL \cup {NotLive}]]
    <3>1. result \in TTL \cup {NotLive}
      BY <1>1, <1>2
    <3>2. records \in [RRset -> [Target -> TTL \cup {NotLive}]]
      BY DEF IInv, TypeOK
    <3>3. records' = [records EXCEPT ![op.rrset][op.target] = result]
      BY <1>1 DEF Execute
    <3> HIDE DEF op
    <3> QED
      BY <1>2, <3>1, <3>2, <3>3
  <2> QED
    BY <1>1, <2>1 DEF IInv, TypeOK
<1>8. ASSUME NEW i \in DOMAIN todo'
      PROVE  ~(todo'[i].rrset = op.rrset /\ todo'[i].target = op.target)
  BY <1>1, <1>3 DEF IInv, OneOpEach
<1>9. OneOpEach'
  <2>1. ASSUME NEW i \in DOMAIN todo', NEW j \in DOMAIN todo',
               todo'[i].rrset = todo'[j].rrset, todo'[i].target = todo'[j].target
        PROVE  i = j
    <3>1. i + 1 = j + 1
      BY <1>1, <2>1 DEF IInv, OneOpEach
    <3> QED
      BY <1>3, <3>1
  <2> QED
    BY <2>1 DEF OneOpEach
<1>10. InPhases'
  <2>1. ASSUME NEW i \in DOMAIN todo', NEW j \in DOMAIN todo', i < j
        PROVE  Phase[todo'[i].action] <= Phase[todo'[j].action]
    <3>1. i + 1 < j + 1 /\ i + 1 \in DOMAIN todo /\ j + 1 \in DOMAIN todo
      BY <1>1, <1>3, <2>1
    <3> QED
      BY <1>1, <3>1 DEF IInv, InPhases
  <2> QED
    BY <2>1 DEF InPhases, Phase
<1>11. OpsFit'
  <2>1. ASSUME NEW i \in DOMAIN todo'
        PROVE  LET o == todo'[i]
               IN /\ records'[o.rrset][o.target] = had[o.rrset][o.target]
                  /\ o.action = "create" <=> had[o.rrset][o.target] = NotLive
                  /\ o.action = "delete" <=> wants[o.rrset][o.target] = NotLive
                  /\ o.action # "delete" => o.ttl = wants[o.rrset][o.target]
    <3>1. Fits(todo[i + 1])
      BY <1>1 DEF IInv, OpsFit
    <3>2. todo'[i].rrset \in RRset /\ todo'[i].target \in Target
      BY <1>2 DEF Op
    <3>3. records'[todo'[i].rrset][todo'[i].target] = records[todo'[i].rrset][todo'[i].target]
      BY <1>1, <1>8, <3>2
    <3>4. todo'[i] = todo[i + 1]
      BY <1>1
    <3> QED
      BY <3>1, <3>3, <3>4 DEF Fits
  <2> QED
    BY <1>6, <2>1 DEF OpsFit, Fits
<1>12. Settled'
  <2>1. ASSUME NEW r \in RRset, NEW t \in Target,
               ~\E i \in DOMAIN todo' : todo'[i].rrset = r /\ todo'[i].target = t
        PROVE  \/ records'[r][t] = wants[r][t]
               \/ wants[r][t] = 0 /\ NotLive \notin {records'[r][t], wants[r][t]}
    <3>1. CASE r = op.rrset /\ t = op.target
      BY <1>1, <1>5, <3>1
    <3>2. CASE ~(r = op.rrset /\ t = op.target)
      <4>1. records'[r][t] = records[r][t]
        BY <1>1, <3>2
      <4>2. ~\E i \in DOMAIN todo : todo[i].rrset = r /\ todo[i].target = t
        BY <1>1, <2>1, <3>2
      <4> QED
        BY <4>1, <4>2 DEF IInv, Settled
    <3> QED
      BY <3>1, <3>2
  <2> QED
    BY <1>6, <2>1 DEF Settled
<1>13. DeletesFirst'
  <2>1. CASE action = "create"
    <3>1. ASSUME NEW i \in DOMAIN todo' PROVE todo'[i].action # "delete"
      <4>1. Phase[todo[1].action] <= Phase[todo[i + 1].action]
        BY <1>1 DEF IInv, InPhases
      <4> QED
        BY <1>1, <2>1, <4>1 DEF Phase
    <3> QED
      BY <3>1 DEF DeletesFirst
  <2>2. CASE action # "create" /\ Live(records) \subseteq Live(had)
    <3>1. ASSUME NEW k \in Live(records') PROVE k \in Live(had)
      <4>1. k \in RRset \X Target /\ records'[k[1]][k[2]] # NotLive
        BY DEF Live
      <4>2. CASE k[1] = op.rrset /\ k[2] = op.target
        BY <1>4, <2>2, <4>1, <4>2 DEF Live
      <4>3. CASE ~(k[1] = op.rrset /\ k[2] = op.target)
        <5>1. records'[k[1]][k[2]] = records[k[1]][k[2]]
          BY <1>1, <4>1, <4>3
        <5>2. k \in Live(records)
          BY <4>1, <5>1 DEF Live
        <5> QED
          BY <2>2, <5>2
      <4> QED
        BY <4>2, <4>3
    <3>2. Live(records)' = Live(records') /\ Live(RecordsOf(before))' = Live(had)
      BY <1>1
    <3> HIDE DEF had
    <3> QED
      BY <3>1, <3>2 DEF DeletesFirst
  <2>3. CASE \A i \in DOMAIN todo : todo[i].action # "delete"
    BY <1>1, <2>3 DEF DeletesFirst
  <2> QED
    BY <2>1, <2>2, <2>3 DEF IInv, DeletesFirst
<1> QED
  BY <1>7, <1>9, <1>10, <1>11, <1>12, <1>13 DEF IInv

\* Every step keeps the invariant.
LEMMA NextIInv == IInv /\ [Next]_vars => IInv'
<1> SUFFICES ASSUME IInv, [Next]_vars PROVE IInv'
  OBVIOUS
<1>1. CASE Create
  BY <1>1, ExecuteKeepsIInv DEF Create
<1>2. CASE Update
  BY <1>2, ExecuteKeepsIInv DEF Update
<1>3. CASE Delete
  BY <1>3, ExecuteKeepsIInv DEF Delete
<1>4. CASE UNCHANGED vars
  BY <1>4 DEF vars, IInv, TypeOK, OneOpEach, InPhases, OpsFit, Fits, Settled, DeletesFirst, Live
<1> QED
  BY <1>1, <1>2, <1>3, <1>4 DEF Next

-----------------------------------------------------------------------------
(* The properties of the plan.                                             *)

\* The invariant holds of every execution of every plan between two worlds.
THEOREM PlanInvariance == Spec => []IInv
BY InitIInv, NextIInv, PTL DEF Spec

\* A finished plan has reached the desired endpoints.
LEMMA IInvReaches == IInv => ReachesDesired
<1> SUFFICES ASSUME IInv, todo = <<>> PROVE ReachesDesired
  BY DEF ReachesDesired
<1> DEFINE wants == RecordsOf(after)
<1>1. after \in Worlds
  BY DEF IInv, TypeOK
<1>2. ASSUME NEW r \in RRset, NEW t \in Target
      PROVE  \/ records[r][t] = wants[r][t]
             \/ wants[r][t] = 0 /\ NotLive \notin {records[r][t], wants[r][t]}
  BY DEF IInv, Settled
<1>3. Live(records) = Live(wants)
  BY <1>2 DEF Live
<1>4. ASSUME NEW ep \in after, NEW t \in targetSet(ep.targets), ep.ttl # 0
      PROVE  records[ep.rrset][t] = ep.ttl
  <2>1. wants[ep.rrset][t] = ep.ttl
    BY <1>1, Held
  <2>2. ep.rrset \in RRset /\ t \in Target
    BY <1>1, WorldEndpoint
  <2> HIDE DEF wants
  <2> QED
    BY <1>2, <1>4, <2>1, <2>2
<1> QED
  BY <1>3, <1>4 DEF ReachesDesired

\* Before its last delete the plan only has records that were there before,
\* afterwards only records that are wanted: neither set holds a conflict.
LEMMA IInvNoConflict == IInv => NoTransientConflict
<1> SUFFICES ASSUME IInv PROVE NoTransientConflict
  OBVIOUS
<1> DEFINE had == RecordsOf(before)
           wants == RecordsOf(after)
<1>1. before \in Worlds /\ after \in Worlds
  BY DEF IInv, TypeOK
<1>2. ASSUME NEW w \in Worlds, NEW r \in RRset, NEW t \in Target, RecordsOf(w)[r][t] # NotLive
      PROVE  HasLive(w, r)
  <2>1. PICK e \in w : e.rrset = r /\ t \in targetSet(e.targets)
    BY <1>2, HasHolder
  <2>2. e.targets # <<>>
    BY <2>1 DEF targetSet
  <2> QED
    BY <2>1, <2>2 DEF HasLive
<1>3. \E w \in Worlds : Live(records) \subseteq Live(RecordsOf(w))
  <2>1. CASE Live(records) \subseteq Live(had)
    BY <1>1, <2>1
  <2>2. CASE \A i \in DOMAIN todo : todo[i].action # "delete"
    <3>1. ASSUME NEW r \in RRset, NEW t \in Target, records[r][t] # NotLive
          PROVE  wants[r][t] # NotLive
      <4>1. CASE \E i \in DOMAIN todo : todo[i].rrset = r /\ todo[i].target = t
        BY <2>2, <4>1 DEF IInv, OpsFit, Fits
      <4>2. CASE ~\E i \in DOMAIN todo : todo[i].rrset = r /\ todo[i].target = t
        BY <3>1, <4>2 DEF IInv, Settled
      <4> QED
        BY <4>1, <4>2
    <3>2. Live(records) \subseteq Live(wants)
      BY <3>1 DEF Live
    <3> QED
      BY <1>1, <3>2
  <2> QED
    BY <2>1, <2>2 DEF IInv, DeletesFirst
<1>4. PICK w \in Worlds : Live(records) \subseteq Live(RecordsOf(w))
  BY <1>3
<1>5. ASSUME NEW pair \in Exclusive, NEW t \in Target, NEW u \in Target,
             records[pair[1]][t] # NotLive, records[pair[2]][u] # NotLive
      PROVE  FALSE
  <2>1. pair[1] \in RRset /\ pair[2] \in RRset
    BY WorldsAssumption
  <2>2. <<pair[1], t>> \in Live(records) /\ <<pair[2], u>> \in Live(records)
    BY <1>5, <2>1 DEF Live
  <2>3. RecordsOf(w)[pair[1]][t] # NotLive /\ RecordsOf(w)[pair[2]][u] # NotLive
    BY <1>4, <2>2 DEF Live
  <2>4. HasLive(w, pair[1]) /\ HasLive(w, pair[2])
    BY <1>2, <2>1, <2>3
  <2> QED
    BY <2>4, WorldsAssumption
<1> QED
  BY <1>5 DEF NoTransientConflict

\* A record live before and wanted after has at most an update left.
LEMMA IInvNoGap == IInv => NoGap
<1> SUFFICES ASSUME IInv PROVE NoGap
  OBVIOUS
<1>1. ASSUME NEW r \in RRset, NEW t \in Target,
             RecordsOf(before)[r][t] # NotLive, RecordsOf(after)[r][t] # NotLive
      PROVE  records[r][t] # NotLive
  <2>1. CASE \E i \in DOMAIN todo : todo[i].rrset = r /\ todo[i].target = t
    BY <1>1, <2>1 DEF IInv, OpsFit, Fits
  <2>2. CASE ~\E i \in DOMAIN todo : todo[i].rrset = r /\ todo[i].target = t
    BY <1>1, <2>2 DEF IInv, Settled
  <2> QED
    BY <2>1, <2>2
<1> QED
  BY <1>1 DEF NoGap, Live

\* The next operation meets its record as it was before the plan.
LEMMA IInvEffective == IInv => EachOpEffective
<1> SUFFICES ASSUME IInv, todo # <<>> PROVE
      (Head(todo).action = "create")
        <=> (records[Head(todo).rrset][Head(todo).target] = NotLive)
  BY DEF EachOpEffective
<1>1. todo \in Seq(Op)
  BY DEF IInv, TypeOK
<1>2. Head(todo) = todo[1] /\ 1 \in DOMAIN todo
  BY <1>1, HeadAndTail
<1>3. Fits(todo[1])
  BY <1>2 DEF IInv, OpsFit
<1> QED
  BY <1>2, <1>3 DEF Fits

\* A finished plan leaves exactly the desired records, each with the desired
\* TTL where one is configured (planChanges, diffTargets).
THEOREM PlanReachesDesired == Spec => []ReachesDesired
BY PlanInvariance, IInvReaches, PTL

\* No plan between two worlds without a CNAME conflict passes through one
\* (planChanges, provider.go:340-341).
THEOREM NoTransientConflictEver == Spec => []NoTransientConflict
BY PlanInvariance, IInvNoConflict, PTL

\* A record that is wanted before and after a plan stays in the zone all the
\* time (diffTargets).
THEOREM NoGapEver == Spec => []NoGap
BY PlanInvariance, IInvNoGap, PTL

\* No operation of a plan is redundant (planChanges, unmatchedDeletes).
THEOREM EveryOpEffective == Spec => []EachOpEffective
BY PlanInvariance, IInvEffective, PTL
=============================================================================
