-------------------------- MODULE ChangePlanProofs --------------------------
(***************************************************************************)
(* Proofs about ChangePlan, for any changes: what the operators that the   *)
(* plan is put together from return, and the order of the whole.           *)
(***************************************************************************)
EXTENDS ExternalDNS, SequenceProofs

-----------------------------------------------------------------------------
(* Selected operations: Among is a recursive function too.                 *)

\* What one step of the selection does: it keeps an operation or leaves it out.
Grows(ops, T, n, f) ==
  /\ f[0] = <<>>
  /\ \A m \in Nat : m + 1 \in 1..n =>
       f[m + 1] = IF ops[m + 1].target \in T THEN Append(f[m], ops[m + 1]) ELSE f[m]

\* Among is the last of the selections.
LEMMA AmongGrows ==
  ASSUME NEW ops, NEW T, Len(ops) \in Nat
  PROVE  \E f : Grows(ops, T, Len(ops), f) /\ Among(ops, T) = f[Len(ops)]
<1> DEFINE n == Len(ops)
           I == {i \in 0..n : ops[i].target \in T}
           Step(f, i) == IF i = 0 THEN <<>>
                         ELSE IF ops[i].target \in T THEN Append(f[i - 1], ops[i])
                         ELSE f[i - 1]
           P(f) == f = [i \in 0..n |-> Step(f, i)]
           g == CHOOSE f : P(f)
<1>1. PICK f : Selects(ops, I, n, f)
  BY SelectsExist
<1>2. \A i \in 0..n : Selected(ops, I, f, i) = Step(f, i)
  BY DEF Selected
<1>3. P(f)
  <2> HIDE DEF Step
  <2> QED
    BY <1>1, <1>2, Zenon DEF Selects
<1>4. P(g)
  BY <1>3, Zenon
<1>5. Among(ops, T) = g[n]
  BY DEF Among
<1>6. \A i \in 0..n : g[i] = Step(g, i)
  <2> HIDE DEF Step, g
  <2> QED
    BY <1>4, Zenon
<1>7. 0 \in 0..n /\ \A m \in Nat : m + 1 \in 1..n => m + 1 \in 0..n /\ m + 1 # 0 /\ (m + 1) - 1 = m
  OBVIOUS
<1> HIDE DEF g
<1>8. Grows(ops, T, n, g)
  BY <1>6, <1>7 DEF Grows
<1> QED
  BY <1>5, <1>8

-----------------------------------------------------------------------------
(* The lists of operations the plan is put together from.                  *)

\* The operation on one target of an endpoint, and those on a set of them.
OpOn(action, ep, t) ==
  [action |-> action, rrset |-> ep.rrset, target |-> t, ttl |-> ep.ttl]
OpsOn(action, ep, T) == {OpOn(action, ep, t) : t \in T}

\* OpsFor lists one operation per target (createsFor, deletesFor).
LEMMA OpsForEnum ==
  ASSUME NEW action, NEW ep \in Endpoint, IsInjective(ep.targets)
  PROVE  Enumerates(OpsFor(action, ep), OpsOn(action, ep, targetSet(ep.targets)))
<1> DEFINE s == OpsFor(action, ep)
           R == OpsOn(action, ep, targetSet(ep.targets))
<1>1. ep.targets \in Seq(Target)
  BY DEF Endpoint
<1>2. s = [i \in 1..Len(ep.targets) |-> OpOn(action, ep, ep.targets[i])]
  BY <1>1 DEF OpsFor, OpOn
<1>3. Len(ep.targets) \in Nat /\ DOMAIN ep.targets = 1..Len(ep.targets)
  BY <1>1
<1>4. \A i \in 1..Len(ep.targets) : s[i] \in R
  BY <1>2, <1>3 DEF OpsOn, targetSet
<1>5. s \in Seq(R) /\ Len(s) = Len(ep.targets)
  BY <1>2, <1>3, <1>4
<1>6. \A x \in R : \E i \in 1..Len(s) : s[i] = x
  BY <1>2, <1>3, <1>5 DEF OpsOn, targetSet
<1>7. \A i, j \in 1..Len(s) : s[i] = s[j] => i = j
  BY <1>2, <1>3, <1>5 DEF IsInjective, OpOn
<1> QED
  BY <1>5, <1>6, <1>7 DEF Enumerates

\* Among keeps the operations on some of the targets (diffTargets).
LEMMA AmongEnum ==
  ASSUME NEW ops, NEW R, Enumerates(ops, R), NEW T
  PROVE  Enumerates(Among(ops, T), {op \in R : op.target \in T})
<1> DEFINE n == Len(ops)
           On(m) == {op \in {ops[i] : i \in 1..m} : op.target \in T}
<1>1. ops \in Seq(R) /\ n \in Nat
  BY DEF Enumerates
<1>2. PICK f : Grows(ops, T, n, f) /\ Among(ops, T) = f[n]
  BY <1>1, AmongGrows
<1> DEFINE N == {m \in Nat : m <= n => Enumerates(f[m], On(m))}
<1>3. 0 \in N
  <2>1. f[0] = <<>>
    BY <1>2 DEF Grows
  <2>2. On(0) = {}
    OBVIOUS
  <2> HIDE DEF On
  <2> QED
    BY <2>1, <2>2, EnumEmpty
<1>4. ASSUME NEW m \in Nat, m \in N PROVE m + 1 \in N
  <2>1. SUFFICES ASSUME m + 1 <= n PROVE Enumerates(f[m + 1], On(m + 1))
    OBVIOUS
  <2>2. Enumerates(f[m], On(m))
    BY <1>1, <1>4, <2>1
  <2>3. m + 1 \in 1..n
    BY <1>1, <2>1
  <2>4. 1..(m + 1) = 1..m \cup {m + 1}
    OBVIOUS
  <2>5. f[m + 1] = IF ops[m + 1].target \in T THEN Append(f[m], ops[m + 1]) ELSE f[m]
    BY <1>2, <2>3 DEF Grows
  <2>6. CASE ops[m + 1].target \in T
    <3>1. On(m + 1) = On(m) \cup {ops[m + 1]}
      BY <2>4, <2>6
    <3>2. On(m) \cap {ops[m + 1]} = {}
      <4>1. \A i \in 1..m : i \in 1..n /\ i # m + 1
        BY <1>1, <2>1
      <4>2. \A i \in 1..m : ops[i] # ops[m + 1]
        BY <2>3, <4>1 DEF Enumerates
      <4> QED
        BY <4>2
    <3> HIDE DEF On
    <3>3. Enumerates(f[m] \o <<ops[m + 1]>>, On(m) \cup {ops[m + 1]})
      BY <2>2, <3>2, EnumOne, EnumConcat
    <3>4. Append(f[m], ops[m + 1]) = f[m] \o <<ops[m + 1]>>
      <4>1. f[m] \in Seq(R) /\ ops[m + 1] \in R
        <5>1. On(m) \subseteq R
          BY <1>1, <2>3 DEF On
        <5>2. f[m] \in Seq(On(m))
          BY <2>2 DEF Enumerates
        <5>3. ops[m + 1] \in R
          BY <1>1, <2>3
        <5> HIDE DEF On
        <5> QED
          BY <5>1, <5>2, <5>3
      <4> QED
        BY <4>1, AppendIsConcat
    <3> QED
      BY <2>5, <2>6, <3>1, <3>3, <3>4
  <2>7. CASE ops[m + 1].target \notin T
    <3>1. On(m + 1) = On(m)
      BY <2>4, <2>7
    <3> HIDE DEF On
    <3> QED
      BY <2>2, <2>5, <2>7, <3>1
  <2> QED
    BY <2>6, <2>7
<1>5. n \in N
  <2> HIDE DEF N, n
  <2>1. Nat \subseteq N
    BY <1>3, <1>4, Induction
  <2> QED
    BY <1>1, <2>1, Zenon
<1>6. {ops[i] : i \in 1..n} = R
  <2>1. \A i \in 1..n : ops[i] \in R
    BY <1>1 DEF Enumerates
  <2>2. \A x \in R : \E i \in 1..n : ops[i] = x
    BY DEF Enumerates
  <2> HIDE DEF n
  <2> QED
    BY <2>1, <2>2
<1>7. On(n) = {op \in R : op.target \in T}
  BY <1>6
<1>8. Enumerates(f[n], On(n))
  BY <1>1, <1>5
<1> HIDE DEF n, On
<1> QED
  BY <1>2, <1>7, <1>8

\* ss holds the operations of several endpoints, those of e in E on the
\* endpoint P[e] and its targets T[e], no two of them about the same record.
Gathers(ss, eps, E, action, P, T) ==
  /\ Enumerates(eps, E)
  /\ \A e, f \in E : P[e].rrset = P[f].rrset /\ T[e] \cap T[f] # {} => e = f
  /\ DOMAIN ss = DOMAIN eps
  /\ \A i \in DOMAIN eps : Enumerates(ss[i], OpsOn(action, P[eps[i]], T[eps[i]]))

\* What such a sequence lists once it is flattened.
LEMMA CollectEnum ==
  ASSUME NEW eps, NEW E, NEW action, NEW P, NEW T, NEW ss,
         Gathers(ss, eps, E, action, P, T)
  PROVE  Enumerates(FlattenSeq(ss), UNION {OpsOn(action, P[e], T[e]) : e \in E})
<1> USE DEF Gathers
<1> DEFINE n == Len(eps)
           Q == [i \in 1..n |-> OpsOn(action, P[eps[i]], T[eps[i]])]
<1>1. eps \in Seq(E) /\ n \in Nat /\ DOMAIN eps = 1..n /\ \A i \in 1..n : eps[i] \in E
  BY DEF Enumerates
<1>2. Len(ss) = n
  BY <1>1
<1>3. n = 0 => ss = <<>>
  BY <1>1
<1>4. ASSUME NEW i \in 1..n, NEW j \in 1..n, Q[i] \cap Q[j] # {} PROVE i = j
  <2>1. PICK x : x \in Q[i] /\ x \in Q[j]
    BY <1>4
  <2>2. PICK t \in T[eps[i]] : x = OpOn(action, P[eps[i]], t)
    BY <2>1 DEF OpsOn
  <2>3. PICK u \in T[eps[j]] : x = OpOn(action, P[eps[j]], u)
    BY <2>1 DEF OpsOn
  <2>4. P[eps[i]].rrset = P[eps[j]].rrset /\ t = u
    BY <2>2, <2>3 DEF OpOn
  <2>5. eps[i] = eps[j]
    BY <1>1, <2>4
  <2> QED
    BY <1>1, <2>5 DEF Enumerates
<1>5. /\ \A i \in 1..n : Enumerates(ss[i], Q[i])
      /\ \A i, j \in 1..n : i # j => Q[i] \cap Q[j] = {}
  BY <1>1, <1>4
<1>6. UNION {Q[i] : i \in 1..n} = UNION {OpsOn(action, P[e], T[e]) : e \in E}
  <2>1. ASSUME NEW e \in E PROVE \E i \in 1..n : Q[i] = OpsOn(action, P[e], T[e])
    <3>1. PICK i \in 1..n : eps[i] = e
      BY DEF Enumerates
    <3> QED
      BY <3>1
  <2>2. ASSUME NEW i \in 1..n PROVE \E e \in E : Q[i] = OpsOn(action, P[e], T[e])
    BY <1>1
  <2> HIDE DEF Q
  <2> QED
    BY <2>1, <2>2, SMTT(30)
<1> HIDE DEF n, Q
<1>7. Enumerates(FlattenSeq(ss), UNION {Q[i] : i \in 1..n})
  BY <1>1, <1>2, <1>3, <1>5, EnumFlatten
<1> QED
  BY <1>6, <1>7

-----------------------------------------------------------------------------
(* Which operations a plan holds, and in which order, for any changes.      *)

ActionOps(action) == {op \in Op : op.action = action}

\* What every endpoint contributes, put together, for sequences of endpoints.
LEMMA CollectType ==
  ASSUME NEW S, NEW eps \in Seq(Endpoint), NEW ss, DOMAIN ss = DOMAIN eps,
         \A i \in DOMAIN eps : ss[i] \in Seq(S)
  PROVE  FlattenSeq(ss) \in Seq(S)
<1>1. Len(eps) \in Nat /\ DOMAIN eps = 1..Len(eps) /\ Len(ss) = Len(eps)
  OBVIOUS
<1>2. Len(eps) = 0 => ss = <<>>
  BY <1>1
<1> QED
  BY <1>1, <1>2, FlattenType

\* OpsFor lists operations of the action it is given.
LEMMA OpsForType ==
  ASSUME NEW action \in Action, NEW ep \in Endpoint
  PROVE  OpsFor(action, ep) \in Seq(ActionOps(action))
<1>1. ep.targets \in Seq(Target) /\ ep.rrset \in RRset /\ ep.ttl \in TTL
  BY DEF Endpoint
<1>2. \A i \in 1..Len(ep.targets) : ep.targets[i] \in Target
  BY <1>1
<1>3. OpsFor(action, ep) = [i \in 1..Len(ep.targets) |-> OpOn(action, ep, ep.targets[i])]
  BY <1>1 DEF OpsFor, OpOn
<1>4. \A i \in 1..Len(ep.targets) : OpOn(action, ep, ep.targets[i]) \in ActionOps(action)
  BY <1>1, <1>2 DEF OpOn, ActionOps, Op
<1> QED
  BY <1>1, <1>3, <1>4

\* Among only leaves operations out.
LEMMA AmongType ==
  ASSUME NEW S, NEW ops \in Seq(S), NEW T
  PROVE  Among(ops, T) \in Seq(S)
<1>1. Len(ops) \in Nat
  OBVIOUS
<1>2. PICK f : Grows(ops, T, Len(ops), f) /\ Among(ops, T) = f[Len(ops)]
  BY <1>1, AmongGrows
<1> DEFINE N == {m \in Nat : m <= Len(ops) => f[m] \in Seq(S)}
<1>3. 0 \in N
  <2>1. f[0] = <<>>
    BY <1>2 DEF Grows
  <2>2. f[0] \in Seq(S)
    <3>1. <<>> \in Seq(S)
      OBVIOUS
    <3> QED
      BY <2>1, <3>1, Zenon
  <2> QED
    BY <2>2, Zenon
<1>4. ASSUME NEW m \in Nat, m \in N PROVE m + 1 \in N
  <2>1. SUFFICES ASSUME m + 1 <= Len(ops) PROVE f[m + 1] \in Seq(S)
    OBVIOUS
  <2>2. f[m] \in Seq(S) /\ m + 1 \in 1..Len(ops) /\ ops[m + 1] \in S
    BY <1>1, <1>4, <2>1
  <2>3. f[m + 1] = IF ops[m + 1].target \in T THEN Append(f[m], ops[m + 1]) ELSE f[m]
    BY <1>2, <2>2 DEF Grows
  <2> QED
    BY <2>2, <2>3
<1>5. Len(ops) \in N
  <2> HIDE DEF N
  <2>1. Nat \subseteq N
    BY <1>3, <1>4, Induction
  <2> QED
    BY <1>1, <2>1, Zenon
<1> QED
  BY <1>1, <1>2, <1>5

\* diffTargets sorts its operations into creates, updates and deletes.
LEMMA DiffTargetsType ==
  ASSUME NEW prev \in Endpoint, NEW ep \in Endpoint
  PROVE  LET diff == diffTargets(prev, ep)
         IN /\ diff.creates \in Seq(ActionOps("create"))
            /\ diff.updates \in Seq(ActionOps("update"))
            /\ diff.deletes \in Seq(ActionOps("delete"))
<1>1. /\ OpsFor("create", ep) \in Seq(ActionOps("create"))
      /\ OpsFor("update", ep) \in Seq(ActionOps("update"))
      /\ OpsFor("delete", prev) \in Seq(ActionOps("delete"))
  BY OpsForType DEF Action
<1>2. \A T : /\ Among(OpsFor("create", ep), T) \in Seq(ActionOps("create"))
             /\ Among(OpsFor("update", ep), T) \in Seq(ActionOps("update"))
             /\ Among(OpsFor("delete", prev), T) \in Seq(ActionOps("delete"))
  BY <1>1, AmongType
<1> QED
  BY <1>2 DEF diffTargets, createsFor, deletesFor

\* indexByKey maps a key to one of the endpoints that have it, the last one.
LEMMA IndexByKeyLast ==
  ASSUME NEW eps \in Seq(Endpoint), NEW k \in KeysIn(eps)
  PROVE  \E i \in DOMAIN eps : changeKey(eps[i]) = k /\ indexByKey(eps)[k] = eps[i]
<1> DEFINE n == Len(eps)
           T == {m \in Nat : m < n /\ changeKey(eps[n - m]) = k}
           IsLast(i) == /\ changeKey(eps[i]) = k
                        /\ \A j \in DOMAIN eps : j > i => changeKey(eps[j]) # k
<1>1. n \in Nat /\ DOMAIN eps = 1..n
  OBVIOUS
<1>2. PICK j \in 1..n : changeKey(eps[j]) = k
  BY <1>1 DEF KeysIn
<1>3. n - j \in T
  <2>1. n - (n - j) = j
    BY <1>1
  <2> QED
    BY <1>1, <1>2, <2>1
<1>4. PICK m \in T : \A l \in T : m <= l
  <2> HIDE DEF T
  <2>1. T \in SUBSET Nat
    BY DEF T
  <2> QED
    BY <1>3, <2>1, LeastNat
<1>5. n - m \in 1..n /\ changeKey(eps[n - m]) = k
  BY <1>1, <1>4
<1>6. ASSUME NEW l \in 1..n, l > n - m PROVE changeKey(eps[l]) # k
  <2>1. n - l \in Nat /\ n - l < n /\ n - (n - l) = l /\ ~(m <= n - l)
    BY <1>1, <1>4, <1>6
  <2> QED
    BY <1>4, <2>1
<1>7. IsLast(n - m) /\ n - m \in DOMAIN eps
  BY <1>1, <1>5, <1>6
<1>8. indexByKey(eps)[k] = eps[CHOOSE i \in DOMAIN eps : IsLast(i)]
  BY DEF indexByKey
<1>9. \E i \in DOMAIN eps : IsLast(i)
  <2> HIDE DEF IsLast
  <2> QED
    BY <1>7
<1>10. PICK i \in DOMAIN eps : IsLast(i) /\ indexByKey(eps)[k] = eps[i]
  <2> HIDE DEF IsLast
  <2> QED
    BY <1>8, <1>9
<1> QED
  BY <1>10

\* diffUpdates sorts the operations of all pairs in the same way.
LEMMA DiffUpdatesType ==
  ASSUME NEW news \in Seq(Endpoint), NEW olds \in Seq(Endpoint)
  PROVE  LET diff == diffUpdates(news, indexByKey(olds))
         IN /\ diff.creates \in Seq(ActionOps("create"))
            /\ diff.updates \in Seq(ActionOps("update"))
            /\ diff.deletes \in Seq(ActionOps("delete"))
<1> DEFINE old == indexByKey(olds)
           diff == [i \in DOMAIN news |->
                     IF Matched(news, old, i)
                     THEN diffTargets(old[changeKey(news[i])], news[i])
                     ELSE [creates |-> createsFor(news[i]),
                           updates |-> <<>>, deletes |-> <<>>]]
<1>1. ASSUME NEW i \in DOMAIN news
      PROVE  /\ diff[i].creates \in Seq(ActionOps("create"))
             /\ diff[i].updates \in Seq(ActionOps("update"))
             /\ diff[i].deletes \in Seq(ActionOps("delete"))
  <2>1. news[i] \in Endpoint
    OBVIOUS
  <2>2. CASE Matched(news, old, i)
    <3>1. diff[i] = diffTargets(old[changeKey(news[i])], news[i])
      BY <2>2
    <3>2. changeKey(news[i]) \in KeysIn(olds)
      BY <2>2 DEF Matched, indexByKey
    <3>3. old[changeKey(news[i])] \in Endpoint
      BY <3>2, IndexByKeyLast
    <3> HIDE DEF diff, old
    <3> QED
      BY <2>1, <3>1, <3>3, DiffTargetsType
  <2>3. CASE ~Matched(news, old, i)
    <3>1. diff[i] = [creates |-> createsFor(news[i]), updates |-> <<>>, deletes |-> <<>>]
      BY <2>3
    <3>2. createsFor(news[i]) \in Seq(ActionOps("create"))
      BY <2>1, OpsForType DEF createsFor, Action
    <3> HIDE DEF diff
    <3> QED
      BY <3>1, <3>2
  <2> QED
    BY <2>2, <2>3
<1>2. /\ diffUpdates(news, old).creates = FlattenSeq([i \in DOMAIN diff |-> diff[i].creates])
      /\ diffUpdates(news, old).updates = FlattenSeq([i \in DOMAIN diff |-> diff[i].updates])
      /\ diffUpdates(news, old).deletes = FlattenSeq([i \in DOMAIN diff |-> diff[i].deletes])
  BY DEF diffUpdates
<1>3. DOMAIN diff = DOMAIN news
  OBVIOUS
<1> HIDE DEF diff, old
<1>4. FlattenSeq([i \in DOMAIN diff |-> diff[i].creates]) \in Seq(ActionOps("create"))
  <2> DEFINE ss == [i \in DOMAIN diff |-> diff[i].creates]
  <2>1. DOMAIN ss = DOMAIN news /\ \A i \in DOMAIN news : ss[i] \in Seq(ActionOps("create"))
    BY <1>1, <1>3
  <2> HIDE DEF ss
  <2> QED
    BY <2>1, CollectType DEF ss
<1>5. FlattenSeq([i \in DOMAIN diff |-> diff[i].updates]) \in Seq(ActionOps("update"))
  <2> DEFINE ss == [i \in DOMAIN diff |-> diff[i].updates]
  <2>1. DOMAIN ss = DOMAIN news /\ \A i \in DOMAIN news : ss[i] \in Seq(ActionOps("update"))
    BY <1>1, <1>3
  <2> HIDE DEF ss
  <2> QED
    BY <2>1, CollectType DEF ss
<1>6. FlattenSeq([i \in DOMAIN diff |-> diff[i].deletes]) \in Seq(ActionOps("delete"))
  <2> DEFINE ss == [i \in DOMAIN diff |-> diff[i].deletes]
  <2>1. DOMAIN ss = DOMAIN news /\ \A i \in DOMAIN news : ss[i] \in Seq(ActionOps("delete"))
    BY <1>1, <1>3
  <2> HIDE DEF ss
  <2> QED
    BY <2>1, CollectType DEF ss
<1> QED
  BY <1>2, <1>4, <1>5, <1>6 DEF old

\* deletesFromAll, createsFromAll and unmatchedDeletes hold one action each.
LEMMA FromAllType ==
  ASSUME NEW eps \in Seq(Endpoint), NEW news
  PROVE  /\ deletesFromAll(eps) \in Seq(ActionOps("delete"))
         /\ createsFromAll(eps) \in Seq(ActionOps("create"))
         /\ unmatchedDeletes(eps, news) \in Seq(ActionOps("delete"))
<1>1. ASSUME NEW i \in DOMAIN eps
      PROVE  /\ deletesFor(eps[i]) \in Seq(ActionOps("delete"))
             /\ createsFor(eps[i]) \in Seq(ActionOps("create"))
  <2>1. eps[i] \in Endpoint
    OBVIOUS
  <2> QED
    BY <2>1, OpsForType DEF deletesFor, createsFor, Action
<1> DEFINE d == [i \in DOMAIN eps |-> deletesFor(eps[i])]
           c == [i \in DOMAIN eps |-> createsFor(eps[i])]
           u == [i \in DOMAIN eps |-> IF changeKey(eps[i]) \in KeysIn(news) THEN <<>>
                                      ELSE deletesFor(eps[i])]
<1>2. /\ DOMAIN d = DOMAIN eps /\ \A i \in DOMAIN eps : d[i] \in Seq(ActionOps("delete"))
      /\ DOMAIN c = DOMAIN eps /\ \A i \in DOMAIN eps : c[i] \in Seq(ActionOps("create"))
      /\ DOMAIN u = DOMAIN eps /\ \A i \in DOMAIN eps : u[i] \in Seq(ActionOps("delete"))
  BY <1>1
<1>3. /\ deletesFromAll(eps) = FlattenSeq(d)
      /\ createsFromAll(eps) = FlattenSeq(c)
      /\ unmatchedDeletes(eps, news) = FlattenSeq(u)
  BY DEF deletesFromAll, createsFromAll, unmatchedDeletes
<1> HIDE DEF d, c, u
<1> QED
  BY <1>2, <1>3, CollectType

\* A plan lists all its deletes, then its updates, then its creates, whatever
\* the changes are: also with repeated keys or targets (planChanges).
THEOREM PlanOrder ==
  ASSUME NEW changes \in Changes
  PROVE  \E d \in Seq(ActionOps("delete")), u \in Seq(ActionOps("update")),
            c \in Seq(ActionOps("create")) : planChanges(changes) = d \o u \o c
<1>1. /\ changes.create \in Seq(Endpoint) /\ changes.updateOld \in Seq(Endpoint)
      /\ changes.updateNew \in Seq(Endpoint) /\ changes.delete \in Seq(Endpoint)
  BY DEF Changes
<1> DEFINE diff == diffUpdates(changes.updateNew, indexByKey(changes.updateOld))
           stale == unmatchedDeletes(changes.updateOld, changes.updateNew)
           gone == deletesFromAll(changes.delete)
           new == createsFromAll(changes.create)
<1>2. /\ diff.creates \in Seq(ActionOps("create"))
      /\ diff.updates \in Seq(ActionOps("update"))
      /\ diff.deletes \in Seq(ActionOps("delete"))
  BY <1>1, DiffUpdatesType
<1>3. /\ stale \in Seq(ActionOps("delete")) /\ gone \in Seq(ActionOps("delete"))
      /\ new \in Seq(ActionOps("create"))
  BY <1>1, FromAllType
<1>4. planChanges(changes) =
        diff.deletes \o stale \o gone \o diff.updates \o diff.creates \o new
  BY DEF planChanges
<1> HIDE DEF diff, stale, gone, new
<1> DEFINE d == diff.deletes \o stale \o gone
           c == diff.creates \o new
<1>5. d \in Seq(ActionOps("delete")) /\ c \in Seq(ActionOps("create"))
  BY <1>2, <1>3
<1>6. planChanges(changes) = d \o diff.updates \o c
  <2>1. \A a : ActionOps(a) \subseteq Op
    BY DEF ActionOps
  <2>2. /\ d \in Seq(Op) /\ diff.updates \in Seq(Op) /\ diff.creates \in Seq(Op)
        /\ new \in Seq(Op)
    <3> HIDE DEF d, c
    <3> QED
      BY <1>2, <1>3, <1>5, <2>1, SeqMonotone
  <2> DEFINE p == d \o diff.updates
             q == diff.creates
  <2>3. p \in Seq(Op) /\ q \in Seq(Op) /\ new \in Seq(Op)
    BY <2>2
  <2>4. (p \o q) \o new = p \o (q \o new)
    <3> HIDE DEF p, q
    <3>1. \A a, b, e \in Seq(Op) : (a \o b) \o e = a \o (b \o e)
      BY ConcatAssoc, SMTT(30)
    <3> QED
      BY <2>3, <3>1, ZenonT(30)
  <2> QED
    BY <1>4, <2>4 DEF d
<1> HIDE DEF d, c
<1> QED
  BY <1>2, <1>5, <1>6

-----------------------------------------------------------------------------
(* The plan between two sets of endpoints.                                 *)

\* Endpoints with different targets need an update (SameTargets counts them).
LEMMA OtherTargetsNeedUpdate ==
  ASSUME NEW e \in Endpoint, NEW f \in Endpoint, NEW t,
         t \in targetSet(e.targets) <=> t \notin targetSet(f.targets)
  PROVE  NeedsUpdate(e, f)
<1>1. e.targets \in Seq(Target) /\ f.targets \in Seq(Target)
  BY DEF Endpoint
<1>2. ASSUME NEW s \in Seq(Target)
      PROVE  Occurrences(s, t) = 0 <=> t \notin targetSet(s)
  <2> DEFINE I == {i \in DOMAIN s : s[i] = t}
  <2>1. IsFiniteSet(1..Len(s)) /\ DOMAIN s = 1..Len(s)
    BY FS_Interval
  <2>2. IsFiniteSet(I)
    BY <2>1, FS_Subset
  <2>3. Cardinality(I) = 0 <=> I = {}
    BY <2>2, FS_EmptySet
  <2> QED
    BY <2>3 DEF Occurrences, targetSet
<1>3. Occurrences(e.targets, t) # Occurrences(f.targets, t)
  BY <1>1, <1>2
<1> QED
  BY <1>3 DEF NeedsUpdate, SameTargets

\* The parts of a plan: the pairs of old and new endpoints that need an update,
\* their targets, and the operations on them.
Stale(b, a) == {pair \in b \X a : /\ changeKey(pair[1]) = changeKey(pair[2])
                                  /\ NeedsUpdate(pair[1], pair[2])}
OldEnds(b, a) == {pair[1] : pair \in Stale(b, a)}
NewEnds(b, a) == {pair[2] : pair \in Stale(b, a)}
Missing(eps, from) == {ep \in eps : changeKey(ep) \notin {changeKey(other) : other \in from}}

Dropped(pair) == targetSet(pair[1].targets) \ targetSet(pair[2].targets)
Added(pair) == targetSet(pair[2].targets) \ targetSet(pair[1].targets)
Kept(pair) == IF pair[1].ttl = pair[2].ttl THEN {}
              ELSE targetSet(pair[2].targets) \cap targetSet(pair[1].targets)

DropOps(b, a) == UNION {OpsOn("delete", pair[1], Dropped(pair)) : pair \in Stale(b, a)}
KeepOps(b, a) == UNION {OpsOn("update", pair[2], Kept(pair)) : pair \in Stale(b, a)}
AddOps(b, a) == UNION {OpsOn("create", pair[2], Added(pair)) : pair \in Stale(b, a)}
AllOps(action, eps) == UNION {OpsOn(action, e, targetSet(e.targets)) : e \in eps}

\* The sets Calculate lists are finite.
LEMMA FiniteEnds ==
  ASSUME NEW b, NEW a, AreEndpoints(b), AreEndpoints(a)
  PROVE  /\ IsFiniteSet(OldEnds(b, a)) /\ OldEnds(b, a) \subseteq b
         /\ IsFiniteSet(NewEnds(b, a)) /\ NewEnds(b, a) \subseteq a
         /\ IsFiniteSet(Missing(b, a)) /\ Missing(b, a) \subseteq b
<1>1. IsFiniteSet(a) /\ IsFiniteSet(b)
  BY DEF AreEndpoints
<1>2. /\ OldEnds(b, a) \subseteq b /\ NewEnds(b, a) \subseteq a
      /\ Missing(b, a) \subseteq b
  BY DEF OldEnds, NewEnds, Missing, Stale
<1> QED
  BY <1>1, <1>2, FS_Subset

\* The index of the old endpoints gives each new endpoint its counterpart.
LEMMA Counterpart ==
  ASSUME NEW b, NEW a, AreEndpoints(b), AreEndpoints(a),
         NEW olds, Enumerates(olds, OldEnds(b, a)),
         NEW pair \in Stale(b, a)
  PROVE  /\ changeKey(pair[2]) \in KeysIn(olds)
         /\ indexByKey(olds)[changeKey(pair[2])] = pair[1]
<1>1. /\ pair[1] \in b /\ pair[2] \in a /\ changeKey(pair[1]) = changeKey(pair[2])
      /\ pair[1] \in OldEnds(b, a)
  BY DEF Stale, OldEnds
<1>2. OldEnds(b, a) \subseteq b /\ b \subseteq Endpoint
  BY FiniteEnds DEF AreEndpoints
<1>3. olds \in Seq(OldEnds(b, a)) /\ DOMAIN olds = 1..Len(olds)
  BY DEF Enumerates
<1>4. olds \in Seq(Endpoint)
  BY <1>2, <1>3, SeqMonotone
<1>5. changeKey(pair[2]) \in KeysIn(olds)
  BY <1>1, <1>3 DEF Enumerates, KeysIn
<1>6. PICK i \in DOMAIN olds : /\ changeKey(olds[i]) = changeKey(pair[2])
                               /\ indexByKey(olds)[changeKey(pair[2])] = olds[i]
  BY <1>4, <1>5, IndexByKeyLast
<1>7. olds[i] \in b
  BY <1>2, <1>3
<1>8. olds[i] = pair[1]
  BY <1>1, <1>6, <1>7, Zenon DEF AreEndpoints
<1> QED
  BY <1>5, <1>6, <1>8

\* Every new endpoint is matched, as keys are distinct.
LEMMA AllMatched ==
  ASSUME NEW b, NEW a, AreEndpoints(b), AreEndpoints(a),
         NEW olds, Enumerates(olds, OldEnds(b, a)),
         NEW news, Enumerates(news, NewEnds(b, a)), NEW i \in DOMAIN news
  PROVE  /\ Matched(news, indexByKey(olds), i)
         /\ <<indexByKey(olds)[changeKey(news[i])], news[i]>> \in Stale(b, a)
<1>1. /\ news \in Seq(NewEnds(b, a)) /\ DOMAIN news = 1..Len(news) /\ Len(news) \in Nat
      /\ \A j \in DOMAIN news : news[j] \in NewEnds(b, a)
  BY DEF Enumerates
<1>2. NewEnds(b, a) \subseteq a
  BY FiniteEnds
<1>3. PICK pair \in Stale(b, a) : news[i] = pair[2]
  BY <1>1 DEF NewEnds
<1>4. /\ changeKey(news[i]) \in KeysIn(olds)
      /\ indexByKey(olds)[changeKey(news[i])] = pair[1]
  BY <1>3, Counterpart
<1>5. ASSUME NEW j \in 1 .. i - 1 PROVE changeKey(news[j]) # changeKey(news[i])
  <2>1. j \in DOMAIN news /\ j # i
    BY <1>1
  <2>2. news[j] \in a /\ news[i] \in a /\ news[j] # news[i]
    BY <1>1, <1>2, <2>1 DEF Enumerates
  <2> QED
    BY <2>2, Zenon DEF AreEndpoints
<1>6. DOMAIN indexByKey(olds) = KeysIn(olds)
  BY DEF indexByKey
<1>7. pair = <<pair[1], pair[2]>>
  BY DEF Stale
<1> QED
  BY <1>3, <1>4, <1>5, <1>6, <1>7 DEF Matched

\* Every old endpoint is matched.
LEMMA NothingUnmatched ==
  ASSUME NEW b, NEW a, AreEndpoints(b), AreEndpoints(a),
         NEW olds, Enumerates(olds, OldEnds(b, a)),
         NEW news, Enumerates(news, NewEnds(b, a))
  PROVE  Enumerates(unmatchedDeletes(olds, news), {})
<1> DEFINE us == [i \in DOMAIN olds |-> IF changeKey(olds[i]) \in KeysIn(news) THEN <<>>
                                        ELSE deletesFor(olds[i])]
<1>1. ASSUME NEW i \in DOMAIN olds PROVE us[i] \in Seq({})
  <2>1. olds[i] \in OldEnds(b, a)
    BY DEF Enumerates
  <2>2. PICK pair \in Stale(b, a) : olds[i] = pair[1]
    BY <2>1 DEF OldEnds
  <2>3. pair[2] \in NewEnds(b, a) /\ changeKey(pair[2]) = changeKey(olds[i])
    BY <2>2 DEF NewEnds, Stale
  <2>4. PICK j \in DOMAIN news : news[j] = pair[2]
    <3>1. \A x \in NewEnds(b, a) : \E j \in 1..Len(news) : news[j] = x
      BY DEF Enumerates
    <3>2. news \in Seq(NewEnds(b, a))
      BY DEF Enumerates
    <3>3. DOMAIN news = 1..Len(news)
      BY <3>2
    <3> QED
      BY <2>3, <3>1, <3>3
  <2>5. changeKey(olds[i]) \in KeysIn(news)
    BY <2>3, <2>4 DEF KeysIn
  <2> QED
    BY <2>5
<1>2. olds \in Seq(Endpoint)
  <2>1. OldEnds(b, a) \subseteq Endpoint /\ olds \in Seq(OldEnds(b, a))
    BY FiniteEnds DEF AreEndpoints, Enumerates
  <2> QED
    BY <2>1, SeqMonotone
<1>3. DOMAIN us = DOMAIN olds /\ unmatchedDeletes(olds, news) = FlattenSeq(us)
  BY DEF unmatchedDeletes
<1> HIDE DEF us
<1>4. FlattenSeq(us) \in Seq({})
  BY <1>1, <1>2, <1>3, CollectType
<1>5. FlattenSeq(us) = <<>>
  BY <1>4
<1> QED
  BY <1>3, <1>5, EnumEmpty

\* Every operation of a plan, once.
Planned(b, a) ==
  ((((DropOps(b, a) \cup {}) \cup AllOps("delete", Missing(b, a))) \cup KeepOps(b, a))
    \cup AddOps(b, a)) \cup AllOps("create", Missing(a, b))

\* The operations in these sets, one by one.
LEMMA PlannedOps ==
  ASSUME NEW b, NEW a, NEW op
  PROVE  /\ op \in DropOps(b, a) <=> \E pair \in Stale(b, a) : \E t \in Dropped(pair) :
                                       op = OpOn("delete", pair[1], t)
         /\ op \in KeepOps(b, a) <=> \E pair \in Stale(b, a) : \E t \in Kept(pair) :
                                       op = OpOn("update", pair[2], t)
         /\ op \in AddOps(b, a) <=> \E pair \in Stale(b, a) : \E t \in Added(pair) :
                                      op = OpOn("create", pair[2], t)
BY DEF DropOps, KeepOps, AddOps, OpsOn

\* The operations on all targets of some endpoints, one by one.
LEMMA EveryOp ==
  ASSUME NEW action, NEW E, NEW op
  PROVE  op \in AllOps(action, E) <=>
           \E e \in E : \E t \in targetSet(e.targets) : op = OpOn(action, e, t)
BY DEF AllOps, OpsOn

-----------------------------------------------------------------------------
(* Which operations a plan holds, also when targets are repeated or shared. *)

\* OpsFor covers the operations on the targets of an endpoint.
LEMMA OpsForCovers ==
  ASSUME NEW action, NEW ep \in Endpoint
  PROVE  Covers(OpsFor(action, ep), OpsOn(action, ep, targetSet(ep.targets)))
<1> DEFINE s == OpsFor(action, ep)
           R == OpsOn(action, ep, targetSet(ep.targets))
<1>1. ep.targets \in Seq(Target)
  BY DEF Endpoint
<1>2. s = [i \in 1..Len(ep.targets) |-> OpOn(action, ep, ep.targets[i])]
  BY <1>1 DEF OpsFor, OpOn
<1>3. Len(ep.targets) \in Nat /\ DOMAIN ep.targets = 1..Len(ep.targets)
  BY <1>1
<1>4. \A i \in 1..Len(ep.targets) : s[i] \in R
  BY <1>2, <1>3 DEF OpsOn, targetSet
<1>5. s \in Seq(R) /\ Len(s) = Len(ep.targets)
  BY <1>2, <1>3, <1>4
<1>6. \A x \in R : \E i \in 1..Len(s) : s[i] = x
  BY <1>2, <1>3, <1>5 DEF OpsOn, targetSet
<1> QED
  BY <1>5, <1>6 DEF Covers

\* Among covers what it keeps.
LEMMA AmongCovers ==
  ASSUME NEW ops, NEW R, Covers(ops, R), NEW T
  PROVE  Covers(Among(ops, T), {op \in R : op.target \in T})
<1> DEFINE n == Len(ops)
           On(m) == {op \in {ops[i] : i \in 1..m} : op.target \in T}
<1>1. ops \in Seq(R) /\ n \in Nat
  BY DEF Covers
<1>2. PICK f : Grows(ops, T, n, f) /\ Among(ops, T) = f[n]
  BY <1>1, AmongGrows
<1> DEFINE N == {m \in Nat : m <= n => Covers(f[m], On(m))}
<1>3. 0 \in N
  <2>1. f[0] = <<>>
    BY <1>2 DEF Grows
  <2>2. On(0) = {}
    OBVIOUS
  <2> HIDE DEF On
  <2> QED
    BY <2>1, <2>2, CoversEmpty
<1>4. ASSUME NEW m \in Nat, m \in N PROVE m + 1 \in N
  <2>1. SUFFICES ASSUME m + 1 <= n PROVE Covers(f[m + 1], On(m + 1))
    OBVIOUS
  <2>2. Covers(f[m], On(m))
    BY <1>1, <1>4, <2>1
  <2>3. m + 1 \in 1..n
    BY <1>1, <2>1
  <2>4. 1..(m + 1) = 1..m \cup {m + 1}
    OBVIOUS
  <2>5. f[m + 1] = IF ops[m + 1].target \in T THEN Append(f[m], ops[m + 1]) ELSE f[m]
    BY <1>2, <2>3 DEF Grows
  <2>6. CASE ops[m + 1].target \in T
    <3>1. On(m + 1) = On(m) \cup {ops[m + 1]}
      BY <2>4, <2>6
    <3> HIDE DEF On
    <3>2. Covers(f[m] \o <<ops[m + 1]>>, On(m) \cup {ops[m + 1]})
      BY <2>2, CoversOne, CoversConcat
    <3>3. Append(f[m], ops[m + 1]) = f[m] \o <<ops[m + 1]>>
      <4>1. f[m] \in Seq(On(m) \cup R)
        <5>1. f[m] \in Seq(On(m))
          BY <2>2 DEF Covers
        <5> QED
          BY <5>1
      <4>2. ops[m + 1] \in On(m) \cup R
        <5>1. ops[m + 1] \in R
          BY <1>1, <2>3
        <5> QED
          BY <5>1
      <4> QED
        BY <4>1, <4>2, AppendIsConcat
    <3> QED
      BY <2>5, <2>6, <3>1, <3>2, <3>3
  <2>7. CASE ops[m + 1].target \notin T
    <3>1. On(m + 1) = On(m)
      BY <2>4, <2>7
    <3> HIDE DEF On
    <3> QED
      BY <2>2, <2>5, <2>7, <3>1
  <2> QED
    BY <2>6, <2>7
<1>5. n \in N
  <2> HIDE DEF N, n
  <2>1. Nat \subseteq N
    BY <1>3, <1>4, Induction
  <2> QED
    BY <1>1, <2>1, Zenon
<1>6. {ops[i] : i \in 1..n} = R
  <2>1. \A i \in 1..n : ops[i] \in R
    BY <1>1
  <2>2. \A x \in R : \E i \in 1..n : ops[i] = x
    BY DEF Covers
  <2> QED
    BY <2>1, <2>2
<1>7. On(n) = {op \in R : op.target \in T}
  BY <1>6
<1>8. Covers(f[n], On(n))
  BY <1>1, <1>5
<1> HIDE DEF n, On
<1> QED
  BY <1>2, <1>7, <1>8

\* Of the operations on all targets Among keeps those on some of them.
LEMMA AmongOpsForCovers ==
  ASSUME NEW action, NEW ep \in Endpoint, NEW T, T \subseteq targetSet(ep.targets)
  PROVE  Covers(Among(OpsFor(action, ep), T), OpsOn(action, ep, T))
<1> DEFINE R == OpsOn(action, ep, targetSet(ep.targets))
<1>1. Covers(OpsFor(action, ep), R)
  BY OpsForCovers
<1>2. {op \in R : op.target \in T} = OpsOn(action, ep, T)
  BY DEF OpsOn, OpOn
<1> HIDE DEF R
<1> QED
  BY <1>1, <1>2, AmongCovers

\* What diffTargets lists for a pair of endpoints.
LEMMA DiffTargetsCovers ==
  ASSUME NEW pair, pair[1] \in Endpoint, pair[2] \in Endpoint
  PROVE  LET diff == diffTargets(pair[1], pair[2])
         IN /\ Covers(diff.creates, OpsOn("create", pair[2], Added(pair)))
            /\ Covers(diff.updates, OpsOn("update", pair[2], Kept(pair)))
            /\ Covers(diff.deletes, OpsOn("delete", pair[1], Dropped(pair)))
<1> DEFINE diff == diffTargets(pair[1], pair[2])
           old == targetSet(pair[1].targets)
           new == targetSet(pair[2].targets)
<1>1. /\ new \ old \subseteq targetSet(pair[2].targets)
      /\ new \cap old \subseteq targetSet(pair[2].targets)
      /\ old \ new \subseteq targetSet(pair[1].targets)
  OBVIOUS
<1>2. Added(pair) = new \ old /\ Dropped(pair) = old \ new
  BY DEF Added, Dropped
<1>3. /\ diff.creates = Among(OpsFor("create", pair[2]), new \ old)
      /\ diff.deletes = Among(OpsFor("delete", pair[1]), old \ new)
  BY DEF diffTargets, createsFor, deletesFor
<1>4. Covers(diff.updates, OpsOn("update", pair[2], Kept(pair)))
  <2>1. CASE pair[1].ttl = pair[2].ttl
    <3>1. diff.updates = <<>> /\ OpsOn("update", pair[2], Kept(pair)) = {}
      BY <2>1 DEF diffTargets, Kept, OpsOn
    <3> QED
      BY <3>1, CoversEmpty
  <2>2. CASE pair[1].ttl # pair[2].ttl
    <3>1. diff.updates = Among(OpsFor("update", pair[2]), new \cap old)
      BY <2>2 DEF diffTargets
    <3>2. Kept(pair) = new \cap old
      BY <2>2 DEF Kept
    <3> HIDE DEF diff, old, new
    <3> QED
      BY <1>1, <3>1, <3>2, AmongOpsForCovers
  <2> QED
    BY <2>1, <2>2
<1> HIDE DEF diff, old, new
<1> QED
  BY <1>1, <1>2, <1>3, <1>4, AmongOpsForCovers DEF diff

\* Sequences that cover what each endpoint contributes, flattened.
LEMMA CollectCovers ==
  ASSUME NEW eps, NEW E, Enumerates(eps, E), NEW Q, NEW ss, DOMAIN ss = DOMAIN eps,
         \A i \in DOMAIN eps : Covers(ss[i], Q[eps[i]])
  PROVE  Covers(FlattenSeq(ss), UNION {Q[e] : e \in E})
<1> DEFINE n == Len(eps)
           P == [i \in 1..n |-> Q[eps[i]]]
<1>1. n \in Nat /\ DOMAIN eps = 1..n /\ \A i \in 1..n : eps[i] \in E
  BY DEF Enumerates
<1>2. Len(ss) = n /\ (n = 0 => ss = <<>>)
  BY <1>1
<1>3. \A i \in 1..n : Covers(ss[i], P[i])
  BY <1>1
<1>4. UNION {P[i] : i \in 1..n} = UNION {Q[e] : e \in E}
  <2>1. \A e \in E : \E i \in 1..n : P[i] = Q[e]
    BY DEF Enumerates
  <2>2. \A i \in 1..n : \E e \in E : P[i] = Q[e]
    BY <1>1
  <2> HIDE DEF P
  <2> QED
    BY <2>1, <2>2, SMTT(30)
<1> HIDE DEF n, P
<1>5. Covers(FlattenSeq(ss), UNION {P[i] : i \in 1..n})
  BY <1>1, <1>2, <1>3, CoversFlatten
<1> QED
  BY <1>4, <1>5

\* What diffUpdates lists for all stale pairs.
LEMMA DiffUpdatesCovers ==
  ASSUME NEW b, NEW a, AreEndpoints(b), AreEndpoints(a),
         NEW olds, Enumerates(olds, OldEnds(b, a)),
         NEW news, Enumerates(news, NewEnds(b, a))
  PROVE  LET diff == diffUpdates(news, indexByKey(olds))
         IN /\ Covers(diff.creates, AddOps(b, a))
            /\ Covers(diff.updates, KeepOps(b, a))
            /\ Covers(diff.deletes, DropOps(b, a))
<1> DEFINE old == indexByKey(olds)
           diff == [i \in DOMAIN news |->
                     IF Matched(news, old, i)
                     THEN diffTargets(old[changeKey(news[i])], news[i])
                     ELSE [creates |-> createsFor(news[i]),
                           updates |-> <<>>, deletes |-> <<>>]]
           N == NewEnds(b, a)
           Pair(f) == <<old[changeKey(f)], f>>
           cs == [i \in DOMAIN diff |-> diff[i].creates]
           us == [i \in DOMAIN diff |-> diff[i].updates]
           ds == [i \in DOMAIN diff |-> diff[i].deletes]
           C == [f \in N |-> OpsOn("create", f, Added(Pair(f)))]
           U == [f \in N |-> OpsOn("update", f, Kept(Pair(f)))]
           D == [f \in N |-> OpsOn("delete", old[changeKey(f)], Dropped(Pair(f)))]
<1>1. \A pair \in Stale(b, a) : /\ pair[2] \in N /\ Pair(pair[2]) = pair
                                /\ pair[1] \in Endpoint /\ pair[2] \in Endpoint
  <2> TAKE pair \in Stale(b, a)
  <2>1. pair[2] \in N /\ pair = <<pair[1], pair[2]>> /\ pair[1] \in b /\ pair[2] \in a
    BY DEF NewEnds, Stale
  <2>2. old[changeKey(pair[2])] = pair[1]
    BY <2>1, Counterpart
  <2> QED
    BY <2>1, <2>2 DEF AreEndpoints
<1>2. \A f \in N : \E pair \in Stale(b, a) : f = pair[2]
  BY DEF NewEnds
<1>3. ASSUME NEW i \in DOMAIN news
      PROVE  /\ Covers(cs[i], C[news[i]])
             /\ Covers(us[i], U[news[i]])
             /\ Covers(ds[i], D[news[i]])
  <2>1. news[i] \in N
    BY DEF Enumerates
  <2>2. Matched(news, old, i)
    BY AllMatched
  <2>3. PICK pair \in Stale(b, a) : news[i] = pair[2]
    BY <1>2, <2>1
  <2>4. Pair(news[i]) = pair /\ pair[1] \in Endpoint /\ pair[2] \in Endpoint
    BY <1>1, <2>3
  <2>5. old[changeKey(news[i])] = pair[1]
    <3>1. Pair(news[i])[1] = old[changeKey(news[i])]
      OBVIOUS
    <3> HIDE DEF Pair, old
    <3> QED
      BY <2>4, <3>1
  <2>6. diff[i] = diffTargets(pair[1], pair[2])
    BY <2>2, <2>3, <2>5
  <2>7. /\ C[news[i]] = OpsOn("create", pair[2], Added(pair))
        /\ U[news[i]] = OpsOn("update", pair[2], Kept(pair))
        /\ D[news[i]] = OpsOn("delete", pair[1], Dropped(pair))
    <3>1. /\ C[news[i]] = OpsOn("create", news[i], Added(Pair(news[i])))
          /\ U[news[i]] = OpsOn("update", news[i], Kept(Pair(news[i])))
          /\ D[news[i]] = OpsOn("delete", old[changeKey(news[i])], Dropped(Pair(news[i])))
      BY <2>1
    <3> HIDE DEF Pair, old, C, U, D
    <3> QED
      BY <2>3, <2>4, <2>5, <3>1
  <2>8. cs[i] = diff[i].creates /\ us[i] = diff[i].updates /\ ds[i] = diff[i].deletes
    OBVIOUS
  <2> HIDE DEF diff, old, N, C, U, D, cs, us, ds, Pair
  <2> QED
    BY <2>4, <2>6, <2>7, <2>8, DiffTargetsCovers
<1>4. DOMAIN cs = DOMAIN news /\ DOMAIN us = DOMAIN news /\ DOMAIN ds = DOMAIN news
  OBVIOUS
<1>5. /\ diffUpdates(news, old).creates = FlattenSeq(cs)
      /\ diffUpdates(news, old).updates = FlattenSeq(us)
      /\ diffUpdates(news, old).deletes = FlattenSeq(ds)
  BY DEF diffUpdates
<1>6. /\ UNION {C[f] : f \in N} = AddOps(b, a)
      /\ UNION {U[f] : f \in N} = KeepOps(b, a)
      /\ UNION {D[f] : f \in N} = DropOps(b, a)
  <2>1. ASSUME NEW pair \in Stale(b, a)
        PROVE  /\ pair[2] \in N
               /\ C[pair[2]] = OpsOn("create", pair[2], Added(pair))
               /\ U[pair[2]] = OpsOn("update", pair[2], Kept(pair))
               /\ D[pair[2]] = OpsOn("delete", pair[1], Dropped(pair))
    <3>1. pair[2] \in N /\ Pair(pair[2]) = pair
      BY <1>1
    <3>2. old[changeKey(pair[2])] = pair[1]
      <4>1. Pair(pair[2])[1] = old[changeKey(pair[2])]
        OBVIOUS
      <4> HIDE DEF Pair, old
      <4> QED
        BY <3>1, <4>1
    <3>3. /\ C[pair[2]] = OpsOn("create", pair[2], Added(Pair(pair[2])))
          /\ U[pair[2]] = OpsOn("update", pair[2], Kept(Pair(pair[2])))
          /\ D[pair[2]] = OpsOn("delete", old[changeKey(pair[2])], Dropped(Pair(pair[2])))
      BY <3>1
    <3> HIDE DEF Pair, old, C, U, D
    <3> QED
      BY <3>1, <3>2, <3>3
  <2> HIDE DEF Pair, old, N, C, U, D
  <2>2. \A f \in N : \E pair \in Stale(b, a) :
          /\ C[f] = OpsOn("create", pair[2], Added(pair))
          /\ U[f] = OpsOn("update", pair[2], Kept(pair))
          /\ D[f] = OpsOn("delete", pair[1], Dropped(pair))
    BY <1>2, <2>1
  <2>3. \A pair \in Stale(b, a) : \E f \in N :
          /\ C[f] = OpsOn("create", pair[2], Added(pair))
          /\ U[f] = OpsOn("update", pair[2], Kept(pair))
          /\ D[f] = OpsOn("delete", pair[1], Dropped(pair))
    BY <2>1
  <2> QED
    BY <2>2, <2>3 DEF AddOps, KeepOps, DropOps
<1>7. Enumerates(news, N)
  OBVIOUS
<1> HIDE DEF old, diff, N, Pair, C, U, D, cs, us, ds
<1>8. Covers(FlattenSeq(cs), UNION {C[f] : f \in N})
  BY <1>3, <1>4, <1>7, CollectCovers
<1>9. Covers(FlattenSeq(us), UNION {U[f] : f \in N})
  BY <1>3, <1>4, <1>7, CollectCovers
<1>10. Covers(FlattenSeq(ds), UNION {D[f] : f \in N})
  BY <1>3, <1>4, <1>7, CollectCovers
<1> QED
  BY <1>5, <1>6, <1>8, <1>9, <1>10 DEF old

\* What deletesFromAll and createsFromAll list for a set of endpoints.
LEMMA FromAllCovers ==
  ASSUME NEW E, E \subseteq Endpoint, NEW eps, Enumerates(eps, E)
  PROVE  /\ Covers(deletesFromAll(eps), AllOps("delete", E))
         /\ Covers(createsFromAll(eps), AllOps("create", E))
<1> DEFINE D == [e \in E |-> OpsOn("delete", e, targetSet(e.targets))]
           C == [e \in E |-> OpsOn("create", e, targetSet(e.targets))]
           ds == [i \in DOMAIN eps |-> deletesFor(eps[i])]
           cs == [i \in DOMAIN eps |-> createsFor(eps[i])]
<1>1. ASSUME NEW i \in DOMAIN eps
      PROVE  Covers(ds[i], D[eps[i]]) /\ Covers(cs[i], C[eps[i]])
  <2>1. eps[i] \in E
    BY DEF Enumerates
  <2>2. /\ Covers(OpsFor("delete", eps[i]), OpsOn("delete", eps[i], targetSet(eps[i].targets)))
        /\ Covers(OpsFor("create", eps[i]), OpsOn("create", eps[i], targetSet(eps[i].targets)))
    BY <2>1, OpsForCovers
  <2>3. /\ ds[i] = OpsFor("delete", eps[i]) /\ cs[i] = OpsFor("create", eps[i])
        /\ D[eps[i]] = OpsOn("delete", eps[i], targetSet(eps[i].targets))
        /\ C[eps[i]] = OpsOn("create", eps[i], targetSet(eps[i].targets))
    BY <2>1 DEF deletesFor, createsFor
  <2> HIDE DEF D, C, ds, cs
  <2> QED
    BY <2>2, <2>3
<1>2. /\ UNION {D[e] : e \in E} = AllOps("delete", E)
      /\ UNION {C[e] : e \in E} = AllOps("create", E)
  BY DEF AllOps
<1>3. deletesFromAll(eps) = FlattenSeq(ds) /\ createsFromAll(eps) = FlattenSeq(cs)
  BY DEF deletesFromAll, createsFromAll
<1>4. DOMAIN ds = DOMAIN eps /\ DOMAIN cs = DOMAIN eps
  OBVIOUS
<1> HIDE DEF D, C, ds, cs
<1>5. Covers(FlattenSeq(ds), UNION {D[e] : e \in E})
  BY <1>1, <1>4, CollectCovers
<1>6. Covers(FlattenSeq(cs), UNION {C[e] : e \in E})
  BY <1>1, <1>4, CollectCovers
<1> QED
  BY <1>2, <1>3, <1>5, <1>6

\* The plan between two sets of endpoints holds the operations on the targets
\* that differ, and no others: also when an endpoint repeats a target or two set
\* identifiers of one name share one (planChanges, diffUpdates, diffTargets).
THEOREM PlanHoldsDifference ==
  ASSUME NEW b, NEW a, AreEndpoints(b), AreEndpoints(a)
  PROVE  Covers(planChanges(Calculate(b, a)), Planned(b, a))
<1> DEFINE olds == SetToSeq(OldEnds(b, a))
           news == SetToSeq(NewEnds(b, a))
           gone == SetToSeq(Missing(b, a))
           fresh == SetToSeq(Missing(a, b))
           diff == diffUpdates(news, indexByKey(olds))
<1>1. /\ Enumerates(olds, OldEnds(b, a)) /\ Enumerates(news, NewEnds(b, a))
      /\ Enumerates(gone, Missing(b, a)) /\ Enumerates(fresh, Missing(a, b))
  BY FiniteEnds, SetToSeqEnum
<1>2. /\ Calculate(b, a).updateOld = olds /\ Calculate(b, a).updateNew = news
      /\ Calculate(b, a).delete = gone /\ Calculate(b, a).create = fresh
  BY DEF Calculate, OldEnds, NewEnds, Stale, Missing
<1>3. planChanges(Calculate(b, a)) =
        diff.deletes \o unmatchedDeletes(olds, news) \o deletesFromAll(gone)
          \o diff.updates \o diff.creates \o createsFromAll(fresh)
  BY <1>2 DEF planChanges
<1> HIDE DEF olds, news, gone, fresh
<1>4. /\ Covers(diff.creates, AddOps(b, a))
      /\ Covers(diff.updates, KeepOps(b, a))
      /\ Covers(diff.deletes, DropOps(b, a))
  BY <1>1, DiffUpdatesCovers
<1>5. Missing(b, a) \subseteq Endpoint /\ Missing(a, b) \subseteq Endpoint
  BY DEF Missing, AreEndpoints
<1>6. /\ Covers(deletesFromAll(gone), AllOps("delete", Missing(b, a)))
      /\ Covers(createsFromAll(fresh), AllOps("create", Missing(a, b)))
  BY <1>1, <1>5, FromAllCovers
<1>7. Covers(unmatchedDeletes(olds, news), {})
  BY <1>1, NothingUnmatched, EnumCovers
<1> HIDE DEF diff
<1>8. Covers(diff.deletes \o unmatchedDeletes(olds, news), DropOps(b, a) \cup {})
  BY <1>4, <1>7, CoversConcat
<1>9. Covers(diff.deletes \o unmatchedDeletes(olds, news) \o deletesFromAll(gone),
             DropOps(b, a) \cup {} \cup AllOps("delete", Missing(b, a)))
  BY <1>6, <1>8, CoversConcat
<1>10. Covers(diff.deletes \o unmatchedDeletes(olds, news) \o deletesFromAll(gone)
                \o diff.updates,
              DropOps(b, a) \cup {} \cup AllOps("delete", Missing(b, a)) \cup KeepOps(b, a))
  BY <1>4, <1>9, CoversConcat
<1>11. Covers(diff.deletes \o unmatchedDeletes(olds, news) \o deletesFromAll(gone)
                \o diff.updates \o diff.creates,
              DropOps(b, a) \cup {} \cup AllOps("delete", Missing(b, a)) \cup KeepOps(b, a)
                \cup AddOps(b, a))
  BY <1>4, <1>10, CoversConcat
<1>12. Covers(diff.deletes \o unmatchedDeletes(olds, news) \o deletesFromAll(gone)
                \o diff.updates \o diff.creates \o createsFromAll(fresh),
              DropOps(b, a) \cup {} \cup AllOps("delete", Missing(b, a)) \cup KeepOps(b, a)
                \cup AddOps(b, a) \cup AllOps("create", Missing(a, b)))
  BY <1>6, <1>11, CoversConcat
<1> QED
  BY <1>3, <1>12 DEF Planned

=============================================================================
