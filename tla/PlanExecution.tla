--------------------------- MODULE PlanExecution ----------------------------
(***************************************************************************)
(* The operations of one planChanges result executed in order against a    *)
(* zone that accepts each of them.  A reference for what the plan has to   *)
(* achieve, independent of how ApplyChanges talks to the Portal.           *)
(***************************************************************************)
EXTENDS ExternalDNS

CONSTANTS Worlds,     \* the sets of endpoints that can be current or desired
          Exclusive,  \* pairs of RRsets that DNS forbids to coexist (CNAME)
          NotLive     \* marks a record that does not exist

ASSUME NotLiveAssumption == NotLive \notin TTL

VARIABLES
  before,   \* endpoints the plan started from
  after,    \* endpoints the plan has to reach
  records,  \* RRset -> Target -> TTL or NotLive
  todo      \* operations not yet executed

vars == <<before, after, records, todo>>

RecordsOf(eps) ==
  [r \in RRset |-> [t \in Target |->
     LET holders == {ep \in eps : ep.rrset = r /\ t \in targetSet(ep.targets)}
     IN IF holders = {} THEN NotLive ELSE (CHOOSE ep \in holders : TRUE).ttl]]

HasLive(eps, r) == \E ep \in eps : ep.rrset = r /\ ep.targets # <<>>

\* What a source hands over: one endpoint per key, none of its targets twice;
\* a target of an RRset keeps its set identifier; no conflicting RRsets.
ASSUME WorldsAssumption ==
  /\ Exclusive \subseteq RRset \X RRset
  /\ \A eps \in Worlds :
       /\ AreEndpoints(eps)
       /\ \A ep \in eps : IsInjective(ep.targets)
       /\ \A pair \in Exclusive : ~(HasLive(eps, pair[1]) /\ HasLive(eps, pair[2]))
  /\ \A eps, others \in Worlds : \A ep \in eps, other \in others :
       /\ ep.rrset = other.rrset
       /\ targetSet(ep.targets) \cap targetSet(other.targets) # {}
       => ep.setID = other.setID

Live(recs) == {k \in RRset \X Target : recs[k[1]][k[2]] # NotLive}

TypeOK ==
  /\ before \in Worlds /\ after \in Worlds
  /\ records \in [RRset -> [Target -> TTL \cup {NotLive}]]
  /\ todo \in Seq(Op)

Init ==
  /\ before \in Worlds
  /\ after \in Worlds
  /\ records = RecordsOf(before)
  /\ todo = planChanges(Calculate(before, after))

Execute(action, result) ==
  /\ todo # <<>>
  /\ Head(todo).action = action
  /\ records' = [records EXCEPT ![Head(todo).rrset][Head(todo).target] = result]
  /\ todo' = Tail(todo)
  /\ UNCHANGED <<before, after>>

Create == Execute("create", Head(todo).ttl)
Update == Execute("update", Head(todo).ttl)
Delete == Execute("delete", NotLive)

Next == Create \/ Update \/ Delete

Spec == Init /\ [][Next]_vars

-----------------------------------------------------------------------------
\* A finished plan leaves exactly the desired records, each with the desired
\* TTL where one is configured (planChanges, diffTargets).
ReachesDesired ==
  todo = <<>> =>
    /\ Live(records) = Live(RecordsOf(after))
    /\ \A ep \in after : \A t \in targetSet(ep.targets) :
         ep.ttl # 0 => records[ep.rrset][t] = ep.ttl

\* A plan between two states without a CNAME conflict never passes through
\* one: deletes run before creates (planChanges, provider.go:340-341).
NoTransientConflict ==
  \A pair \in Exclusive :
    \/ \A t \in Target : records[pair[1]][t] = NotLive
    \/ \A t \in Target : records[pair[2]][t] = NotLive

\* A record that is wanted before and after the change stays in the zone all
\* the time, so resolvers never see it missing (diffTargets).
NoGap ==
  Live(RecordsOf(before)) \cap Live(RecordsOf(after)) \subseteq Live(records)

\* No operation is redundant: a create meets no live record of its own, a
\* delete or an update meets one. Duplicate or lost operations would break it.
EachOpEffective ==
  todo # <<>> =>
    ((Head(todo).action = "create")
       <=> (records[Head(todo).rrset][Head(todo).target] = NotLive))

-----------------------------------------------------------------------------
\* Why the plan works, as an invariant that its own steps preserve.

\* No two operations left are about the same record.
OneOpEach ==
  \A i, j \in DOMAIN todo :
    todo[i].rrset = todo[j].rrset /\ todo[i].target = todo[j].target => i = j

\* The operations left are deletes, then updates, then creates.
Phase == [delete |-> 1, update |-> 2, create |-> 3]
InPhases ==
  \A i, j \in DOMAIN todo : i < j => Phase[todo[i].action] <= Phase[todo[j].action]

\* An operation left finds its record as it was and makes it as it is wanted.
Fits(op) ==
  LET had == RecordsOf(before)[op.rrset][op.target]
      wants == RecordsOf(after)[op.rrset][op.target]
  IN /\ records[op.rrset][op.target] = had
     /\ op.action = "create" <=> had = NotLive
     /\ op.action = "delete" <=> wants = NotLive
     /\ op.action # "delete" => op.ttl = wants
OpsFit == \A i \in DOMAIN todo : Fits(todo[i])

\* A record with no operation left is as wanted; a TTL of 0 leaves it its own.
Settled ==
  \A r \in RRset, t \in Target :
    \/ \E i \in DOMAIN todo : todo[i].rrset = r /\ todo[i].target = t
    \/ records[r][t] = RecordsOf(after)[r][t]
    \/ RecordsOf(after)[r][t] = 0 /\ NotLive \notin {records[r][t], RecordsOf(after)[r][t]}

\* Once a record is new, no delete is left.
DeletesFirst ==
  Live(records) \subseteq Live(RecordsOf(before))
    \/ \A i \in DOMAIN todo : todo[i].action # "delete"

\* What operations that are executed in order keep true; it implies every
\* property above (planChanges, diffTargets, unmatchedDeletes).
IInv ==
  /\ TypeOK
  /\ OneOpEach
  /\ InPhases
  /\ OpsFit
  /\ Settled
  /\ DeletesFirst
=============================================================================
