----------------------------- MODULE PlanStore ------------------------------
(***************************************************************************)
(* What ApplyChanges promises about the records of the Portal, whatever    *)
(* fails on the way: a plan is executed in its order, each operation has   *)
(* its effect at most once and on a record of its own key, and a plan that *)
(* is given up has no further effect.  How records are found is left open. *)
(***************************************************************************)
EXTENDS Naturals, Sequences

CONSTANTS Handler, ID, RRset, Target, TTL, Zone, Op, None

VARIABLES
  portal,   \* ID -> record or None
  nextID,   \* the id of the next record
  plan      \* Handler -> the operations not carried out yet

vars == <<portal, nextID, plan>>

Record == [rrset : RRset, target : Target, ttl : TTL, zone : Zone]

Init ==
  /\ portal = [i \in ID |-> None]
  /\ nextID = 1
  /\ plan = [h \in Handler |-> <<>>]

\* A record for the operation.
Creates(op) ==
  /\ nextID \in ID
  /\ \E z \in Zone :
       portal' = [portal EXCEPT ![nextID] =
                    [rrset |-> op.rrset, target |-> op.target, ttl |-> op.ttl, zone |-> z]]
  /\ nextID' = nextID + 1

\* The records the operation is about.
About(op) == {i \in ID : /\ portal[i] # None
                         /\ portal[i].rrset = op.rrset /\ portal[i].target = op.target}

Retunes(op) ==
  /\ \E i \in About(op) : portal' = [portal EXCEPT ![i].ttl = op.ttl]
  /\ UNCHANGED nextID

Removes(op) ==
  /\ \E i \in About(op) : portal' = [portal EXCEPT ![i] = None]
  /\ UNCHANGED nextID

Effect(op) ==
  \/ op.action \in {"create", "update"} /\ Creates(op)
  \/ op.action = "update" /\ Retunes(op)
  \/ op.action = "delete" /\ Removes(op)
  \/ UNCHANGED <<portal, nextID>>

Accept(h) ==
  /\ plan[h] = <<>>
  /\ plan'[h] \in Seq(Op)
  /\ plan' = [plan EXCEPT ![h] = plan'[h]]
  /\ UNCHANGED <<portal, nextID>>

\* The first operation is carried out, rejected or skipped; an error may end
\* the plan with it.
Execute(h) ==
  /\ plan[h] # <<>>
  /\ Effect(Head(plan[h]))
  /\ plan' = [plan EXCEPT ![h] = Tail(plan[h])] \/ plan' = [plan EXCEPT ![h] = <<>>]

GiveUp(h) ==
  /\ plan' = [plan EXCEPT ![h] = <<>>]
  /\ UNCHANGED <<portal, nextID>>

\* The process dies with all its plans.
Restart ==
  /\ plan' = [h \in Handler |-> <<>>]
  /\ UNCHANGED <<portal, nextID>>

Next == Restart \/ \E h \in Handler : Accept(h) \/ Execute(h) \/ GiveUp(h)

Spec == Init /\ [][Next]_vars
=============================================================================
