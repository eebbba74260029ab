---------------------------- MODULE MCReconcile -----------------------------
(* Instances of Reconcile for TLC.                                          *)
EXTENDS Reconcile

MCZonesOf == [r \in RRset |-> Zone]
MCDepth == [z \in Zone |-> 1]

Wish(rrset, targets, ttl) ==
  {[rrset |-> rrset, setID |-> "", targets |-> targets, ttl |-> ttl]}

\* One target that comes and goes, with two faults; one whose TTL changes; a
\* second target besides, with one fault.
MCScenarios ==
  {[wishes |-> {{}, Wish("a", <<"t1">>, 0)}, faults |-> 2],
   [wishes |-> {Wish("a", <<"t1">>, 0), Wish("a", <<"t1">>, 120)}, faults |-> 1],
   [wishes |-> {Wish("a", <<"t1">>, 0), Wish("a", <<"t1", "t2">>, 0)}, faults |-> 1]}
\* One target, asked for twice when the first request is given up.
DuplicateScenarios == {[wishes |-> {Wish("a", <<"t1">>, 0)}, faults |-> 1]}
\* Two targets with a changing TTL.
TTLScenarios ==
  {[wishes |-> {Wish("a", <<"t1", "t2">>, 60), Wish("a", <<"t1", "t2">>, 120)}, faults |-> 1]}

Lost == [error |-> "network", effect |-> TRUE]
Unsent == [error |-> "network", effect |-> FALSE]
Refused == [error |-> "client", effect |-> FALSE]
AllFailures == {Lost, Unsent, Refused}
=============================================================================
