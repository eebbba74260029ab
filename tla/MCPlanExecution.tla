-------------------------- MODULE MCPlanExecution ---------------------------
(* A name with an address RRset and a CNAME that exclude each other, and a  *)
(* second RRset that two set identifiers share.                             *)
EXTENDS PlanExecution

MCExclusive == {<<"addr", "cname">>}

Lists == {<<"t1">>, <<"t2">>, <<"t1", "t2">>, <<"t2", "t1">>}

Options(rrset, setID, lists) ==
  {{}} \cup {{[rrset |-> rrset, setID |-> setID, targets |-> ts, ttl |-> ttl]} :
               ts \in lists, ttl \in TTL}

MCWorlds ==
  {a \cup b \cup c :
     a \in Options("addr", "none", Lists)
           \cup Options("cname", "none", {<<"t1">>, <<"t2">>}),
     b \in Options("other", "one", {<<"t1">>}),
     c \in Options("other", "two", {<<"t2">>})}

=============================================================================
