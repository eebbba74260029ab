----------------------------- MODULE MCProvider -----------------------------
(* Instances of Provider for TLC. Zones and names are nested like the FQDNs *)
(* example.com and lab.example.com: "parent" is a suffix of "inParent" and  *)
(* "inChild", "child" of "inChild" only; "other" is a zone besides them.    *)
EXTENDS Provider

HandlerSymmetry == Permutations(Handler)

NestedZonesOf ==
  [r \in RRset |-> CASE r = "inChild" -> {"parent", "child"} \cap Zone
                      [] r = "inOther" -> {"other"}
                      [] OTHER -> {"parent"}]
FQDNLength == [z \in Zone |-> IF z = "child" THEN 2 ELSE 1]

Ep(rrset, targets, ttl) ==
  [rrset |-> rrset, setID |-> "", targets |-> targets, ttl |-> ttl]

Change(create, old, new, delete) ==
  planChanges([create |-> create, updateOld |-> old, updateNew |-> new,
               delete |-> delete])

\* Plans that replace a target of one name and that patch it. Each creates what
\* it does not find. Every record gets the same TTL: what counts here is which
\* record a call changes.
OneNameBatches ==
  LET at(t, ttl) == <<Ep("inParent", <<t>>, ttl)>>
  IN {Change(<<>>, at("t1", 60), at("t2", 60), <<>>),
      Change(<<>>, at("t1", 0), at("t1", 60), <<>>)}

\* Plans with an unreadable target "bad", a type that is not supported, and a
\* name in a zone that may be out of reach.
MixedBatches ==
  LET one == Ep("inParent", <<"t1">>, 0)
      both == Ep("inParent", <<"bad", "t1">>, 0)
      slow == Ep("inParent", <<"bad", "t1">>, 60)
      odd == Ep("unsupported", <<"t1">>, 0)
      far == Ep("inOther", <<"t1">>, 0)
  IN {Change(<<>>, <<>>, <<>>, <<>>),
      Change(<<one, odd, far>>, <<>>, <<>>, <<>>), Change(<<>>, <<one>>, <<both>>, <<>>),
      Change(<<>>, <<both>>, <<slow>>, <<>>), Change(<<>>, <<>>, <<>>, <<both, far>>)}

\* Plans that create a name of each zone, or move a name's target.
ZoneBatches ==
  LET at(rrset, t) == Ep(rrset, <<t>>, 0)
  IN {Change(<<at("inChild", "t1"), at("inOther", "t1")>>, <<>>, <<>>, <<>>),
      Change(<<>>, <<at("inChild", "t1")>>, <<at("inChild", "t2")>>, <<>>),
      Change(<<>>, <<>>, <<>>, <<at("inChild", "t1"), at("inOther", "t1")>>)}

InvalidKeys == {<<"inParent", "bad">>}

Lost == [error |-> "network", effect |-> TRUE]
Unsent == [error |-> "throttled", effect |-> FALSE]
Crashed == [error |-> "server", effect |-> TRUE]
Refused == [error |-> "client", effect |-> FALSE]
Unconfirmed == [error |-> "client", effect |-> TRUE]   \* 2xx without a body
AllFailures == {Lost, Unsent, Crashed, Refused, Unconfirmed}
=============================================================================
