---------------------------- MODULE MCZoneCache -----------------------------
(* Two zones read by pages of one, so that any change of the collection     *)
(* shifts a page; a zone filter whose entries are blank restricts nothing.  *)
EXTENDS ZoneCache

CONSTANTS c1, c2

MCItem == 1 .. 2
MCCaller == {c1, c2}
MCNameOf == [i \in MCItem |-> IF i = 1 THEN "a.example" ELSE "b.example"]
=============================================================================
