------------------------------- MODULE Paging -------------------------------
(***************************************************************************)
(* A list call of the API client (internal/uddi/client.go): ListZones and  *)
(* ListRecords fetch pages of a fixed size by offset until a page is short.*)
(* The Portal lists in the order of the ids, and its collection changes    *)
(* between two pages.                                                      *)
(***************************************************************************)
EXTENDS Naturals, FiniteSets

CONSTANTS
  Item,        \* objects the Portal may list, in the order it lists them
  PageLimit    \* UDDI_PAGE_LIMIT

ASSUME ItemsAssumption == Item \subseteq Nat /\ IsFiniteSet(Item)
ASSUME LimitAssumption == PageLimit \in Nat \ {0}

VARIABLES
  items,     \* what the Portal has now
  offset,    \* the _offset of the next page
  got,       \* what the pages so far returned
  repeated,  \* what they returned more than once
  \* History of the call, for the properties.
  open,      \* a call is under way
  stayed,    \* items that were there all the time since it began
  removed,   \* some item went away since
  added      \* some item came since

callVars == <<offset, got, repeated>>
historyVars == <<open, stayed, removed, added>>
pagingVars == <<items, callVars, historyVars>>

PagingTypeOK ==
  /\ items \in SUBSET Item
  /\ offset \in Nat
  /\ got \in SUBSET Item /\ repeated \in SUBSET Item
  /\ open \in BOOLEAN /\ stayed \in SUBSET Item
  /\ removed \in BOOLEAN /\ added \in BOOLEAN

PagingInit ==
  /\ items \in SUBSET Item
  /\ offset = 0 /\ got = {} /\ repeated = {}
  /\ open = FALSE /\ stayed = {} /\ removed = FALSE /\ added = FALSE

\* The place of item i in the listing of S, counted from 1.
Rank(S, i) == Cardinality({j \in S : j <= i})

\* Faulty variant of Page: the first item of a page is skipped.
PageSkipping(S) == {i \in S : offset + 1 < Rank(S, i) /\ Rank(S, i) <= offset + PageLimit}

\* The page at the offset.
Page(S) == {i \in S : offset < Rank(S, i) /\ Rank(S, i) <= offset + PageLimit}

\* A page with fewer than PageLimit items is the last.
IsLast(S) == Cardinality(S) < offset + PageLimit

BeginListing ==
  /\ offset' = 0 /\ got' = {} /\ repeated' = {}
  /\ open' = TRUE /\ stayed' = items /\ removed' = FALSE /\ added' = FALSE
  /\ UNCHANGED items

\* The call returns: what is local to it is gone.
EndListing ==
  /\ offset' = 0 /\ got' = {} /\ repeated' = {}
  /\ open' = FALSE /\ stayed' = {} /\ removed' = FALSE /\ added' = FALSE
  /\ UNCHANGED items

\* Faulty variant of FetchPage: the offset moves to the last item of the page,
\* not past it.
FetchPageSlowly ==
  /\ got' = got \cup Page(items)
  /\ repeated' = repeated \cup (got \cap Page(items))
  /\ offset' = (offset + PageLimit) - 1
  /\ UNCHANGED <<items, historyVars>>

\* One request. After the last page the offset is not used any more.
FetchPage ==
  /\ got' = got \cup Page(items)
  /\ repeated' = repeated \cup (got \cap Page(items))
  /\ offset' = offset + PageLimit
  /\ UNCHANGED <<items, historyVars>>

AddItem(i) ==
  /\ i \notin items
  /\ items' = items \cup {i}
  /\ added' = (added \/ open)
  /\ UNCHANGED <<callVars, open, stayed, removed>>

RemoveItem(i) ==
  /\ i \in items
  /\ items' = items \ {i}
  /\ stayed' = stayed \ {i}
  /\ removed' = (removed \/ open)
  /\ UNCHANGED <<callVars, open, added>>

-----------------------------------------------------------------------------
\* "ListRecords returns all records of the zone" (types.go:57), as far as it
\* is true: with everything up to the offset read, an item that was there all
\* the time can be missed only if another was removed meanwhile.
ReadSoFar ==
  ~removed => \A i \in stayed : Rank(items, i) <= offset => i \in got

\* Nothing is returned twice unless something was added meanwhile.
Unrepeated == ~added => repeated = {}

\* Both hold because the items move one way relative to the offset: what is
\* removed moves others towards the front, what is added moves them back.
GotBehind == ~added => \A i \in got \cap items : Rank(items, i) <= offset

\* Between two calls there is nothing left of a call.
CallIsLocal ==
  ~open => offset = 0 /\ got = {} /\ repeated = {} /\ stayed = {} /\ ~removed /\ ~added

PagingIInv ==
  /\ PagingTypeOK /\ CallIsLocal /\ stayed \subseteq items
  /\ ReadSoFar /\ GotBehind /\ Unrepeated
=============================================================================
