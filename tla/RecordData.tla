----------------------------- MODULE RecordData -----------------------------
(***************************************************************************)
(* How a target travels from the source to the Portal and back             *)
(* (internal/provider/rdata.go and its callers in provider.go): quoting    *)
(* and unquoting of TXT values, conversion to and from rdata, and the key  *)
(* under which a record is looked up.  One RRset, synchronised round after *)
(* round without faults; the source changes its mind between the rounds.   *)
(*                                                                         *)
(* A TXT target is a sequence of characters, which are model values but    *)
(* for the quote and the backslash.  A target of another type is a record: *)
(* the numbers before the host of an MX or SRV target, the host or the     *)
(* address, and whether a trailing dot follows.  Targets have no outer     *)
(* white space (toRdata would strip it).  Records with the same rdata, of  *)
(* one address in two spellings, count as one.                             *)
(***************************************************************************)
EXTENDS Naturals, FiniteSets, SequencesExt

CONSTANTS
  Char,              \* the characters of TXT values
  Quote, Backslash,  \* two of them
  NoHost,            \* the empty host
  Family,            \* address text -> 4, 6, or 0 when netip does not parse it
  Canonical,         \* address text -> the text netip prints for it
  Source             \* record type -> the sets of targets a source may ask for

ASSUME CharAssumption == {Quote, Backslash} \subseteq Char /\ Quote # Backslash

\* Printing an address again changes nothing, and prints one of the same family.
ASSUME AddressAssumption ==
  LET Address == DOMAIN Family
  IN /\ Canonical \in [Address -> Address]
     /\ \A a \in Address : Family[a] # 0 =>
          Canonical[Canonical[a]] = Canonical[a] /\ Family[Canonical[a]] = Family[a]

VARIABLES
  type,     \* the record type of the RRset
  wanted,   \* the targets the source asks for
  stored,   \* rdata of the records in the Portal
  synced,   \* the last round was for the present targets
  nested    \* some value asked for so far is in quotes twice

vars == <<type, wanted, stored, synced, nested>>

-----------------------------------------------------------------------------
(* TXT values.                                                             *)

EndsEscaped(s) ==
  Len(s) >= 2 /\ s[Len(s) - 1] = Backslash /\ s[Len(s)] = Quote

LooksQuoted(s) ==
  Len(s) >= 2 /\ s[1] = Quote /\ s[Len(s)] = Quote /\ ~EndsEscaped(s)

Inner(s) == SubSeq(s, 2, Len(s) - 1)

Escaped(s) ==
  FlattenSeq([i \in DOMAIN s |-> IF s[i] = Quote THEN <<Backslash, Quote>> ELSE <<s[i]>>])

Unescaped(s) ==
  FlattenSeq([i \in DOMAIN s |-> IF /\ i < Len(s)
                                    /\ s[i] = Backslash /\ s[i + 1] = Quote
                                 THEN <<>> ELSE <<s[i]>>])

\* A bare quote separates two character-strings.
HasBareQuote(s) ==
  \E i \in DOMAIN s : s[i] = Quote /\ (i = 1 \/ s[i - 1] # Backslash)

quoteTXT(s) ==
  IF LooksQuoted(s) THEN s ELSE <<Quote>> \o Escaped(s) \o <<Quote>>

\* Faulty variant of unquoteTXT: escaped quotes stay escaped.
unquoteTXTEscaped(s) ==
  IF LooksQuoted(s) /\ ~HasBareQuote(Inner(s)) THEN Inner(s) ELSE s

unquoteTXT(s) ==
  IF LooksQuoted(s) /\ ~HasBareQuote(Inner(s)) THEN Unescaped(Inner(s)) ELSE s

\* One character-string: in quotes, and of the quotes behind the first the last
\* one, and no other, is not escaped.
OneString(s) ==
  /\ Len(s) >= 2 /\ s[1] = Quote /\ s[Len(s)] = Quote
  /\ \A i \in 2 .. Len(s) : s[i] = Quote => (s[i - 1] # Backslash <=> i = Len(s))

\* "The Portal removes the outer quotes from a single TXT character-string"
\* (docs/DESIGN.md) and the backslashes before its quotes; it keeps all other
\* text as it was written.
PortalText(s) == IF OneString(s) THEN Unescaped(SubSeq(s, 2, Len(s) - 1)) ELSE s

-----------------------------------------------------------------------------
(* Rdata.                                                                  *)

AddressFamily == [A |-> 4, AAAA |-> 6]
NumberCount == [CNAME |-> 0, NS |-> 0, MX |-> 1, SRV |-> 3]

\* toRdata returns no error.
IsValid(t) ==
  CASE type = "TXT" -> TRUE
    [] type \in {"A", "AAAA"} -> Family[t.host] = AddressFamily[type]
    [] OTHER -> /\ t.host # NoHost
                /\ Len(t.nums) = NumberCount[type]
                /\ \A i \in DOMAIN t.nums : t.nums[i] < 2^16

toRdata(t) ==
  CASE type = "TXT" -> t
    [] type \in {"A", "AAAA"} -> [t EXCEPT !.host = Canonical[t.host]]
    [] OTHER -> [t EXCEPT !.dotted = TRUE]

\* What the Portal keeps of a record's rdata.
Kept(rdata) == IF type = "TXT" THEN PortalText(rdata) ELSE rdata

\* Faulty variant of fromRdata: the dot of a host stays.
fromRdataDotted(rdata) == rdata

fromRdata(rdata) ==
  IF type \in {"TXT", "A", "AAAA"} THEN rdata ELSE [rdata EXCEPT !.dotted = FALSE]

\* The target in the key of the record index (keyOf).
keyTarget(t) == IF type = "TXT" THEN unquoteTXT(t) ELSE t

-----------------------------------------------------------------------------
(* The source.                                                             *)

\* What is left of a quoted value is not itself in quotes.
QuotedOnce(s) == PortalText(s) = s \/ ~LooksQuoted(PortalText(s))

\* TXT values are any text, addresses are known ones.  ExternalDNS hands over
\* host names without their trailing dot.
ASSUME SourceAssumption ==
  /\ DOMAIN Source \subseteq {"TXT"} \cup DOMAIN AddressFamily \cup DOMAIN NumberCount
  /\ \A ty \in DOMAIN Source : \A T \in Source[ty] : \A t \in T :
       IF ty = "TXT" THEN t \in Seq(Char)
       ELSE t = [nums |-> t.nums, host |-> t.host, dotted |-> FALSE]
  /\ \A ty \in DOMAIN Source \cap DOMAIN AddressFamily : \A T \in Source[ty] :
       \A t \in T : t.nums = <<>> /\ t.host \in DOMAIN Family

-----------------------------------------------------------------------------
(* One round.                                                              *)

requoted(t) == IF type = "TXT" THEN quoteTXT(t) ELSE t

\* Faulty variant of Listed: stored text is reported as it is.
ListedBare == {fromRdata(r) : r \in stored}

\* The targets Records reports, and those AdjustEndpoints makes of the wanted.
Listed == {requoted(fromRdata(r)) : r \in stored}
AdjustedOf(T) == {requoted(t) : t \in T}
Adjusted == AdjustedOf(wanted)

\* The planner compares addresses by value, other targets by their text.
PlannerValue(t) ==
  IF type \in {"A", "AAAA"} /\ Family[t.host] # 0
  THEN [t EXCEPT !.host = Canonical[t.host]] ELSE t
NothingToDo == {PlannerValue(t) : t \in Listed} = {PlannerValue(t) : t \in Adjusted}

\* The targets of the operations ApplyChanges performs.
Deletes == IF NothingToDo THEN {} ELSE Listed \ Adjusted
Creates == IF NothingToDo THEN {} ELSE Adjusted \ Listed

\* Each delete removes one record with the key of its target, if there is one.
Removals ==
  LET RecordsAt(k) == {r \in stored : keyTarget(fromRdata(r)) = k}
      DeletesAt(k) == {t \in Deletes : keyTarget(t) = k}
      Fewer(m, n) == IF m < n THEN m ELSE n
      Keys == {keyTarget(t) : t \in Deletes}
  IN {R \in SUBSET UNION {RecordsAt(k) : k \in Keys} :
        \A k \in Keys : Cardinality(R \cap RecordsAt(k))
                          = Fewer(Cardinality(RecordsAt(k)), Cardinality(DeletesAt(k)))}

\* Records, plan and ApplyChanges; an invalid target is rejected.
Sync ==
  /\ \E R \in Removals :
       stored' = (stored \ R) \cup {Kept(toRdata(t)) : t \in {c \in Creates : IsValid(c)}}
  /\ synced' = TRUE
  /\ UNCHANGED <<type, wanted, nested>>

Want(T) ==
  /\ wanted' = T
  /\ synced' = FALSE
  /\ nested' = (nested \/ (type = "TXT" /\ \E t \in T : ~QuotedOnce(t)))
  /\ UNCHANGED <<type, stored>>

Init ==
  /\ type \in DOMAIN Source
  /\ wanted = {} /\ stored = {}
  /\ synced = FALSE /\ nested = FALSE

Next == Sync \/ \E T \in Source[type] : T # wanted /\ Want(T)

Spec == Init /\ [][Next]_vars

-----------------------------------------------------------------------------
\* The records that stand for a set of targets, those that are valid.
RecordsOf(T) == {Kept(toRdata(t)) : t \in {w \in AdjustedOf(T) : IsValid(w)}}

\* After a round the Portal has the records of the wanted targets, and nothing
\* of what was wanted before, whatever the texts, as long as none of them was in
\* quotes twice: such a text, stored in quotes, is taken for the text without
\* them (keyOf, quoteTXT).
Faithful == synced /\ ~nested => stored = RecordsOf(wanted)

\* A TXT target whose text ends in a backslash: it escapes the closing quote that
\* quoteTXT adds.
Unclosed(t) == type = "TXT" /\ EndsEscaped(t)

\* netip prints the address the way the source writes it.
AsPrinted(t) == type \in {"A", "AAAA"} => Canonical[t.host] = t.host

\* A target that is read back in another form, so that each round deletes and
\* creates it: text that ends in a backslash; an address in an unusual spelling,
\* once a rejected target keeps the planner from finding nothing to do.
Rewritten(t) ==
  IsValid(t) /\ (Unclosed(t) \/ (~AsPrinted(t) /\ \E u \in Adjusted : ~IsValid(u)))

\* After a round, the next one finds nothing to do, but for targets that are
\* rejected or rewritten each time, and nothing else changes with these (quoteTXT,
\* unquoteTXT, rdataA, diffTargets).
PlanIsStable ==
  synced /\ ~nested =>
    /\ \A t \in Creates : ~IsValid(t) \/ Rewritten(t)
    /\ \A d \in Deletes :
         \E t \in Adjusted : Rewritten(t) /\ d = requoted(fromRdata(Kept(toRdata(t))))

\* "Records must hand the quoted form back (so the plan is stable)"
\* (provider_test.go:625): after a round, no TXT record is deleted or created.
TextSettles == synced /\ type = "TXT" => Deletes = {} /\ Creates = {}

\* A round deletes no record that is wanted, in whatever form the source
\* writes it, two cases apart: an unusual spelling of an address, which is
\* deleted and created again whenever another target changes or is rejected, and
\* text that ends in a backslash, in every round (diffTargets).
WantedStays ==
  ~nested =>
    \A d \in Deletes, t \in Adjusted :
      IsValid(t) /\ AsPrinted(t) /\ ~Unclosed(t) => Kept(toRdata(t)) # Kept(toRdata(d))
=============================================================================
