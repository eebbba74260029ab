---------------------------- MODULE MCRecordData ----------------------------
(* TXT: every value of up to four characters out of a quote, a backslash and *)
(* a letter, every one of up to six quotes and backslashes, and pairs of     *)
(* short ones.                                                               *)
(* Other types: two hosts, the numbers around the 16-bit limit, addresses of *)
(* either family, one of them also spelled in another way.                   *)
EXTENDS RecordData

CONSTANTS Letter, HostA, HostB, Addr4, Other4, Addr6, Long6, Other6, NotAddr

Chars == {Quote, Backslash, Letter}
Texts(n, C) == UNION {[1 .. k -> C] : k \in 0 .. n}

LongTexts == Texts(4, Chars) \cup Texts(6, {Quote, Backslash})
\* Not the same value with and without its quotes, which the source would
\* have to ask for twice.
TextPairs == {{s, t} : s, t \in {p \in Texts(2, Chars) : ~LooksQuoted(p)}}

Addresses == {Addr4, Other4, Addr6, Long6, Other6, NotAddr, HostA}
MCFamily == [a \in Addresses |-> CASE a \in {Addr4, Other4} -> 4
                                   [] a \in {Addr6, Long6, Other6} -> 6
                                   [] OTHER -> 0]
MCCanonical == [a \in Addresses |-> IF a = Long6 THEN Addr6 ELSE a]

Value(nums, host) == [nums |-> nums, host |-> host, dotted |-> FALSE]
Hosts == {HostA, HostB, NoHost}
Numbers == {0, 65535, 65536}
UpToTwo(S) == {{s, t} : s, t \in S} \cup {{}}
AddressSets == UpToTwo({Value(<<>>, a) : a \in Addresses})

MCSource ==
  [TXT |-> {{t} : t \in LongTexts} \cup TextPairs \cup {{}},
   A |-> AddressSets,
   AAAA |-> AddressSets,
   CNAME |-> UpToTwo({Value(<<>>, h) : h \in Hosts}),
   MX |-> UpToTwo({Value(<<n>>, h) : n \in Numbers, h \in Hosts}),
   SRV |-> UpToTwo({Value(<<0, n, 1>>, h) : n \in Numbers, h \in Hosts}
                   \cup {Value(<<0>>, HostA)})]

\* One value, a letter and a backslash.
BackslashSource == [TXT |-> {{}, {<<Letter, Backslash>>}}]
=============================================================================
