------------------------------- MODULE MCEdge -------------------------------
(* Small instances of Edge for TLC.                                        *)
EXTENDS Edge

CONSTANT Mapped   \* an IPv4 address mapped into IPv6

Range(subnet, bits) == [kind |-> "range", subnet |-> subnet, bits |-> bits]
Wildcard(matching) == [kind |-> "wildcard", matching |-> matching]
Only(address) == [kind |-> "exact", address |-> address]

MCUnparsed == {Mapped}

\* No list; ranges of two subnets with host bits, one of them a negative word,
\* and of the mapped address, with every length there is, too few bits, too
\* many and none that parse; a wildcard over both kinds of address, an exact
\* rule and one of each kind.
MCRuleLists ==
    {{}} \cup {{Range(s, b)} : s \in {1, 6, Mapped}, b \in (0..Width + 1) \cup {NaN}}
         \cup {{Wildcard({1, Mapped})}, {Only(Mapped)},
               {Range(5, 2), Wildcard({0}), Only(7)}}

\* One kind of request from every address, and every kind from one of them.
MCArrivals == ({"bodiless"} \X Addresses) \cup (Kinds \X {0})

\* An upload, without filters.
NoLists == {{}}
UploadArrivals == {<<"raw", 0>>}
=============================================================================
