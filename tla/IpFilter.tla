------------------------------ MODULE IpFilter ------------------------------
(***************************************************************************)
(* ipFilter, ipMatchesRule and ipToNumber of middleware/security.ts.       *)
(*                                                                         *)
(* An address is a dotted quad, the number that ipToNumber makes of it     *)
(* (Width bits; 32 in the code), or any other string, of which ipToNumber  *)
(* makes null: IPv6, and IPv4 mapped into it.  The bit operations are      *)
(* JavaScript's, on signed words.  A rule with an asterisk is the set of   *)
(* the addresses that its regular expression matches.                      *)
(***************************************************************************)
EXTENDS Integers

CONSTANTS Width,
          Unparsed,   \* the addresses that are no dotted quads
          NaN         \* parseInt of something that is no number

Quads == 0..2^Width - 1
Addresses == Quads \cup Unparsed

ASSUME IpFilterAssumption ==
    /\ Width \in Nat \ {0}
    /\ Unparsed \cap Quads = {}
    /\ NaN \notin Int

\* What follows the slash: bits.
Lengths == Int \cup {NaN}

IsRule(rule) ==
    \/ rule.kind = "range" /\ rule.subnet \in Addresses /\ rule.bits \in Lengths
    \/ rule.kind = "wildcard" /\ rule.matching \subseteq Addresses
    \/ rule.kind = "exact" /\ rule.address \in Addresses

-----------------------------------------------------------------------------
\* The n-th bit from the left, of a quad or of a signed word.
Bit(x, n) == (x \div (2^(Width - n))) % 2

Words == -(2^(Width - 1)) .. 2^(Width - 1) - 1

ToInt(x) == IF x < 2^(Width - 1) THEN x ELSE x - 2^Width
Not(x) == -x - 1
WordOf(bit) == CHOOSE z \in Words : \A n \in 1..Width : Bit(z, n) = bit[n]
And(x, y) == WordOf([n \in 1..Width |-> Bit(x, n) * Bit(y, n)])

\* ~(2 ** (32 - bits) - 1); no bits are left of NaN.
Mask(bits) == Not(IF bits = NaN THEN 0 ELSE 2^(Width - bits) - 1)

\* Faulty: the subnet is compared as it was parsed.
InRangeUnmasked(ip, subnet, bits) ==
    /\ bits = NaN \/ bits \in 1..Width
    /\ {ip, subnet} \subseteq Quads
    /\ And(ToInt(ip), Mask(bits)) = subnet

\* The part of ipMatchesRule for CIDR ranges.
InRange(ip, subnet, bits) ==
    /\ bits = NaN \/ bits \in 1..Width
    /\ {ip, subnet} \subseteq Quads
    /\ And(ToInt(ip), Mask(bits)) = And(ToInt(subnet), Mask(bits))

\* ipMatchesRule.
Matches(ip, rule) ==
    CASE rule.kind = "range" -> InRange(ip, rule.subnet, rule.bits)
      [] rule.kind = "wildcard" -> ip \in rule.matching
      [] rule.kind = "exact" -> ip = rule.address

\* ipFilter.
Admitted(ip, deny, allow) ==
    /\ ~\E rule \in deny : Matches(ip, rule)
    /\ allow # {} => \E rule \in allow : Matches(ip, rule)

-----------------------------------------------------------------------------
\* What a range means: the quads that share its first bits, all of them when
\* bits is no number.  It has a meaning for a quad and 1 to Width bits.
Leading(bits) == IF bits = NaN THEN Width ELSE bits

Covers(ip, rule) ==
    CASE rule.kind = "range" ->
            /\ rule.bits = NaN \/ rule.bits \in 1..Width
            /\ {ip, rule.subnet} \subseteq Quads
            /\ \A n \in 1..Leading(rule.bits) : Bit(ip, n) = Bit(rule.subnet, n)
      [] rule.kind = "wildcard" -> ip \in rule.matching
      [] rule.kind = "exact" -> ip = rule.address
=============================================================================
