----------------------------- MODULE FilterParser -----------------------------
(* netdump-filter's parse(): the rules of filter.pest, tried in order and      *)
(* without going back once one has matched, and the build_* functions that     *)
(* turn a match into a tree.                                                   *)
(*                                                                             *)
(* A text is a sequence of tokens.  White space is left out, but for the one   *)
(* place the code looks at it: "greater " and "less " are the words followed   *)
(* by a blank, "greater" and "less" those followed by anything else.           *)
EXTENDS FilterCompiler

Keyword(w) == [word |-> w]
Num(n) == [num |-> n]
Addr(v, addr) == [ip |-> [version |-> v, addr |-> addr]]   \* version 0: not an address
Mac(addr) == [mac |-> addr]

HasAt(t, i, field) == i \in DOMAIN t /\ field \in DOMAIN t[i]
WordAt(t, i) == IF HasAt(t, i, "word") THEN t[i].word ELSE ""
NumAt(t, i) == HasAt(t, i, "num")

(* What the rules for addresses match: digits alone will do.                   *)
IpAt(t, i) == HasAt(t, i, "ip") \/ HasAt(t, i, "num")

(* A rule matches up to position `to`; a match may still hold an error, which  *)
(* parse() returns in place of the tree.                                       *)
Bad == [kind |-> "bad"]
Match(to, tree) == [to |-> to, tree |-> tree]
NoMatch == Match(0, Bad)

--------------------------------------------------------------------------------
(* Predicates.                                                                 *)

Checked16(n, tree) == IF n < 65536 THEN tree ELSE Bad

(* The lengths are as wide as a machine word.                                  *)
CheckedLen(op, n) == IF n < Modulus THEN LenIs(op, n) ELSE Bad

RelOps ==
  [w \in {"=", "==", "!=", ">", ">=", "<", "<="} |->
    CASE w \in {"=", "=="} -> "eq" [] w = "!=" -> "ne" [] w = ">" -> "gt"
      [] w = ">=" -> "ge" [] w = "<" -> "lt" [] w = "<=" -> "le"]

ParseHostAddr(t, i) ==
  IF HasAt(t, i, "ip") THEN t[i].ip ELSE [version |-> 0, addr |-> <<>>]

(* The all-ones word is shifted left by the bits that are not in the prefix;   *)
(* the shift count wraps around at the width of the address.                   *)
PrefixMask(words, prefix) ==
  LET shift == (words * WordBits - prefix) % (words * WordBits)
      Cleared(i) == LET n == shift - (words - i) * WordBits
                    IN  IF n < 0 THEN 0 ELSE IF n > WordBits THEN WordBits ELSE n
  IN  [i \in 1 .. words |-> Modulus - 2 ^ Cleared(i)]

(* Without a prefix an IPv4 network has the one of its class, by the value of  *)
(* its first octet, and an IPv6 network is a single host.                      *)
DefaultPrefix(host) ==
  LET octet == WordBits \div 4
      first == host.addr[1] \div 2 ^ (WordBits - octet)
      values == 2 ^ octet
  IN  IF host.version = 6 THEN Len(host.addr) * WordBits
      ELSE IF first < values \div 2 THEN octet
      ELSE IF first < (3 * values) \div 4 THEN 2 * octet
      ELSE IF first < (7 * values) \div 8 THEN 3 * octet
      ELSE WordBits

NetOf(host, mask, dir) ==
  IF host.version = 0 \/ mask = <<>> THEN Bad ELSE Net(host.version, host.addr, mask, dir)

(* A prefix longer than the address, a mask of the other version.              *)
MaskOfPrefix(host, n) ==
  IF n > Len(host.addr) * WordBits THEN <<>> ELSE PrefixMask(Len(host.addr), n)

MaskOfAddr(host, mask) == IF mask.version = host.version THEN mask.addr ELSE <<>>

ParseNet(t, i, dir) ==
  LET host == ParseHostAddr(t, i)
  IN  IF WordAt(t, i + 1) = "/" /\ NumAt(t, i + 2)
      THEN Match(i + 3, NetOf(host, MaskOfPrefix(host, t[i + 2].num), dir))
      ELSE IF WordAt(t, i + 1) = "mask" /\ IpAt(t, i + 2)
      THEN Match(i + 3, NetOf(host, MaskOfAddr(host, ParseHostAddr(t, i + 2)), dir))
      ELSE IF host.version = 0 THEN Match(i + 1, Bad)
      ELSE Match(i + 1, NetOf(host, PrefixMask(Len(host.addr), DefaultPrefix(host)), dir))

DirectionAt(t, i) == IF WordAt(t, i) \in {"src", "dst"} THEN WordAt(t, i) ELSE "any"
Behind(t, i) == IF DirectionAt(t, i) = "any" THEN i ELSE i + 1

(* Only the direction behind `ether` counts, one in front of it is dropped.    *)
ParseEther(t, i) ==
  LET k == Behind(t, i)
      m == IF WordAt(t, k) = "host" THEN k + 1 ELSE k
  IN  IF HasAt(t, m, "mac") THEN Match(m + 1, EtherHost(t[m].mac, DirectionAt(t, i))) ELSE NoMatch

ParsePortRange(t, i, dir) ==
  LET lo == t[i].num
      hi == t[i + 2].num
  IN  Match(i + 3, IF lo > hi THEN Bad ELSE Checked16(hi, PortRange(lo, hi, dir)))

ParsePredicate(t, i) ==
  LET dir == DirectionAt(t, i)
      k == Behind(t, i)
      w == WordAt(t, k)
  IN  CASE w \in DOMAIN ETHERTYPE \cup DOMAIN IPPROTO -> Match(k + 1, Proto(w))
        [] w = "host" /\ IpAt(t, k + 1) ->
             LET host == ParseHostAddr(t, k + 1)
             IN  Match(k + 2, IF host.version = 0 THEN Bad ELSE Host(host.version, host.addr, dir))
        [] w = "port" /\ NumAt(t, k + 1) ->
             Match(k + 2, Checked16(t[k + 1].num, Port(t[k + 1].num, dir)))
        [] w = "portrange" /\ NumAt(t, k + 1) /\ WordAt(t, k + 2) = "-" /\ NumAt(t, k + 3) ->
             ParsePortRange(t, k + 1, dir)
        [] w = "net" /\ IpAt(t, k + 1) -> ParseNet(t, k + 1, dir)
        [] w = "len" /\ WordAt(t, k + 1) \in DOMAIN RelOps /\ NumAt(t, k + 2) ->
             Match(k + 3, CheckedLen(RelOps[WordAt(t, k + 1)], t[k + 2].num))
        [] w = "greater " /\ NumAt(t, k + 1) -> Match(k + 2, CheckedLen("gt", t[k + 1].num))
        [] w = "less " /\ NumAt(t, k + 1) -> Match(k + 2, CheckedLen("lt", t[k + 1].num))
        [] w \in {"greater", "less"} /\ NumAt(t, k + 1) -> Match(k + 2, Bad)
        [] w = "ether" -> ParseEther(t, k + 1)
        [] OTHER -> NoMatch

--------------------------------------------------------------------------------
(* Expressions: `or` binds weaker than `and`, which may be left out, and both  *)
(* group to the left; `not` takes a single predicate or a parenthesis.         *)

Joined(Op(_, _), l, r) == IF Bad \in {l, r} THEN Bad ELSE Op(l, r)
Negated(f) == IF f = Bad THEN Bad ELSE Not(f)

RECURSIVE ParseOr(_, _)

ParsePrimary(t, i) ==
  IF ParsePredicate(t, i) # NoMatch THEN ParsePredicate(t, i)
  ELSE IF WordAt(t, i) # "(" THEN NoMatch
  ELSE LET inner == ParseOr(t, i + 1)
       IN  IF inner # NoMatch /\ WordAt(t, inner.to) = ")" THEN Match(inner.to + 1, inner.tree)
           ELSE NoMatch

ParseNot(t, i) ==
  IF WordAt(t, i) # "not" THEN ParsePrimary(t, i)
  ELSE LET inner == ParsePrimary(t, i + 1)
       IN  IF inner = NoMatch THEN NoMatch ELSE Match(inner.to, Negated(inner.tree))

RECURSIVE AndRest(_, _)
AndRest(t, left) ==
  LET k == IF WordAt(t, left.to) \in {"and", "&&"} THEN left.to + 1 ELSE left.to
      right == ParseNot(t, k)
  IN  IF right = NoMatch THEN left
      ELSE AndRest(t, Match(right.to, Joined(And, left.tree, right.tree)))

ParseAnd(t, i) == IF ParseNot(t, i) = NoMatch THEN NoMatch ELSE AndRest(t, ParseNot(t, i))

RECURSIVE OrRest(_, _)
OrRest(t, left) ==
  LET right == IF WordAt(t, left.to) \in {"or", "||"} THEN ParseAnd(t, left.to + 1) ELSE NoMatch
  IN  IF right = NoMatch THEN left
      ELSE OrRest(t, Match(right.to, Joined(Or, left.tree, right.tree)))

ParseOr(t, i) == IF ParseAnd(t, i) = NoMatch THEN NoMatch ELSE OrRest(t, ParseAnd(t, i))

(* A slip: a text is taken once its beginning is an expression.                *)
ParsePrefix(t) == ParseOr(t, 1).tree

(* The whole text must be read.                                                *)
Parse(t) == IF ParseOr(t, 1).to = Len(t) + 1 THEN ParseOr(t, 1).tree ELSE Bad
================================================================================
