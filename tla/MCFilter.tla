------------------------------- MODULE MCFilter -------------------------------
(* Filters and packets for FilterRun: 16-bit words, so an IPv4 address has 16  *)
(* bits and an IPv6 address 64; ethertypes and ports keep their width.         *)
EXTENDS FilterRun

Dirs == {"any", "src", "dst"}

(* A and A2 differ in their last bit, B is far from both.                      *)
A4 == <<41218>>
A4b == <<41219>>
B4 == <<20565>>
A6 == <<8193, 3512, 257, 1>>
A6b == <<8193, 3512, 258, 1>>
B6 == <<65152, 4097, 258, 2>>
M1 == <<1000, 11>>
M2 == <<1000, 12>>

Pick(set) == {Proto(p) : p \in set}

(* The network of the first n bits of an address, a mask of whole words but one. *)
MaskOf(words, n) ==
  [i \in 1 .. words |->
    CASE n <= (i - 1) * WordBits -> 0
      [] n >= i * WordBits -> Modulus - 1
      [] OTHER -> Modulus - 2 ^ (i * WordBits - n)]
Network(v, addr, n, dir) == Net(v, addr, MaskOf(Len(addr), n), dir)

Predicates ==
  Pick({"ip", "ip6", "arp", "rarp", "tcp", "udp", "icmp", "icmp6"})
    \cup {Host(4, A4, d) : d \in Dirs} \cup {Host(6, A6, d) : d \in Dirs}
    \cup {Port(80, d) : d \in Dirs} \cup {PortRange(80, 81, d) : d \in {"src", "dst"}}
    \cup {EtherHost(M1, d) : d \in Dirs} \cup {EtherHost(M2, "src")}
    \cup {Network(4, A4b, n, "any") : n \in {1, 8, 15}}
    \cup {Network(4, A4, 16, d) : d \in Dirs}
    \cup {Network(4, <<C * 4096>>, n, "src") : n \in {4, 8, 12, 16}, C \in {7, 13, 14}}
    \cup {Network(6, <<8193, 3512, 0, 0>>, 32, d) : d \in Dirs}
    \cup {Network(6, <<8193, 3512, 256, 0>>, 40, "src"), Network(6, A6, 64, "dst")}
    \cup {LenIs(op, 37) : op \in {"eq", "ne", "gt", "ge", "lt", "le"}}

Trees ==
  LET tcp == Proto("tcp")
      host == Host(4, A4, "any")
      http == Port(80, "any")
      range == PortRange(80, 81, "dst")
  IN  {Not(tcp), Not(Not(host)), And(tcp, http), Or(host, http), Not(Or(host, http)),
       Not(And(tcp, Not(http))), Or(And(tcp, range), Host(6, A6, "src")),
       And(Or(host, Host(6, A6, "any")), Not(Or(Proto("udp"), range))),
       Or(Or(EtherHost(M2, "src"), http), Not(LenIs("lt", 37))),
       Or(host, And(http, tcp)), And(tcp, And(http, host))}

(* Trees written with no more parentheses than they need.                      *)
Binding(f) == CASE f.kind = "or" -> 1 [] f.kind = "and" -> 2 [] f.kind = "not" -> 3 [] OTHER -> 4
Paren(t) == <<Keyword("(")>> \o t \o <<Keyword(")")>>

RECURSIVE Show(_)
Show(f) ==
  LET Inner(g, least) == IF Binding(g) < least THEN Paren(Show(g)) ELSE Show(g)
  IN  CASE f.kind = "or" -> Inner(f.left, 1) \o <<Keyword("or")>> \o Inner(f.right, 2)
        [] f.kind = "and" -> Inner(f.left, 2) \o <<Keyword("and")>> \o Inner(f.right, 3)
        [] f.kind = "not" -> <<Keyword("not")>> \o Inner(f.inner, 4)
        [] OTHER -> CHOOSE t \in Spellings(f) : TRUE

WellFormed == UNION {Spellings(f) : f \in Predicates} \cup {Show(f) : f \in Trees}

(* Texts the grammar derives but parse() must refuse, and some it does not.    *)
IllFormed ==
  LET ip == Addr(4, A4)
      bad == Addr(0, <<>>)
  IN  {<<Keyword("port"), Num(65536)>>, <<Keyword("host"), bad>>, <<Keyword("host"), Num(10)>>,
       <<Keyword("portrange"), Num(81), Keyword("-"), Num(80)>>,
       <<Keyword("portrange"), Num(80), Keyword("-"), Num(65536)>>,
       <<Keyword("net"), ip, Keyword("/"), Num(17)>>, <<Keyword("net"), Addr(6, A6), Keyword("/"), Num(65)>>,
       <<Keyword("net"), ip, Keyword("mask"), Addr(6, A6)>>, <<Keyword("net"), bad>>,
       <<Keyword("net"), ip, Keyword("mask")>>, <<Keyword("net"), ip, Keyword("/")>>,
       <<Keyword("greater"), Num(37)>>, <<Keyword("len"), Keyword(">"), Num(65536)>>, <<Keyword("len"), Num(37)>>,
       <<Keyword("ether"), Keyword("host"), ip>>, <<Keyword("tcp"), Keyword("and"), Keyword("port"), Num(65536)>>,
       <<Keyword("not"), Keyword("port"), Num(65536)>>}

(* Every text of up to four of these tokens.                                   *)
Tokens ==
  {Keyword("tcp"), Keyword("port"), Num(80), Keyword("and"), Keyword("or"), Keyword("not"), Keyword("("), Keyword(")")}
ShortTexts == UNION {[1 .. n -> Tokens] : n \in 1 .. 4}

(* Packets whose datagram has `total` bytes, whole or cut short by `len`.      *)
Frames(type, protos, lens, total, ihls, ends, ports, macs) ==
  {[len |-> l, ethertype |-> type, inner |-> type, ethsrc |-> m[1], ethdst |-> m[2], proto |-> n, ihl |-> h,
    src |-> e[1], dst |-> e[2], sport |-> q[1], dport |-> q[2], ts |-> 0,
    total |-> total, ext |-> 0, upper |-> n, tsize |-> CASE n = 6 -> 20 [] n = 17 -> 8 [] OTHER -> 0,
    frag |-> FALSE, valid |-> TRUE] :
     l \in lens, m \in macs, n \in protos, h \in ihls, e \in ends, q \in ports}

PortPairs == {<<80, 79>>, <<79, 80>>, <<81, 82>>, <<82, 81>>, <<79, 82>>}

(* Lengths that cut a packet inside every field the code looks at.             *)
Captured4 == Frames(2048, {6, 17, 1}, {60, 37, 35, 31, 24, 23, 13}, 46, {5, 6},
                    {<<A4, B4>>, <<B4, A4>>, <<A4b, B4>>}, PortPairs, {<<M1, M2>>})
Captured6 == Frames(34525, {6, 58}, {74, 60, 57, 50, 37, 33, 20}, 60, {5},
                    {<<A6, B6>>, <<B6, A6>>, <<A6b, B6>>}, PortPairs, {<<M2, M1>>})
Others == Frames(2054, {6}, {60, 13, 11, 5}, 46, {5}, {<<A4, B4>>}, {<<80, 80>>}, {<<M1, M2>>, <<M2, M1>>})

(* With an 802.1Q tag; the datagram ends at 60 over IPv4, at 78 over IPv6.      *)
Tagged == {[f EXCEPT !.ethertype = 33024] :
            f \in Frames(2048, {6, 17}, {78, 60, 20}, 42, {5, 6}, {<<A4, B4>>}, {<<80, 79>>}, {<<M1, M2>>})
                    \cup Frames(34525, {6, 58}, {78, 60}, 60, {5}, {<<A6, B6>>}, {<<80, 79>>}, {<<M1, M2>>})}

Captures == Captured4 \cup Captured6 \cup Others \cup Tagged
OneCapture == Frames(2048, {6}, {60}, 46, {5}, {<<A4, B4>>}, {<<80, 79>>}, {<<M1, M2>>})

(* Time stamps around the ends of days, months and years, leap days, and late. *)
Dated ==
  {[p EXCEPT !.ts = 86400 * day + secs] :
    p \in OneCapture, secs \in {0, 59, 3599, 3600, 86399},
    day \in {0, 30, 31, 58, 59, 364, 365, 729, 789, 790, 1095, 1096, 11015, 11016, 11017, 11322, 11323, 24854}}

(* One packet with other headers: lengths that disagree, padding behind the    *)
(* datagram, options, extension headers, fragments and what else is refused.   *)
With(p, totals, ihls, sizes, exts, frags) ==
  {[p EXCEPT !.total = n, !.ihl = h, !.tsize = z, !.ext = e,
             !.proto = IF e = 0 THEN p.upper ELSE 44, !.frag = f, !.valid = v] :
     n \in totals, h \in ihls, z \in sizes, e \in exts, f \in frags, v \in BOOLEAN}

Over6(p, len, upper) ==
  [p EXCEPT !.len = len, !.ethertype = 34525, !.inner = 34525, !.src = A6, !.dst = B6, !.upper = upper]

Headers ==
  UNION {With(p, {39, 40, 44, 46, 47}, {4, 5, 6}, {16, 20, 24}, {0}, BOOLEAN) : p \in OneCapture}
    \cup UNION {With(Over6(p, l, u), {39, 40, 59, 60, 61}, {5}, {0, 20}, {0}, {FALSE})
                  \cup With(Over6(p, l, u), {59, 60, 68}, {5}, {0, 20}, {8}, BOOLEAN) :
                 p \in OneCapture, l \in {54, 74}, u \in {6, 17, 58}}

On(texts, packets) == [texts |-> texts, packets |-> packets]

(* Only a filter with a port in it is tried on every pair of ports, and only   *)
(* one without on every pair of ends.                                          *)
RECURSIVE HasPort(_)
HasPort(f) ==
  CASE f.kind \in {"and", "or"} -> HasPort(f.left) \/ HasPort(f.right)
    [] f.kind = "not" -> HasPort(f.inner)
    [] OTHER -> f.kind \in {"port", "portrange"}

WithPort == UNION {Spellings(f) : f \in {g \in Predicates : HasPort(g)}}
              \cup {Show(f) : f \in {g \in Trees : HasPort(g)}}

OnePortPair == {p \in Captures : p.sport = 80}
FarEnds == {p \in Captures : p.src \notin {A4b, A6b}}

(* `host a or host b or ...`: one term more, one text each.                    *)
HostChain[n \in 1 .. 15] ==
  IF n = 1 THEN Host(6, A6, "any") ELSE Or(HostChain[n - 1], Host(6, A6, "any"))

(* The first jump to the accepting return goes over 255 instructions and over  *)
(* 256, one more than an instruction can say.                                  *)
NetChain[n \in 1 .. 10] ==
  LET net == Network(6, <<8193, 3512, 0, 0>>, 32, "any") IN IF n = 1 THEN net ELSE Or(NetChain[n - 1], net)
LongTrees ==
  {Or(Or(NetChain[10], Proto("tcp")), Proto("arp")), Or(Or(NetChain[10], Host(4, A4, "any")), Host(4, A4, "src"))}

Filters ==
  {On(WithPort, FarEnds), On(WellFormed \ WithPort, OnePortPair),
   On(ShortTexts \cup IllFormed \cup {Show(f) : f \in LongTrees}, OneCapture), On({<<Keyword("tcp")>>}, Dated),
   On({Show(LenIs("ge", 37))}, Headers)}

--------------------------------------------------------------------------------
(* Filters whose program is not what they say.                                 *)

(* A range of ports without a direction.                                       *)
AnyRange == {PortRange(80, 81, "any")}

(* An IPv6 network written with bits set behind its prefix.                    *)
HostBitsNet == {Network(6, A6, 32, "any")}

Ranges == {On({Show(f) : f \in AnyRange}, Captures)}
Networks6 == {On({Show(f) : f \in HostBitsNet}, Captures)}

(* Filters that a field reading as 0 satisfies.                                *)
ZeroSatisfied == {Not(Proto("tcp")), Not(Port(80, "any")), Port(0, "any")}
CutOff == {On({Show(f) : f \in ZeroSatisfied}, Captures)}

LongOr == {On({Show(HostChain[n]) : n \in 1 .. 15}, OneCapture)}

--------------------------------------------------------------------------------
(* The trees the texts of a run are read as, with the trees below them.        *)

(* Trees of n tokens, of which `and` may be left out.                          *)
OfTokens[n \in 0 .. 4] ==
  (CASE n = 1 -> {Proto("tcp")} [] n = 2 -> {Port(80, "any")} [] OTHER -> {})
    \cup (IF n = 0 THEN {} ELSE {Not(f) : f \in OfTokens[n - 1]})
    \cup UNION {{And(f, g) : f \in OfTokens[i], g \in OfTokens[n - i]} : i \in 1 .. n - 1}
    \cup UNION {{Or(f, g) : f \in OfTokens[i], g \in OfTokens[n - 1 - i]} : i \in 1 .. n - 2}

RECURSIVE Subtrees(_)
Subtrees(f) ==
  {f} \cup CASE f.kind \in {"and", "or"} -> Subtrees(f.left) \cup Subtrees(f.right)
             [] f.kind = "not" -> Subtrees(f.inner)
             [] OTHER -> {}

ReadTrees ==
  UNION {OfTokens[n] : n \in 1 .. 4} \cup Predicates
    \cup UNION {Subtrees(f) : f \in Trees \cup LongTrees \cup {HostChain[15]}}
    \cup AnyRange \cup HostBitsNet \cup ZeroSatisfied

RECURSIVE Levels(_)
Levels(f) ==
  CASE f.kind \in {"and", "or"} ->
         LET l == Levels(f.left)
             r == Levels(f.right)
         IN  1 + (IF l > r THEN l ELSE r)
    [] f.kind = "not" -> 1 + Levels(f.inner)
    [] OTHER -> 0

Heights == [f \in ReadTrees |-> Levels(f)]
================================================================================
