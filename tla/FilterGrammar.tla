----------------------------- MODULE FilterGrammar -----------------------------
(* What a filter text says, stated apart from the way parse() reads it: how    *)
(* each predicate is written, and which trees the rules of filter.pest derive  *)
(* for a text when they are taken as a grammar, without an order of trying.    *)
EXTENDS FilterParser, TLC

CONSTANT Leaves   \* the predicates texts are made of

--------------------------------------------------------------------------------
(* Predicates.                                                                 *)

(* The j-th bit of an address or a mask, from the front.                       *)
BitOf(words, j) ==
  (words[(j - 1) \div WordBits + 1] \div 2 ^ (WordBits - 1 - ((j - 1) % WordBits))) % 2

Positions(words) == 1 .. Len(words) * WordBits

(* The mask that selects the first n bits.                                     *)
Selects(mask, n) == \A j \in Positions(mask) : BitOf(mask, j) = 1 <=> j <= n

(* The class of an IPv4 address shows in its leading bits.                     *)
ClassPrefix(v, addr) ==
  LET ones == {n \in 0 .. 3 : \A j \in 1 .. n : BitOf(addr, j) = 1}
      class == CHOOSE n \in ones : \A k \in ones : k <= n
  IN  IF v = 6 THEN Len(addr) * WordBits ELSE (class + 1) * (WordBits \div 4)

Directed(dir) == IF dir = "any" THEN <<>> ELSE <<Keyword(dir)>>

Spellings(f) ==
  CASE f.kind = "proto" -> {<<Keyword(f.proto)>>}
    [] f.kind = "host" -> {Directed(f.dir) \o <<Keyword("host"), Addr(f.version, f.addr)>>}
    [] f.kind = "port" -> {Directed(f.dir) \o <<Keyword("port"), Num(f.port)>>}
    [] f.kind = "portrange" ->
         {Directed(f.dir) \o <<Keyword("portrange"), Num(f.start), Keyword("-"), Num(f.end)>>}
    [] f.kind = "net" ->
         LET net == Directed(f.dir) \o <<Keyword("net"), Addr(f.version, f.addr)>>
         IN  {net \o <<Keyword("mask"), Addr(f.version, f.mask)>>}
               \cup {net \o <<Keyword("/"), Num(n)>> : n \in {m \in Positions(f.mask) : Selects(f.mask, m)}}
               \cup (IF Selects(f.mask, ClassPrefix(f.version, f.addr)) THEN {net} ELSE {})
    [] f.kind = "ether" ->
         {<<Keyword("ether")>> \o Directed(f.dir) \o host \o <<Mac(f.addr)>> : host \in {<<>>, <<Keyword("host")>>}}
    [] f.kind = "len" ->
         {<<Keyword("len"), Keyword(op), Num(f.len)>> : op \in {w \in DOMAIN RelOps : RelOps[w] = f.op}}
           \cup (CASE f.op = "gt" -> {<<Keyword("greater "), Num(f.len)>>}
                   [] f.op = "lt" -> {<<Keyword("less "), Num(f.len)>>}
                   [] OTHER -> {})

(* Combined with the empty function so that TLC computes the table once.       *)
Written == [f \in Leaves |-> Spellings(f)] @@ <<>>

--------------------------------------------------------------------------------
(* Expressions: every tree a text can be derived from.                         *)

RECURSIVE Derivations(_)

Primaries(t) ==
  {f \in Leaves : t \in Written[f]}
    \cup IF Len(t) > 2 /\ t[1] = Keyword("(") /\ t[Len(t)] = Keyword(")")
         THEN Derivations(SubSeq(t, 2, Len(t) - 1)) ELSE {}

Negations(t) ==
  Primaries(t) \cup
    IF Len(t) > 1 /\ t[1] = Keyword("not") THEN {Not(f) : f \in Primaries(Tail(t))} ELSE {}

Joins(Op(_, _), left, right) == {Op(l, r) : l \in left, r \in right}

RECURSIVE Conjunctions(_)
Conjunctions(t) ==
  Negations(t) \cup
    UNION {LET right == Negations(SubSeq(t, i + 1, Len(t)))
               end == IF t[i] \in {Keyword("and"), Keyword("&&")} THEN {i - 1, i} ELSE {i}
           IN  IF right = {} THEN {}
               ELSE UNION {Joins(And, Conjunctions(SubSeq(t, 1, e)), right) : e \in end}
           : i \in 1 .. Len(t) - 1}

Derivations(t) ==
  Conjunctions(t) \cup
    UNION {LET right == Conjunctions(SubSeq(t, i + 1, Len(t)))
           IN  IF right = {} THEN {} ELSE Joins(Or, Derivations(SubSeq(t, 1, i - 1)), right)
           : i \in {k \in 1 .. Len(t) : t[k] \in {Keyword("or"), Keyword("||")}}}
================================================================================
