---------------------------- MODULE CompilerProofs ----------------------------
(* What compile() makes of every filter tree, for every word width and every   *)
(* address, port and length: calls of the assembler that form a program, so    *)
(* that what is proved of the assembler holds of every filter.                 *)
EXTENDS FilterCompiler, CbpfProofs

--------------------------------------------------------------------------------
(* Code is put together from fragments.                                        *)

(* The calls, with what the kernel demands of operands.                        *)
InstCall ==
  {c \in [item : {"inst"}, class : Class, op : Operation, size : Nat, k : Word] :
     c.class # "jmp" /\ Allowed(c)}

JumpCall ==
  {c \in [item : {"jump"}, class : {"jmp"}, op : Operation, size : Nat, k : Word,
          target : [jt : Label, jf : Label]] : c.op # "ja" /\ Allowed(c)}

LabelCall == [item : {"label"}, label : Label]

(* Calls whose jumps go forward to labels they place, or leave for one of exits. *)
Leaves(code, i, l, exits) == l \in exits \/ PlacedBehind(code, i, l)

Fragment(code, exits) ==
  /\ code \in Seq(InstCall \cup JumpCall \cup LabelCall)
  /\ \A i \in 1 .. Len(code) : code[i].item = "jump" =>
       Leaves(code, i, code[i].target.jt, exits) /\ Leaves(code, i, code[i].target.jf, exits)

LEMMA Wider ==
  ASSUME NEW code, NEW exits, NEW more, Fragment(code, exits), exits \subseteq more
  PROVE  Fragment(code, more)
  BY DEF Fragment, Leaves

LEMMA Nothing ==
  ASSUME NEW exits
  PROVE  Fragment(<<>>, exits)
  BY DEF Fragment

(* How the members of two sequences stand in the two put together.             *)
LEMMA Joints ==
  ASSUME NEW S, NEW c \in Seq(S), NEW d \in Seq(S)
  PROVE  /\ c \o d \in Seq(S)
         /\ Len(c) \in Nat /\ Len(d) \in Nat /\ Len(c \o d) = Len(c) + Len(d)
         /\ \A i \in 1 .. Len(c) : (c \o d)[i] = c[i]
         /\ \A i \in 1 .. Len(d) : (c \o d)[Len(c) + i] = d[i]
         /\ \A i \in Len(c) + 1 .. Len(c) + Len(d) : (c \o d)[i] = d[i - Len(c)]
<1>1. \A i \in Len(c) + 1 .. Len(c) + Len(d) :
        i - Len(c) \in 1 .. Len(d) /\ i = Len(c) + (i - Len(c))
  OBVIOUS
<1> QED
  BY <1>1

(* An exit that the fragment behind places is none any more.                   *)
LEMMA Joined ==
  ASSUME NEW c, NEW d, NEW exits, NEW inner, Fragment(c, exits \cup inner), Fragment(d, exits),
         \A l \in inner : \E j \in 1 .. Len(d) : d[j].item = "label" /\ d[j].label = l
  PROVE  Fragment(c \o d, exits)
<1> DEFINE S == InstCall \cup JumpCall \cup LabelCall
           e == c \o d
<1>1. c \in Seq(S) /\ d \in Seq(S)
  BY DEF Fragment
<1> HIDE DEF S
<1>2. /\ e \in Seq(S)
      /\ Len(c) \in Nat /\ Len(d) \in Nat /\ Len(e) = Len(c) + Len(d)
      /\ \A i \in 1 .. Len(c) : e[i] = c[i]
      /\ \A i \in 1 .. Len(d) : e[Len(c) + i] = d[i]
      /\ \A i \in Len(c) + 1 .. Len(c) + Len(d) : e[i] = d[i - Len(c)]
  BY <1>1, Joints
<1> HIDE DEF e
<1>3. ASSUME NEW i \in 1 .. Len(c), NEW l, Leaves(c, i, l, exits \cup inner)
      PROVE  Leaves(e, i, l, exits)
  <2>1. CASE l \in exits \/ l = NextInst
    BY <2>1 DEF Leaves, PlacedBehind
  <2>2. CASE l \in inner
    <3>1. PICK j \in 1 .. Len(d) : d[j].item = "label" /\ d[j].label = l
      BY <2>2
    <3>2. Len(c) + j \in i + 1 .. Len(e) /\ e[Len(c) + j] = d[j]
      BY <1>2
    <3> QED
      BY <3>1, <3>2 DEF Leaves, PlacedBehind
  <2>3. CASE \E j \in i + 1 .. Len(c) : c[j].item = "label" /\ c[j].label = l
    <3>1. PICK j \in i + 1 .. Len(c) : c[j].item = "label" /\ c[j].label = l
      BY <2>3
    <3>2. j \in i + 1 .. Len(e) /\ e[j] = c[j]
      BY <1>2
    <3> QED
      BY <3>1, <3>2 DEF Leaves, PlacedBehind
  <2> QED
    BY <1>3, <2>1, <2>2, <2>3 DEF Leaves, PlacedBehind
<1>4. ASSUME NEW i \in 1 .. Len(d), NEW l, Leaves(d, i, l, exits)
      PROVE  Leaves(e, Len(c) + i, l, exits)
  <2>1. CASE l \in exits \/ l = NextInst
    BY <2>1 DEF Leaves, PlacedBehind
  <2>2. CASE \E j \in i + 1 .. Len(d) : d[j].item = "label" /\ d[j].label = l
    <3>1. PICK j \in i + 1 .. Len(d) : d[j].item = "label" /\ d[j].label = l
      BY <2>2
    <3>2. Len(c) + j \in Len(c) + i + 1 .. Len(e) /\ e[Len(c) + j] = d[j]
      BY <1>2
    <3> QED
      BY <3>1, <3>2 DEF Leaves, PlacedBehind
  <2> QED
    BY <1>4, <2>1, <2>2 DEF Leaves, PlacedBehind
<1>5. ASSUME NEW i \in 1 .. Len(e), e[i].item = "jump"
      PROVE  Leaves(e, i, e[i].target.jt, exits) /\ Leaves(e, i, e[i].target.jf, exits)
  <2>1. CASE i \in 1 .. Len(c)
    <3>1. e[i] = c[i]
      BY <1>2, <2>1
    <3>2. /\ Leaves(c, i, c[i].target.jt, exits \cup inner)
          /\ Leaves(c, i, c[i].target.jf, exits \cup inner)
      BY <1>5, <2>1, <3>1 DEF Fragment
    <3> QED
      BY <1>3, <2>1, <3>1, <3>2
  <2>2. CASE i \notin 1 .. Len(c)
    <3>1. PICK n \in 1 .. Len(d) : i = Len(c) + n /\ e[i] = d[n]
      <4>1. i \in Len(c) + 1 .. Len(c) + Len(d) /\ i - Len(c) \in 1 .. Len(d)
            /\ i = Len(c) + (i - Len(c))
        BY <1>2, <2>2
      <4> QED
        BY <1>2, <4>1
    <3>2. Leaves(d, n, d[n].target.jt, exits) /\ Leaves(d, n, d[n].target.jf, exits)
      BY <1>5, <3>1 DEF Fragment
    <3> QED
      BY <1>4, <3>1, <3>2
  <2> QED
    BY <2>1, <2>2
<1> QED
  BY <1>2, <1>5 DEF Fragment, e, S

LEMMA Followed ==
  ASSUME NEW c, NEW d, NEW exits, Fragment(c, exits), Fragment(d, exits)
  PROVE  Fragment(c \o d, exits)
<1> DEFINE none == {}
<1>1. exits \cup none = exits
  OBVIOUS
<1>2. Fragment(c, exits \cup none)
  BY <1>1
<1>3. \A l \in none : \E j \in 1 .. Len(d) : d[j].item = "label" /\ d[j].label = l
  OBVIOUS
<1> HIDE DEF none
<1> QED
  BY <1>2, <1>3, Joined

(* Placing a label serves the jumps to it.                                     *)
LEMMA Placed ==
  ASSUME NEW c, NEW exits, NEW l \in Label, Fragment(c, exits \cup {l})
  PROVE  Fragment(c \o PlaceLabel(l), exits)
<1> DEFINE d == PlaceLabel(l)
           inner == {l}
<1>1. d[1] \in LabelCall /\ d[1].item = "label" /\ d[1].label = l /\ Len(d) = 1
  BY DEF PlaceLabel, LabelCall
<1>2. Fragment(d, exits)
  BY <1>1 DEF Fragment, PlaceLabel
<1> HIDE DEF d
<1>3. \A m \in inner : \E j \in 1 .. Len(d) : d[j].item = "label" /\ d[j].label = m
  BY <1>1
<1>4. Fragment(c, exits \cup inner)
  OBVIOUS
<1> HIDE DEF inner
<1>5. Fragment(c \o d, exits)
  BY <1>2, <1>3, <1>4, Joined
<1> QED
  BY <1>5 DEF d

--------------------------------------------------------------------------------
(* Single calls.                                                               *)

LEMMA Sixteenth == PowerOfTwo[16] = 65536
<1>1. ASSUME NEW n \in Nat
      PROVE  PowerOfTwo[n + 4] = 16 * PowerOfTwo[n]
  <2>1. /\ n + 1 \in Nat /\ n + 2 \in Nat /\ n + 3 \in Nat
        /\ n + 1 + 1 = n + 2 /\ n + 2 + 1 = n + 3 /\ n + 3 + 1 = n + 4
    OBVIOUS
  <2>2. PowerOfTwo[n] \in Nat /\ PowerOfTwo[n + 1] = 2 * PowerOfTwo[n]
    BY PowersAre
  <2>3. PowerOfTwo[n + 2] = 2 * PowerOfTwo[n + 1] /\ PowerOfTwo[n + 3] = 2 * PowerOfTwo[n + 2]
    BY <2>1, PowersAre
  <2>4. PowerOfTwo[n + 4] = 2 * PowerOfTwo[n + 3]
    BY <2>1, PowersAre
  <2> QED
    BY <2>2, <2>3, <2>4
<1>2. PowerOfTwo[4] = 16
  <2>1. PowerOfTwo[0 + 4] = 16 * PowerOfTwo[0]
    BY <1>1
  <2> QED
    BY <2>1, PowersAre
<1>3. PowerOfTwo[8] = 256
  <2>1. PowerOfTwo[4 + 4] = 16 * PowerOfTwo[4]
    BY <1>1
  <2> QED
    BY <1>2, <2>1
<1>4. PowerOfTwo[12] = 4096
  <2>1. PowerOfTwo[8 + 4] = 16 * PowerOfTwo[8]
    BY <1>1
  <2> QED
    BY <1>3, <2>1
<1>5. PowerOfTwo[12 + 4] = 16 * PowerOfTwo[12]
  BY <1>1
<1> QED
  BY <1>4, <1>5

(* A word holds every number of 16 bits.                                       *)
LEMMA HalfWords == U16 \subseteq Word
<1> DEFINE half == PowerOfTwo[16]
           T == {n \in Nat : PowerOfTwo[16 + n] >= half}
<1>1. half \in Nat /\ 16 \in Nat
  BY PowersAre
<1>2. \A n \in Nat : /\ 16 + n \in Nat /\ (16 + n) + 1 = 16 + (n + 1)
                    /\ PowerOfTwo[(16 + n) + 1] = 2 * PowerOfTwo[16 + n]
                    /\ PowerOfTwo[16 + n] \in Nat
  <2> TAKE n \in Nat
  <2>1. 16 + n \in Nat /\ (16 + n) + 1 = 16 + (n + 1)
    OBVIOUS
  <2> QED
    BY <2>1, PowersAre
<1>3. U16 = 0 .. half - 1
  BY DEF U16
<1> HIDE DEF half
<1>4. 0 \in T
  <2>1. 16 + 0 = 16 /\ PowerOfTwo[16] >= half
    BY <1>1 DEF half
  <2> QED
    BY <2>1
<1>5. ASSUME NEW n \in T
      PROVE  n + 1 \in T
  <2>1. n \in Nat /\ PowerOfTwo[16 + n] >= half
    OBVIOUS
  <2>2. PowerOfTwo[16 + (n + 1)] = 2 * PowerOfTwo[16 + n] /\ PowerOfTwo[16 + n] \in Nat
    BY <1>2, <2>1
  <2>3. PowerOfTwo[16 + (n + 1)] >= half
    BY <1>1, <2>1, <2>2
  <2> QED
    BY <2>1, <2>3
<1>6. \A n \in Nat : n \in T
  <2>1. T \subseteq Nat
    OBVIOUS
  <2> HIDE DEF T
  <2> QED
    BY <1>4, <1>5, <2>1, SetInduction
<1>7. WordBits - 16 \in Nat /\ 16 + (WordBits - 16) = WordBits
  BY WidthAssumption, WordAssumption
<1>8. Modulus >= half
  BY <1>6, <1>7 DEF Modulus
<1> HIDE DEF T
<1>9. 0 .. half - 1 \subseteq 0 .. Modulus - 1
  BY <1>1, <1>8, ModulusAtLeast
<1> QED
  BY <1>3, <1>9 DEF Word

(* What compile() emits besides jumps.                                         *)
LEMMA Emitted ==
  ASSUME NEW exits, NEW class \in {"ld", "ldx", "alu", "ret"},
         NEW op \in {"abs", "ind", "len", "msh", "and", "k"}, NEW size \in Nat, NEW k \in Word
  PROVE  Fragment(Emit(class, op, size, k), exits)
<1> DEFINE c == [item |-> "inst", class |-> class, op |-> op, size |-> size, k |-> k]
<1>1. /\ c \in [item : {"inst"}, class : Class, op : Operation, size : Nat, k : Word]
      /\ c.class = class /\ c.op = op /\ c.item = "inst"
  <2>1. class \in Class /\ op \in Operation
    BY DEF Class, Operation
  <2> QED
    BY <2>1
<1>2. c \in InstCall
  BY <1>1 DEF InstCall, Allowed
<1> HIDE DEF c
<1>3. Fragment(<<c>>, exits)
  BY <1>1, <1>2 DEF Fragment
<1> QED
  BY <1>3 DEF Emit, c

LEMMA Labelled ==
  ASSUME NEW p \in Seq(Nat), NEW name \in LabelName
  PROVE  LabelAt(p, name) \in Label
  BY DEF LabelAt, Label

LEMMA NextIsLabel == NextInst \in Label
<1>1. <<>> \in Seq(Nat) /\ "next" \in LabelName
  BY DEF LabelName
<1> QED
  BY <1>1, Labelled DEF NextInst

LEMMA Jumped ==
  ASSUME NEW exits \in SUBSET Label, NEW op \in {"jeq", "jgt", "jge"}, NEW k \in Word,
         NEW t \in exits \cup {NextInst}, NEW f \in exits \cup {NextInst}
  PROVE  Fragment(EmitJump(op, k, t, f), exits)
<1> DEFINE target == [jt |-> t, jf |-> f]
           c == [item |-> "jump", class |-> "jmp", op |-> op, size |-> 0, k |-> k,
                 target |-> target]
<1>1. NextInst \in Label
  BY NextIsLabel
<1>2. target \in [jt : Label, jf : Label] /\ target.jt = t /\ target.jf = f
  BY <1>1
<1> HIDE DEF target
<1>3. /\ c \in [item : {"jump"}, class : {"jmp"}, op : Operation, size : Nat, k : Word,
                 target : [jt : Label, jf : Label]]
      /\ c.class = "jmp" /\ c.op = op /\ c.target = target
  <2>1. op \in Operation /\ 0 \in Nat
    BY DEF Operation
  <2> QED
    BY <1>2, <2>1
<1>4. c \in JumpCall
  BY <1>3 DEF JumpCall, Allowed
<1> HIDE DEF c
<1>5. Fragment(<<c>>, exits)
  BY <1>2, <1>3, <1>4 DEF Fragment, Leaves, PlacedBehind
<1> QED
  BY <1>5 DEF EmitJump, c, target

LEMMA SmallWords == 0 .. 63 \subseteq Word
  BY ModulusAtLeast DEF Word

LEMMA Numbers ==
  /\ \A e \in DOMAIN ETHERTYPE : ETHERTYPE[e] \in Word
  /\ \A n \in DOMAIN IPPROTO : IPPROTO[n] \in Word
<1>1. \A e \in DOMAIN ETHERTYPE : ETHERTYPE[e] \in U16
  <2>1. DOMAIN ETHERTYPE = {"ip", "ip6", "arp", "rarp"}
    BY DEF ETHERTYPE
  <2>2. ETHERTYPE["ip"] \in U16 /\ ETHERTYPE["ip6"] \in U16
    BY Sixteenth DEF ETHERTYPE, U16
  <2>3. ETHERTYPE["arp"] \in U16 /\ ETHERTYPE["rarp"] \in U16
    BY Sixteenth DEF ETHERTYPE, U16
  <2> QED
    BY <2>1, <2>2, <2>3
<1>2. \A n \in DOMAIN IPPROTO : IPPROTO[n] \in 0 .. 63
  <2>1. DOMAIN IPPROTO = {"icmp", "tcp", "udp", "icmp6"}
    BY DEF IPPROTO
  <2>2. IPPROTO["icmp"] \in 0 .. 63 /\ IPPROTO["tcp"] \in 0 .. 63
    BY DEF IPPROTO
  <2>3. IPPROTO["udp"] \in 0 .. 63 /\ IPPROTO["icmp6"] \in 0 .. 63
    BY DEF IPPROTO
  <2> QED
    BY <2>1, <2>2, <2>3
<1> QED
  BY <1>1, <1>2, HalfWords, SmallWords

LEMMA Loaded ==
  ASSUME NEW exits, NEW size \in Nat, NEW k \in 0 .. 63
  PROVE  Fragment(LdAbs(size, k), exits)
  BY SmallWords, Emitted DEF LdAbs

LEMMA Compared ==
  ASSUME NEW exits \in SUBSET Label, NEW k \in Word,
         NEW t \in exits \cup {NextInst}, NEW f \in exits \cup {NextInst}
  PROVE  Fragment(Jeq(k, t, f), exits)
  BY Jumped DEF Jeq

--------------------------------------------------------------------------------
(* The leaves of a tree.                                                       *)

(* Where the code of a node leads.                                             *)
Exits(acc, rej) == {acc, rej}

LEMMA ExitsAre ==
  ASSUME NEW acc \in Label, NEW rej \in Label
  PROVE  /\ Exits(acc, rej) \in SUBSET Label
         /\ acc \in Exits(acc, rej) /\ rej \in Exits(acc, rej)
         /\ \A l \in {acc, rej, NextInst} : l \in Exits(acc, rej) \cup {NextInst}
  BY DEF Exits

(* The masks of an address, or none.                                           *)
Masks(v) == Address(v) \cup {<<>>}

LEMMA EthertypeCode ==
  ASSUME NEW exits \in SUBSET Label, NEW type \in Word,
         NEW acc \in exits \cup {NextInst}, NEW rej \in exits \cup {NextInst}
  PROVE  Fragment(CheckEthertype(type, acc, rej), exits)
<1>1. Fragment(LdAbs(2, 12), exits)
  BY Loaded
<1>2. Fragment(Jeq(type, acc, rej), exits)
  BY Compared
<1> QED
  BY <1>1, <1>2, Followed DEF CheckEthertype

LEMMA ProtoCode ==
  ASSUME NEW exits \in SUBSET Label, NEW off \in 0 .. 63, NEW num \in Word,
         NEW acc \in exits \cup {NextInst}, NEW rej \in exits \cup {NextInst}
  PROVE  Fragment(CheckProto(off, num, acc, rej), exits)
<1>1. Fragment(LdAbs(1, off), exits)
  BY Loaded
<1>2. Fragment(Jeq(num, acc, rej), exits)
  BY Compared
<1> QED
  BY <1>1, <1>2, Followed DEF CheckProto

(* Code for both versions is in order if the code for each is.                 *)
LEMMA VersionsCode ==
  ASSUME NEW exits \in SUBSET Label, NEW p \in Seq(Nat), NEW v6, NEW v4,
         NEW rej \in exits \cup {NextInst}, Fragment(v6, exits), Fragment(v4, exits)
  PROVE  Fragment(EitherVersion(p, v6, v4, rej), exits)
<1> DEFINE l == LabelAt(p, "ipv4")
           more == exits \cup {l}
           load == LdAbs(2, 12)
           ip == Jeq(ETHERTYPE.ip, l, NextInst)
           ip6 == Jeq(ETHERTYPE.ip6, NextInst, rej)
<1>1. l \in Label
  BY Labelled DEF LabelName
<1>2. EitherVersion(p, v6, v4, rej) = load \o ip \o ip6 \o v6 \o PlaceLabel(l) \o v4
  BY DEF EitherVersion
<1>3. ETHERTYPE.ip \in Word /\ ETHERTYPE.ip6 \in Word
  BY Numbers DEF ETHERTYPE
<1> HIDE DEF l
<1>4. more \in SUBSET Label /\ exits \subseteq more /\ l \in more /\ rej \in more \cup {NextInst}
  BY <1>1
<1>5. Fragment(load, more)
  BY Loaded
<1>6. Fragment(ip, more)
  BY <1>3, <1>4, Compared
<1>7. Fragment(ip6, more)
  BY <1>3, <1>4, Compared
<1>8. Fragment(v6, more)
  BY <1>4, Wider
<1> HIDE DEF load, ip, ip6
<1>9. Fragment(load \o ip, more)
  BY <1>5, <1>6, Followed
<1>10. Fragment(load \o ip \o ip6, more)
  BY <1>7, <1>9, Followed
<1>11. Fragment(load \o ip \o ip6 \o v6, more)
  BY <1>8, <1>10, Followed
<1>12. Fragment(load \o ip \o ip6 \o v6 \o PlaceLabel(l), exits)
  BY <1>1, <1>11, Placed
<1> QED
  BY <1>2, <1>12, Followed

(* So is code for a direction if each check is: the first of two leaves for the *)
(* second one or by an exit.                                                   *)
Way == {"any", "first", "second"}

Turned(dir, one, l, first, second) ==
  CASE dir = "any" -> one \o PlaceLabel(l) \o second
    [] dir = "first" -> first
    [] dir = "second" -> second

LEMMA DirectionsCode ==
  ASSUME NEW exits \in SUBSET Label, NEW l \in Label, NEW dir \in Way,
         NEW one, NEW first, NEW second,
         Fragment(one, exits \cup {l}), Fragment(first, exits), Fragment(second, exits)
  PROVE  Fragment(Turned(dir, one, l, first, second), exits)
<1>1. CASE dir = "any"
  <2>1. Fragment(one \o PlaceLabel(l), exits)
    BY Placed
  <2>2. Fragment(one \o PlaceLabel(l) \o second, exits)
    BY <2>1, Followed
  <2> QED
    BY <1>1, <2>2 DEF Turned
<1>2. CASE dir = "first"
  BY <1>2 DEF Turned
<1>3. CASE dir = "second"
  BY <1>3 DEF Turned
<1> QED
  BY <1>1, <1>2, <1>3 DEF Way

IpVersion == {4, 6}

LEMMA Addresses ==
  ASSUME NEW v \in IpVersion, NEW words \in Address(v)
  PROVE  /\ Len(words) = IF v = 4 THEN 1 ELSE 4
         /\ words # <<>>
         /\ \A i \in 1 .. Len(words) : words[i] \in Word
<1> DEFINE n == IF v = 4 THEN 1 ELSE 4
<1>1. n \in {1, 4}
  OBVIOUS
<1>2. words \in [1 .. n -> Word]
  BY DEF Address
<1> HIDE DEF n
<1>3. words \in Seq(Word) /\ Len(words) = n
  BY <1>1, <1>2
<1> QED
  BY <1>1, <1>2, <1>3 DEF n

LEMMA WordsCode ==
  ASSUME NEW exits \in SUBSET Label, NEW v \in IpVersion, NEW words \in Address(v),
         NEW masks \in Masks(v), NEW off \in 0 .. 38,
         NEW acc \in exits \cup {NextInst}, NEW rej \in exits \cup {NextInst}
  PROVE  Fragment(CheckWords(off, words, masks, acc, rej), exits)
<1> DEFINE word(i, t) == LdAbs(4, off + (i - 1) * 4)
                           \o (IF masks = <<>> THEN <<>> ELSE Emit("alu", "and", 0, masks[i]))
                           \o Jeq(words[i], t, rej)
<1>1. CheckWords(off, words, masks, acc, rej) =
        IF Len(words) = 1 THEN word(1, acc)
        ELSE word(1, NextInst) \o word(2, NextInst) \o word(3, NextInst) \o word(4, acc)
  BY DEF CheckWords
<1>2. ASSUME NEW i \in 1 .. Len(words), NEW t \in exits \cup {NextInst}
      PROVE  Fragment(word(i, t), exits)
  <2> DEFINE load == LdAbs(4, off + (i - 1) * 4)
             mask == IF masks = <<>> THEN <<>> ELSE Emit("alu", "and", 0, masks[i])
             compare == Jeq(words[i], t, rej)
  <2>1. words[i] \in Word /\ i \in 1 .. 4
    BY Addresses
  <2>2. Fragment(load, exits)
    <3>1. off + (i - 1) * 4 \in 0 .. 63
      BY <2>1
    <3> QED
      BY <3>1, Loaded
  <2>3. Fragment(mask, exits)
    <3>1. CASE masks = <<>>
      BY <3>1, Nothing
    <3>2. CASE masks # <<>>
      <4>1. masks[i] \in Word
        BY <3>2, Addresses DEF Masks
      <4>2. Fragment(Emit("alu", "and", 0, masks[i]), exits)
        BY <4>1, Emitted
      <4> QED
        BY <3>2, <4>2
    <3> QED
      BY <3>1, <3>2
  <2>4. Fragment(compare, exits)
    BY <2>1, Compared
  <2>5. word(i, t) = load \o mask \o compare
    OBVIOUS
  <2> HIDE DEF word, load, mask, compare
  <2>6. Fragment(load \o mask, exits)
    BY <2>2, <2>3, Followed
  <2> QED
    BY <2>4, <2>5, <2>6, Followed
<1> HIDE DEF word
<1>3. CASE Len(words) = 1
  BY <1>1, <1>2, <1>3
<1>4. CASE Len(words) # 1
  <2>1. Len(words) = 4
    BY <1>4, Addresses
  <2>2. /\ Fragment(word(1, NextInst), exits) /\ Fragment(word(2, NextInst), exits)
        /\ Fragment(word(3, NextInst), exits) /\ Fragment(word(4, acc), exits)
    BY <1>2, <2>1
  <2>3. Fragment(word(1, NextInst) \o word(2, NextInst), exits)
    BY <2>2, Followed
  <2>4. Fragment(word(1, NextInst) \o word(2, NextInst) \o word(3, NextInst), exits)
    BY <2>2, <2>3, Followed
  <2>5. Fragment(word(1, NextInst) \o word(2, NextInst) \o word(3, NextInst) \o word(4, acc), exits)
    BY <2>2, <2>4, Followed
  <2> QED
    BY <1>1, <1>4, <2>5
<1> QED
  BY <1>3, <1>4

LEMMA Directions ==
  ASSUME NEW dir \in Direction
  PROVE  SrcFirst(dir) \in Way /\ DstFirst(dir) \in Way
  BY DEF Direction, SrcFirst, DstFirst, Way

(* The addresses of either end under a mask or none.                           *)
EndsCode(p, dir, words, masks, src, dst, acc, rej) ==
  LET Check(off, t, e) == CheckWords(off, words, masks, t, e)
  IN  InDirection(p, SrcFirst(dir), Check, src, dst, acc, rej)

LEMMA EndsAre ==
  ASSUME NEW v \in IpVersion, NEW words \in Address(v), NEW masks \in Masks(v),
         NEW dir \in Direction, NEW src \in 0 .. 38, NEW dst \in 0 .. 38,
         NEW p \in Seq(Nat), NEW acc \in Label, NEW rej \in Label
  PROVE  Fragment(EndsCode(p, dir, words, masks, src, dst, acc, rej), Exits(acc, rej))
<1> DEFINE exits == Exits(acc, rej)
           l == LabelAt(p, "second")
           more == exits \cup {l}
           end == SrcFirst(dir)
           one == CheckWords(src, words, masks, acc, l)
           first == CheckWords(src, words, masks, acc, rej)
           second == CheckWords(dst, words, masks, acc, rej)
           code == Turned(end, one, l, first, second)
<1>1. l \in Label
  BY Labelled DEF LabelName
<1>2. EndsCode(p, dir, words, masks, src, dst, acc, rej) = code
  BY DEF EndsCode, InDirection, Turned
<1>3. end \in Way
  BY Directions
<1> HIDE DEF l, end
<1>4. /\ exits \in SUBSET Label /\ acc \in exits \cup {NextInst} /\ rej \in exits \cup {NextInst}
      /\ more \in SUBSET Label /\ acc \in more \cup {NextInst} /\ l \in more \cup {NextInst}
  BY <1>1, ExitsAre
<1> HIDE DEF exits
<1>5. Fragment(one, exits \cup {l})
  <2>1. more = exits \cup {l}
    OBVIOUS
  <2> HIDE DEF more
  <2> QED
    BY <1>4, <2>1, WordsCode
<1>6. Fragment(first, exits)
  BY <1>4, WordsCode
<1>7. Fragment(second, exits)
  BY <1>4, WordsCode
<1> HIDE DEF one, first, second
<1>8. Fragment(code, exits)
  BY <1>1, <1>3, <1>4, <1>5, <1>6, <1>7, DirectionsCode
<1> HIDE DEF code
<1> QED
  BY <1>2, <1>8 DEF exits

(* Behind the check of the version.                                            *)
LEMMA VersionThenEnds ==
  ASSUME NEW type \in Word, NEW v \in IpVersion, NEW words \in Address(v),
         NEW masks \in Masks(v), NEW dir \in Direction,
         NEW src \in 0 .. 38, NEW dst \in 0 .. 38,
         NEW p \in Seq(Nat), NEW acc \in Label, NEW rej \in Label
  PROVE  Fragment(CheckEthertype(type, NextInst, rej)
                    \o EndsCode(p, dir, words, masks, src, dst, acc, rej), Exits(acc, rej))
<1> DEFINE exits == Exits(acc, rej)
           version == CheckEthertype(type, NextInst, rej)
           ends == EndsCode(p, dir, words, masks, src, dst, acc, rej)
<1>1. /\ exits \in SUBSET Label /\ rej \in exits \cup {NextInst}
      /\ NextInst \in exits \cup {NextInst}
  BY ExitsAre
<1>2. Fragment(ends, exits)
  BY EndsAre
<1> HIDE DEF exits, ends
<1>3. Fragment(version, exits)
  BY <1>1, EthertypeCode
<1> HIDE DEF version
<1>4. Fragment(version \o ends, exits)
  BY <1>2, <1>3, Followed
<1> QED
  BY <1>4 DEF version, ends, exits

(* At the offsets of either version.                                           *)
LEMMA AddressCode ==
  ASSUME NEW v \in IpVersion, NEW words \in Address(v), NEW masks \in Masks(v),
         NEW dir \in Direction, NEW p \in Seq(Nat), NEW acc \in Label, NEW rej \in Label
  PROVE  /\ Fragment(CheckEthertype(ETHERTYPE["ip"], NextInst, rej)
                       \o EndsCode(p, dir, words, masks, 26, 30, acc, rej), Exits(acc, rej))
         /\ Fragment(CheckEthertype(ETHERTYPE["ip6"], NextInst, rej)
                       \o EndsCode(p, dir, words, masks, 22, 38, acc, rej), Exits(acc, rej))
<1> DEFINE ip == ETHERTYPE["ip"]
           src4 == 26
           dst4 == 30
           ip6 == ETHERTYPE["ip6"]
           src6 == 22
           dst6 == 38
<1>1. src4 \in 0 .. 38 /\ dst4 \in 0 .. 38 /\ src6 \in 0 .. 38 /\ dst6 \in 0 .. 38
  OBVIOUS
<1>2. ip \in Word /\ ip6 \in Word
  <2>1. "ip" \in DOMAIN ETHERTYPE /\ "ip6" \in DOMAIN ETHERTYPE
    BY DEF ETHERTYPE
  <2> QED
    BY <2>1, Numbers
<1> HIDE DEF ip, src4, dst4, ip6, src6, dst6
<1>3. Fragment(CheckEthertype(ip, NextInst, rej)
                 \o EndsCode(p, dir, words, masks, src4, dst4, acc, rej), Exits(acc, rej))
  BY <1>1, <1>2, VersionThenEnds
<1>4. Fragment(CheckEthertype(ip6, NextInst, rej)
                 \o EndsCode(p, dir, words, masks, src6, dst6, acc, rej), Exits(acc, rej))
  BY <1>1, <1>2, VersionThenEnds
<1> QED
  BY <1>3, <1>4 DEF ip, src4, dst4, ip6, src6, dst6

LEMMA HostCode ==
  ASSUME NEW v \in IpVersion, NEW f \in HostNodes(v), NEW p \in Seq(Nat),
         NEW acc \in Label, NEW rej \in Label
  PROVE  Fragment(CompileHost(p, f, acc, rej), Exits(acc, rej))
<1> DEFINE ip == CheckEthertype(ETHERTYPE["ip"], NextInst, rej)
                   \o EndsCode(p, f.dir, f.addr, <<>>, 26, 30, acc, rej)
           ip6 == CheckEthertype(ETHERTYPE["ip6"], NextInst, rej)
                    \o EndsCode(p, f.dir, f.addr, <<>>, 22, 38, acc, rej)
<1>1. f.addr \in Address(v) /\ f.dir \in Direction /\ <<>> \in Masks(v)
  BY DEF HostNodes, Masks
<1>2. CompileHost(p, f, acc, rej) = IF f.version = 4 THEN ip ELSE ip6
  BY DEF CompileHost, EndsCode
<1>3. Fragment(ip, Exits(acc, rej)) /\ Fragment(ip6, Exits(acc, rej))
  BY <1>1, AddressCode
<1> HIDE DEF ip, ip6
<1> QED
  BY <1>2, <1>3

LEMMA NetCode ==
  ASSUME NEW v \in IpVersion, NEW f \in NetNodes(v), NEW p \in Seq(Nat),
         NEW acc \in Label, NEW rej \in Label
  PROVE  Fragment(CompileNet(p, f, acc, rej), Exits(acc, rej))
<1> DEFINE net == IF f.version = 4 THEN [i \in 1 .. Len(f.addr) |-> BitAnd(f.addr[i], f.mask[i])]
                  ELSE f.addr
           ip == CheckEthertype(ETHERTYPE["ip"], NextInst, rej)
                   \o EndsCode(p, f.dir, net, f.mask, 26, 30, acc, rej)
           ip6 == CheckEthertype(ETHERTYPE["ip6"], NextInst, rej)
                    \o EndsCode(p, f.dir, net, f.mask, 22, 38, acc, rej)
<1>1. f.addr \in Address(v) /\ f.mask \in Address(v) /\ f.dir \in Direction /\ f.version = v
  BY DEF NetNodes
<1>2. net \in Address(v)
  <2>1. CASE v = 4
    <3>1. Len(f.addr) = 1
      BY <1>1, <2>1, Addresses
    <3>2. \A i \in 1 .. 1 : BitAnd(f.addr[i], f.mask[i]) \in Word
      BY BitsAreWords DEF BitAnd
    <3> QED
      BY <1>1, <2>1, <3>1, <3>2 DEF Address
  <2>2. CASE v # 4
    BY <1>1, <2>2
  <2> QED
    BY <2>1, <2>2
<1>3. CompileNet(p, f, acc, rej) = IF f.version = 4 THEN ip ELSE ip6
  BY DEF CompileNet, EndsCode
<1> HIDE DEF net
<1>4. f.mask \in Masks(v)
  BY <1>1 DEF Masks
<1>5. Fragment(ip, Exits(acc, rej)) /\ Fragment(ip6, Exits(acc, rej))
  BY <1>1, <1>2, <1>4, AddressCode
<1> HIDE DEF ip, ip6
<1> QED
  BY <1>3, <1>5

LEMMA EtherCode ==
  ASSUME NEW f \in EtherNodes, NEW p \in Seq(Nat), NEW acc \in Label, NEW rej \in Label
  PROVE  Fragment(CompileEtherHost(p, f, acc, rej), Exits(acc, rej))
<1> DEFINE exits == Exits(acc, rej)
           l == LabelAt(p, "second")
           check(off, t, e) == LdAbs(4, off) \o Jeq(f.addr[1], NextInst, e)
                                 \o LdAbs(2, off + 4) \o Jeq(f.addr[2], t, e)
<1>1. l \in Label
  BY Labelled DEF LabelName
<1>2. f.addr[1] \in Word /\ f.addr[2] \in Word /\ f.dir \in Direction
  BY HalfWords DEF EtherNodes
<1> DEFINE dir == DstFirst(f.dir)
           one == check(0, acc, l)
           first == check(0, acc, rej)
           second == check(6, acc, rej)
<1>3. CompileEtherHost(p, f, acc, rej) =
        Turned(dir, one, l, first, second)
  BY DEF CompileEtherHost, InDirection, Turned
<1> HIDE DEF l
<1>4. ASSUME NEW out \in SUBSET Label, NEW off \in 0 .. 6, NEW t \in out, NEW e \in out
      PROVE  Fragment(check(off, t, e), out)
  <2> DEFINE c1 == LdAbs(4, off)
             c2 == Jeq(f.addr[1], NextInst, e)
             c3 == LdAbs(2, off + 4)
             c4 == Jeq(f.addr[2], t, e)
  <2>1. Fragment(c1, out) /\ Fragment(c3, out)
    <3>1. off \in 0 .. 63 /\ off + 4 \in 0 .. 63
      OBVIOUS
    <3> QED
      BY <3>1, Loaded
  <2>2. Fragment(c2, out) /\ Fragment(c4, out)
    BY <1>2, Compared
  <2>3. check(off, t, e) = c1 \o c2 \o c3 \o c4
    OBVIOUS
  <2> HIDE DEF check, c1, c2, c3, c4
  <2>4. Fragment(c1 \o c2, out)
    BY <2>1, <2>2, Followed
  <2>5. Fragment(c1 \o c2 \o c3, out)
    BY <2>1, <2>4, Followed
  <2> QED
    BY <2>2, <2>3, <2>5, Followed
<1> HIDE DEF check
<1>5. Fragment(one, exits \cup {l})
  <2>1. /\ exits \cup {l} \in SUBSET Label /\ acc \in exits \cup {l} /\ l \in exits \cup {l}
        /\ 0 \in 0 .. 6
    BY <1>1, ExitsAre
  <2> HIDE DEF exits
  <2> QED
    BY <1>4, <2>1
<1>6. Fragment(first, exits) /\ Fragment(second, exits)
  <2>1. exits \in SUBSET Label /\ acc \in exits /\ rej \in exits /\ 0 \in 0 .. 6 /\ 6 \in 0 .. 6
    BY ExitsAre
  <2> HIDE DEF exits
  <2> QED
    BY <1>4, <2>1
<1>7. dir \in Way
  BY <1>2, Directions
<1>8. exits \in SUBSET Label
  BY ExitsAre
<1> HIDE DEF exits, dir, one, first, second
<1>9. Fragment(Turned(dir, one, l, first, second), exits)
  BY <1>1, <1>5, <1>6, <1>7, <1>8, DirectionsCode
<1> QED
  BY <1>3, <1>9 DEF exits

LEMMA Paths ==
  ASSUME NEW p \in Seq(Nat), NEW n \in Nat
  PROVE  p \o <<n>> \in Seq(Nat)
  OBVIOUS

LEMMA TransportCode ==
  ASSUME NEW exits \in SUBSET Label, NEW p \in Seq(Nat), NEW off \in 0 .. 63,
         NEW name \in {"ports4", "ports6"}, NEW rej \in exits
  PROVE  Fragment(TcpOrUdp(p, off, name, rej), exits)
<1> DEFINE l == LabelAt(p, name)
           more == exits \cup {l}
           load == LdAbs(1, off)
           tcp == Jeq(IPPROTO.tcp, l, NextInst)
           udp == Jeq(IPPROTO.udp, l, rej)
<1>1. l \in Label
  BY Labelled DEF LabelName
<1>2. TcpOrUdp(p, off, name, rej) = load \o tcp \o udp \o PlaceLabel(l)
  BY DEF TcpOrUdp
<1> HIDE DEF l
<1>3. IPPROTO.tcp \in Word /\ IPPROTO.udp \in Word
  BY Numbers DEF IPPROTO
<1>4. Fragment(load, more)
  BY Loaded
<1>5. Fragment(tcp, more) /\ Fragment(udp, more)
  BY <1>1, <1>3, Compared
<1> HIDE DEF load, tcp, udp
<1>6. Fragment(load \o tcp, more)
  BY <1>4, <1>5, Followed
<1>7. Fragment(load \o tcp \o udp, more)
  BY <1>5, <1>6, Followed
<1> QED
  BY <1>1, <1>2, <1>7, Placed

(* Checks of the ports in order make the whole in order.                       *)
LEMMA WithPortsCode ==
  ASSUME NEW exits \in SUBSET Label, NEW p \in Seq(Nat), NEW rej \in exits,
         NEW ports6, NEW ports4, Fragment(ports6, exits), Fragment(ports4, exits)
  PROVE  Fragment(EitherVersion(p, TcpOrUdp(p, 20, "ports6", rej) \o ports6,
                    TcpOrUdp(p, 23, "ports4", rej) \o Emit("ldx", "msh", 1, 14) \o ports4, rej),
                  exits)
<1> DEFINE t6 == TcpOrUdp(p, 20, "ports6", rej)
           t4 == TcpOrUdp(p, 23, "ports4", rej)
           msh == Emit("ldx", "msh", 1, 14)
<1>1. Fragment(t6, exits) /\ Fragment(t4, exits)
  <2>1. 20 \in 0 .. 63 /\ 23 \in 0 .. 63
    OBVIOUS
  <2> QED
    BY <2>1, TransportCode
<1>2. Fragment(msh, exits)
  <2>1. 14 \in Word /\ 1 \in Nat
    BY SmallWords
  <2> QED
    BY <2>1, Emitted
<1> HIDE DEF t6, t4, msh
<1>3. Fragment(t6 \o ports6, exits)
  BY <1>1, Followed
<1>4. Fragment(t4 \o msh, exits)
  BY <1>1, <1>2, Followed
<1>5. Fragment(t4 \o msh \o ports4, exits)
  BY <1>4, Followed
<1>6. rej \in exits \cup {NextInst}
  OBVIOUS
<1>7. Fragment(EitherVersion(p, t6 \o ports6, t4 \o msh \o ports4, rej), exits)
  BY <1>3, <1>5, <1>6, VersionsCode
<1> QED
  BY <1>7 DEF t6, t4, msh

LEMMA PortCode ==
  ASSUME NEW f \in PortNodes, NEW p \in Seq(Nat), NEW acc \in Label, NEW rej \in Label
  PROVE  Fragment(CompilePort(p, f, acc, rej), Exits(acc, rej))
<1> DEFINE exits == Exits(acc, rej)
           dir == SrcFirst(f.dir)
           check(mode, off, t, e) == Emit("ld", mode, 2, off) \o Jeq(f.port, t, e)
           l(q) == LabelAt(q, "second")
           ports(mode, src, dst, q) ==
             Turned(dir, check(mode, src, acc, l(q)), l(q), check(mode, src, acc, rej),
                    check(mode, dst, acc, rej))
           ports6 == ports("abs", 54, 56, p \o <<6>>)
           ports4 == ports("ind", 14, 16, p \o <<4>>)
<1>1. CompilePort(p, f, acc, rej) =
        EitherVersion(p, TcpOrUdp(p, 20, "ports6", rej) \o ports6,
          TcpOrUdp(p, 23, "ports4", rej) \o Emit("ldx", "msh", 1, 14) \o ports4, rej)
  BY DEF CompilePort, WithPorts, InDirection, Turned
<1>2. f.port \in Word /\ dir \in Way
  BY HalfWords, Directions DEF PortNodes
<1>3. ASSUME NEW out \in SUBSET Label, NEW mode \in {"abs", "ind"}, NEW off \in 0 .. 63,
             NEW t \in out, NEW e \in out
      PROVE  Fragment(check(mode, off, t, e), out)
  <2>1. Fragment(Emit("ld", mode, 2, off), out)
    BY SmallWords, Emitted
  <2>2. Fragment(Jeq(f.port, t, e), out)
    BY <1>2, Compared
  <2> QED
    BY <2>1, <2>2, Followed
<1> HIDE DEF check
<1>4. ASSUME NEW mode \in {"abs", "ind"}, NEW src \in 0 .. 63, NEW dst \in 0 .. 63,
             NEW q \in Seq(Nat)
      PROVE  Fragment(ports(mode, src, dst, q), exits)
  <2> DEFINE one == check(mode, src, acc, l(q))
             first == check(mode, src, acc, rej)
             second == check(mode, dst, acc, rej)
             s == l(q)
             more == exits \cup {s}
  <2>1. s \in Label
    BY Labelled DEF LabelName
  <2>2. ports(mode, src, dst, q) = Turned(dir, one, s, first, second)
    OBVIOUS
  <2>3. /\ exits \in SUBSET Label /\ acc \in exits /\ rej \in exits
        /\ more \in SUBSET Label /\ acc \in more /\ s \in more
    BY <2>1, ExitsAre
  <2> HIDE DEF exits, more, dir, ports
  <2>4. Fragment(first, exits) /\ Fragment(second, exits)
    BY <1>3, <2>3
  <2>5. Fragment(one, more)
    BY <1>3, <2>3
  <2>6. Fragment(one, exits \cup {s})
    BY <2>5 DEF more
  <2> HIDE DEF one, first, second, s
  <2>7. Fragment(Turned(dir, one, s, first, second), exits)
    BY <1>2, <2>1, <2>3, <2>4, <2>6, DirectionsCode
  <2> QED
    BY <2>2, <2>7
<1> HIDE DEF ports, dir
<1>5. Fragment(ports6, exits) /\ Fragment(ports4, exits)
  <2>1. p \o <<6>> \in Seq(Nat) /\ p \o <<4>> \in Seq(Nat)
    BY Paths
  <2>2. 54 \in 0 .. 63 /\ 56 \in 0 .. 63 /\ 14 \in 0 .. 63 /\ 16 \in 0 .. 63
    OBVIOUS
  <2> HIDE DEF exits
  <2>3. Fragment(ports6, exits)
    BY <1>4, <2>1, <2>2
  <2>4. Fragment(ports4, exits)
    BY <1>4, <2>1, <2>2
  <2> QED
    BY <2>3, <2>4
<1>6. exits \in SUBSET Label /\ rej \in exits
  BY ExitsAre
<1> HIDE DEF ports6, ports4, exits
<1>7. Fragment(CompilePort(p, f, acc, rej), exits)
  BY <1>1, <1>5, <1>6, WithPortsCode
<1> QED
  BY <1>7 DEF exits

LEMMA RangeCode ==
  ASSUME NEW f \in RangeNodes, NEW p \in Seq(Nat), NEW acc \in Label, NEW rej \in Label
  PROVE  Fragment(CompilePortRange(p, f, acc, rej), Exits(acc, rej))
<1> DEFINE exits == Exits(acc, rej)
           dir == SrcFirst(f.dir)
           check(mode, off, t, e) == Emit("ld", mode, 2, off)
                                       \o EmitJump("jge", f.start, NextInst, rej)
                                       \o EmitJump("jgt", f.end, e, t)
           l(q) == LabelAt(q, "second")
           ports(mode, src, dst, q) ==
             Turned(dir, check(mode, src, acc, l(q)), l(q), check(mode, src, acc, rej),
                    check(mode, dst, acc, rej))
           ports6 == ports("abs", 54, 56, p \o <<6>>)
           ports4 == ports("ind", 14, 16, p \o <<4>>)
<1>1. CompilePortRange(p, f, acc, rej) =
        EitherVersion(p, TcpOrUdp(p, 20, "ports6", rej) \o ports6,
          TcpOrUdp(p, 23, "ports4", rej) \o Emit("ldx", "msh", 1, 14) \o ports4, rej)
  BY DEF CompilePortRange, WithPorts, InDirection, Turned
<1>2. f.start \in Word /\ f.end \in Word /\ dir \in Way
  BY HalfWords, Directions DEF RangeNodes
<1>3. ASSUME NEW out \in SUBSET Label, NEW mode \in {"abs", "ind"}, NEW off \in 0 .. 63,
             NEW t \in out, NEW e \in out, rej \in out
      PROVE  Fragment(check(mode, off, t, e), out)
  <2> DEFINE load == Emit("ld", mode, 2, off)
             low == EmitJump("jge", f.start, NextInst, rej)
             high == EmitJump("jgt", f.end, e, t)
  <2>1. Fragment(load, out)
    BY SmallWords, Emitted
  <2>2. Fragment(low, out) /\ Fragment(high, out)
    BY <1>2, <1>3, Jumped
  <2>3. check(mode, off, t, e) = load \o low \o high
    OBVIOUS
  <2> HIDE DEF check, load, low, high
  <2>4. Fragment(load \o low, out)
    BY <2>1, <2>2, Followed
  <2> QED
    BY <2>2, <2>3, <2>4, Followed
<1> HIDE DEF check
<1>4. ASSUME NEW mode \in {"abs", "ind"}, NEW src \in 0 .. 63, NEW dst \in 0 .. 63,
             NEW q \in Seq(Nat)
      PROVE  Fragment(ports(mode, src, dst, q), exits)
  <2> DEFINE one == check(mode, src, acc, l(q))
             first == check(mode, src, acc, rej)
             second == check(mode, dst, acc, rej)
             s == l(q)
             more == exits \cup {s}
  <2>1. s \in Label
    BY Labelled DEF LabelName
  <2>2. ports(mode, src, dst, q) = Turned(dir, one, s, first, second)
    OBVIOUS
  <2>3. /\ exits \in SUBSET Label /\ acc \in exits /\ rej \in exits
        /\ more \in SUBSET Label /\ acc \in more /\ s \in more /\ rej \in more
    BY <2>1, ExitsAre
  <2> HIDE DEF exits, more, dir, ports
  <2>4. Fragment(first, exits) /\ Fragment(second, exits)
    BY <1>3, <2>3
  <2>5. Fragment(one, more)
    BY <1>3, <2>3
  <2>6. Fragment(one, exits \cup {s})
    BY <2>5 DEF more
  <2> HIDE DEF one, first, second, s
  <2>7. Fragment(Turned(dir, one, s, first, second), exits)
    BY <1>2, <2>1, <2>3, <2>4, <2>6, DirectionsCode
  <2> QED
    BY <2>2, <2>7
<1> HIDE DEF ports, dir
<1>5. Fragment(ports6, exits) /\ Fragment(ports4, exits)
  <2>1. p \o <<6>> \in Seq(Nat) /\ p \o <<4>> \in Seq(Nat)
    BY Paths
  <2>2. 54 \in 0 .. 63 /\ 56 \in 0 .. 63 /\ 14 \in 0 .. 63 /\ 16 \in 0 .. 63
    OBVIOUS
  <2> HIDE DEF exits
  <2>3. Fragment(ports6, exits)
    BY <1>4, <2>1, <2>2
  <2>4. Fragment(ports4, exits)
    BY <1>4, <2>1, <2>2
  <2> QED
    BY <2>3, <2>4
<1>6. exits \in SUBSET Label /\ rej \in exits
  BY ExitsAre
<1> HIDE DEF ports6, ports4, exits
<1>7. Fragment(CompilePortRange(p, f, acc, rej), exits)
  BY <1>1, <1>5, <1>6, WithPortsCode
<1> QED
  BY <1>7 DEF exits

LEMMA LenCode ==
  ASSUME NEW f \in LenNodes, NEW acc \in Label, NEW rej \in Label
  PROVE  Fragment(CompileLen(f.op, f.len, acc, rej), Exits(acc, rej))
<1> DEFINE exits == Exits(acc, rej)
           load == Emit("ld", "len", 4, 0)
           jump == CASE f.op = "eq" -> Jeq(f.len, acc, rej)
                     [] f.op = "ne" -> Jeq(f.len, rej, acc)
                     [] f.op = "gt" -> EmitJump("jgt", f.len, acc, rej)
                     [] f.op = "ge" -> EmitJump("jge", f.len, acc, rej)
                     [] f.op = "lt" -> EmitJump("jge", f.len, rej, acc)
                     [] f.op = "le" -> EmitJump("jgt", f.len, rej, acc)
<1>1. CompileLen(f.op, f.len, acc, rej) = load \o jump
  BY DEF CompileLen
<1>2. f.len \in Word /\ f.op \in {"eq", "ne", "gt", "ge", "lt", "le"}
  BY DEF LenNodes
<1>3. exits \in SUBSET Label /\ acc \in exits \cup {NextInst} /\ rej \in exits \cup {NextInst}
  BY ExitsAre
<1> HIDE DEF exits
<1>4. Fragment(load, exits)
  <2>1. 0 \in Word /\ 4 \in Nat
    BY SmallWords
  <2> QED
    BY <2>1, Emitted
<1>5. /\ Fragment(Jeq(f.len, acc, rej), exits) /\ Fragment(Jeq(f.len, rej, acc), exits)
      /\ \A op \in {"jgt", "jge"} : /\ Fragment(EmitJump(op, f.len, acc, rej), exits)
                                   /\ Fragment(EmitJump(op, f.len, rej, acc), exits)
  BY <1>2, <1>3, Compared, Jumped
<1>6. Fragment(jump, exits)
  BY <1>2, <1>5
<1> HIDE DEF load, jump
<1> QED
  BY <1>1, <1>4, <1>6, Followed DEF exits

LEMMA ProtocolCode ==
  ASSUME NEW f \in ProtoNodes, NEW p \in Seq(Nat), NEW acc \in Label, NEW rej \in Label
  PROVE  Fragment(CompileProto(p, f.proto, acc, rej), Exits(acc, rej))
<1> DEFINE exits == Exits(acc, rej)
<1>1. \/ f.proto \in DOMAIN ETHERTYPE
      \/ f.proto \in {"tcp", "udp"} /\ f.proto \in DOMAIN IPPROTO
      \/ f.proto = "icmp" /\ f.proto \in DOMAIN IPPROTO
      \/ f.proto = "icmp6" /\ f.proto \in DOMAIN IPPROTO
  BY DEF ProtoNodes, IPPROTO
<1>2. \A n \in DOMAIN IPPROTO : n \notin DOMAIN ETHERTYPE
  BY DEF IPPROTO, ETHERTYPE
<1>3. /\ exits \in SUBSET Label /\ acc \in exits \cup {NextInst} /\ rej \in exits \cup {NextInst}
      /\ NextInst \in exits \cup {NextInst}
  BY ExitsAre
<1> HIDE DEF exits
<1>4. \A off \in {20, 23}, n \in DOMAIN IPPROTO :
        Fragment(CheckProto(off, IPPROTO[n], acc, rej), exits)
  <2>1. 20 \in 0 .. 63 /\ 23 \in 0 .. 63
    OBVIOUS
  <2> QED
    BY <1>3, <2>1, Numbers, ProtoCode
<1>5. CASE f.proto \in DOMAIN ETHERTYPE
  <2>1. Fragment(CheckEthertype(ETHERTYPE[f.proto], acc, rej), exits)
    BY <1>3, <1>5, Numbers, EthertypeCode
  <2>2. f.proto \notin {"tcp", "udp", "icmp", "icmp6"}
    BY <1>5 DEF ETHERTYPE
  <2>3. CompileProto(p, f.proto, acc, rej) = CheckEthertype(ETHERTYPE[f.proto], acc, rej)
    BY <1>5, <2>2 DEF CompileProto
  <2> QED
    BY <2>1, <2>3 DEF exits
<1>6. CASE f.proto \in {"tcp", "udp"} /\ f.proto \in DOMAIN IPPROTO
  <2>1. Fragment(CompileTransportProto(p, IPPROTO[f.proto], acc, rej), exits)
    BY <1>3, <1>4, <1>6, VersionsCode DEF CompileTransportProto
  <2>2. CompileProto(p, f.proto, acc, rej) = CompileTransportProto(p, IPPROTO[f.proto], acc, rej)
    BY <1>2, <1>6 DEF CompileProto
  <2> QED
    BY <2>1, <2>2 DEF exits
<1>7. ASSUME NEW e \in DOMAIN ETHERTYPE, NEW off \in {20, 23}, NEW n \in DOMAIN IPPROTO
      PROVE  Fragment(CompileIcmp(ETHERTYPE[e], off, IPPROTO[n], acc, rej), exits)
  <2>1. Fragment(CheckEthertype(ETHERTYPE[e], NextInst, rej), exits)
    BY <1>3, Numbers, EthertypeCode
  <2> QED
    BY <1>4, <2>1, Followed DEF CompileIcmp
<1>8. CASE f.proto = "icmp" /\ f.proto \in DOMAIN IPPROTO
  <2> DEFINE code == CompileIcmp(ETHERTYPE["ip"], 23, IPPROTO["icmp"], acc, rej)
  <2>1. CompileProto(p, f.proto, acc, rej) = code
    BY <1>2, <1>8 DEF CompileProto
  <2>2. "ip" \in DOMAIN ETHERTYPE /\ "icmp" \in DOMAIN IPPROTO
    BY DEF ETHERTYPE, IPPROTO
  <2>3. Fragment(code, exits)
    BY <1>7, <2>2
  <2> HIDE DEF code
  <2> QED
    BY <2>1, <2>3 DEF exits
<1>9. CASE f.proto = "icmp6" /\ f.proto \in DOMAIN IPPROTO
  <2> DEFINE code == CompileIcmp(ETHERTYPE["ip6"], 20, IPPROTO["icmp6"], acc, rej)
  <2>1. CompileProto(p, f.proto, acc, rej) = code
    BY <1>2, <1>9 DEF CompileProto
  <2>2. "ip6" \in DOMAIN ETHERTYPE /\ "icmp6" \in DOMAIN IPPROTO
    BY DEF ETHERTYPE, IPPROTO
  <2>3. Fragment(code, exits)
    BY <1>7, <2>2
  <2> HIDE DEF code
  <2> QED
    BY <2>1, <2>3 DEF exits
<1> QED
  BY <1>1, <1>5, <1>6, <1>8, <1>9

--------------------------------------------------------------------------------
(* Trees.                                                                      *)

(* What a tree is.                                                             *)
LEMMA Shapes ==
  ASSUME NEW f \in Tree
  PROVE  /\ Height[f] \in Nat
         /\ \/ f \in ProtoNodes /\ f.kind = "proto"
            \/ f \in HostNodes(4) \cup HostNodes(6) /\ f.kind = "host"
            \/ f \in NetNodes(4) \cup NetNodes(6) /\ f.kind = "net"
            \/ f \in PortNodes /\ f.kind = "port"
            \/ f \in RangeNodes /\ f.kind = "portrange"
            \/ f \in EtherNodes /\ f.kind = "ether"
            \/ f \in LenNodes /\ f.kind = "len"
            \/ f.kind = "not" /\ f.inner \in Below(f)
            \/ f.kind \in {"and", "or"} /\ f.left \in Below(f) /\ f.right \in Below(f)
<1>1. Height[f] \in Nat
  BY TreeAssumption
<1>2. \/ f \in Predicate
      \/ f \in [kind : {"not"}, inner : Below(f)]
      \/ f \in [kind : {"and", "or"}, left : Below(f), right : Below(f)]
  BY TreeAssumption
<1>3. CASE f \in Predicate
  BY <1>1, <1>3
     DEF Predicate, ProtoNodes, HostNodes, NetNodes, PortNodes, RangeNodes, EtherNodes, LenNodes
<1>4. CASE f \in [kind : {"not"}, inner : Below(f)]
  BY <1>1, <1>4
<1>5. CASE f \in [kind : {"and", "or"}, left : Below(f), right : Below(f)]
  BY <1>1, <1>5
<1> QED
  BY <1>2, <1>3, <1>4, <1>5

(* The code of a node everywhere.                                              *)
Everywhere(code, f) == [s \in Site |-> NodeCode(code, f, s.path, s.acc, s.rej)]

(* It depends on the code of the nodes below alone.                            *)
LEMMA OnlyBelow ==
  ASSUME NEW f \in Tree, NEW g, NEW h, \A b \in Below(f) : g[b] = h[b]
  PROVE  Everywhere(g, f) = Everywhere(h, f)
<1>1. ASSUME NEW s \in Site
      PROVE  NodeCode(g, f, s.path, s.acc, s.rej) = NodeCode(h, f, s.path, s.acc, s.rej)
  <2>1. CASE f.kind = "not" /\ f.inner \in Below(f)
    <3>1. g[f.inner] = h[f.inner]
      BY <2>1
    <3> QED
      BY <2>1, <3>1 DEF NodeCode
  <2>2. CASE f.kind = "and" /\ f.left \in Below(f) /\ f.right \in Below(f)
    <3>1. g[f.left] = h[f.left] /\ g[f.right] = h[f.right]
      BY <2>2
    <3> QED
      BY <2>2, <3>1 DEF NodeCode
  <2>3. CASE f.kind = "or" /\ f.left \in Below(f) /\ f.right \in Below(f)
    <3>1. g[f.left] = h[f.left] /\ g[f.right] = h[f.right]
      BY <2>3
    <3> QED
      BY <2>3, <3>1 DEF NodeCode
  <2>4. CASE f.kind \in {"proto", "host", "net", "port", "portrange", "ether", "len"}
    BY <2>4 DEF NodeCode
  <2> QED
    BY <2>1, <2>2, <2>3, <2>4, Shapes
<1> QED
  BY <1>1, Zenon DEF Everywhere

(* So the definition of the code defines it: there is a table for the trees of *)
(* less than any height, any two agree where both have an entry, and together   *)
(* they are one.                                                               *)
LEMMA CodeIs == \A f \in Tree : CompileNode[f] = Everywhere(CompileNode, f)
<1> DEFINE Low(n) == {f \in Tree : Height[f] < n}
           Table(g, n) == \A f \in Low(n) : g[f] = Everywhere(g, f)
<1>1. \A f \in Tree : Height[f] \in Nat
  BY Shapes
<1>2. \A n \in Nat : \E g : Table(g, n)
  <2> DEFINE T == {n \in Nat : \E g : Table(g, n)}
  <2>1. 0 \in T
    <3>1. Low(0) = {}
      BY <1>1
    <3> QED
      BY <3>1
  <2>2. ASSUME NEW n \in Nat, n \in T PROVE n + 1 \in T
    <3>1. PICK g : Table(g, n)
      BY <2>2
    <3> DEFINE h == [f \in Tree |-> IF Height[f] < n THEN g[f] ELSE Everywhere(g, f)]
    <3>2. ASSUME NEW f \in Low(n + 1) PROVE h[f] = Everywhere(h, f)
      <4>1. h[f] = Everywhere(g, f)
        BY <3>1
      <4>2. \A b \in Below(f) : h[b] = g[b]
        BY <1>1 DEF Below
      <4> HIDE DEF h
      <4> QED
        BY <4>1, <4>2, OnlyBelow
    <3>3. Table(h, n + 1)
      BY <3>2
    <3> HIDE DEF h, Table
    <3> QED
      BY <3>3
  <2> HIDE DEF T
  <2>3. \A n \in Nat : n \in T
    BY <2>1, <2>2, SetInduction
  <2> QED
    BY <2>3 DEF T
<1>3. ASSUME NEW n \in Nat, NEW g, NEW h, Table(g, n), NEW m \in Nat, Table(h, m)
      PROVE  \A f \in Tree : Height[f] < n /\ Height[f] < m => g[f] = h[f]
  <2> DEFINE T == {k \in Nat : \A f \in Low(k) : Height[f] < n /\ Height[f] < m => g[f] = h[f]}
  <2>1. 0 \in T
    BY <1>1
  <2>2. ASSUME NEW k \in Nat, k \in T PROVE k + 1 \in T
    <3> SUFFICES ASSUME NEW f \in Low(k + 1), Height[f] < n, Height[f] < m PROVE g[f] = h[f]
      OBVIOUS
    <3>1. ASSUME NEW b \in Below(f) PROVE g[b] = h[b]
      <4>1. b \in Low(k) /\ Height[b] < n /\ Height[b] < m
        BY <1>1 DEF Below
      <4> QED
        BY <2>2, <4>1
    <3>2. g[f] = Everywhere(g, f) /\ h[f] = Everywhere(h, f)
      BY <1>3
    <3> QED
      BY <3>1, <3>2, OnlyBelow
  <2> HIDE DEF T
  <2>3. \A k \in Nat : k \in T
    BY <2>1, <2>2, SetInduction
  <2>4. ASSUME NEW f \in Tree, Height[f] < n, Height[f] < m PROVE g[f] = h[f]
    <3>1. f \in Low(n) /\ n \in T
      BY <2>3, <2>4
    <3> QED
      BY <2>4, <3>1 DEF T
  <2> QED
    BY <2>4
<1> DEFINE part(n) == CHOOSE g : Table(g, n)
           whole == [f \in Tree |-> part(Height[f] + 1)[f]]
           Defines(g) == g = [f \in Tree |-> Everywhere(g, f)]
<1>4. \A n \in Nat : Table(part(n), n)
  <2> HIDE DEF Table
  <2> QED
    BY <1>2
<1> HIDE DEF part
<1>5. ASSUME NEW f \in Tree PROVE whole[f] = Everywhere(whole, f)
  <2> DEFINE n == Height[f] + 1
  <2>1. n \in Nat /\ f \in Low(n)
    BY <1>1
  <2>2. part(n)[f] = Everywhere(part(n), f)
    BY <1>4, <2>1
  <2>3. ASSUME NEW b \in Below(f) PROVE part(n)[b] = whole[b]
    <3>1. /\ b \in Tree /\ Height[b] + 1 \in Nat
          /\ Height[b] < n /\ Height[b] < Height[b] + 1
      BY <1>1 DEF Below
    <3> HIDE DEF Table, n
    <3>2. Table(part(n), n) /\ Table(part(Height[b] + 1), Height[b] + 1)
      BY <1>4, <2>1, <3>1
    <3>3. part(n)[b] = part(Height[b] + 1)[b]
      BY <1>3, <2>1, <3>1, <3>2
    <3> QED
      BY <3>1, <3>3
  <2>4. whole[f] = part(n)[f]
    OBVIOUS
  <2> HIDE DEF whole, n
  <2>5. Everywhere(part(n), f) = Everywhere(whole, f)
    BY <2>3, OnlyBelow
  <2> QED
    BY <2>2, <2>4, <2>5
<1>6. Defines(whole)
  <2>1. whole = [f \in Tree |-> whole[f]]
    OBVIOUS
  <2> HIDE DEF whole
  <2>2. [f \in Tree |-> whole[f]] = [f \in Tree |-> Everywhere(whole, f)]
    BY <1>5
  <2> QED
    BY <2>1, <2>2
<1>7. CompileNode = CHOOSE g : Defines(g)
  BY DEF CompileNode, Everywhere
<1>8. Defines(CompileNode)
  <2> HIDE DEF Defines, whole
  <2> QED
    BY <1>6, <1>7
<1> QED
  BY <1>8

(* The code of a predicate.                                                    *)
LEMMA PredicateCode ==
  ASSUME NEW f \in Tree, NEW p \in Seq(Nat), NEW acc \in Label, NEW rej \in Label, NEW code,
         f.kind \notin {"not", "and", "or"}
  PROVE  Fragment(NodeCode(code, f, p, acc, rej), Exits(acc, rej))
<1>1. CASE f \in ProtoNodes /\ f.kind = "proto"
  BY <1>1, ProtocolCode DEF NodeCode
<1>2. CASE f \in HostNodes(4) \cup HostNodes(6) /\ f.kind = "host"
  <2>1. Fragment(CompileHost(p, f, acc, rej), Exits(acc, rej))
    <3>1. 4 \in IpVersion /\ 6 \in IpVersion
      BY DEF IpVersion
    <3>2. CASE f \in HostNodes(4)
      BY <3>1, <3>2, HostCode
    <3>3. CASE f \in HostNodes(6)
      BY <3>1, <3>3, HostCode
    <3> QED
      BY <1>2, <3>2, <3>3
  <2> QED
    BY <1>2, <2>1 DEF NodeCode
<1>3. CASE f \in NetNodes(4) \cup NetNodes(6) /\ f.kind = "net"
  <2>1. Fragment(CompileNet(p, f, acc, rej), Exits(acc, rej))
    <3>1. 4 \in IpVersion /\ 6 \in IpVersion
      BY DEF IpVersion
    <3>2. CASE f \in NetNodes(4)
      BY <3>1, <3>2, NetCode
    <3>3. CASE f \in NetNodes(6)
      BY <3>1, <3>3, NetCode
    <3> QED
      BY <1>3, <3>2, <3>3
  <2> QED
    BY <1>3, <2>1 DEF NodeCode
<1>4. CASE f \in PortNodes /\ f.kind = "port"
  BY <1>4, PortCode DEF NodeCode
<1>5. CASE f \in RangeNodes /\ f.kind = "portrange"
  BY <1>5, RangeCode DEF NodeCode
<1>6. CASE f \in EtherNodes /\ f.kind = "ether"
  BY <1>6, EtherCode DEF NodeCode
<1>7. CASE f \in LenNodes /\ f.kind = "len"
  BY <1>7, LenCode DEF NodeCode
<1> QED
  BY <1>1, <1>2, <1>3, <1>4, <1>5, <1>6, <1>7, Shapes

(* The code of every node leaves by its two labels and in no other way.        *)
InOrder(f) ==
  \A p \in Seq(Nat), acc \in Label, rej \in Label :
    Fragment(CompileNode[f][At(p, acc, rej)], Exits(acc, rej))

LEMMA TwoNodes ==
  ASSUME NEW one, NEW two, NEW mid \in Label, NEW exits \in SUBSET Label,
         Fragment(one, exits \cup {mid}), Fragment(two, exits)
  PROVE  Fragment(one \o PlaceLabel(mid) \o two, exits)
<1>1. Fragment(one \o PlaceLabel(mid), exits)
  BY Placed
<1> QED
  BY <1>1, Followed

LEMMA NodeInOrder ==
  ASSUME NEW f \in Tree, \A b \in Below(f) : InOrder(b)
  PROVE  InOrder(f)
<1> SUFFICES ASSUME NEW p \in Seq(Nat), NEW acc \in Label, NEW rej \in Label
             PROVE  Fragment(CompileNode[f][At(p, acc, rej)], Exits(acc, rej))
  BY DEF InOrder
<1> DEFINE mid == LabelAt(p, "mid")
           exits == Exits(acc, rej)
<1>1. CompileNode[f][At(p, acc, rej)] = NodeCode(CompileNode, f, p, acc, rej)
  <2>1. At(p, acc, rej) \in Site
    BY DEF At, Site
  <2>2. CompileNode[f][At(p, acc, rej)] = Everywhere(CompileNode, f)[At(p, acc, rej)]
    BY CodeIs
  <2>3. /\ At(p, acc, rej).path = p /\ At(p, acc, rej).acc = acc
        /\ At(p, acc, rej).rej = rej
    BY DEF At
  <2> QED
    BY <2>1, <2>2, <2>3 DEF Everywhere
<1>2. mid \in Label
  BY Labelled DEF LabelName
<1> HIDE DEF mid
<1>3. p \o <<1>> \in Seq(Nat) /\ p \o <<2>> \in Seq(Nat)
  BY Paths
<1>4. CASE f.kind = "not" /\ f.inner \in Below(f)
  <2>1. Fragment(CompileNode[f.inner][At(p \o <<1>>, rej, acc)], Exits(rej, acc))
    BY <1>3, <1>4 DEF InOrder
  <2>2. NodeCode(CompileNode, f, p, acc, rej) = CompileNode[f.inner][At(p \o <<1>>, rej, acc)]
    BY <1>4 DEF NodeCode
  <2>3. Exits(rej, acc) = Exits(acc, rej)
    BY DEF Exits
  <2> QED
    BY <1>1, <2>1, <2>2, <2>3
<1>5. ASSUME f.kind \in {"and", "or"}, f.left \in Below(f), f.right \in Below(f)
      PROVE  Fragment(NodeCode(CompileNode, f, p, acc, rej), Exits(acc, rej))
  <2> DEFINE one == IF f.kind = "and" THEN CompileNode[f.left][At(p \o <<1>>, mid, rej)]
                    ELSE CompileNode[f.left][At(p \o <<1>>, acc, mid)]
             two == CompileNode[f.right][At(p \o <<2>>, acc, rej)]
  <2>1. NodeCode(CompileNode, f, p, acc, rej) = one \o PlaceLabel(mid) \o two
    <3>1. CASE f.kind = "and"
      BY <3>1 DEF NodeCode, mid
    <3>2. CASE f.kind = "or"
      BY <3>2 DEF NodeCode, mid
    <3> QED
      BY <1>5, <3>1, <3>2
  <2>2. Fragment(two, exits)
    BY <1>3, <1>5 DEF InOrder
  <2>3. /\ Fragment(CompileNode[f.left][At(p \o <<1>>, mid, rej)], Exits(mid, rej))
        /\ Fragment(CompileNode[f.left][At(p \o <<1>>, acc, mid)], Exits(acc, mid))
    BY <1>2, <1>3, <1>5 DEF InOrder
  <2>4. Exits(mid, rej) \subseteq exits \cup {mid} /\ Exits(acc, mid) \subseteq exits \cup {mid}
    BY DEF Exits
  <2> HIDE DEF exits
  <2>5. /\ Fragment(CompileNode[f.left][At(p \o <<1>>, mid, rej)], exits \cup {mid})
        /\ Fragment(CompileNode[f.left][At(p \o <<1>>, acc, mid)], exits \cup {mid})
    BY <2>3, <2>4, Wider
  <2>6. Fragment(one, exits \cup {mid})
    BY <2>5
  <2>7. exits \in SUBSET Label
    BY ExitsAre DEF exits
  <2> HIDE DEF one, two
  <2>8. Fragment(one \o PlaceLabel(mid) \o two, exits)
    BY <1>2, <2>2, <2>6, <2>7, TwoNodes
  <2> QED
    BY <2>1, <2>8 DEF exits
<1>6. CASE f.kind \notin {"not", "and", "or"}
  BY <1>1, <1>6, PredicateCode
<1> QED
  BY <1>1, <1>4, <1>5, <1>6, Shapes

LEMMA AllInOrder == \A f \in Tree : InOrder(f)
<1> DEFINE T == {n \in Nat : \A f \in Tree : Height[f] < n => InOrder(f)}
<1>1. \A f \in Tree : Height[f] \in Nat
  BY Shapes
<1>2. 0 \in T
  BY <1>1
<1>3. ASSUME NEW n \in Nat, n \in T PROVE n + 1 \in T
  <2>1. ASSUME NEW f \in Tree, Height[f] < n + 1 PROVE InOrder(f)
    <3>1. ASSUME NEW b \in Below(f) PROVE InOrder(b)
      <4>1. b \in Tree /\ Height[b] < n
        BY <1>1, <2>1 DEF Below
      <4> QED
        BY <1>3, <4>1
    <3> QED
      BY <3>1, NodeInOrder
  <2> QED
    BY <2>1
<1>4. \A n \in Nat : n \in T
  <2> HIDE DEF T
  <2> QED
    BY <1>2, <1>3, SetInduction
<1>5. ASSUME NEW f \in Tree PROVE InOrder(f)
  <2>1. Height[f] + 1 \in Nat /\ Height[f] < Height[f] + 1
    BY <1>1
  <2> QED
    BY <1>4, <2>1
<1> QED
  BY <1>5

--------------------------------------------------------------------------------
(* Programs.                                                                   *)

(* A fragment without exits that a return closes is a program.                 *)
LEMMA ClosedIsProgram ==
  ASSUME NEW c, NEW k \in Word, Fragment(c, {})
  PROVE  /\ IsProgram(c \o Emit("ret", "k", 0, k))
         /\ \A i \in 1 .. Len(c \o Emit("ret", "k", 0, k)) :
              LET call == (c \o Emit("ret", "k", 0, k))[i]
              IN  call.item # "label" => Allowed(call)
<1> DEFINE S == InstCall \cup JumpCall \cup LabelCall
           ret == Emit("ret", "k", 0, k)
           code == c \o ret
<1>1. Fragment(ret, {})
  BY Emitted
<1>2. Len(ret) = 1 /\ ret[1].item = "inst" /\ ret[1].class = "ret"
  BY DEF Emit
<1> HIDE DEF ret
<1>3. Fragment(code, {})
  BY <1>1, Followed
<1>4. c \in Seq(S) /\ ret \in Seq(S) /\ code \in Seq(S)
  BY <1>1, <1>3 DEF Fragment
<1> HIDE DEF S
<1>5. Len(c) \in Nat /\ Len(code) = Len(c) + 1 /\ code[Len(code)] = ret[1]
  <2>1. /\ Len(c) \in Nat /\ Len(code) = Len(c) + Len(ret)
        /\ \A i \in 1 .. Len(ret) : code[Len(c) + i] = ret[i]
    BY <1>4, Joints
  <2>2. 1 \in 1 .. Len(ret)
    BY <1>2
  <2> QED
    BY <1>2, <2>1, <2>2
<1> HIDE DEF code
<1>6. \A i \in 1 .. Len(code) : code[i] \in S
  BY <1>4, Members
<1>7. ASSUME NEW i \in 1 .. Len(code)
      PROVE  /\ code[i].item \in {"inst", "jump", "label"}
             /\ code[i].item # "label" => Inst(code[i]) \in Instruction
             /\ code[i].item = "inst" => code[i].class # "jmp"
             /\ code[i].item = "jump" => code[i].class = "jmp" /\ code[i].op # "ja"
             /\ code[i].item = "jump" => code[i].target \in [jt : Label, jf : Label]
             /\ code[i].item # "label" => Allowed(code[i])
  <2>1. CASE code[i] \in InstCall
    BY <2>1 DEF InstCall, Inst, Plain, Instr, Instruction
  <2>2. CASE code[i] \in JumpCall
    <3>1. "jmp" \in Class
      BY DEF Class
    <3> QED
      BY <2>2, <3>1 DEF JumpCall, Inst, Plain, Instr, Instruction
  <2>3. CASE code[i] \in LabelCall
    BY <2>3 DEF LabelCall
  <2> QED
    BY <1>6, <2>1, <2>2, <2>3 DEF S
<1>8. ASSUME NEW i \in 1 .. Len(code), code[i].item = "jump", NEW arm \in {"jt", "jf"}
      PROVE  PlacedBehind(code, i, code[i].target[arm])
  <2>1. PlacedBehind(code, i, code[i].target.jt) /\ PlacedBehind(code, i, code[i].target.jf)
    BY <1>3, <1>8 DEF Fragment, Leaves
  <2> QED
    BY <2>1
<1>9. IsProgram(code)
  BY <1>2, <1>5, <1>7, <1>8 DEF IsProgram
<1> QED
  BY <1>7, <1>9 DEF code, ret

LEMMA LastHalfWord == 65535 \in Word
<1> DEFINE last == 65535
           size == PowerOfTwo[16]
<1>1. size - 1 = last /\ last \in 0 .. last
  BY Sixteenth
<1>2. 0 .. size - 1 \subseteq Word
  BY HalfWords, Zenon DEF U16
<1> HIDE DEF last, size
<1>3. 0 .. last \subseteq Word
  BY <1>1, <1>2
<1>4. last \in Word
  BY <1>1, <1>3, Zenon
<1> QED
  BY <1>4 DEF last

LEMMA ItemsAre ==
  ASSUME NEW f \in Tree
  PROVE  \E c : \E k \in Word : Items(f) = c \o Emit("ret", "k", 0, k) /\ Fragment(c, {})
<1> DEFINE tree == CompileNode[f][At(<<>>, Accept, Reject)]
           yes == Emit("ret", "k", 0, 65535)
           c == tree \o PlaceLabel(Accept) \o yes \o PlaceLabel(Reject)
<1>1. Accept \in Label /\ Reject \in Label
  <2>1. <<>> \in Seq(Nat) /\ "accept" \in LabelName /\ "reject" \in LabelName
    BY DEF LabelName
  <2> QED
    BY <2>1, Labelled DEF Accept, Reject
<1>2. Items(f) = c \o Emit("ret", "k", 0, 0)
  BY DEF Items
<1>3. 0 \in Word
  BY SmallWords
<1>4. Fragment(yes, {Reject})
  <2>1. 65535 \in Word
    BY LastHalfWord
  <2> QED
    BY <2>1, Emitted
<1>5. Fragment(tree, {Reject} \cup {Accept})
  <2>1. <<>> \in Seq(Nat) /\ Exits(Accept, Reject) = {Reject} \cup {Accept}
    BY DEF Exits
  <2>2. Fragment(tree, Exits(Accept, Reject))
    BY <1>1, <2>1, AllInOrder DEF InOrder
  <2> QED
    BY <2>1, <2>2
<1> HIDE DEF tree, yes
<1>6. Fragment(tree \o PlaceLabel(Accept), {Reject})
  BY <1>1, <1>5, Placed
<1>7. Fragment(tree \o PlaceLabel(Accept) \o yes, {Reject})
  BY <1>4, <1>6, Followed
<1>8. Fragment(tree \o PlaceLabel(Accept) \o yes, {} \cup {Reject})
  <2>1. {Reject} = {} \cup {Reject}
    OBVIOUS
  <2> QED
    BY <1>7, <2>1
<1>9. Fragment(c, {})
  BY <1>1, <1>8, Placed
<1> HIDE DEF c
<1> QED
  BY <1>2, <1>3, <1>9

(* compile(): whatever the tree, the calls are those of a program: every jump   *)
(* is conditional and goes forward to labels placed behind it, and the last    *)
(* instruction is a return.                                                    *)
THEOREM CompilesToProgram == \A f \in Tree : IsProgram(Items(f))
<1> SUFFICES ASSUME NEW f \in Tree PROVE IsProgram(Items(f))
  OBVIOUS
<1>1. PICK c : \E k \in Word : Items(f) = c \o Emit("ret", "k", 0, k) /\ Fragment(c, {})
  BY ItemsAre
<1> QED
  BY <1>1, ClosedIsProgram

(* The compiler gives the assembler nothing else than what the theorems about  *)
(* it assume.                                                                  *)
THEOREM CompilerUsesAssembler == CompilerSpec => AssemblerSpec
  BY CompilesToProgram DEF CompilerSpec, AssemblerSpec

(* Of every filter: each arm of each jump leads to its label's place.          *)
THEOREM CompiledArmsRight == CompilerSpec => []ArmsReachLabels
  BY CompilerUsesAssembler, ArmsAreRight

(* The only reason for which compile() panics is a program too long for the    *)
(* offsets of its jumps.                                                       *)
THEOREM CompilerPanicsWhenLong == CompilerSpec => []OnlyLongPanics
  BY CompilerUsesAssembler, OnlyLongProgramsPanic

(* No operand the kernel refuses is among the calls made for a filter.         *)
CallsAllowed == \A i \in 1 .. Len(calls) : calls[i].item # "label" => Allowed(calls[i])

LEMMA AlwaysAllowed == CompilerSpec => []CallsAllowed
<1>1. (\E f \in Tree : calls = Items(f)) => CallsAllowed
  <2> SUFFICES ASSUME NEW f \in Tree, calls = Items(f) PROVE CallsAllowed
    OBVIOUS
  <2>1. PICK c : \E k \in Word : Items(f) = c \o Emit("ret", "k", 0, k) /\ Fragment(c, {})
    BY ItemsAre
  <2> QED
    BY <2>1, ClosedIsProgram DEF CallsAllowed
<1>2. CallsAllowed /\ [AssembleStep]_assemblerVars => CallsAllowed'
  BY DEF AssembleStep, EmitInst, EmitJumpInst, BindLabel, BeginResolve, Patch, Resolved, Calls,
         assemblerVars, CallsAllowed
<1> QED
  BY <1>1, <1>2, PTL DEF CompilerSpec

(* Every program compile() hands out, whatever the filter, is one the kernel's *)
(* checker can only refuse for its length: it ends in a return, its jumps land *)
(* inside it and no operand is one that is refused.                            *)
THEOREM CompiledLoads == CompilerSpec => []Loadable
<1>1. ASSUME AssemblerInv, CallsAllowed, NEW i \in 1 .. Len(insts) PROVE Allowed(insts[i])
  <2> DEFINE call == calls[origin[i]]
  <2>1. /\ origin[i] \in 1 .. performed /\ call.item # "label"
        /\ insts[i] = [Inst(call) EXCEPT !.jt = insts[i].jt, !.jf = insts[i].jf]
    BY <1>1 DEF AssemblerInv, InstsTrue
  <2>2. performed \in 0 .. Len(calls) /\ Len(calls) \in Nat
    <3>1. performed \in 0 .. Len(calls) /\ (assembling # "no" => IsProgram(calls))
      BY <1>1 DEF AssemblerInv, Progress
    <3> QED
      BY <1>1, <3>1 DEF IsProgram
  <2>3. Allowed(call)
    BY <1>1, <2>1, <2>2 DEF CallsAllowed
  <2> HIDE DEF call
  <2>4. insts[i].op = call.op /\ insts[i].k = call.k /\ insts[i].class = call.class
    BY <2>1 DEF Inst, Plain, Instr
  <2> QED
    BY <2>3, <2>4 DEF Allowed
<1>2. AssemblerInv /\ CallsAllowed => \A i \in 1 .. Len(insts) : Allowed(insts[i])
  BY <1>1
<1>3. CompilerSpec => []AssemblerInv /\ [](assembling = "done" => Lands(insts))
  BY CompilerUsesAssembler, AssemblerInductive, AssembledLands
<1> QED
  BY <1>2, <1>3, AlwaysAllowed, PTL DEF Loadable
================================================================================
