---------------------------- MODULE FilterCompiler ----------------------------
(* netdump-filter's code generator: compile() walks a filter tree and calls    *)
(* the assembler for instructions, jumps to labels and the labels' places.     *)
(* Pure operators: FilterRun hands the calls to the assembler and runs the     *)
(* result.                                                                     *)
EXTENDS Assembler, Protocols

CONSTANTS
  Tree,     \* the filter trees and the trees they are made of
  Height    \* how high each of them is

(* A word holds every ethertype and port.                                      *)
ASSUME WidthAssumption == WordBits >= 16

(* A filter tree.                                                              *)
Proto(p) == [kind |-> "proto", proto |-> p]
Host(v, addr, dir) == [kind |-> "host", version |-> v, addr |-> addr, dir |-> dir]
Port(port, dir) == [kind |-> "port", port |-> port, dir |-> dir]
PortRange(lo, hi, dir) == [kind |-> "portrange", start |-> lo, end |-> hi, dir |-> dir]
EtherHost(addr, dir) == [kind |-> "ether", addr |-> addr, dir |-> dir]
Net(v, addr, mask, dir) ==
  [kind |-> "net", version |-> v, addr |-> addr, mask |-> mask, dir |-> dir]
LenIs(op, len) == [kind |-> "len", op |-> op, len |-> len]
And(l, r) == [kind |-> "and", left |-> l, right |-> r]
Or(l, r) == [kind |-> "or", left |-> l, right |-> r]
Not(f) == [kind |-> "not", inner |-> f]

(* What the tree is made of (FilterAst): addresses and masks in words, hardware *)
(* addresses in a word and a half, ports and lengths as wide as in the code.   *)
Direction == {"any", "src", "dst"}
U16 == 0 .. PowerOfTwo[16] - 1
Address(v) == [1 .. (IF v = 4 THEN 1 ELSE 4) -> Word]

ProtoNodes == [kind : {"proto"}, proto : DOMAIN ETHERTYPE \cup DOMAIN IPPROTO]
HostNodes(v) == [kind : {"host"}, version : {v}, addr : Address(v), dir : Direction]
NetNodes(v) ==
  [kind : {"net"}, version : {v}, addr : Address(v), mask : Address(v), dir : Direction]

PortNodes == [kind : {"port"}, port : U16, dir : Direction]
RangeNodes == [kind : {"portrange"}, start : U16, end : U16, dir : Direction]
EtherNodes == [kind : {"ether"}, addr : Word \X U16, dir : Direction]
LenNodes == [kind : {"len"}, op : {"eq", "ne", "gt", "ge", "lt", "le"}, len : Word]

Predicate ==
  ProtoNodes \cup HostNodes(4) \cup HostNodes(6) \cup NetNodes(4) \cup NetNodes(6)
    \cup PortNodes \cup RangeNodes \cup EtherNodes \cup LenNodes

Below(f) == {g \in Tree : Height[g] < Height[f]}

ASSUME TreeAssumption ==
  /\ Height \in [Tree -> Nat]
  /\ \A f \in Tree : \/ f \in Predicate
                     \/ f \in [kind : {"not"}, inner : Below(f)]
                     \/ f \in [kind : {"and", "or"}, left : Below(f), right : Below(f)]

--------------------------------------------------------------------------------
(* The calls of the assembler every node makes.                                *)

Accept == LabelAt(<<>>, "accept")
Reject == LabelAt(<<>>, "reject")

LdAbs(size, k) == Emit("ld", "abs", size, k)
Jeq(k, t, f) == EmitJump("jeq", k, t, f)

--------------------------------------------------------------------------------
(* Code for the leaves of the tree.  p is the path of the node; control goes   *)
(* to acc when the packet matches and to rej when it does not.                 *)

CheckEthertype(type, acc, rej) == LdAbs(2, 12) \o Jeq(type, acc, rej)

(* IPv4 and IPv6 side by side: the IPv6 code comes first.                      *)
EitherVersion(p, v6, v4, rej) ==
  LdAbs(2, 12)
    \o Jeq(ETHERTYPE.ip, LabelAt(p, "ipv4"), NextInst)
    \o Jeq(ETHERTYPE.ip6, NextInst, rej)
    \o v6
    \o PlaceLabel(LabelAt(p, "ipv4"))
    \o v4

CheckProto(off, num, acc, rej) == LdAbs(1, off) \o Jeq(num, acc, rej)

CompileTransportProto(p, num, acc, rej) ==
  EitherVersion(p, CheckProto(20, num, acc, rej), CheckProto(23, num, acc, rej), rej)

CompileIcmp(type, off, num, acc, rej) ==
  CheckEthertype(type, NextInst, rej) \o CheckProto(off, num, acc, rej)

CompileProto(p, proto, acc, rej) ==
  CASE proto \in DOMAIN ETHERTYPE -> CheckEthertype(ETHERTYPE[proto], acc, rej)
    [] proto \in {"tcp", "udp"} -> CompileTransportProto(p, IPPROTO[proto], acc, rej)
    [] proto = "icmp" -> CompileIcmp(ETHERTYPE.ip, 23, IPPROTO.icmp, acc, rej)
    [] proto = "icmp6" -> CompileIcmp(ETHERTYPE.ip6, 20, IPPROTO.icmp6, acc, rej)

(* The check at one place, or at the first and then the second.                *)
InDirection(p, dir, Check(_, _, _), first, second, acc, rej) ==
  CASE dir = "any" -> Check(first, acc, LabelAt(p, "second"))
                        \o PlaceLabel(LabelAt(p, "second"))
                        \o Check(second, acc, rej)
    [] dir = "first" -> Check(first, acc, rej)
    [] dir = "second" -> Check(second, acc, rej)

(* Most fields hold the source first; Ethernet holds the destination first.    *)
SrcFirst(dir) == CASE dir = "src" -> "first" [] dir = "dst" -> "second" [] OTHER -> "any"
DstFirst(dir) == CASE dir = "dst" -> "first" [] dir = "src" -> "second" [] OTHER -> "any"

(* The word of an IPv4 address or the four words of an IPv6 address, compared  *)
(* one after the other; under a mask for a network.                            *)
CheckWords(off, words, masks, acc, rej) ==
  LET CheckWord(i, t) ==
        LdAbs(4, off + (i - 1) * 4)
          \o (IF masks = <<>> THEN <<>> ELSE Emit("alu", "and", 0, masks[i]))
          \o Jeq(words[i], t, rej)
  IN  IF Len(words) = 1 THEN CheckWord(1, acc)
      ELSE CheckWord(1, NextInst) \o CheckWord(2, NextInst) \o CheckWord(3, NextInst)
             \o CheckWord(4, acc)

CompileHost(p, f, acc, rej) ==
  LET Check(off, t, e) == CheckWords(off, f.addr, <<>>, t, e)
  IN  IF f.version = 4
      THEN CheckEthertype(ETHERTYPE.ip, NextInst, rej)
             \o InDirection(p, SrcFirst(f.dir), Check, 26, 30, acc, rej)
      ELSE CheckEthertype(ETHERTYPE.ip6, NextInst, rej)
             \o InDirection(p, SrcFirst(f.dir), Check, 22, 38, acc, rej)

(* A slip: no address is masked.                                               *)
CompileNetUnmasked(p, f, acc, rej) ==
  LET Check(off, t, e) == CheckWords(off, f.addr, f.mask, t, e)
  IN  CheckEthertype(IF f.version = 4 THEN ETHERTYPE.ip ELSE ETHERTYPE.ip6, NextInst, rej)
        \o InDirection(p, SrcFirst(f.dir), Check, IF f.version = 4 THEN 26 ELSE 22,
                       IF f.version = 4 THEN 30 ELSE 38, acc, rej)

(* The address of an IPv4 network is masked here, that of an IPv6 one is not.  *)
CompileNet(p, f, acc, rej) ==
  LET net == IF f.version = 4 THEN [i \in 1 .. Len(f.addr) |-> BitAnd(f.addr[i], f.mask[i])]
             ELSE f.addr
      Check(off, t, e) == CheckWords(off, net, f.mask, t, e)
  IN  IF f.version = 4
      THEN CheckEthertype(ETHERTYPE.ip, NextInst, rej)
             \o InDirection(p, SrcFirst(f.dir), Check, 26, 30, acc, rej)
      ELSE CheckEthertype(ETHERTYPE.ip6, NextInst, rej)
             \o InDirection(p, SrcFirst(f.dir), Check, 22, 38, acc, rej)

CompileEtherHost(p, f, acc, rej) ==
  LET Check(off, t, e) ==
        LdAbs(4, off) \o Jeq(f.addr[1], NextInst, e) \o LdAbs(2, off + 4) \o Jeq(f.addr[2], t, e)
  IN  InDirection(p, DstFirst(f.dir), Check, 0, 6, acc, rej)

(* TCP or UDP, then the ports: after the fixed IPv6 header, or indexed by the  *)
(* length of the IPv4 header.                                                  *)
TcpOrUdp(p, off, name, rej) ==
  LdAbs(1, off)
    \o Jeq(IPPROTO.tcp, LabelAt(p, name), NextInst)
    \o Jeq(IPPROTO.udp, LabelAt(p, name), rej)
    \o PlaceLabel(LabelAt(p, name))

WithPorts(p, Ports(_, _, _, _), rej) ==
  EitherVersion(p,
    TcpOrUdp(p, 20, "ports6", rej) \o Ports("abs", 54, 56, p \o <<6>>),
    TcpOrUdp(p, 23, "ports4", rej) \o Emit("ldx", "msh", 1, 14)
      \o Ports("ind", 14, 16, p \o <<4>>),
    rej)

CompilePort(p, f, acc, rej) ==
  LET Ports(mode, src, dst, q) ==
        LET Check(off, t, e) == Emit("ld", mode, 2, off) \o Jeq(f.port, t, e)
        IN  InDirection(q, SrcFirst(f.dir), Check, src, dst, acc, rej)
  IN  WithPorts(p, Ports, rej)

(* Without a direction a source port below the range is refused at once.       *)
CompilePortRange(p, f, acc, rej) ==
  LET Ports(mode, src, dst, q) ==
        LET Check(off, t, e) ==
              Emit("ld", mode, 2, off)
                \o EmitJump("jge", f.start, NextInst, rej)
                \o EmitJump("jgt", f.end, e, t)
        IN  InDirection(q, SrcFirst(f.dir), Check, src, dst, acc, rej)
  IN  WithPorts(p, Ports, rej)

CompileLen(op, len, acc, rej) ==
  Emit("ld", "len", 4, 0) \o
  CASE op = "eq" -> Jeq(len, acc, rej)
    [] op = "ne" -> Jeq(len, rej, acc)
    [] op = "gt" -> EmitJump("jgt", len, acc, rej)
    [] op = "ge" -> EmitJump("jge", len, acc, rej)
    [] op = "lt" -> EmitJump("jge", len, rej, acc)
    [] op = "le" -> EmitJump("jgt", len, rej, acc)

--------------------------------------------------------------------------------
(* The tree.                                                                   *)

(* Where a node's code stands: the node's path and the labels it leaves by.    *)
Site == [path : Seq(Nat), acc : Label, rej : Label]
At(p, acc, rej) == [path |-> p, acc |-> acc, rej |-> rej]

(* The code of a node, given that of the nodes below.                          *)
NodeCode(code, f, p, acc, rej) ==
  LET mid == LabelAt(p, "mid")
  IN  CASE f.kind = "and" -> code[f.left][At(p \o <<1>>, mid, rej)]
                               \o PlaceLabel(mid)
                               \o code[f.right][At(p \o <<2>>, acc, rej)]
        [] f.kind = "or" -> code[f.left][At(p \o <<1>>, acc, mid)]
                              \o PlaceLabel(mid)
                              \o code[f.right][At(p \o <<2>>, acc, rej)]
        [] f.kind = "not" -> code[f.inner][At(p \o <<1>>, rej, acc)]
        [] f.kind = "proto" -> CompileProto(p, f.proto, acc, rej)
        [] f.kind = "host" -> CompileHost(p, f, acc, rej)
        [] f.kind = "port" -> CompilePort(p, f, acc, rej)
        [] f.kind = "portrange" -> CompilePortRange(p, f, acc, rej)
        [] f.kind = "ether" -> CompileEtherHost(p, f, acc, rej)
        [] f.kind = "net" -> CompileNet(p, f, acc, rej)
        [] f.kind = "len" -> CompileLen(f.op, f.len, acc, rej)

CompileNode[f \in Tree] == [s \in Site |-> NodeCode(CompileNode, f, s.path, s.acc, s.rej)]

(* Slips: the rejecting return is forgotten, or the accepting label.           *)
ItemsOneReturn(f) ==
  CompileNode[f][At(<<>>, Accept, Reject)]
    \o PlaceLabel(Accept) \o Emit("ret", "k", 0, 65535) \o PlaceLabel(Reject)

ItemsUnplaced(f) ==
  CompileNode[f][At(<<>>, Accept, Reject)]
    \o Emit("ret", "k", 0, 65535)
    \o PlaceLabel(Reject) \o Emit("ret", "k", 0, 0)

Items(f) ==
  CompileNode[f][At(<<>>, Accept, Reject)]
    \o PlaceLabel(Accept) \o Emit("ret", "k", 0, 65535)
    \o PlaceLabel(Reject) \o Emit("ret", "k", 0, 0)

(* compile(): the calls for a tree, made one after the other, and resolve().   *)
CompilerSpec ==
  (\E f \in Tree : calls = Items(f)) /\ Empty /\ assembling = "calls"
    /\ [][AssembleStep]_assemblerVars

--------------------------------------------------------------------------------
(* A program handed to SO_ATTACH_FILTER is one the kernel's checker can only   *)
(* refuse for its length: it ends in a return, every jump patched in by        *)
(* resolve() lands inside it, and no operand is one the checker refuses.       *)
Loadable ==
  assembling = "done" => Lands(insts) /\ \A i \in 1 .. Len(insts) : Allowed(insts[i])
================================================================================
