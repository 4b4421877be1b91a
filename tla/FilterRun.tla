------------------------------ MODULE FilterRun ------------------------------
(* A filter applied in user space, as the program does for pcap files and with *)
(* --userspace-filter: parse() reads the text, compile() turns the tree into a *)
(* program and Vm::exec() runs it on one packet.  The verdict is held against  *)
(* what the text says of the packet's headers, read field by field; a packet   *)
(* that is accepted is printed.                                                *)
EXTENDS Cbpf, FilterGrammar, PacketLine, TLC

CONSTANT Inputs   \* sets of texts with the packets, by their header fields and
                  \* possibly cut short, that they are tried on

VARIABLES text, ast

filterVars == <<text, ast, lineVars, assemblerVars, vars>>

Texts == UNION {i.texts : i \in Inputs}

--------------------------------------------------------------------------------
(* Where the fields of a packet lie.                                           *)

Words(off, seq) == [o \in {off + 4 * (i - 1) : i \in 1 .. Len(seq)} |-> seq[(o - off) \div 4 + 1]]

Layout(p) ==
  [len |-> p.len,
   at |-> 0 :> p.ethdst[1] @@ 4 :> p.ethdst[2] @@ 6 :> p.ethsrc[1] @@ 10 :> p.ethsrc[2]
          @@ 12 :> p.ethertype
          @@ CASE p.ethertype = ETHERTYPE.ip ->
                    14 :> 4 * 16 + p.ihl @@ 23 :> p.proto
                      @@ Words(26, p.src) @@ Words(30, p.dst)
                      @@ 14 + 4 * p.ihl :> p.sport @@ 16 + 4 * p.ihl :> p.dport
               [] p.ethertype = ETHERTYPE.ip6 ->
                    20 :> p.proto @@ Words(22, p.src) @@ Words(38, p.dst)
                      @@ 54 :> p.sport @@ 56 :> p.dport
               [] OTHER -> <<>>]

--------------------------------------------------------------------------------
(* The meaning of a filter.  A field that was not captured matches nothing.    *)

IsType(p, type) == Holds(p, 12, 2) /\ p.ethertype = type

IsProto(p, num) ==
  /\ p.proto = num
  /\ \/ IsType(p, ETHERTYPE.ip) /\ Holds(p, 23, 1)
     \/ IsType(p, ETHERTYPE.ip6) /\ Holds(p, 20, 1)

(* What a direction asks of two ends of a packet.                              *)
AtEnds(dir, src, dst) == (dir # "dst" /\ src) \/ (dir # "src" /\ dst)

(* An address was captured whole and is the one asked for, or agrees with it   *)
(* in every bit the mask selects, and the words that hold such a bit were      *)
(* captured.                                                                   *)
SameHost(p, off, field, addr) == Holds(p, off, 4 * Len(addr)) /\ field = addr

SameNet(p, off, field, addr, mask) ==
  \A j \in Positions(mask) : BitOf(mask, j) = 1 =>
    /\ Holds(p, off + 4 * ((j - 1) \div WordBits), 4)
    /\ BitOf(field, j) = BitOf(addr, j)

IsVersion(p, version) == IsType(p, IF version = 4 THEN ETHERTYPE.ip ELSE ETHERTYPE.ip6)
SrcAt(version) == IF version = 4 THEN 26 ELSE 22
DstAt(version) == IF version = 4 THEN 30 ELSE 38

IsHost(p, f) ==
  /\ IsVersion(p, f.version)
  /\ AtEnds(f.dir, SameHost(p, SrcAt(f.version), p.src, f.addr),
                   SameHost(p, DstAt(f.version), p.dst, f.addr))

InNet(p, f) ==
  /\ IsVersion(p, f.version)
  /\ AtEnds(f.dir, SameNet(p, SrcAt(f.version), p.src, f.addr, f.mask),
                   SameNet(p, DstAt(f.version), p.dst, f.addr, f.mask))

Transport(p) == IF p.ethertype = ETHERTYPE.ip THEN 14 + 4 * p.ihl ELSE 54

InPorts(p, lo, hi, dir) ==
  /\ IsProto(p, IPPROTO.tcp) \/ IsProto(p, IPPROTO.udp)
  /\ AtEnds(dir, Holds(p, Transport(p), 2) /\ p.sport \in lo .. hi,
                 Holds(p, Transport(p) + 2, 2) /\ p.dport \in lo .. hi)

IsEther(p, addr, dir) ==
  AtEnds(dir, Holds(p, 6, 6) /\ p.ethsrc = addr, Holds(p, 0, 6) /\ p.ethdst = addr)

RECURSIVE Matches(_, _)
Matches(f, p) ==
  CASE f.kind = "and" -> Matches(f.left, p) /\ Matches(f.right, p)
    [] f.kind = "or" -> Matches(f.left, p) \/ Matches(f.right, p)
    [] f.kind = "not" -> ~Matches(f.inner, p)
    [] f.kind = "proto" ->
         CASE f.proto \in DOMAIN ETHERTYPE -> IsType(p, ETHERTYPE[f.proto])
           [] f.proto = "icmp" -> IsType(p, ETHERTYPE.ip) /\ IsProto(p, IPPROTO.icmp)
           [] f.proto = "icmp6" -> IsType(p, ETHERTYPE.ip6) /\ IsProto(p, IPPROTO.icmp6)
           [] OTHER -> IsProto(p, IPPROTO[f.proto])
    [] f.kind = "host" -> IsHost(p, f)
    [] f.kind = "net" -> InNet(p, f)
    [] f.kind = "port" -> InPorts(p, f.port, f.port, f.dir)
    [] f.kind = "portrange" -> InPorts(p, f.start, f.end, f.dir)
    [] f.kind = "ether" -> IsEther(p, f.addr, f.dir)
    [] f.kind = "len" ->
         CASE f.op = "eq" -> p.len = f.len
           [] f.op = "ne" -> p.len # f.len
           [] f.op = "gt" -> p.len > f.len
           [] f.op = "ge" -> p.len >= f.len
           [] f.op = "lt" -> p.len < f.len
           [] f.op = "le" -> p.len <= f.len

--------------------------------------------------------------------------------
(* Combined with the empty function so that TLC computes the table once.       *)
Readings == [t \in Texts |-> Derivations(t)] @@ <<>>

NoFrame == [len |-> 0]

FilterInit ==
  /\ text \in Texts
  /\ pkt = NoFrame
  /\ ast = Bad
  /\ Unprinted
  /\ calls = <<>>
  /\ Empty
  /\ assembling = "no"
  /\ program = <<>>
  /\ packet = [len |-> 0, at |-> <<>>]
  /\ Reset
  /\ result = "parsing"

(* run() returns the parse error and does nothing else.                        *)
ParseFilter ==
  /\ result = "parsing"
  /\ ast' = Parse(text)
  /\ result' = IF ast' = Bad THEN "refused" ELSE "compiling"
  /\ UNCHANGED <<text, lineVars, assemblerVars, input, pc, registers, missed>>

(* compile() calls the assembler and resolves its labels.  A program that      *)
(* cannot be assembled ends the process.                                       *)
CompileFilter ==
  /\ result = "compiling"
  /\ Assemble(Items(ast))
  /\ result' = "assembling"
  /\ UNCHANGED <<text, ast, lineVars, input, pc, registers, missed>>

AssembleFilter ==
  /\ AssembleStep
  /\ result' = IF assembling' = "panic" THEN "panic" ELSE result
  /\ UNCHANGED <<text, ast, lineVars, input, pc, registers, missed>>

(* resolve() uses the assembler up.                                            *)
ProgramReady ==
  /\ result = "assembling"
  /\ assembling = "done"
  /\ program' = insts
  /\ result' = "ready"
  /\ assembling' = "no"
  /\ calls' = <<>>
  /\ performed' = 0
  /\ insts' = <<>>
  /\ pending' = <<>>
  /\ labels' = <<>>
  /\ patched' = 0
  /\ origin' = <<>>
  /\ UNCHANGED <<text, ast, lineVars, packet, pc, registers, missed>>

(* The next packet of the file or the socket; exec() starts afresh on it.      *)
NextPacket ==
  /\ result = "ready"
  /\ \E i \in Inputs : text \in i.texts /\ pkt' \in i.packets
  /\ packet' = Layout(pkt')
  /\ result' = "running"
  /\ UNCHANGED <<text, ast, line, printing, date, days_left, assemblerVars, program, pc,
                 registers, missed>>

Execute == Next /\ UNCHANGED <<text, ast, lineVars, assemblerVars>>

PrintPacket ==
  /\ \/ result = "accept" /\ StartLine /\ result' = "printing"
     \/ PrintStep /\ UNCHANGED result
  /\ UNCHANGED <<text, ast, assemblerVars, input, pc, registers, missed>>

FilterNext ==
  \/ ParseFilter
  \/ CompileFilter
  \/ AssembleFilter
  \/ ProgramReady
  \/ NextPacket
  \/ Execute
  \/ PrintPacket

FilterSpec == FilterInit /\ [][FilterNext]_filterVars

--------------------------------------------------------------------------------
(* A text is taken exactly if the grammar derives it, as a whole, and then it  *)
(* is read as the one tree the grammar derives: numbers, masks and directions, *)
(* the grouping of and, or, not and parentheses, and nothing left unread.      *)
ReadAsWritten ==
  result \in {"refused", "compiling"} => Readings[text] = IF result = "refused" THEN {} ELSE {ast}

(* The verdict is the meaning of the text, for whole packets and for packets   *)
(* cut off anywhere: negation, short-circuit jumps, the two IP versions, the   *)
(* variable IPv4 header length and the mask arithmetic together.               *)
VerdictCorrect ==
  result \in {"accept", "reject"} =>
    \A f \in Readings[text] : result = "accept" <=> Matches(f, pkt)

(* The kernel stops a program at the first load past the end of the packet and *)
(* refuses the packet; it runs the same program (RawBpfInsn).  The machine in  *)
(* user space must not accept such a packet.                                   *)
AgreesWithKernel == result = "accept" => ~missed

(* No filter that parses brings the program down.                              *)
NoPanic == result # "panic"
================================================================================
