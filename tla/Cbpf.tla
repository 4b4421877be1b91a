---------------------------------- MODULE Cbpf ----------------------------------
(* The classic BPF machine of netdump-cbpf: Vm::exec() run on one program and  *)
(* one captured packet, one instruction per step.                              *)
(*                                                                             *)
(* A machine word has WordBits bits.  A packet is its captured length and the  *)
(* values of the fields it carries, by offset.                                 *)
EXTENDS Instructions

VARIABLES program,  \* the instructions
          packet,   \* [len, at]: captured length, value of the field at an offset
          pc,       \* index of the next instruction, from 0
          a, x,     \* accumulator and index register
          mem,      \* scratch memory
          result,   \* "running", "accept" or "reject"
          missed    \* a load ran past the captured bytes (an auxiliary variable)

registers == <<a, x, mem>>
input == <<program, packet>>
vars == <<input, pc, registers, result, missed>>

--------------------------------------------------------------------------------
Slot(k) == k % MemSlots

(* Reading past the captured bytes yields 0.                                   *)
Captured(off, size) == off + size <= packet.len

Read(off, size) ==
  IF Captured(off, size) /\ off \in DOMAIN packet.at THEN packet.at[off] ELSE 0

Reset ==
  /\ pc = 0
  /\ a = 0
  /\ x = 0
  /\ mem = [i \in 0 .. MemSlots - 1 |-> 0]
  /\ missed = FALSE

Begin(programs, packets) ==
  /\ program \in programs
  /\ packet \in packets
  /\ Reset
  /\ result = "running"

--------------------------------------------------------------------------------
(* Steps.  The program counter is advanced as the instruction is fetched, and  *)
(* jumps are relative to the next one.                                         *)

Current == program[pc + 1]

Fetch(class) ==
  /\ result = "running"
  /\ pc < Len(program)
  /\ Current.class = class
  /\ UNCHANGED input

Advance == pc' = pc + 1 /\ UNCHANGED result

(* An instruction the machine does not know ends the run without a match.      *)
Undefined ==
  /\ pc' = pc + 1
  /\ result' = "reject"
  /\ UNCHANGED <<registers, missed>>

LoadAt(off, size) ==
  /\ a' = Read(off, size)
  /\ missed' = (missed \/ ~Captured(off, size))

Load ==
  /\ Fetch("ld")
  /\ IF \/ Current.op \in {"imm", "mem", "len"}
        \/ Current.op \in {"abs", "ind"} /\ Current.size \in {1, 2, 4} THEN
       /\ Advance
       /\ UNCHANGED <<x, mem>>
       /\ \/ Current.op = "imm" /\ a' = Current.k /\ UNCHANGED missed
          \/ Current.op = "abs" /\ LoadAt(Current.k, Current.size)
          \/ Current.op = "ind" /\ LoadAt(x + Current.k, Current.size)
          \/ Current.op = "mem" /\ a' = mem[Slot(Current.k)] /\ UNCHANGED missed
          \/ Current.op = "len" /\ a' = packet.len % Modulus /\ UNCHANGED missed
     ELSE Undefined

(* MSH: four times the low nibble of a byte, the length of an IPv4 header.     *)
LoadIndex ==
  /\ Fetch("ldx")
  /\ IF Current.op \in {"imm", "msh", "mem"} THEN
       /\ Advance
       /\ UNCHANGED <<a, mem>>
       /\ \/ Current.op = "imm" /\ x' = Current.k /\ UNCHANGED missed
          \/ /\ Current.op = "msh"
             /\ x' = (Read(Current.k, 1) % 16) * 4
             /\ missed' = (missed \/ ~Captured(Current.k, 1))
          \/ Current.op = "mem" /\ x' = mem[Slot(Current.k)] /\ UNCHANGED missed
     ELSE Undefined

Store ==
  /\ Fetch("st") \/ Fetch("stx")
  /\ Advance
  /\ mem' = [mem EXCEPT ![Slot(Current.k)] = IF Current.class = "st" THEN a ELSE x]
  /\ UNCHANGED <<a, x, missed>>

(* The operand is always the constant k.                                       *)
AluOps == {"add", "sub", "mul", "div", "or", "and", "lsh", "rsh", "mod", "xor", "neg"}

(* A slip: additions that do not wrap.                                         *)
AluUnwrapped(op, k) ==
  CASE op = "add" -> a + k
    [] OTHER -> BitAnd(a, k)

AluResult(op, k) ==
  CASE op = "add" -> (a + k) % Modulus
    [] op = "sub" -> (a - k) % Modulus
    [] op = "mul" -> (a * k) % Modulus
    [] op = "div" -> a \div k
    [] op = "mod" -> a % k
    [] op = "or" -> BitOr(a, k)
    [] op = "and" -> BitAnd(a, k)
    [] op = "xor" -> BitXor(a, k)
    [] op = "lsh" -> ShiftLeft(a, k)
    [] op = "rsh" -> ShiftRight(a, k)
    [] op = "neg" -> (-a) % Modulus

Alu ==
  /\ Fetch("alu")
  /\ IF Current.op \in AluOps /\ ~(Current.op \in {"div", "mod"} /\ Current.k = 0) THEN
       /\ Advance
       /\ a' = AluResult(Current.op, Current.k)
       /\ UNCHANGED <<x, mem, missed>>
     ELSE Undefined

Condition(op, k) ==
  \/ op = "jeq" /\ a = k
  \/ op = "jgt" /\ a > k
  \/ op = "jge" /\ a >= k
  \/ op = "jset" /\ BitAnd(a, k) # 0

(* Slips: a jump to an absolute index, one relative to itself, and one counted *)
(* from the next but one.                                                      *)
JumpAbsolute ==
  /\ Fetch("jmp")
  /\ pc' = IF Current.op = "ja" THEN Current.k
           ELSE pc + 1 + (IF Condition(Current.op, Current.k) THEN Current.jt ELSE Current.jf)
  /\ UNCHANGED <<registers, result, missed>>

JumpFromHere ==
  /\ Fetch("jmp")
  /\ pc' = pc + (IF Condition(Current.op, Current.k) THEN Current.jt ELSE Current.jf)
  /\ UNCHANGED <<registers, result, missed>>

JumpTooFar ==
  /\ Fetch("jmp")
  /\ pc' = pc + 2 + (IF Condition(Current.op, Current.k) THEN Current.jt ELSE Current.jf)
  /\ UNCHANGED <<registers, result, missed>>

Jump ==
  /\ Fetch("jmp")
  /\ IF Current.op \in {"ja", "jeq", "jgt", "jge", "jset"} THEN
       /\ pc' = pc + 1 + (IF Current.op = "ja" THEN Current.k
                          ELSE IF Condition(Current.op, Current.k) THEN Current.jt
                          ELSE Current.jf)
       /\ UNCHANGED <<registers, result, missed>>
     ELSE Undefined

Misc ==
  /\ Fetch("misc")
  /\ IF Current.op \in {"tax", "txa"} THEN
       /\ Advance
       /\ IF Current.op = "tax" THEN x' = a /\ UNCHANGED a ELSE a' = x /\ UNCHANGED x
       /\ UNCHANGED <<mem, missed>>
     ELSE Undefined

(* The packet matches when the returned value, k or X, is not 0.               *)
Return ==
  /\ Fetch("ret")
  /\ pc' = pc + 1
  /\ result' = IF (IF Current.op = "k" THEN Current.k ELSE x) # 0 THEN "accept" ELSE "reject"
  /\ UNCHANGED <<registers, missed>>

(* The program ends without a return.                                          *)
FallOff ==
  /\ result = "running"
  /\ pc >= Len(program)
  /\ result' = "reject"
  /\ UNCHANGED <<input, pc, registers, missed>>

Next ==
  \/ Load
  \/ LoadIndex
  \/ Store
  \/ Alu
  \/ Jump
  \/ Misc
  \/ Return
  \/ FallOff
================================================================================
