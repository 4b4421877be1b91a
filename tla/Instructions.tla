----------------------------- MODULE Instructions -----------------------------
(* Classic BPF instructions (netdump-filter's types).  The opcode word is      *)
(* abstracted to a class, an operation (the addressing mode of a load) and an  *)
(* operand size in bytes.                                                      *)
EXTENDS MachineWord, Sequences

Instr(class, op, size, k, jt, jf) ==
  [class |-> class, op |-> op, size |-> size, k |-> k, jt |-> jt, jf |-> jf]

Class == {"ld", "ldx", "st", "stx", "alu", "jmp", "ret", "misc"}

(* The operations that have a name, and those that have none.                  *)
Operation ==
  {"imm", "abs", "ind", "mem", "len", "msh"}
    \cup {"add", "sub", "mul", "div", "or", "and", "lsh", "rsh", "mod", "xor", "neg"}
    \cup {"ja", "jeq", "jgt", "jge", "jset", "tax", "txa", "k", "x", "other"}

(* The fields of a code word and its operands; all of them unsigned.           *)
Instruction ==
  [class : Class, op : Operation, size : Nat, k : Word, jt : Nat, jf : Nat]

Plain(class, op, size, k) == Instr(class, op, size, k, 0, 0)

(* Where the i-th instruction may jump to.                                     *)
Targets(code, i) ==
  LET c == code[i]
  IN  IF c.class # "jmp" THEN {}
      ELSE IF c.op = "ja" THEN {i + 1 + c.k} ELSE {i + 1 + c.jt, i + 1 + c.jf}

(* All jumps land inside the program, and it ends in a return.                 *)
Lands(code) ==
  /\ code # <<>>
  /\ code[Len(code)].class = "ret"
  /\ \A i \in 1 .. Len(code) : \A t \in Targets(code, i) : t <= Len(code)

(* Words of scratch memory.                                                    *)
MemSlots == 16

(* The operands decided beforehand that the kernel lets pass.                  *)
Allowed(c) ==
  /\ c.op \in {"div", "mod"} => c.k # 0
  /\ c.op \in {"lsh", "rsh"} => c.k < WordBits
  /\ c.class \in {"st", "stx"} \/ c.op = "mem" => c.k < MemSlots
================================================================================
