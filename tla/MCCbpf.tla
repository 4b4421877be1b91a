-------------------------------- MODULE MCCbpf --------------------------------
(* Short programs over every instruction, known and unknown, on 6-bit words.   *)
EXTENDS CbpfRun, TLC

Loads == {Plain("ld", "imm", 4, 61), Plain("ld", "abs", 1, 2), Plain("ld", "abs", 2, 7),
          Plain("ld", "abs", 8, 2), Plain("ld", "ind", 1, 1), Plain("ld", "mem", 4, 3),
          Plain("ld", "len", 4, 0), Plain("ld", "msh", 1, 2),
          Plain("ldx", "imm", 4, 1), Plain("ldx", "msh", 1, 2), Plain("ldx", "msh", 1, 9),
          Plain("ldx", "mem", 4, 19), Plain("ldx", "len", 4, 0)}
Stores == {Plain("st", "mem", 4, 3), Plain("stx", "mem", 4, 19)}
Alus == {Plain("alu", op, 0, k) : op \in AluOps, k \in {0, 5, 7}} \cup {Plain("alu", "other", 0, 1)}
Jumps == {Plain("jmp", "ja", 0, k) : k \in {0, 1, 3}}
           \cup {Instr("jmp", op, 0, 5, 0, 1) : op \in {"jeq", "jgt", "jge", "jset", "other"}}
           \cup {Instr("jmp", "jge", 0, 5, 2, 0)}
Moves == {Plain("misc", op, 0, 0) : op \in {"tax", "txa", "other"}}
Returns == {Plain("ret", "k", 0, 0), Plain("ret", "k", 0, 1), Plain("ret", "x", 0, 0)}

Instructions == Loads \cup Stores \cup Alus \cup Jumps \cup Moves \cup Returns

ShortPrograms ==
  {<<i>> : i \in Instructions}
    \cup {<<i, j>> : i \in Instructions, j \in Instructions}
    \cup {<<i, j, r>> : i \in Instructions, j \in Jumps \cup Loads \cup Stores \cup Moves, r \in Returns}

SmallPackets == {[len |-> 8, at |-> 2 :> 37 @@ 7 :> 9], [len |-> 2, at |-> <<>>]}
================================================================================
