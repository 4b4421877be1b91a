------------------------------- MODULE CbpfRun --------------------------------
(* The machine on any program and packet: Vm::exec() as a library offers it.   *)
EXTENDS Cbpf

CONSTANTS Programs,  \* sequences of instructions
          Packets    \* packets, by length and fields

ASSUME ProgramsAssumption == \A p \in Programs : p \in Seq(Instruction)

(* The fields of a packet are no longer than a word.                           *)
ASSUME PacketsAssumption ==
  \A p \in Packets : p.len \in Nat /\ \A off \in DOMAIN p.at : p.at[off] \in Word

Init == Begin(Programs, Packets)

Spec == Init /\ [][Next]_vars

(* exec() is a loop: it does not stop between two instructions.                *)
FairSpec == Spec /\ WF_vars(Next)

--------------------------------------------------------------------------------
(* The registers and the scratch memory hold machine words whatever the        *)
(* program does: the arithmetic wraps.                                         *)
TypeOK ==
  /\ pc \in Nat
  /\ a \in Word
  /\ x \in Word
  /\ mem \in [0 .. MemSlots - 1 -> Word]
  /\ result \in {"running", "accept", "reject"}
  /\ missed \in BOOLEAN

(* The program counter only moves forward, the reason why every program ends.  *)
OnlyForward == [][pc' > pc \/ result' # result]_vars

(* A program whose jumps all land inside it, as the kernel's checker demands,  *)
(* never runs off its end: exec() leaves by a return, and the final `false` is *)
(* never its answer.                                                           *)
EndsInReturn == Lands(program) => (result = "running" => pc < Len(program))

(* Every program comes to a verdict.                                           *)
Terminates == <>(result # "running")
================================================================================
