------------------------------- MODULE Assembler -------------------------------
(* netdump-filter's Assembler: the calls of emit(), emit_jump() and            *)
(* place_label() that compile() makes, one after the other, and resolve(),     *)
(* which turns the labels of every pending jump into relative offsets.         *)
EXTENDS Instructions

CONSTANT MaxOffset   \* largest jump offset an instruction can hold (u8::MAX)

ASSUME OffsetAssumption == MaxOffset \in Nat

VARIABLES calls,       \* the calls compile() makes
          performed,   \* how many of them have been made
          insts,       \* the instructions emitted
          pending,     \* the arms of jumps to be resolved
          labels,      \* the index each placed label stands for
          patched,     \* how many arms have been resolved
          assembling,  \* "no", "calls", "offsets", "done" or "panic"
          origin       \* the call each instruction is from (an auxiliary variable)

assembler == <<insts, pending, labels, patched, origin>>
assemblerVars == <<calls, performed, assembling, assembler>>

--------------------------------------------------------------------------------
(* Calls.  A label is the place in the tree that asked for it and a name, so   *)
(* labels are as fresh as new_label()'s counter makes them.                    *)

Emit(class, op, size, k) ==
  <<[item |-> "inst", class |-> class, op |-> op, size |-> size, k |-> k]>>

EmitJump(op, k, t, f) ==
  <<[item |-> "jump", class |-> "jmp", op |-> op, size |-> 0, k |-> k,
     target |-> [jt |-> t, jf |-> f]]>>

(* The instruction a call hands over; the arms of a jump are filled in later.  *)
Inst(call) == Plain(call.class, call.op, call.size, call.k)

PlaceLabel(l) == <<[item |-> "label", label |-> l]>>

LabelAt(path, name) == <<path, name>>
LabelName == {"next", "accept", "reject", "mid", "second", "ipv4", "ports4", "ports6"}
Label == Seq(Nat) \X LabelName

(* A label of its own, placed right behind the jump that uses it.              *)
NextInst == LabelAt(<<>>, "next")

--------------------------------------------------------------------------------
(* Steps.                                                                      *)

Empty ==
  /\ performed = 0
  /\ insts = <<>>
  /\ pending = <<>>
  /\ labels = <<>>
  /\ patched = 0
  /\ origin = <<>>

Assemble(list) ==
  /\ assembling = "no"
  /\ assembling' = "calls"
  /\ calls' = list
  /\ UNCHANGED <<performed, assembler>>

Call == calls[performed + 1]

Calls(item) ==
  /\ assembling = "calls"
  /\ performed < Len(calls)
  /\ Call.item = item
  /\ performed' = performed + 1
  /\ UNCHANGED <<calls, assembling, patched>>

Emits ==
  /\ insts' = Append(insts, Inst(Call))
  /\ origin' = Append(origin, performed + 1)
  /\ UNCHANGED labels

EmitInst == Calls("inst") /\ Emits /\ UNCHANGED pending

Arm(arm) == [idx |-> Len(insts), arm |-> arm, label |-> Call.target[arm]]

(* A slip: only the arm taken when the test succeeds is noted.                 *)
EmitJumpOneArm ==
  /\ Calls("jump")
  /\ Emits
  /\ pending' = Append(pending, Arm("jt"))

EmitJumpInst ==
  /\ Calls("jump")
  /\ Emits
  /\ pending' = Append(Append(pending, Arm("jt")), Arm("jf"))

BindLabel ==
  /\ Calls("label")
  /\ labels' = [l \in DOMAIN labels \cup {Call.label} |->
                  IF l = Call.label THEN Len(insts) ELSE labels[l]]
  /\ UNCHANGED <<insts, pending, origin>>

(* resolve() takes the pending arms in the order they were noted.              *)
BeginResolve ==
  /\ assembling = "calls"
  /\ performed = Len(calls)
  /\ assembling' = "offsets"
  /\ UNCHANGED <<calls, performed, assembler>>

IsPlaced(l) == l = NextInst \/ l \in DOMAIN labels

Target(p) == IF p.label = NextInst THEN p.idx + 1 ELSE labels[p.label]

(* A slip: offsets are counted from the jump and not from behind it.           *)
OffsetFromJump(p) == Target(p) - p.idx

Offset(p) == Target(p) - (p.idx + 1)

(* A label never placed, a backward jump and an offset that does not fit end   *)
(* the process.                                                                *)
Fits(p) == IsPlaced(p.label) /\ Offset(p) \in 0 .. MaxOffset

Patch ==
  /\ assembling = "offsets"
  /\ patched < Len(pending)
  /\ LET p == pending[patched + 1]
     IN  IF Fits(p)
         THEN /\ insts' = [insts EXCEPT ![p.idx + 1][p.arm] = Offset(p)]
              /\ patched' = patched + 1
              /\ UNCHANGED assembling
         ELSE /\ assembling' = "panic"
              /\ UNCHANGED <<insts, patched>>
  /\ UNCHANGED <<calls, performed, pending, labels, origin>>

Resolved ==
  /\ assembling = "offsets"
  /\ patched = Len(pending)
  /\ assembling' = "done"
  /\ UNCHANGED <<calls, performed, assembler>>

AssembleStep == EmitInst \/ EmitJumpInst \/ BindLabel \/ BeginResolve \/ Patch \/ Resolved

(* The arms of a jump lead to the next instruction or to a label that some     *)
(* call behind the jump places.                                                *)
PlacedBehind(list, i, l) ==
  l = NextInst \/ \E j \in i + 1 .. Len(list) : list[j].item = "label" /\ list[j].label = l

(* What compile() calls: conditional jumps only, whose labels are placed       *)
(* behind them, and the last instruction, a return, behind everything else.    *)
IsProgram(list) ==
  /\ Len(list) \in Nat \ {0}
  /\ \A i \in 1 .. Len(list) :
       /\ list[i].item \in {"inst", "jump", "label"}
       /\ list[i].item # "label" => Inst(list[i]) \in Instruction
       /\ list[i].item = "inst" => list[i].class # "jmp"
       /\ list[i].item = "jump" => list[i].class = "jmp" /\ list[i].op # "ja"
       /\ list[i].item = "jump" => list[i].target \in [jt : Label, jf : Label]
       /\ list[i].item = "jump" =>
            \A arm \in {"jt", "jf"} : PlacedBehind(list, i, list[i].target[arm])
  /\ list[Len(list)].item = "inst" /\ list[Len(list)].class = "ret"

AssemblerSpec ==
  (Empty /\ IsProgram(calls) /\ assembling = "calls") /\ [][AssembleStep]_assemblerVars

--------------------------------------------------------------------------------
(* The place of a label: the call that bound it last.                          *)
Binds(j, l) ==
  /\ calls[j].item = "label" /\ calls[j].label = l
  /\ \A m \in j + 1 .. performed : calls[m].item = "label" => calls[m].label # l

(* Where an arm of the i-th instruction leads: to the one behind it, or to the *)
(* first one emitted behind the place of its label.                            *)
ArmRight(i, arm) ==
  LET l == calls[origin[i]].target[arm]
  IN  IF l = NextInst THEN insts[i][arm] = 0
      ELSE \E j \in origin[i] + 1 .. Len(calls) :
             /\ Binds(j, l)
             /\ insts[i][arm] \in 0 .. MaxOffset
             /\ i + 1 + insts[i][arm] \in 1 .. Len(insts)
             /\ \A m \in 1 .. Len(insts) : origin[m] > j <=> m >= i + 1 + insts[i][arm]

InstRight(i) ==
  LET call == calls[origin[i]]
  IN  IF call.item = "inst" THEN insts[i] = Inst(call)
      ELSE /\ insts[i] = [Inst(call) EXCEPT !.jt = insts[i].jt, !.jf = insts[i].jf]
           /\ \A arm \in {"jt", "jf"} : ArmRight(i, arm)

(* Each arm of each jump, forward and in reach, leads to the first instruction *)
(* emitted behind the place of its label, and nothing but the arms has changed *)
(* since the instructions were emitted.                                        *)
ArmsReachLabels == assembling = "done" => \A i \in 1 .. Len(insts) : InstRight(i)

(* resolve() gives up on programs only in which the last instruction is out of *)
(* reach of the first one.                                                     *)
OnlyLongPanics == assembling = "panic" => Len(insts) > MaxOffset + 2

--------------------------------------------------------------------------------
(* The inductive invariant behind it, AssemblerInv.                            *)

Progress ==
  /\ assembling \in {"no", "calls", "offsets", "done", "panic"}
  /\ performed \in 0 .. Len(calls)
  /\ assembling # "no" => IsProgram(calls)
  /\ assembling # "calls" => performed = Len(calls)
  /\ assembling = "calls" => patched = 0
  /\ patched \in 0 .. Len(pending)
  /\ assembling = "done" => patched = Len(pending)

(* The instructions are those of the calls made, in their order, up to the     *)
(* offsets of jumps.                                                           *)
InstsTrue ==
  /\ insts \in Seq(Instruction)
  /\ origin \in Seq(Nat)
  /\ Len(origin) = Len(insts)
  /\ \A i \in 1 .. Len(insts) :
       /\ origin[i] \in 1 .. performed
       /\ \A j \in 1 .. Len(insts) : i < j => origin[i] < origin[j]
       /\ LET call == calls[origin[i]]
          IN  /\ call.item # "label"
              /\ call.item = "inst" => insts[i] = Inst(call)
              /\ insts[i] = [Inst(call) EXCEPT !.jt = insts[i].jt, !.jf = insts[i].jf]
  /\ \A n \in 1 .. performed :
       calls[n].item # "label" => \E i \in 1 .. Len(insts) : origin[i] = n

(* Each arm of each jump is pending, once and with its label.                  *)
ArmTrue(n) ==
  LET p == pending[n]
  IN  /\ p.idx < Len(insts)
      /\ calls[origin[p.idx + 1]].item = "jump"
      /\ p.label = calls[origin[p.idx + 1]].target[p.arm]
      /\ \A m \in 1 .. Len(pending) :
           m # n => pending[m].idx # p.idx \/ pending[m].arm # p.arm

ArmPends(i, arm) ==
  calls[origin[i]].item = "jump" =>
    \E n \in 1 .. Len(pending) : pending[n].idx = i - 1 /\ pending[n].arm = arm

PendingTrue ==
  /\ pending \in Seq([idx : Nat, arm : {"jt", "jf"}, label : Label])
  /\ \A n \in 1 .. Len(pending) : ArmTrue(n)
  /\ \A i \in 1 .. Len(insts) : ArmPends(i, "jt") /\ ArmPends(i, "jf")

(* A label stands for the first instruction emitted behind its place.          *)
LabelTrue(l) ==
  /\ labels[l] \in 0 .. Len(insts)
  /\ \E j \in 1 .. performed :
       /\ Binds(j, l)
       /\ \A i \in 1 .. Len(insts) : origin[i] > j <=> i > labels[l]

LabelsTrue ==
  /\ \A l \in DOMAIN labels : LabelTrue(l)
  /\ \A n \in 1 .. performed : calls[n].item = "label" => calls[n].label \in DOMAIN labels

PatchedTrue ==
  \A n \in 1 .. patched :
    LET p == pending[n]
    IN  Fits(p) /\ insts[p.idx + 1][p.arm] = Offset(p)

AssemblerInv == Progress /\ InstsTrue /\ PendingTrue /\ LabelsTrue /\ PatchedTrue
================================================================================
