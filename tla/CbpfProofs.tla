------------------------------ MODULE CbpfProofs ------------------------------
(* The filter machine, for every word width, program and packet: the program   *)
(* counter only moves forward, a program whose jumps land never runs off its   *)
(* end, and the registers hold words whatever is done to them.  The assembler, *)
(* for every sequence of calls: every arm of every jump leads to its label, so *)
(* that the jumps of every program it hands out land.                          *)
EXTENDS CbpfRun, Assembler, InductionLemmas, TLAPS

--------------------------------------------------------------------------------
(* Words.                                                                      *)

(* The definition of the powers of two defines them.                           *)
LEMMA PowersAre ==
  /\ PowerOfTwo[0] = 1
  /\ \A n \in Nat : PowerOfTwo[n] \in Nat \ {0} /\ PowerOfTwo[n + 1] = 2 * PowerOfTwo[n]
<1> DEFINE double == [n \in Nat |-> [m \in Nat |-> 2 * m]]
           Defines(g) == g = [n \in Nat |-> IF n = 0 THEN 1 ELSE 2 * g[n - 1]]
<1>1. PICK f \in [Nat -> Nat] : Unfolds(f, 1, double)
  <2>1. double \in [Nat -> [Nat -> Nat]]
    OBVIOUS
  <2>2. 1 \in Nat
    OBVIOUS
  <2> HIDE DEF double
  <2> QED
    BY <2>1, <2>2, RecursionExists
<1>2. Defines(f)
  <2>1. ASSUME NEW n \in Nat PROVE f[n] = IF n = 0 THEN 1 ELSE 2 * f[n - 1]
    <3>1. CASE n = 0
      BY <1>1, <3>1 DEF Unfolds
    <3>2. CASE n # 0
      <4>1. n - 1 \in Nat /\ (n - 1) + 1 = n
        BY <3>2
      <4>2. f[(n - 1) + 1] = double[n - 1][f[n - 1]] /\ f[n - 1] \in Nat
        BY <1>1, <4>1 DEF Unfolds
      <4> QED
        BY <3>2, <4>1, <4>2
    <3> QED
      BY <3>1, <3>2
  <2> QED
    BY <1>1, <2>1 DEF Unfolds
<1>3. Defines(PowerOfTwo)
  <2>1. PowerOfTwo = CHOOSE g : Defines(g)
    BY DEF PowerOfTwo
  <2> HIDE DEF Defines
  <2> QED
    BY <1>2, <2>1
<1>4. PowerOfTwo[0] = 1 /\ \A n \in Nat : PowerOfTwo[n + 1] = 2 * PowerOfTwo[n]
  <2>1. \A n \in Nat : PowerOfTwo[n] = IF n = 0 THEN 1 ELSE 2 * PowerOfTwo[n - 1]
    BY <1>3
  <2> QED
    BY <2>1
<1> DEFINE T == {n \in Nat : PowerOfTwo[n] \in Nat \ {0}}
<1>5. 0 \in T /\ \A n \in Nat : n \in T => n + 1 \in T
  BY <1>4
<1>6. \A n \in Nat : n \in T
  <2> HIDE DEF T
  <2> QED
    BY <1>5, SetInduction
<1> QED
  BY <1>4, <1>6

(* A word of bits is a word: the highest n of them make a number below 2^n.    *)
LEMMA BitsAreWords ==
  ASSUME NEW s
  PROVE  FromBits(s) \in Word
<1> DEFINE bit(n) == IF WordBits - n \in s THEN 1 ELSE 0
           shift == [n \in Nat |-> [m \in Nat |-> 2 * m + bit(n + 1)]]
           Defines(g) == g = [n \in Nat |-> IF n = 0 THEN 0 ELSE 2 * g[n - 1] + bit(n)]
           top == CHOOSE g : Defines(g)
<1>1. \A n : bit(n) \in {0, 1}
  OBVIOUS
<1>2. FromBits(s) = top[WordBits]
  BY DEF FromBits
<1> HIDE DEF bit
<1>3. PICK f \in [Nat -> Nat] : Unfolds(f, 0, shift)
  <2>1. shift \in [Nat -> [Nat -> Nat]]
    BY <1>1
  <2>2. 0 \in Nat
    OBVIOUS
  <2> HIDE DEF shift
  <2> QED
    BY <2>1, <2>2, RecursionExists
<1>4. Defines(f)
  <2>1. ASSUME NEW n \in Nat PROVE f[n] = IF n = 0 THEN 0 ELSE 2 * f[n - 1] + bit(n)
    <3>1. CASE n = 0
      BY <1>3, <3>1 DEF Unfolds
    <3>2. CASE n # 0
      <4>1. n - 1 \in Nat /\ (n - 1) + 1 = n
        BY <3>2
      <4>2. f[(n - 1) + 1] = shift[n - 1][f[n - 1]] /\ f[n - 1] \in Nat
        BY <1>3, <4>1 DEF Unfolds
      <4>3. shift[n - 1][f[n - 1]] = 2 * f[n - 1] + bit((n - 1) + 1)
        BY <4>1, <4>2
      <4> QED
        BY <3>2, <4>1, <4>2, <4>3
    <3> QED
      BY <3>1, <3>2
  <2> QED
    BY <1>3, <2>1
<1>5. Defines(top)
  <2> HIDE DEF Defines
  <2> QED
    BY <1>4
<1> HIDE DEF top
<1>6. top[0] = 0 /\ \A n \in Nat : top[n + 1] = 2 * top[n] + bit(n + 1)
  <2>1. \A n \in Nat : top[n] = IF n = 0 THEN 0 ELSE 2 * top[n - 1] + bit(n)
    BY <1>5
  <2> QED
    BY <2>1
<1> DEFINE T == {n \in Nat : top[n] \in 0 .. PowerOfTwo[n] - 1}
<1>7. 0 \in T
  BY <1>6, PowersAre
<1>8. ASSUME NEW n \in Nat, n \in T PROVE n + 1 \in T
  <2>1. /\ top[n] \in 0 .. PowerOfTwo[n] - 1 /\ PowerOfTwo[n] \in Nat
        /\ PowerOfTwo[n + 1] = 2 * PowerOfTwo[n]
        /\ top[n + 1] = 2 * top[n] + bit(n + 1) /\ bit(n + 1) \in {0, 1}
    BY <1>1, <1>6, <1>8, PowersAre
  <2> QED
    BY <2>1
<1>9. \A n \in Nat : n \in T
  <2> HIDE DEF T
  <2> QED
    BY <1>7, <1>8, SetInduction
<1> QED
  BY <1>2, <1>9, WordAssumption DEF Word, Modulus

(* A word holds the length of an IPv4 header.                                  *)
LEMMA ModulusAtLeast == Modulus \in Nat /\ Modulus >= 64
<1> DEFINE T == {n \in Nat : PowerOfTwo[6 + n] >= 64}
<1>1. PowerOfTwo[6] = 64
  <2>1. PowerOfTwo[0] = 1 /\ \A n \in Nat : PowerOfTwo[n + 1] = 2 * PowerOfTwo[n]
    BY PowersAre
  <2>2. PowerOfTwo[0 + 1] = 2
    BY <2>1
  <2>3. PowerOfTwo[1 + 1] = 4
    BY <2>1, <2>2
  <2>4. PowerOfTwo[2 + 1] = 8
    BY <2>1, <2>3
  <2>5. PowerOfTwo[3 + 1] = 16
    BY <2>1, <2>4
  <2>6. PowerOfTwo[4 + 1] = 32
    BY <2>1, <2>5
  <2>7. PowerOfTwo[5 + 1] = 64
    BY <2>1, <2>6
  <2> QED
    BY <2>7
<1>2. 0 \in T
  BY <1>1
<1>3. ASSUME NEW n \in Nat, n \in T PROVE n + 1 \in T
  <2>1. 6 + n \in Nat /\ (6 + n) + 1 = 6 + (n + 1)
    OBVIOUS
  <2>2. PowerOfTwo[(6 + n) + 1] = 2 * PowerOfTwo[6 + n] /\ PowerOfTwo[6 + n] \in Nat
    BY <2>1, PowersAre
  <2> QED
    BY <1>3, <2>1, <2>2
<1>4. \A n \in Nat : n \in T
  <2> HIDE DEF T
  <2> QED
    BY <1>2, <1>3, SetInduction
<1>5. WordBits - 6 \in Nat /\ 6 + (WordBits - 6) = WordBits /\ WordBits \in Nat
  BY WordAssumption
<1> QED
  BY <1>4, <1>5, PowersAre DEF Modulus

--------------------------------------------------------------------------------
(* Control flow.                                                               *)

(* The part of the state that control depends on.                              *)
Control ==
  /\ program \in Seq(Instruction)
  /\ pc \in Nat
  /\ result \in {"running", "accept", "reject"}

(* The instruction about to be executed.                                       *)
LEMMA Fetched ==
  ASSUME Control, pc < Len(program)
  PROVE  /\ pc + 1 \in 1 .. Len(program)
         /\ Current \in Instruction
         /\ Current.k \in Word /\ Current.k \in Nat
         /\ Current.jt \in Nat /\ Current.jf \in Nat
  <1>1. Len(program) \in Nat /\ pc + 1 \in 1 .. Len(program)
    BY DEF Control
  <1>2. program[pc + 1] \in Instruction
    BY <1>1 DEF Control
  <1> QED
    BY <1>1, <1>2, ModulusAtLeast DEF Current, Instruction, Word

(* Every instruction but a jump, and every return from the loop, moves to the  *)
(* next instruction or leaves the loop.                                        *)
LEMMA StraightLine ==
  ASSUME Control, Next
  PROVE  /\ UNCHANGED program
         /\ \/ /\ pc < Len(program)
               /\ Current.class \notin {"jmp", "ret"}
               /\ pc' = pc + 1
               /\ result' \in {result, "reject"}
            \/ /\ pc < Len(program)
               /\ Current.class = "ret"
               /\ pc' = pc + 1
               /\ result' \in {"accept", "reject"}
            \/ Jump
            \/ FallOff
  <1>1. CASE Load
    BY <1>1 DEF Load, Fetch, Undefined, Advance, input
  <1>2. CASE LoadIndex
    BY <1>2 DEF LoadIndex, Fetch, Undefined, Advance, input
  <1>3. CASE Store
    BY <1>3 DEF Store, Fetch, Advance, input
  <1>4. CASE Alu
    BY <1>4 DEF Alu, Fetch, Undefined, Advance, input
  <1>5. CASE Jump
    BY <1>5 DEF Jump, Fetch, input
  <1>6. CASE Misc
    BY <1>6 DEF Misc, Fetch, Undefined, Advance, input
  <1>7. CASE Return
    BY <1>7 DEF Return, Fetch, input
  <1>8. CASE FallOff
    BY <1>8 DEF FallOff, input
  <1> QED
    BY <1>1, <1>2, <1>3, <1>4, <1>5, <1>6, <1>7, <1>8 DEF Next

(* A jump leads to one of its targets, behind the jump, or leaves the loop.    *)
LEMMA Jumps ==
  ASSUME Control, Jump
  PROVE  /\ pc < Len(program)
         /\ pc' \in Nat
         /\ pc' > pc
         /\ result' \in {result, "reject"}
         /\ result' # result \/ pc' + 1 \in Targets(program, pc + 1)
  <1>1. pc < Len(program) /\ result = "running" /\ Current.class = "jmp" /\ pc \in Nat
    BY DEF Jump, Fetch, Control
  <1>2. Current.k \in Nat /\ Current.jt \in Nat /\ Current.jf \in Nat
    BY <1>1, Fetched
  <1>3. CASE Current.op \in {"ja", "jeq", "jgt", "jge", "jset"}
    <2>1. /\ pc' = pc + 1 + (IF Current.op = "ja" THEN Current.k
                             ELSE IF Condition(Current.op, Current.k) THEN Current.jt
                             ELSE Current.jf)
          /\ result' = result
      BY <1>3 DEF Jump
    <2>2. Targets(program, pc + 1) = IF Current.op = "ja" THEN {pc + 2 + Current.k}
                                     ELSE {pc + 2 + Current.jt, pc + 2 + Current.jf}
      <3>1. /\ pc + 1 + 1 + Current.k = pc + 2 + Current.k
            /\ pc + 1 + 1 + Current.jt = pc + 2 + Current.jt
            /\ pc + 1 + 1 + Current.jf = pc + 2 + Current.jf
        BY <1>1, <1>2
      <3>2. Targets(program, pc + 1) = IF Current.op = "ja" THEN {pc + 1 + 1 + Current.k}
                                       ELSE {pc + 1 + 1 + Current.jt, pc + 1 + 1 + Current.jf}
        <4>1. program[pc + 1].class = "jmp"
          BY <1>1 DEF Current
        <4> QED
          BY <4>1, Zenon DEF Targets, Current
      <3> QED
        BY <3>1, <3>2
    <2>3. \E t \in Nat :
            /\ pc' = pc + 1 + t
            /\ pc + 2 + t \in Targets(program, pc + 1)
      <3>1. CASE Current.op = "ja"
        BY <3>1, <2>1, <2>2, <1>2
      <3>2. CASE Current.op # "ja" /\ Condition(Current.op, Current.k)
        BY <3>2, <2>1, <2>2, <1>2
      <3>3. CASE Current.op # "ja" /\ ~Condition(Current.op, Current.k)
        BY <3>3, <2>1, <2>2, <1>2
      <3> QED
        BY <3>1, <3>2, <3>3
    <2>4. PICK t \in Nat : pc' = pc + 1 + t /\ pc + 2 + t \in Targets(program, pc + 1)
      BY <2>3
    <2>5. pc' + 1 = pc + 2 + t /\ pc' \in Nat /\ pc' > pc
      BY <2>4, <1>1
    <2> QED
      BY <2>1, <2>4, <2>5, <1>1
  <1>4. CASE ~(Current.op \in {"ja", "jeq", "jgt", "jge", "jset"})
    <2>1. pc' = pc + 1 /\ result' = "reject"
      BY <1>4 DEF Jump, Undefined
    <2> QED
      BY <2>1, <1>1
  <1> QED
    BY <1>3, <1>4

(* The shape of the control state is kept by every step.                       *)
THEOREM ControlInvariant == Spec => []Control
  <1>1. Init => Control
    BY ProgramsAssumption DEF Init, Begin, Reset, Control
  <1>2. Control /\ [Next]_vars => Control'
    <2>1. ASSUME Control, Next PROVE Control'
      <3>1. CASE Jump
        BY <2>1, <3>1, Jumps, StraightLine DEF Control
      <3>2. CASE FallOff
        BY <2>1, <3>2 DEF FallOff, input, Control
      <3>3. CASE ~Jump /\ ~FallOff
        BY <2>1, <3>3, StraightLine DEF Control
      <3> QED
        BY <3>1, <3>2, <3>3
    <2>2. ASSUME Control, UNCHANGED vars PROVE Control'
      BY <2>2 DEF Control, vars, input
    <2> QED
      BY <2>1, <2>2
  <1> QED
    BY <1>1, <1>2, PTL DEF Spec

(* exec() cannot loop: every step moves the program counter forward or leaves  *)
(* the loop.                                                                   *)
THEOREM MovesForward == Spec => OnlyForward
  <1>1. ASSUME Control, [Next]_vars PROVE [pc' > pc \/ result' # result]_vars
    <2>1. ASSUME Next PROVE pc' > pc \/ result' # result
      <3>1. CASE Jump
        BY <1>1, <3>1, Jumps
      <3>2. CASE FallOff
        BY <3>2 DEF FallOff
      <3>3. CASE ~Jump /\ ~FallOff
        BY <1>1, <2>1, <3>3, StraightLine DEF Control
      <3> QED
        BY <3>1, <3>2, <3>3
    <2> QED
      BY <1>1, <2>1
  <1> QED
    BY <1>1, ControlInvariant, PTL DEF Spec, OnlyForward

(* A program that the kernel would load ends in a return on every path, so the *)
(* answer is always the one the program computed.                              *)
THEOREM AlwaysReturns == Spec => []EndsInReturn
  <1>1. Init => EndsInReturn
    <2>1. ASSUME Init, Lands(program) PROVE pc < Len(program)
      <3>1. program \in Seq(Instruction) /\ pc = 0
        BY <2>1, ProgramsAssumption DEF Init, Begin, Reset
      <3>2. program # <<>>
        BY <2>1 DEF Lands
      <3>3. Len(program) \in Nat /\ Len(program) # 0
        BY <3>1, <3>2
      <3> QED
        BY <3>1, <3>3
    <2> QED
      BY <2>1 DEF EndsInReturn
  <1>2. ASSUME Control, EndsInReturn, [Next]_vars PROVE EndsInReturn'
    <2>1. CASE UNCHANGED vars
      BY <1>2, <2>1 DEF EndsInReturn, Lands, Targets, vars, input
    <2>2. CASE Next
      <3>1. UNCHANGED program
        BY <1>2, <2>2, StraightLine
      <3>2. SUFFICES ASSUME Lands(program), result' = "running" PROVE pc' < Len(program)
        BY <3>1 DEF EndsInReturn, Lands, Targets
      <3>3. Len(program) \in Nat /\ pc \in Nat
        BY <1>2 DEF Control
      <3>4. CASE Jump
        <4>1. pc + 1 \in 1 .. Len(program) /\ result = "running"
          BY <1>2, <3>4, <3>3, Jumps DEF Jump, Fetch
        <4>2. pc' \in Nat /\ pc' + 1 \in Targets(program, pc + 1)
          BY <1>2, <3>4, <3>2, <4>1, Jumps
        <4>3. \A t \in Targets(program, pc + 1) : t <= Len(program)
          BY <4>1, <3>2 DEF Lands
        <4> QED
          BY <4>2, <4>3, <3>3
      <3>5. CASE FallOff
        BY <3>5, <3>2 DEF FallOff
      <3>6. CASE ~Jump /\ ~FallOff
        <4>1. pc < Len(program) /\ Current.class # "ret" /\ pc' = pc + 1
          BY <1>2, <2>2, <3>2, <3>6, StraightLine
        <4>2. pc + 1 # Len(program)
          BY <4>1, <3>2 DEF Current, Lands
        <4> QED
          BY <4>1, <4>2, <3>3
      <3> QED
        BY <3>4, <3>5, <3>6
    <2> QED
      BY <1>2, <2>1, <2>2
  <1> QED
    BY <1>1, <1>2, ControlInvariant, PTL DEF Spec

--------------------------------------------------------------------------------
(* Registers.                                                                  *)

LEMMA WordsAre ==
  /\ Modulus \in Nat /\ Modulus >= 64
  /\ \A v : v \in Word <=> v \in Int /\ 0 <= v /\ v < Modulus
  /\ \A v \in Int : v % Modulus \in Word
<1>1. Modulus \in Nat /\ Modulus >= 64
  BY ModulusAtLeast
<1> HIDE DEF Modulus
<1>2. \A v : v \in Word <=> v \in Int /\ 0 <= v /\ v < Modulus
  BY <1>1 DEF Word
<1>3. \A v \in Int : v % Modulus \in 0 .. Modulus - 1
  BY <1>1
<1> QED
  BY <1>1, <1>2, <1>3 DEF Word

(* What is read from a packet is a word, also past its end.                    *)
(* Four times the low nibble of a byte.                                        *)
LEMMA NibbleIsWord ==
  ASSUME NEW v \in Word
  PROVE  (v % 16) * 4 \in Word
<1>1. v \in Nat
  BY WordsAre
<1> DEFINE w == v % 16
<1>2. w \in 0 .. 15
  BY <1>1
<1> HIDE DEF w
<1>3. w * 4 \in Int /\ 0 <= w * 4 /\ w * 4 < 64
  BY <1>2
<1>4. \A t : t \in Int /\ 0 <= t /\ t < 64 => t \in Word
  BY WordsAre
<1>5. w * 4 \in Word
  BY <1>3, <1>4
<1> QED
  BY <1>5 DEF w

LEMMA ReadIsWord ==
  ASSUME packet \in Packets, NEW off, NEW size
  PROVE  Read(off, size) \in Word
<1>1. CASE Captured(off, size) /\ off \in DOMAIN packet.at
  BY <1>1, PacketsAssumption DEF Read
<1>2. CASE ~(Captured(off, size) /\ off \in DOMAIN packet.at)
  BY <1>2, WordsAre DEF Read
<1> QED
  BY <1>1, <1>2

(* A quotient is no larger than what is divided, a remainder no larger than    *)
(* either.                                                                     *)
LEMMA Divided ==
  ASSUME NEW v \in Nat, NEW d \in Nat \ {0}
  PROVE  /\ v \div d \in Nat /\ v \div d <= v
         /\ v % d \in Nat /\ v % d <= v
  OBVIOUS

LEMMA ShiftsAreWords ==
  ASSUME NEW v \in Word, NEW n \in Nat
  PROVE  ShiftLeft(v, n) \in Word /\ ShiftRight(v, n) \in Word
<1>1. n % WordBits \in Nat
  BY WordAssumption
<1> DEFINE p == PowerOfTwo[n % WordBits]
<1>2. p \in Nat \ {0}
  BY <1>1, PowersAre
<1>3. v \in Nat /\ v < Modulus /\ Modulus \in Nat
  BY WordsAre
<1>4. ShiftLeft(v, n) = (v * p) % Modulus /\ ShiftRight(v, n) = v \div p
  BY DEF ShiftLeft, ShiftRight
<1> HIDE DEF p
<1>5. v * p \in Int
  BY <1>2, <1>3
<1>6. v \div p \in Nat /\ v \div p <= v
  BY <1>2, <1>3, Divided
<1> QED
  BY <1>3, <1>4, <1>5, <1>6, WordsAre

(* No operation leaves the range of a word.                                    *)
LEMMA AluIsWord ==
  ASSUME a \in Word, NEW k \in Word, NEW op \in AluOps, op \in {"div", "mod"} => k # 0
  PROVE  AluResult(op, k) \in Word
<1>1. a \in Nat /\ k \in Nat /\ a < Modulus /\ Modulus \in Nat
  BY WordsAre
<1>2. (a + k) % Modulus \in Word /\ (a - k) % Modulus \in Word
      /\ (a * k) % Modulus \in Word /\ (-a) % Modulus \in Word
  <2>1. a + k \in Int /\ a - k \in Int /\ a * k \in Int /\ -a \in Int
    BY <1>1
  <2> QED
    BY <2>1, WordsAre
<1>3. k # 0 => a \div k \in Word /\ a % k \in Word
  <2>1. SUFFICES ASSUME k # 0 PROVE a \div k \in Word /\ a % k \in Word
    OBVIOUS
  <2>2. a \div k \in Nat /\ a \div k <= a /\ a % k \in Nat /\ a % k <= a
    BY <1>1, <2>1, Divided
  <2> QED
    BY <1>1, <2>2, WordsAre
<1>4. BitAnd(a, k) \in Word /\ BitOr(a, k) \in Word /\ BitXor(a, k) \in Word
  BY BitsAreWords DEF BitAnd, BitOr, BitXor
<1>5. ShiftLeft(a, k) \in Word /\ ShiftRight(a, k) \in Word
  BY <1>1, ShiftsAreWords
<1>6. \/ op = "add" \/ op = "sub" \/ op = "mul" \/ op = "div" \/ op = "or" \/ op = "and"
      \/ op = "lsh" \/ op = "rsh" \/ op = "mod" \/ op = "xor" \/ op = "neg"
  BY DEF AluOps
<1>7. CASE op \in {"add", "sub", "mul", "neg"}
  BY <1>2, <1>7 DEF AluResult
<1>8. CASE op \in {"div", "mod"}
  BY <1>3, <1>8 DEF AluResult
<1>9. CASE op \in {"and", "or", "xor"}
  BY <1>4, <1>9 DEF AluResult
<1>10. CASE op \in {"lsh", "rsh"}
  BY <1>5, <1>10 DEF AluResult
<1> QED
  BY <1>6, <1>7, <1>8, <1>9, <1>10

Registers ==
  /\ a \in Word
  /\ x \in Word
  /\ mem \in [0 .. MemSlots - 1 -> Word]

LEMMA SlotIsOne ==
  ASSUME NEW k \in Nat
  PROVE  Slot(k) \in 0 .. MemSlots - 1
  BY DEF Slot, MemSlots

LEMMA RegistersKept ==
  ASSUME Control, Registers, packet \in Packets, Next
  PROVE  Registers'
<1> DEFINE k == Current.k
<1>1. pc < Len(program) => k \in Word /\ k \in Nat /\ Slot(k) \in 0 .. MemSlots - 1
  BY Fetched, SlotIsOne
<1>2. CASE UNCHANGED registers
  BY <1>2 DEF registers, Registers
<1>3. CASE Load
  <2>1. pc < Len(program)
    BY <1>3 DEF Load, Fetch
  <2>2. x' = x /\ mem' = mem
    BY <1>3 DEF Load, Undefined, registers
  <2>3. \/ a' = a
        \/ a' = k
        \/ a' = Read(k, Current.size)
        \/ a' = Read(x + k, Current.size)
        \/ a' = mem[Slot(k)]
        \/ a' = packet.len % Modulus
    BY <1>3 DEF Load, LoadAt, Undefined, registers
  <2>4. packet.len % Modulus \in Word
    BY PacketsAssumption, WordsAre
  <2>5. Read(k, Current.size) \in Word /\ Read(x + k, Current.size) \in Word
    BY ReadIsWord
  <2>6. mem[Slot(k)] \in Word
    BY <1>1, <2>1 DEF Registers
  <2> QED
    BY <1>1, <2>1, <2>2, <2>3, <2>4, <2>5, <2>6 DEF Registers
<1>4. CASE LoadIndex
  <2>1. pc < Len(program)
    BY <1>4 DEF LoadIndex, Fetch
  <2>2. a' = a /\ mem' = mem
    BY <1>4 DEF LoadIndex, Undefined, registers
  <2>3. \/ x' = x
        \/ x' = k
        \/ x' = (Read(k, 1) % 16) * 4
        \/ x' = mem[Slot(k)]
    BY <1>4 DEF LoadIndex, Undefined, registers
  <2>4. (Read(k, 1) % 16) * 4 \in Word
    <3>1. Read(k, 1) \in Word
      BY ReadIsWord
    <3> QED
      BY <3>1, NibbleIsWord
  <2>5. mem[Slot(k)] \in Word
    BY <1>1, <2>1 DEF Registers
  <2> QED
    BY <1>1, <2>1, <2>2, <2>3, <2>4, <2>5 DEF Registers
<1>5. CASE Store
  <2>1. a' = a /\ x' = x /\ \E v \in {a, x} : mem' = [mem EXCEPT ![Slot(k)] = v]
    BY <1>5 DEF Store
  <2> QED
    BY <2>1 DEF Registers
<1>6. CASE Alu
  <2>1. pc < Len(program)
    BY <1>6 DEF Alu, Fetch
  <2>2. \/ UNCHANGED registers
        \/ /\ Current.op \in AluOps /\ (Current.op \in {"div", "mod"} => k # 0)
           /\ a' = AluResult(Current.op, k) /\ x' = x /\ mem' = mem
    BY <1>6 DEF Alu, Undefined
  <2>3. CASE /\ Current.op \in AluOps /\ (Current.op \in {"div", "mod"} => k # 0)
             /\ a' = AluResult(Current.op, k) /\ x' = x /\ mem' = mem
    <3>1. a' \in Word
      BY <1>1, <2>1, <2>3, AluIsWord DEF Registers
    <3> QED
      BY <2>3, <3>1 DEF Registers
  <2> QED
    BY <1>2, <2>2, <2>3
<1>7. CASE Misc
  <2>1. mem' = mem /\ a' \in {a, x} /\ x' \in {a, x}
    BY <1>7 DEF Misc, Undefined, registers
  <2> QED
    BY <2>1 DEF Registers
<1>8. Jump \/ Return \/ FallOff => UNCHANGED registers
  BY DEF Jump, Return, FallOff, Undefined
<1> QED
  BY <1>2, <1>3, <1>4, <1>5, <1>6, <1>7, <1>8 DEF Next

(* A load that runs past the packet is the only thing that raises `missed`,    *)
(* which is a truth value.                                                     *)
LEMMA MissedKept ==
  ASSUME missed \in BOOLEAN, Next
  PROVE  missed' \in BOOLEAN
<1>1. CASE Load
  BY <1>1 DEF Load, LoadAt, Undefined
<1>2. CASE LoadIndex
  BY <1>2 DEF LoadIndex, Undefined
<1>3. Store \/ Alu \/ Jump \/ Misc \/ Return \/ FallOff => missed' = missed
  BY DEF Store, Alu, Jump, Misc, Return, FallOff, Undefined
<1> QED
  BY <1>1, <1>2, <1>3 DEF Next

(* The registers and the scratch memory hold words whatever the program does:  *)
(* every operation wraps.                                                      *)
THEOREM WordsStayWords == Spec => []TypeOK
<1> DEFINE Inv == Registers /\ packet \in Packets /\ missed \in BOOLEAN
<1>1. Init => Inv
  <2> SUFFICES ASSUME Init PROVE Inv
    OBVIOUS
  <2>1. packet \in Packets /\ missed = FALSE
    BY DEF Init, Begin, Reset
  <2>2. a = 0 /\ x = 0 /\ mem = [i \in 0 .. MemSlots - 1 |-> 0] /\ 0 \in Word
    BY WordsAre DEF Init, Begin, Reset
  <2> QED
    BY <2>1, <2>2 DEF Registers
<1>2. Control /\ Inv /\ [Next]_vars => Inv'
  <2>1. ASSUME Control, Inv, Next PROVE Inv'
    <3>1. packet' = packet
      BY <2>1 DEF Next, Load, LoadIndex, Store, Alu, Jump, Misc, Return, FallOff, Fetch, input
    <3> QED
      BY <2>1, <3>1, RegistersKept, MissedKept
  <2>2. ASSUME Inv, UNCHANGED vars PROVE Inv'
    BY <2>2 DEF vars, input, registers, Registers
  <2> QED
    BY <2>1, <2>2
<1>3. Control /\ Inv => TypeOK
  BY DEF Control, Registers, TypeOK
<1> QED
  BY <1>1, <1>2, <1>3, ControlInvariant, PTL DEF Spec

--------------------------------------------------------------------------------
(* The assembler.                                                              *)

LEMMA Members ==
  ASSUME NEW S, NEW s \in Seq(S)
  PROVE  /\ Len(s) \in Nat /\ DOMAIN s = 1 .. Len(s)
         /\ \A i \in 1 .. Len(s) : s[i] \in S
  OBVIOUS

(* What the next call is.                                                      *)
LEMMA NextCall ==
  ASSUME AssemblerInv, NEW item, Calls(item)
  PROVE  /\ assembling = "calls" /\ performed \in Nat
         /\ performed + 1 \in 1 .. Len(calls) /\ Len(calls) \in Nat
         /\ calls' = calls /\ performed' = performed + 1 /\ assembling' = assembling
         /\ patched' = patched /\ patched = 0
         /\ Call = calls[performed + 1] /\ Call.item = item
         /\ item # "label" => Inst(Call) \in Instruction
         /\ item = "jump" => Call.target \in [jt : Label, jf : Label]
         /\ IsProgram(calls)
<1>1. IsProgram(calls) /\ assembling = "calls" /\ performed < Len(calls)
  BY DEF AssemblerInv, Progress, Calls
<1>2. Len(calls) \in Nat /\ performed \in Nat /\ performed + 1 \in 1 .. Len(calls)
  BY <1>1 DEF AssemblerInv, Progress, IsProgram
<1> QED
  BY <1>1, <1>2 DEF AssemblerInv, Progress, Calls, IsProgram, Call

(* An instruction is added behind the others.                                  *)
LEMMA Appends ==
  ASSUME AssemblerInv, Emits
  PROVE  /\ Len(insts) \in Nat
         /\ Len(insts') = Len(insts) + 1 /\ Len(origin') = Len(insts) + 1
         /\ \A i \in 1 .. Len(insts) : insts'[i] = insts[i] /\ origin'[i] = origin[i]
         /\ insts'[Len(insts) + 1] = Inst(Call)
         /\ origin'[Len(insts) + 1] = performed + 1
<1>1. insts \in Seq(Instruction) /\ origin \in Seq(Nat) /\ Len(origin) = Len(insts)
  BY DEF AssemblerInv, InstsTrue
<1>2. insts' = Append(insts, Inst(Call)) /\ origin' = Append(origin, performed + 1)
  BY DEF Emits
<1> QED
  BY <1>1, <1>2

LEMMA InstAdded ==
  ASSUME AssemblerInv, NEW item \in {"inst", "jump"}, Calls(item), Emits
  PROVE  InstsTrue'
<1> DEFINE n == Len(insts) + 1
<1>1. /\ performed \in Nat /\ calls' = calls /\ performed' = performed + 1
      /\ Call = calls[performed + 1] /\ Call.item = item
      /\ Inst(Call) \in Instruction
  BY NextCall
<1>2. /\ Len(insts) \in Nat
      /\ Len(insts') = n /\ Len(origin') = n
      /\ \A i \in 1 .. Len(insts) : insts'[i] = insts[i] /\ origin'[i] = origin[i]
      /\ insts'[n] = Inst(Call)
      /\ origin'[n] = performed + 1
  BY Appends
<1>3. insts' \in Seq(Instruction) /\ origin' \in Seq(Nat)
  <2>1. insts \in Seq(Instruction) /\ origin \in Seq(Nat)
    BY DEF AssemblerInv, InstsTrue
  <2> QED
    BY <1>1, <2>1 DEF Emits
<1>4. ASSUME NEW i \in 1 .. n
      PROVE  /\ origin'[i] \in 1 .. performed'
             /\ \A j \in 1 .. n : i < j => origin'[i] < origin'[j]
             /\ LET call == calls'[origin'[i]]
                IN  /\ call.item # "label"
                    /\ call.item = "inst" => insts'[i] = Inst(call)
                    /\ insts'[i] = [Inst(call) EXCEPT !.jt = insts'[i].jt, !.jf = insts'[i].jf]
  <2>1. CASE i \in 1 .. Len(insts)
    <3>1. /\ origin[i] \in 1 .. performed
          /\ \A j \in 1 .. Len(insts) : i < j => origin[i] < origin[j]
          /\ LET call == calls[origin[i]]
             IN  /\ call.item # "label"
                 /\ call.item = "inst" => insts[i] = Inst(call)
                 /\ insts[i] = [Inst(call) EXCEPT !.jt = insts[i].jt, !.jf = insts[i].jf]
      BY <2>1 DEF AssemblerInv, InstsTrue
    <3>2. insts'[i] = insts[i] /\ origin'[i] = origin[i]
      BY <1>2, <2>1
    <3>3. ASSUME NEW j \in 1 .. n, i < j PROVE origin'[i] < origin'[j]
      BY <1>1, <1>2, <2>1, <3>1, <3>2, <3>3
    <3> QED
      BY <1>1, <3>1, <3>2, <3>3
  <2>2. CASE i = n
    <3>1. insts'[i] = [Inst(Call) EXCEPT !.jt = insts'[i].jt, !.jf = insts'[i].jf]
      BY <1>1, <1>2, <2>2 DEF Instruction
    <3>2. origin'[i] \in 1 .. performed' /\ \A j \in 1 .. n : i < j => origin'[i] < origin'[j]
      BY <1>1, <1>2, <2>2
    <3>3. calls'[origin'[i]] = Call /\ insts'[i] = Inst(Call) /\ Call.item # "label"
      BY <1>1, <1>2, <2>2
    <3> QED
      BY <3>1, <3>2, <3>3
  <2> QED
    BY <1>2, <2>1, <2>2
<1>5. ASSUME NEW m \in 1 .. performed', calls'[m].item # "label"
      PROVE  \E i \in 1 .. n : origin'[i] = m
  <2>1. CASE m = performed + 1
    BY <1>1, <1>2, <2>1
  <2>2. CASE m \in 1 .. performed
    <3>1. PICK i \in 1 .. Len(insts) : origin[i] = m
      BY <1>1, <1>5, <2>2 DEF AssemblerInv, InstsTrue
    <3> QED
      BY <1>2, <3>1
  <2> QED
    BY <1>1, <2>1, <2>2
<1> QED
  BY <1>2, <1>3, <1>4, <1>5 DEF InstsTrue

(* Labels placed before keep their places.                                     *)
LEMMA LabelsStay ==
  ASSUME AssemblerInv, NEW item \in {"inst", "jump"}, Calls(item), Emits
  PROVE  LabelsTrue'
<1> DEFINE n == Len(insts) + 1
<1>1. /\ performed \in Nat /\ calls' = calls /\ performed' = performed + 1
      /\ Call = calls[performed + 1] /\ Call.item # "label" /\ labels' = labels
  BY NextCall DEF Emits
<1>2. /\ Len(insts) \in Nat
      /\ Len(insts') = n /\ Len(origin') = n
      /\ \A i \in 1 .. Len(insts) : insts'[i] = insts[i] /\ origin'[i] = origin[i]
      /\ origin'[n] = performed + 1
  BY Appends
<1>3. ASSUME NEW l \in DOMAIN labels
      PROVE  LabelTrue(l)'
  <2>1. labels[l] \in 0 .. Len(insts)
    BY <1>3 DEF AssemblerInv, LabelsTrue, LabelTrue
  <2>2. PICK j \in 1 .. performed :
               /\ Binds(j, l)
               /\ \A i \in 1 .. Len(insts) : origin[i] > j <=> i > labels[l]
    BY <1>3 DEF AssemblerInv, LabelsTrue, LabelTrue
  <2>3. Binds(j, l)'
    BY <1>1, <2>2 DEF Binds
  <2>4. \A i \in 1 .. n : origin'[i] > j <=> i > labels[l]
    BY <1>1, <1>2, <2>1, <2>2
  <2>5. j \in 1 .. performed'
    BY <1>1
  <2> QED
    BY <1>1, <1>2, <2>1, <2>3, <2>4, <2>5 DEF LabelTrue
<1>4. ASSUME NEW m \in 1 .. performed', calls[m].item = "label"
      PROVE  calls[m].label \in DOMAIN labels
  <2>1. m \in 1 .. performed
    BY <1>1, <1>4
  <2> QED
    BY <1>4, <2>1 DEF AssemblerInv, LabelsTrue
<1> QED
  BY <1>1, <1>3, <1>4 DEF LabelsTrue

LEMMA PendingAre ==
  ASSUME AssemblerInv, NEW n \in 1 .. Len(pending)
  PROVE  /\ ArmTrue(n)
         /\ pending[n] \in [idx : Nat, arm : {"jt", "jf"}, label : Label]
         /\ pending[n].idx \in Nat /\ pending[n].idx < Len(insts)
         /\ pending[n].idx + 1 \in 1 .. Len(insts) /\ Len(insts) \in Nat
<1>1. ArmTrue(n) /\ pending \in Seq([idx : Nat, arm : {"jt", "jf"}, label : Label])
  BY DEF AssemblerInv, PendingTrue
<1>2. pending[n] \in [idx : Nat, arm : {"jt", "jf"}, label : Label]
  BY <1>1, Members
<1>3. pending[n].idx \in Nat /\ pending[n].idx < Len(insts)
  BY <1>1, <1>2 DEF ArmTrue
<1>4. Len(insts) \in Nat
  <2>1. insts \in Seq(Instruction)
    BY DEF AssemblerInv, InstsTrue
  <2> QED
    BY <2>1, Members
<1> QED
  BY <1>1, <1>2, <1>3, <1>4

LEMMA ArmIs ==
  ASSUME AssemblerInv, NEW n \in 1 .. Len(pending)
  PROVE  pending[n].arm \in {"jt", "jf"}
<1>1. pending \in Seq([idx : Nat, arm : {"jt", "jf"}, label : Label])
  BY DEF AssemblerInv, PendingTrue
<1>2. pending[n] \in [idx : Nat, arm : {"jt", "jf"}, label : Label]
  BY <1>1, Members
<1> QED
  BY ONLY <1>2

LEMMA ArmJumps ==
  ASSUME NEW n, ArmTrue(n)
  PROVE  /\ calls[origin[pending[n].idx + 1]].item = "jump"
         /\ pending[n].label = calls[origin[pending[n].idx + 1]].target[pending[n].arm]
  BY DEF ArmTrue

LEMMA EmitInstKeeps == AssemblerInv /\ EmitInst => AssemblerInv'
<1> SUFFICES ASSUME AssemblerInv, EmitInst PROVE AssemblerInv'
  OBVIOUS
<1> DEFINE n == Len(insts) + 1
<1>1. Calls("inst") /\ Emits /\ pending' = pending
  BY DEF EmitInst
<1>2. /\ performed \in Nat /\ performed + 1 \in 1 .. Len(calls) /\ Len(calls) \in Nat
      /\ calls' = calls /\ performed' = performed + 1 /\ assembling' = assembling
      /\ assembling = "calls" /\ patched' = patched /\ patched = 0
      /\ Call = calls[performed + 1] /\ Call.item = "inst"
      /\ IsProgram(calls)
  BY <1>1, NextCall
<1>3. /\ Len(insts) \in Nat
      /\ Len(insts') = n
      /\ \A i \in 1 .. Len(insts) : insts'[i] = insts[i] /\ origin'[i] = origin[i]
      /\ origin'[n] = performed + 1
  BY <1>1, Appends
<1>4. Progress'
  BY <1>1, <1>2 DEF AssemblerInv, Progress
<1>5. PendingTrue'
  <2>1. pending \in Seq([idx : Nat, arm : {"jt", "jf"}, label : Label])
    BY DEF AssemblerInv, PendingTrue
  <2>2. ASSUME NEW m \in 1 .. Len(pending) PROVE ArmTrue(m)'
    <3>1. /\ pending[m].idx \in Nat /\ pending[m].idx < Len(insts) /\ ArmTrue(m)
          /\ pending[m].idx + 1 \in 1 .. Len(insts)
      BY PendingAre
    <3>2. origin'[pending[m].idx + 1] = origin[pending[m].idx + 1] /\ pending[m].idx < n
      <4>1. origin'[pending[m].idx + 1] = origin[pending[m].idx + 1]
        BY <1>3, <3>1
      <4>2. Len(insts) < n
        BY <1>3
      <4> QED
        BY <1>3, <3>1, <4>1, <4>2
    <3> QED
      BY <1>1, <1>2, <1>3, <3>1, <3>2 DEF ArmTrue
  <2>3. ASSUME NEW i \in 1 .. n, NEW arm \in {"jt", "jf"} PROVE ArmPends(i, arm)'
    <3>1. CASE i = n
      BY <1>2, <1>3, <3>1 DEF ArmPends
    <3>2. CASE i # n
      <4>1. i \in 1 .. Len(insts) /\ origin'[i] = origin[i]
        BY <1>3, <3>2
      <4>2. ArmPends(i, arm)
        BY <2>3, <4>1 DEF AssemblerInv, PendingTrue
      <4> QED
        BY <1>1, <1>2, <4>1, <4>2 DEF ArmPends
    <3> QED
      BY <3>1, <3>2
  <2> HIDE DEF n
  <2> QED
    BY <1>1, <1>3, <2>1, <2>2, <2>3 DEF PendingTrue
<1>6. PatchedTrue'
  BY <1>2 DEF PatchedTrue
<1> QED
  BY <1>1, <1>4, <1>5, <1>6, InstAdded, LabelsStay DEF AssemblerInv

LEMMA EmitJumpKeeps == AssemblerInv /\ EmitJumpInst => AssemblerInv'
<1> SUFFICES ASSUME AssemblerInv, EmitJumpInst PROVE AssemblerInv'
  OBVIOUS
<1> DEFINE n == Len(insts) + 1
           k == Len(pending)
           t == Arm("jt")
           f == Arm("jf")
           Type == [idx : Nat, arm : {"jt", "jf"}, label : Label]
<1>1. Calls("jump") /\ Emits /\ pending' = Append(Append(pending, t), f)
  BY DEF EmitJumpInst
<1>2. /\ performed \in Nat /\ performed + 1 \in 1 .. Len(calls) /\ Len(calls) \in Nat
      /\ calls' = calls /\ performed' = performed + 1 /\ assembling' = assembling
      /\ assembling = "calls" /\ patched' = patched /\ patched = 0
      /\ Call = calls[performed + 1] /\ Call.item = "jump"
      /\ Call.target \in [jt : Label, jf : Label]
      /\ IsProgram(calls)
  BY <1>1, NextCall
<1>3. /\ Len(insts) \in Nat
      /\ Len(insts') = n
      /\ \A i \in 1 .. Len(insts) : insts'[i] = insts[i] /\ origin'[i] = origin[i]
      /\ origin'[n] = performed + 1
  BY <1>1, Appends
<1>4. pending \in Seq(Type) /\ k \in Nat
  BY Members DEF AssemblerInv, PendingTrue
<1>5. /\ t.idx = Len(insts) /\ t.arm = "jt" /\ t.label = Call.target["jt"] /\ t \in Type
      /\ f.idx = Len(insts) /\ f.arm = "jf" /\ f.label = Call.target["jf"] /\ f \in Type
  BY <1>2, <1>3 DEF Arm
<1> HIDE DEF t, f, Type
<1>6. /\ pending' \in Seq(Type) /\ Len(pending') = k + 2
      /\ \A m \in 1 .. k : pending'[m] = pending[m]
      /\ pending'[k + 1] = t /\ pending'[k + 2] = f
  BY <1>1, <1>4, <1>5
<1>7. Progress'
  BY <1>1, <1>2, <1>4, <1>6 DEF AssemblerInv, Progress
<1>8. PendingTrue'
  <2>1. ASSUME NEW m \in 1 .. k PROVE ArmTrue(m)'
    <3>1. /\ pending[m].idx \in Nat /\ pending[m].idx < Len(insts) /\ ArmTrue(m)
          /\ pending[m].idx + 1 \in 1 .. Len(insts)
      BY PendingAre
    <3>2. origin'[pending[m].idx + 1] = origin[pending[m].idx + 1] /\ pending[m].idx < n
      <4>1. origin'[pending[m].idx + 1] = origin[pending[m].idx + 1]
        BY <1>3, <3>1
      <4>2. Len(insts) < n
        BY <1>3
      <4> QED
        BY <1>3, <3>1, <4>1, <4>2
    <3>3. pending'[m] = pending[m]
      BY <1>6
    <3>4. ASSUME NEW j \in 1 .. k + 2, j # m
          PROVE  pending'[j].idx # pending'[m].idx \/ pending'[j].arm # pending'[m].arm
      <4>1. CASE j \in 1 .. k
        BY <1>6, <3>1, <3>3, <3>4, <4>1 DEF ArmTrue
      <4>2. CASE j \in {k + 1, k + 2}
        <5>1. pending'[j].idx = Len(insts)
          BY <1>5, <1>6, <4>2
        <5>2. pending'[m].idx \in Nat /\ pending'[m].idx < Len(insts)
          BY <3>1, <3>3
        <5> QED
          BY <1>3, <5>1, <5>2
      <4> QED
        BY <1>4, <4>1, <4>2
    <3> QED
      BY <1>2, <1>3, <1>6, <3>1, <3>2, <3>3, <3>4 DEF ArmTrue
  <2>2. ASSUME NEW m \in {k + 1, k + 2} PROVE ArmTrue(m)'
    <3>1. /\ pending'[m].idx = Len(insts) /\ pending'[m].label = Call.target[pending'[m].arm]
      BY <1>4, <1>5, <1>6, <2>2
    <3>2. origin'[pending'[m].idx + 1] = performed + 1 /\ calls'[performed + 1] = Call
      BY <1>2, <1>3, <3>1
    <3>3. ASSUME NEW j \in 1 .. k + 2, j # m
          PROVE  pending'[j].idx # pending'[m].idx \/ pending'[j].arm # pending'[m].arm
      <4>1. CASE j \in 1 .. k
        <5>1. pending'[j].idx < Len(insts) /\ pending'[j].idx \in Nat
          BY <1>6, <4>1, PendingAre
        <5> QED
          BY <1>3, <3>1, <5>1
      <4>2. CASE j \in {k + 1, k + 2}
        BY <1>4, <1>5, <1>6, <2>2, <3>3, <4>2
      <4> QED
        BY <1>4, <4>1, <4>2
    <3>4. pending'[m].idx < Len(insts')
      BY <1>3, <3>1
    <3> QED
      BY <1>2, <1>6, <3>1, <3>2, <3>3, <3>4 DEF ArmTrue
  <2>3. ASSUME NEW i \in 1 .. n, NEW arm \in {"jt", "jf"} PROVE ArmPends(i, arm)'
    <3>1. CASE i = n
      <4>1. pending'[k + 1].idx = i - 1 /\ pending'[k + 2].idx = i - 1
            /\ pending'[k + 1].arm = "jt" /\ pending'[k + 2].arm = "jf"
        BY <1>3, <1>5, <1>6, <3>1
      <4>2. k + 1 \in 1 .. Len(pending') /\ k + 2 \in 1 .. Len(pending')
        BY <1>4, <1>6
      <4> QED
        BY <4>1, <4>2 DEF ArmPends
    <3>2. CASE i # n
      <4>1. i \in 1 .. Len(insts) /\ origin'[i] = origin[i]
        BY <1>3, <3>2
      <4>2. ArmPends(i, arm)
        BY <2>3, <4>1 DEF AssemblerInv, PendingTrue
      <4>3. \A m \in 1 .. k : m \in 1 .. Len(pending') /\ pending'[m] = pending[m]
        BY <1>4, <1>6
      <4> QED
        BY <1>2, <4>1, <4>2, <4>3 DEF ArmPends
    <3> QED
      BY <3>1, <3>2
  <2>4. \A m \in 1 .. k + 2 : ArmTrue(m)'
    BY <1>4, <2>1, <2>2
  <2>5. pending' \in Seq([idx : Nat, arm : {"jt", "jf"}, label : Label])
    BY <1>6 DEF Type
  <2> HIDE DEF n, k
  <2> QED
    BY <1>3, <1>6, <2>3, <2>4, <2>5 DEF PendingTrue
<1>9. PatchedTrue'
  BY <1>2 DEF PatchedTrue
<1> QED
  BY <1>1, <1>7, <1>8, <1>9, InstAdded, LabelsStay DEF AssemblerInv

LEMMA BindLabelKeeps == AssemblerInv /\ BindLabel => AssemblerInv'
<1> SUFFICES ASSUME AssemblerInv, BindLabel PROVE AssemblerInv'
  OBVIOUS
<1> DEFINE here == performed + 1
<1>1. /\ Calls("label")
      /\ labels' = [l \in DOMAIN labels \cup {Call.label} |->
                     IF l = Call.label THEN Len(insts) ELSE labels[l]]
      /\ insts' = insts /\ pending' = pending /\ origin' = origin
  BY DEF BindLabel
<1>2. /\ performed \in Nat /\ here \in 1 .. Len(calls) /\ Len(calls) \in Nat
      /\ calls' = calls /\ performed' = here /\ assembling' = assembling
      /\ assembling = "calls" /\ patched' = patched /\ patched = 0
      /\ Call = calls[here] /\ Call.item = "label"
      /\ IsProgram(calls)
  BY <1>1, NextCall
<1>3. Len(insts) \in Nat /\ \A i \in 1 .. Len(insts) : origin[i] \in 1 .. performed
  <2>1. insts \in Seq(Instruction)
    BY DEF AssemblerInv, InstsTrue
  <2> QED
    BY <2>1, Members DEF AssemblerInv, InstsTrue
<1>4. Progress'
  <2>1. here \in 0 .. Len(calls) /\ 0 \in 0 .. Len(pending')
    <3>1. patched \in 0 .. Len(pending)
      BY Zenon DEF AssemblerInv, Progress
    <3> QED
      BY <1>1, <1>2, <3>1
  <2> QED
    BY <1>2, <2>1 DEF Progress
<1>5. InstsTrue'
  <2>1. ASSUME NEW m \in 1 .. here, calls[m].item # "label"
        PROVE  \E i \in 1 .. Len(insts) : origin[i] = m
    <3>1. m \in 1 .. performed
      BY <1>2, <2>1
    <3> QED
      BY <2>1, <3>1 DEF AssemblerInv, InstsTrue
  <2>2. \A i \in 1 .. Len(insts) : origin[i] \in 1 .. here
    BY <1>2, <1>3
  <2> HIDE DEF here
  <2> QED
    BY <1>1, <1>2, <2>1, <2>2 DEF AssemblerInv, InstsTrue
<1>6. PendingTrue'
  <2>1. PendingTrue
    BY DEF AssemblerInv
  <2>2. ASSUME NEW m \in 1 .. Len(pending) PROVE ArmTrue(m)'
    <3>1. ArmTrue(m)
      BY <2>1 DEF PendingTrue
    <3> QED
      BY <1>1, <1>2, <3>1 DEF ArmTrue
  <2>3. ASSUME NEW i \in 1 .. Len(insts), NEW arm \in {"jt", "jf"} PROVE ArmPends(i, arm)'
    <3>1. ArmPends(i, arm)
      BY <2>1 DEF PendingTrue
    <3> QED
      BY <1>1, <1>2, <3>1 DEF ArmPends
  <2> HIDE DEF here
  <2> QED
    BY <1>1, <2>1, <2>2, <2>3 DEF PendingTrue
<1>7. ASSUME NEW l \in DOMAIN labels'
      PROVE  LabelTrue(l)'
  <2>1. CASE l = Call.label
    <3>1. labels'[l] = Len(insts)
      BY <1>1, <1>7, <2>1
    <3>2. PICK j \in 1 .. here : j = here
      BY <1>2
    <3>3. Binds(j, l)'
      BY <1>2, <2>1, <3>2 DEF Binds
    <3>4. \A i \in 1 .. Len(insts) : ~(origin[i] > j) /\ ~(i > Len(insts))
      BY <1>2, <1>3, <3>2
    <3> QED
      BY <1>1, <1>2, <1>3, <3>1, <3>3, <3>4 DEF LabelTrue
  <2>2. CASE l # Call.label
    <3>1. l \in DOMAIN labels /\ labels'[l] = labels[l]
      BY <1>1, <1>7, <2>2
    <3>2. labels[l] \in 0 .. Len(insts)
      BY <3>1 DEF AssemblerInv, LabelsTrue, LabelTrue
    <3>3. PICK j \in 1 .. performed :
                 /\ Binds(j, l)
                 /\ \A i \in 1 .. Len(insts) : origin[i] > j <=> i > labels[l]
      BY <3>1 DEF AssemblerInv, LabelsTrue, LabelTrue
    <3>4. Binds(j, l)'
      BY <1>2, <2>2, <3>3 DEF Binds
    <3>5. j \in 1 .. here
      BY <1>2
    <3> QED
      BY <1>1, <1>2, <3>1, <3>2, <3>3, <3>4, <3>5 DEF LabelTrue
  <2> QED
    BY <2>1, <2>2
<1>8. LabelsTrue'
  <2>1. ASSUME NEW m \in 1 .. here, calls[m].item = "label"
        PROVE  calls[m].label \in DOMAIN labels'
    <3>1. m = here \/ m \in 1 .. performed
      BY <1>2, <2>1
    <3>2. CASE m = here
      BY <1>1, <1>2, <3>2
    <3>3. CASE m \in 1 .. performed
      BY <1>1, <2>1, <3>3 DEF AssemblerInv, LabelsTrue
    <3> QED
      BY <3>1, <3>2, <3>3
  <2> HIDE DEF here
  <2> QED
    BY <1>2, <1>7, <2>1 DEF LabelsTrue
<1>9. PatchedTrue'
  BY <1>2 DEF PatchedTrue
<1> QED
  BY <1>4, <1>5, <1>6, <1>8, <1>9 DEF AssemblerInv

LEMMA OffsetsKept ==
  ASSUME labels' = labels, NEW p
  PROVE  Fits(p)' = Fits(p) /\ Offset(p)' = Offset(p)
BY DEF Fits, Offset, Target, IsPlaced

(* Steps that leave all but the stage alone.                                   *)
LEMMA StageKeeps ==
  ASSUME AssemblerInv, UNCHANGED <<calls, performed, assembler>>, Progress'
  PROVE  AssemblerInv'
<1>1. /\ calls' = calls /\ performed' = performed /\ insts' = insts /\ origin' = origin
      /\ pending' = pending /\ labels' = labels /\ patched' = patched
  BY Zenon DEF assembler
<1>2. InstsTrue'
  BY Zenon, <1>1 DEF AssemblerInv, InstsTrue
<1>3. PendingTrue'
  <2>1. \A n : ArmTrue(n)' = ArmTrue(n)
    BY <1>1 DEF ArmTrue
  <2>2. \A i, arm : ArmPends(i, arm)' = ArmPends(i, arm)
    BY <1>1 DEF ArmPends
  <2> QED
    BY <1>1, <2>1, <2>2 DEF AssemblerInv, PendingTrue
<1>4. LabelsTrue'
  BY <1>1 DEF AssemblerInv, LabelsTrue, LabelTrue, Binds
<1>5. PatchedTrue'
  BY <1>1 DEF AssemblerInv, PatchedTrue, Fits, Offset, Target, IsPlaced
<1> QED
  BY <1>2, <1>3, <1>4, <1>5 DEF AssemblerInv

LEMMA BeginResolveKeeps == AssemblerInv /\ BeginResolve => AssemblerInv'
<1> SUFFICES ASSUME AssemblerInv, BeginResolve PROVE AssemblerInv'
  OBVIOUS
<1>1. UNCHANGED <<calls, performed, assembler>> /\ assembling' = "offsets"
      /\ assembling = "calls" /\ performed = Len(calls)
  BY DEF BeginResolve
<1>2. Progress'
  BY <1>1 DEF AssemblerInv, Progress, assembler
<1> QED
  BY <1>1, <1>2, StageKeeps

LEMMA ResolvedKeeps == AssemblerInv /\ Resolved => AssemblerInv'
<1> SUFFICES ASSUME AssemblerInv, Resolved PROVE AssemblerInv'
  OBVIOUS
<1>1. UNCHANGED <<calls, performed, assembler>> /\ assembling' = "done"
      /\ assembling = "offsets" /\ patched = Len(pending)
  BY DEF Resolved
<1>2. Progress'
  BY <1>1 DEF AssemblerInv, Progress, assembler
<1> QED
  BY <1>1, <1>2, StageKeeps

(* An arm that was resolved keeps its offset: no arm is pending twice.         *)
LEMMA PatchKeeps == AssemblerInv /\ Patch => AssemblerInv'
<1> SUFFICES ASSUME AssemblerInv, Patch PROVE AssemblerInv'
  OBVIOUS
<1> DEFINE n == patched + 1
           p == pending[n]
           q == p.idx + 1
           d == Offset(p)
<1>1. /\ assembling = "offsets" /\ patched < Len(pending)
      /\ calls' = calls /\ performed' = performed /\ pending' = pending
      /\ labels' = labels /\ origin' = origin
  BY DEF Patch
<1>2. Len(pending) \in Nat /\ patched \in Nat /\ n \in 1 .. Len(pending)
  <2>1. pending \in Seq([idx : Nat, arm : {"jt", "jf"}, label : Label])
    BY DEF AssemblerInv, PendingTrue
  <2>2. Len(pending) \in Nat
    BY <2>1, Members
  <2> QED
    BY <1>1, <2>2 DEF AssemblerInv, Progress
<1>3. CASE ~ Fits(p)
  <2>1. assembling' = "panic" /\ insts' = insts /\ patched' = patched
    BY <1>3 DEF Patch
  <2>2. Progress'
    BY <1>1, <2>1 DEF AssemblerInv, Progress
  <2> QED
    BY <1>1, <2>1, <2>2, StageKeeps DEF assembler
<1>4. CASE Fits(p)
  <2>1. /\ insts' = [insts EXCEPT ![q][p.arm] = d]
        /\ patched' = n /\ assembling' = assembling
    BY <1>4 DEF Patch
  <2>2. /\ ArmTrue(n) /\ p \in [idx : Nat, arm : {"jt", "jf"}, label : Label]
        /\ p.idx \in Nat /\ q \in 1 .. Len(insts) /\ Len(insts) \in Nat
    BY <1>2, PendingAre
  <2>3. insts \in Seq(Instruction)
    BY DEF AssemblerInv, InstsTrue
  <2>4. d \in 0 .. MaxOffset
    BY <1>4 DEF Fits
  <2>5. p.arm \in {"jt", "jf"}
    BY <2>2
  <2> HIDE DEF n, p, q, d
  <2>6. insts[q] \in Instruction /\ \A i \in 1 .. Len(insts) : insts[i] \in Instruction
    BY <2>2, <2>3, Members
  <2>7. /\ Len(insts') = Len(insts)
        /\ DOMAIN insts' = 1 .. Len(insts)
        /\ \A i \in 1 .. Len(insts) : i # q => insts'[i] = insts[i]
        /\ insts'[q] = [insts[q] EXCEPT ![p.arm] = d]
    BY <2>1, <2>2, <2>3
  <2>8. /\ insts'[q] \in Instruction
        /\ insts'[q][p.arm] = d
        /\ \A arm \in {"jt", "jf"} : arm # p.arm => insts'[q][arm] = insts[q][arm]
        /\ insts'[q] = [insts[q] EXCEPT !.jt = insts'[q].jt, !.jf = insts'[q].jf]
    <3>1. d \in Nat
      BY <2>4, OffsetAssumption
    <3>2. CASE p.arm = "jt"
      <4> DEFINE r == insts[q]
                 s == insts'[q]
      <4>1. r \in Instruction /\ s = [r EXCEPT !.jt = d]
        BY <2>6, <2>7, <3>2
      <4> HIDE DEF r, s
      <4>2. s \in Instruction /\ s.jt = d /\ s.jf = r.jf
        BY <3>1, <4>1 DEF Instruction
      <4>3. s = [r EXCEPT !.jt = s.jt, !.jf = s.jf]
        BY <4>1, <4>2 DEF Instruction
      <4> QED
        BY <3>2, <4>2, <4>3 DEF r, s
    <3>3. CASE p.arm = "jf"
      <4> DEFINE r == insts[q]
                 s == insts'[q]
      <4>1. r \in Instruction /\ s = [r EXCEPT !.jf = d]
        BY <2>6, <2>7, <3>3
      <4> HIDE DEF r, s
      <4>2. s \in Instruction /\ s.jf = d /\ s.jt = r.jt
        BY <3>1, <4>1 DEF Instruction
      <4>3. s = [r EXCEPT !.jt = s.jt, !.jf = s.jf]
        BY <4>1, <4>2 DEF Instruction
      <4> QED
        BY <3>3, <4>2, <4>3 DEF r, s
    <3> QED
      BY <2>5, <3>2, <3>3
  <2>9. Progress'
    BY <1>1, <1>2, <2>1 DEF AssemblerInv, Progress
  <2>10. InstsTrue'
    <3>1. insts' \in Seq(Instruction)
      <4>1. insts' = [insts EXCEPT ![q] = insts'[q]]
        BY <2>1, <2>2, <2>3, <2>7
      <4> QED
        BY <2>2, <2>3, <2>8, <4>1
    <3>2. ASSUME NEW i \in 1 .. Len(insts)
          PROVE  LET call == calls[origin[i]]
                 IN  /\ call.item # "label"
                     /\ call.item = "inst" => insts'[i] = Inst(call)
                     /\ insts'[i] = [Inst(call) EXCEPT !.jt = insts'[i].jt, !.jf = insts'[i].jf]
      <4> DEFINE call == calls[origin[i]]
      <4>1. /\ call.item # "label"
            /\ call.item = "inst" => insts[i] = Inst(call)
            /\ insts[i] = [Inst(call) EXCEPT !.jt = insts[i].jt, !.jf = insts[i].jf]
        BY DEF AssemblerInv, InstsTrue
      <4>2. CASE i # q
        BY <2>7, <4>1, <4>2
      <4>3. CASE i = q
        <5>1. call.item = "jump"
          BY <2>2, <4>3 DEF ArmTrue, p, q
        <5>2. insts'[i] = [insts[i] EXCEPT !.jt = insts'[i].jt, !.jf = insts'[i].jf]
          BY <2>8, <4>3
        <5> HIDE DEF call
        <5>3. insts'[i] = [Inst(call) EXCEPT !.jt = insts'[i].jt, !.jf = insts'[i].jf]
          BY <4>1, <5>2
        <5> QED
          BY <5>1, <5>3 DEF call
      <4> QED
        BY <4>2, <4>3
    <3> QED
      BY <1>1, <2>7, <3>1, <3>2 DEF AssemblerInv, InstsTrue
  <2>11. PendingTrue'
    <3>1. PendingTrue
      BY DEF AssemblerInv
    <3>2. ASSUME NEW m \in 1 .. Len(pending) PROVE ArmTrue(m)'
      <4>1. ArmTrue(m)
        BY <3>1 DEF PendingTrue
      <4> QED
        BY <1>1, <2>7, <4>1 DEF ArmTrue
    <3>3. ASSUME NEW i \in 1 .. Len(insts), NEW arm \in {"jt", "jf"} PROVE ArmPends(i, arm)'
      <4>1. ArmPends(i, arm)
        BY <3>1 DEF PendingTrue
      <4> QED
        BY <1>1, <4>1 DEF ArmPends
    <3> QED
      BY <1>1, <2>7, <3>1, <3>2, <3>3 DEF PendingTrue
  <2>12. LabelsTrue'
    BY <1>1, <2>7 DEF AssemblerInv, LabelsTrue, LabelTrue, Binds
  <2>13. ASSUME NEW m \in 1 .. n
         PROVE  Fits(pending[m]) /\ insts'[pending[m].idx + 1][pending[m].arm] = Offset(pending[m])
    <3>1. CASE m = n
      BY <1>4, <2>8, <3>1 DEF p, q, d
    <3>2. CASE m # n
      <4>1. m \in 1 .. patched /\ m \in 1 .. Len(pending)
        BY <1>2, <2>13, <3>2 DEF n
      <4>2. /\ Fits(pending[m])
            /\ insts[pending[m].idx + 1][pending[m].arm] = Offset(pending[m])
        BY <4>1 DEF AssemblerInv, PatchedTrue
      <4>3. /\ pending[m] \in [idx : Nat, arm : {"jt", "jf"}, label : Label]
            /\ pending[m].idx + 1 \in 1 .. Len(insts) /\ pending[m].idx \in Nat
        BY <4>1, PendingAre
      <4>4. pending[m].idx # p.idx \/ pending[m].arm # p.arm
        BY <2>2, <3>2, <4>1 DEF ArmTrue, p
      <4>5. pending[m].arm \in {"jt", "jf"} /\ p.idx \in Nat
        BY <2>2, <4>3
      <4>6. CASE pending[m].idx = p.idx
        BY <2>8, <4>2, <4>4, <4>5, <4>6 DEF q
      <4>7. CASE pending[m].idx # p.idx
        <5>1. pending[m].idx + 1 # q
          BY <4>3, <4>5, <4>7 DEF q
        <5> QED
          BY <2>7, <4>2, <4>3, <5>1
      <4> QED
        BY <4>6, <4>7
    <3> QED
      BY <3>1, <3>2
  <2>14. PatchedTrue'
    BY <1>1, <2>1, <2>13, OffsetsKept DEF PatchedTrue
  <2> QED
    BY <2>9, <2>10, <2>11, <2>12, <2>14 DEF AssemblerInv
<1> QED
  BY <1>3, <1>4

LEMMA EmptyGood ==
  ASSUME Empty, IsProgram(calls), assembling = "calls"
  PROVE  AssemblerInv
<1>1. /\ performed = 0 /\ insts = <<>> /\ pending = <<>> /\ labels = <<>> /\ patched = 0
      /\ origin = <<>>
  BY DEF Empty
<1>2. Len(insts) = 0 /\ Len(pending) = 0 /\ Len(origin) = 0 /\ DOMAIN labels = {}
  BY <1>1
<1>3. Progress
  BY <1>1, <1>2 DEF Progress, IsProgram
<1>4. InstsTrue
  BY <1>1, <1>2 DEF InstsTrue
<1>5. PendingTrue
  BY <1>1, <1>2 DEF PendingTrue
<1>6. LabelsTrue /\ PatchedTrue
  BY <1>1, <1>2 DEF LabelsTrue, PatchedTrue
<1> QED
  BY <1>3, <1>4, <1>5, <1>6 DEF AssemblerInv

LEMMA AssemblerStep == AssemblerInv /\ [AssembleStep]_assemblerVars => AssemblerInv'
<1> SUFFICES ASSUME AssemblerInv, [AssembleStep]_assemblerVars PROVE AssemblerInv'
  OBVIOUS
<1>1. CASE UNCHANGED assemblerVars
  <2>1. UNCHANGED <<calls, performed, assembler>> /\ assembling' = assembling
    BY <1>1 DEF assemblerVars
  <2>2. Progress'
    BY <2>1 DEF AssemblerInv, Progress, assembler
  <2> QED
    BY <2>1, <2>2, StageKeeps
<1> QED
  BY <1>1, EmitInstKeeps, EmitJumpKeeps, BindLabelKeeps, BeginResolveKeeps, PatchKeeps,
     ResolvedKeeps DEF AssembleStep

(* Whatever compile() calls, the assembler keeps its book: every instruction   *)
(* is that of its call, every arm of a jump is pending once, and a label       *)
(* stands for the first instruction behind its place.                          *)
THEOREM AssemblerInductive == AssemblerSpec => []AssemblerInv
<1>1. Empty /\ IsProgram(calls) /\ assembling = "calls" => AssemblerInv
  BY EmptyGood
<1> QED
  BY <1>1, AssemblerStep, PTL DEF AssemblerSpec

(* Once all calls are made the last of them is the last instruction.           *)
LEMMA LastIsReturn ==
  ASSUME AssemblerInv, assembling \in {"offsets", "done"}
  PROVE  /\ Len(insts) \in Nat \ {0} /\ Len(calls) \in Nat /\ performed = Len(calls)
         /\ origin[Len(insts)] = Len(calls)
         /\ calls[Len(calls)].item = "inst"
         /\ insts[Len(insts)].class = "ret"
<1>1. /\ IsProgram(calls) /\ performed = Len(calls)
  BY DEF AssemblerInv, Progress
<1>2. /\ Len(calls) \in Nat \ {0}
      /\ calls[Len(calls)].item = "inst" /\ Inst(calls[Len(calls)]).class = "ret"
  BY <1>1 DEF IsProgram, Inst, Plain, Instr
<1>3. Len(insts) \in Nat
  <2>1. insts \in Seq(Instruction)
    BY DEF AssemblerInv, InstsTrue
  <2> QED
    BY <2>1, Members
<1>4. PICK i \in 1 .. Len(insts) : origin[i] = Len(calls)
  <2>1. Len(calls) \in 1 .. performed /\ calls[Len(calls)].item # "label"
    BY <1>1, <1>2
  <2> QED
    BY <2>1 DEF AssemblerInv, InstsTrue
<1>5. i = Len(insts)
  <2>1. Len(insts) \in 1 .. Len(insts)
    BY <1>3, <1>4
  <2>2. origin[Len(insts)] \in 1 .. performed
        /\ (i < Len(insts) => origin[i] < origin[Len(insts)])
    BY <1>4, <2>1 DEF AssemblerInv, InstsTrue
  <2> QED
    BY <1>1, <1>2, <1>3, <1>4, <2>2
<1>6. insts[i] = Inst(calls[Len(calls)])
  BY <1>2, <1>4 DEF AssemblerInv, InstsTrue
<1> QED
  BY <1>1, <1>2, <1>3, <1>4, <1>5, <1>6

(* A label leads to the first instruction behind the call that placed it, and  *)
(* never behind the last one, which is a return.                               *)
LEMMA LabelLeads ==
  ASSUME AssemblerInv, assembling \in {"offsets", "done"}, NEW l \in DOMAIN labels
  PROVE  /\ labels[l] \in Nat /\ labels[l] < Len(insts)
         /\ \E j \in 1 .. Len(calls) :
              /\ Binds(j, l)
              /\ \A m \in 1 .. Len(insts) : origin[m] > j <=> m > labels[l]
<1>1. /\ Len(insts) \in Nat \ {0} /\ Len(calls) \in Nat /\ performed = Len(calls)
      /\ origin[Len(insts)] = Len(calls) /\ calls[Len(calls)].item = "inst"
  BY LastIsReturn
<1>2. LabelTrue(l)
  BY DEF AssemblerInv, LabelsTrue
<1> DEFINE where == labels[l]
<1>3. where \in 0 .. Len(insts)
  BY <1>2 DEF LabelTrue
<1>4. PICK j \in 1 .. Len(calls) :
             /\ Binds(j, l)
             /\ \A m \in 1 .. Len(insts) : origin[m] > j <=> m > where
  BY <1>1, <1>2 DEF LabelTrue
<1> HIDE DEF where
<1>5. j # Len(calls)
  BY <1>1, <1>4 DEF Binds
<1>6. origin[Len(insts)] > j
  BY <1>1, <1>5
<1>7. Len(insts) \in 1 .. Len(insts)
  BY <1>1
<1>8. Len(insts) > where
  BY <1>4, <1>6, <1>7
<1>9. where \in Nat /\ where < Len(insts)
  BY <1>1, <1>3, <1>8
<1> QED
  BY <1>4, <1>9 DEF where

LEMMA MoreIsOneMore ==
  \A i, d \in Nat : \A m \in Int : m > i + d <=> m >= i + 1 + d
  OBVIOUS

(* Where an arm of a finished program leads.                                   *)
LEMMA ArmLands ==
  ASSUME AssemblerInv, assembling = "done",
         NEW i \in 1 .. Len(insts), calls[origin[i]].item = "jump",
         NEW arm \in {"jt", "jf"}
  PROVE  ArmRight(i, arm)
<1> DEFINE l == calls[origin[i]].target[arm]
           d == insts[i][arm]
<1>1. PICK n \in 1 .. Len(pending) : pending[n].idx = i - 1 /\ pending[n].arm = arm
  <2>1. ArmPends(i, arm)
    BY DEF AssemblerInv, PendingTrue
  <2> QED
    BY <2>1 DEF ArmPends
<1>2. Len(insts) \in Nat /\ Len(calls) \in Nat /\ performed = Len(calls)
  BY LastIsReturn
<1>3. i \in Nat /\ pending[n].idx + 1 = i
  BY <1>1, <1>2
<1>4. pending[n].label = l
  <2>1. ArmTrue(n)
    BY PendingAre
  <2> QED
    BY <1>1, <1>3, <2>1 DEF ArmTrue
<1>5. Fits(pending[n]) /\ d = Offset(pending[n])
  <2>1. n \in 1 .. patched
    BY DEF AssemblerInv, Progress
  <2>2. /\ Fits(pending[n])
        /\ insts[pending[n].idx + 1][pending[n].arm] = Offset(pending[n])
    BY <2>1 DEF AssemblerInv, PatchedTrue
  <2> QED
    BY <1>1, <1>3, <2>2
<1>6. origin[i] \in 1 .. Len(calls) /\ calls[origin[i]].item = "jump"
  BY <1>2 DEF AssemblerInv, InstsTrue
<1> HIDE DEF l, d
<1>7. CASE l = NextInst
  <2>1. Offset(pending[n]) = i - i
    BY <1>3, <1>4, <1>7 DEF Offset, Target
  <2>2. d = 0
    BY <1>3, <1>5, <2>1
  <2> QED
    BY <1>7, <2>2 DEF ArmRight, l, d
<1>8. CASE l # NextInst
  <2> DEFINE where == labels[l]
  <2>1. l \in DOMAIN labels
    BY <1>4, <1>5, <1>8 DEF Fits, IsPlaced
  <2>2. where \in Nat /\ where < Len(insts)
    BY <2>1, LabelLeads
  <2>3. PICK j \in 1 .. Len(calls) :
               /\ Binds(j, l)
               /\ \A m \in 1 .. Len(insts) : origin[m] > j <=> m > where
    BY <2>1, LabelLeads
  <2>4. d = where - i /\ d \in 0 .. MaxOffset
    <3>1. Offset(pending[n]) = where - i
      BY <1>3, <1>4, <1>8 DEF Offset, Target
    <3> QED
      BY <1>5, <3>1 DEF Fits
  <2> HIDE DEF where
  <2>5. d \in Nat /\ where = i + d
    BY <1>3, <2>2, <2>4, OffsetAssumption
  <2>6. calls[j].item = "label"
    BY <2>3 DEF Binds
  <2>7. ~ (i > where)
    BY <1>3, <2>5
  <2>8. ~ (origin[i] > j) /\ origin[i] # j
    BY <1>6, <2>3, <2>6, <2>7
  <2>9. j \in origin[i] + 1 .. Len(calls)
    BY <1>2, <1>6, <2>8
  <2>10. i + 1 + d \in 1 .. Len(insts)
    BY <1>2, <1>3, <2>2, <2>5
  <2>11. \A m \in 1 .. Len(insts) : m > where <=> m >= i + 1 + d
    BY <1>3, <2>5, MoreIsOneMore
  <2>12. \A m \in 1 .. Len(insts) : origin[m] > j <=> m >= i + 1 + d
    BY Zenon, <2>3, <2>11
  <2> QED
    BY <1>8, <2>3, <2>4, <2>9, <2>10, <2>12 DEF ArmRight, l, d
<1> QED
  BY <1>7, <1>8

(* resolve(): every arm of every jump leads to the first instruction behind    *)
(* the place of its label, forward and in reach, and nothing else of the       *)
(* program has changed since it was emitted, whatever compile() calls.         *)
THEOREM ArmsAreRight == AssemblerSpec => []ArmsReachLabels
<1>1. AssemblerInv => ArmsReachLabels
  <2> SUFFICES ASSUME AssemblerInv, assembling = "done", NEW i \in 1 .. Len(insts)
               PROVE  InstRight(i)
    BY DEF ArmsReachLabels
  <2> DEFINE call == calls[origin[i]]
  <2>1. /\ call.item # "label"
        /\ call.item = "inst" => insts[i] = Inst(call)
        /\ insts[i] = [Inst(call) EXCEPT !.jt = insts[i].jt, !.jf = insts[i].jf]
        /\ origin[i] \in 1 .. performed
    BY DEF AssemblerInv, InstsTrue
  <2>2. call.item \in {"inst", "jump"}
    <3>1. IsProgram(calls) /\ performed = Len(calls)
      BY DEF AssemblerInv, Progress
    <3> QED
      BY <2>1, <3>1 DEF IsProgram
  <2>3. call.item = "jump" => \A arm \in {"jt", "jf"} : ArmRight(i, arm)
    BY ArmLands
  <2> QED
    BY <2>1, <2>2, <2>3 DEF InstRight
<1> QED
  BY <1>1, AssemblerInductive, PTL

(* compile(): every program it hands out ends in a return and jumps only into  *)
(* itself, so that it always returns (AlwaysReturns).                          *)
THEOREM AssembledLands == AssemblerSpec => [](assembling = "done" => Lands(insts))
<1>1. AssemblerInv => (assembling = "done" => Lands(insts))
  <2> SUFFICES ASSUME AssemblerInv, assembling = "done" PROVE Lands(insts)
    OBVIOUS
  <2>1. /\ Len(insts) \in Nat \ {0} /\ Len(calls) \in Nat /\ performed = Len(calls)
        /\ origin[Len(insts)] = Len(calls) /\ calls[Len(calls)].item = "inst"
        /\ insts[Len(insts)].class = "ret"
    BY LastIsReturn
  <2>2. ASSUME NEW i \in 1 .. Len(insts), NEW t \in Targets(insts, i) PROVE t <= Len(insts)
    <3> DEFINE call == calls[origin[i]]
    <3>1. /\ call.item # "label"
          /\ call.item = "inst" => insts[i] = Inst(call)
          /\ insts[i] = [Inst(call) EXCEPT !.jt = insts[i].jt, !.jf = insts[i].jf]
          /\ origin[i] \in 1 .. performed
      BY DEF AssemblerInv, InstsTrue
    <3>2. /\ call.item \in {"inst", "jump", "label"}
          /\ Inst(call) \in Instruction
          /\ call.item = "inst" => Inst(call).class # "jmp"
          /\ call.item = "jump" => Inst(call).op # "ja"
      <4>1. IsProgram(calls) /\ performed = Len(calls)
        BY DEF AssemblerInv, Progress
      <4> QED
        BY <3>1, <4>1 DEF IsProgram, Inst, Plain, Instr
    <3>3. insts[i].class = Inst(call).class /\ insts[i].op = Inst(call).op
      BY <3>1, <3>2 DEF Instruction
    <3> HIDE DEF call
    <3>4. insts[i].class = "jmp"
      BY <2>2 DEF Targets
    <3>5. call.item = "jump"
      BY <3>1, <3>2, <3>3, <3>4
    <3>6. PICK arm \in {"jt", "jf"} : t = i + 1 + insts[i][arm]
      BY <2>2, <3>2, <3>3, <3>5 DEF Targets
    <3>7. CASE call.target[arm] = NextInst
      <4>1. insts[i][arm] = 0
        BY <3>5, <3>7, ArmLands DEF call, ArmRight
      <4>2. i # Len(insts)
        BY <2>1, <3>4
      <4> QED
        BY <2>1, <3>6, <4>1, <4>2
    <3>8. CASE call.target[arm] # NextInst
      <4>1. ArmRight(i, arm)
        BY <3>5, ArmLands DEF call
      <4>2. t \in 1 .. Len(insts)
        BY <3>6, <3>8, <4>1 DEF ArmRight, call
      <4> QED
        BY <2>1, <4>2
    <3> QED
      BY <3>7, <3>8
  <2>3. insts # <<>>
    BY <2>1
  <2> QED
    BY <2>1, <2>2, <2>3 DEF Lands
<1> QED
  BY <1>1, AssemblerInductive, PTL


(* resolve() panics for one reason only: the labels compile() asks for are     *)
(* placed, and behind their jumps, so that every arm of a program of at most   *)
(* MaxOffset + 2 instructions fits.                                            *)
LEMMA PanicsWhenLong ==
  ASSUME AssemblerInv, assembling = "offsets",
         NEW n \in 1 .. Len(pending), ~ Fits(pending[n])
  PROVE  Len(insts) > MaxOffset + 2
<1> DEFINE i == pending[n].idx + 1
           arm == pending[n].arm
           l == pending[n].label
           where == labels[l]
<1>1. Len(insts) \in Nat /\ Len(calls) \in Nat /\ performed = Len(calls)
  BY LastIsReturn
<1>2. /\ pending[n].idx \in Nat /\ i \in 1 .. Len(insts) /\ arm \in {"jt", "jf"}
      /\ calls[origin[i]].item = "jump" /\ l = calls[origin[i]].target[arm]
  <2>1. ArmTrue(n)
    BY PendingAre
  <2>2. pending[n].idx \in Nat /\ pending[n].idx + 1 \in 1 .. Len(insts)
    BY PendingAre
  <2>3. pending[n].arm \in {"jt", "jf"}
    BY ArmIs
  <2>4. /\ calls[origin[i]].item = "jump"
        /\ pending[n].label = calls[origin[i]].target[pending[n].arm]
    BY <2>1, Zenon DEF ArmTrue
  <2> QED
    BY <2>2, <2>3, <2>4
<1>3. origin[i] \in 1 .. Len(calls)
  BY <1>1, <1>2 DEF AssemblerInv, InstsTrue
<1>4. PlacedBehind(calls, origin[i], l)
  <2>1. IsProgram(calls)
    BY DEF AssemblerInv, Progress
  <2> QED
    BY <1>2, <1>3, <2>1 DEF IsProgram
<1>5. l # NextInst
  <2>1. CASE l = NextInst
    <3>1. Offset(pending[n]) = i - i
      BY <2>1 DEF Offset, Target
    <3>2. Offset(pending[n]) = 0
      BY <1>2, <3>1
    <3> QED
      BY <2>1, <3>2, OffsetAssumption DEF Fits, IsPlaced
  <2> QED
    BY <2>1
<1>6. PICK k \in origin[i] + 1 .. Len(calls) : calls[k].item = "label" /\ calls[k].label = l
  BY <1>4, <1>5 DEF PlacedBehind
<1>7. l \in DOMAIN labels
  <2>1. k \in 1 .. performed
    BY <1>1, <1>3, <1>6
  <2> QED
    BY <1>6, <2>1 DEF AssemblerInv, LabelsTrue
<1>8. where \in Nat /\ where < Len(insts)
  BY <1>7, LabelLeads
<1>9. PICK j \in 1 .. Len(calls) :
             /\ Binds(j, l)
             /\ \A m \in 1 .. Len(insts) : origin[m] > j <=> m > where
  BY <1>7, LabelLeads
<1>10. where - i \notin 0 .. MaxOffset
  <2>1. Offset(pending[n]) = where - i
    BY <1>5 DEF Offset, Target
  <2> QED
    BY <1>7, <2>1 DEF Fits, IsPlaced
<1> HIDE DEF i, arm, l, where
<1>11. j >= k
  <2>1. k \notin j + 1 .. performed
    BY <1>6, <1>9 DEF Binds
  <2> QED
    BY <1>1, <1>3, <1>6, <2>1
<1>12. ~ (origin[i] > j)
  BY <1>1, <1>3, <1>6, <1>11
<1>13. ~ (i > where)
  BY <1>2, <1>9, <1>12
<1> QED
  BY <1>1, <1>2, <1>8, <1>10, <1>13, OffsetAssumption

THEOREM OnlyLongProgramsPanic == AssemblerSpec => []OnlyLongPanics
<1>1. Empty /\ IsProgram(calls) /\ assembling = "calls" => OnlyLongPanics
  BY DEF OnlyLongPanics
<1>2. AssemblerInv /\ OnlyLongPanics /\ [AssembleStep]_assemblerVars => OnlyLongPanics'
  <2> SUFFICES ASSUME AssemblerInv, OnlyLongPanics, [AssembleStep]_assemblerVars,
                      assembling' = "panic"
               PROVE  Len(insts') > MaxOffset + 2
    BY DEF OnlyLongPanics
  <2>1. CASE Patch
    <3>1. /\ assembling = "offsets" /\ patched < Len(pending)
          /\ ~ Fits(pending[patched + 1]) /\ insts' = insts
      BY <2>1 DEF Patch
    <3>2. patched + 1 \in 1 .. Len(pending)
      <4>1. pending \in Seq([idx : Nat, arm : {"jt", "jf"}, label : Label])
        BY DEF AssemblerInv, PendingTrue
      <4>2. Len(pending) \in Nat
        BY <4>1, Members
      <4> QED
        BY <3>1, <4>2 DEF AssemblerInv, Progress
    <3> QED
      BY <3>1, <3>2, PanicsWhenLong
  <2>2. CASE EmitInst \/ EmitJumpInst \/ BindLabel
    <3>1. assembling' = assembling /\ assembling = "calls"
      BY <2>2 DEF EmitInst, EmitJumpInst, BindLabel, Calls
    <3> QED
      BY <3>1
  <2>3. CASE BeginResolve \/ Resolved
    BY <2>3 DEF BeginResolve, Resolved
  <2>4. CASE UNCHANGED assemblerVars
    BY <2>4 DEF assemblerVars, assembler, OnlyLongPanics
  <2> QED
    BY <2>1, <2>2, <2>3, <2>4 DEF AssembleStep
<1> QED
  BY <1>1, <1>2, AssemblerInductive, PTL DEF AssemblerSpec
================================================================================
