----------------------------- MODULE CaptureProofs -----------------------------
(* Proofs about run(): its counters, and what reaches the output file and the  *)
(* screen, for any command lines, packets and length of a capture.             *)
EXTENDS Capture, FiniteSetTheorems, TLAPS

USE DEF queueVars, output

--------------------------------------------------------------------------------
(* The place of a packet in the output.                                        *)

LEMMA RankType ==
  ASSUME NEW n \in Nat
  PROVE  /\ IsFiniteSet(WantedUpTo(n))
         /\ Rank(n) \in Nat
         /\ Rank(n) <= n
<1>1. IsFiniteSet(1 .. n) /\ Cardinality(1 .. n) = n
  BY FS_Interval
<1>2. WantedUpTo(n) \subseteq 1 .. n
  BY DEF WantedUpTo
<1> QED
  BY <1>1, <1>2, FS_Subset, FS_CardinalityType DEF Rank

LEMMA RankZero == Rank(0) = 0
<1>1. WantedUpTo(0) = {}
  BY DEF WantedUpTo
<1> QED
  BY <1>1, FS_EmptySet DEF Rank

(* A wanted packet comes one place after those before it.                      *)
LEMMA RankStep ==
  ASSUME NEW n \in Nat \ {0}
  PROVE  /\ Wanted(content[n]) => Rank(n) = Rank(n - 1) + 1
         /\ ~Wanted(content[n]) => Rank(n) = Rank(n - 1)
<1>1. n - 1 \in Nat /\ n \notin 1 .. n - 1 /\ 1 .. n = (1 .. n - 1) \cup {n}
  OBVIOUS
<1>2. CASE Wanted(content[n])
  <2>1. WantedUpTo(n) = WantedUpTo(n - 1) \cup {n} /\ n \notin WantedUpTo(n - 1)
    BY <1>1, <1>2 DEF WantedUpTo
  <2> QED
    BY <1>1, <1>2, <2>1, RankType, FS_AddElement DEF Rank
<1>3. CASE ~Wanted(content[n])
  <2>1. WantedUpTo(n) = WantedUpTo(n - 1)
    BY <1>1, <1>3 DEF WantedUpTo
  <2> QED
    BY <1>3, <2>1 DEF Rank
<1> QED
  BY <1>2, <1>3

LEMMA RankMonotone ==
  ASSUME NEW n \in Nat, NEW m \in 0 .. n
  PROVE  Rank(m) <= Rank(n)
<1>1. WantedUpTo(m) \subseteq WantedUpTo(n)
  BY DEF WantedUpTo
<1> QED
  BY <1>1, RankType, FS_Subset DEF Rank

(* The first n packets keep their places while they stay what they are.        *)
LEMMA RankKept ==
  ASSUME options' = options, NEW n \in Nat, \A i \in 1 .. n : content'[i] = content[i]
  PROVE  /\ WantedUpTo(n)' = WantedUpTo(n)
         /\ \A m \in 0 .. n : Rank(m)' = Rank(m)
<1>1. \A m \in 0 .. n : WantedUpTo(m)' = WantedUpTo(m)
  BY DEF WantedUpTo, Wanted, PassesFilter, PassesDirection, Filtered
<1> QED
  BY <1>1 DEF Rank

--------------------------------------------------------------------------------
(* The parts of the invariant that only a few steps can disturb.               *)

LEMMA Unpack ==
  ASSUME TypeOK
  PROVE  /\ options \in OptionType
         /\ Len(content) \in Nat /\ recorded \in Nat /\ delivered \in Nat /\ captured \in Nat
         /\ Len(written) \in Nat /\ Len(printed) \in Nat
         /\ \A i \in 1 .. Len(content) : content[i] \in PacketKinds
         /\ \A i \in 1 .. delivered : i \in 1 .. Len(content)
<1>1. options \in OptionType
  BY CaptureAssumption DEF TypeOK
<1> QED
  BY <1>1 DEF TypeOK

(* Output that is not added to stays right while the packets delivered stay    *)
(* what they are.                                                              *)
LEMMA DeliversKept ==
  ASSUME TypeOK, options' = options, delivered' = delivered,
         \A i \in 1 .. delivered : content'[i] = content[i]
  PROVE  /\ Rank(delivered)' = Rank(delivered)
         /\ delivered > 0 => Rank(delivered - 1)' = Rank(delivered - 1)
         /\ Delivers(written) /\ written' = written => Delivers(written)'
         /\ Delivers(Lines) /\ printed' = printed => Delivers(Lines)'
<1>1. delivered \in Nat
  BY Unpack
<1>2. /\ WantedUpTo(delivered)' = WantedUpTo(delivered)
      /\ \A m \in 0 .. delivered : Rank(m)' = Rank(m)
  BY <1>1, RankKept
<1>3. WantedUpTo(delivered) \subseteq 1 .. delivered
  BY DEF WantedUpTo
<1>4. /\ delivered \in 0 .. delivered
      /\ delivered > 0 => delivered - 1 \in 0 .. delivered
      /\ \A i \in 1 .. delivered : i \in 0 .. delivered
  BY <1>1
<1>5. Rank(delivered)' = Rank(delivered)
  BY <1>1, <1>2, <1>4
<1>6. delivered > 0 => Rank(delivered - 1)' = Rank(delivered - 1)
  BY <1>1, <1>2, <1>4
<1>7. Delivers(written) /\ written' = written => Delivers(written)'
  BY <1>1, <1>2, <1>3, <1>4, <1>5 DEF Delivers
<1>8. printed' = printed => Lines' = Lines
  BY DEF Lines
<1>9. Delivers(Lines) /\ printed' = printed => Delivers(Lines)'
  BY <1>1, <1>2, <1>3, <1>4, <1>5, <1>8 DEF Delivers
<1> QED
  BY <1>5, <1>6, <1>7, <1>9

LEMMA ReferenceKept ==
  ASSUME Reference, options' = options, printed' = printed,
         ctx'.prev_ts = ctx.prev_ts, ctx'.first_ts = ctx.first_ts
  PROVE  Reference'
  BY DEF Reference, LinesConsistent

LEMMA CaptureInit == Init => CaptureInv
<1> SUFFICES ASSUME Init PROVE CaptureInv
  OBVIOUS
<1>1. /\ options \in OptionSet
      /\ recorded = Len(content) /\ delivered = 0 /\ last = 0 /\ captured = 0
      /\ phase = "start" /\ created = FALSE
      /\ ctx = [num |-> 0, first_ts |-> 0, prev_ts |-> 0]
      /\ written = <<>> /\ printed = <<>>
  BY DEF Init
<1>2. content \in Seq(PacketKinds) /\ (options.source = "live" => content = <<>>)
  <2>1. \A m \in Nat : [1 .. m -> PacketKinds] \subseteq Seq(PacketKinds)
    OBVIOUS
  <2>2. <<>> \in Seq(PacketKinds)
    OBVIOUS
  <2> QED
    <3>1. CASE options.source = "live"
      <4>1. content \in {<<>>}
        BY <3>1 DEF Init
      <4> QED
        BY <2>2, <4>1
    <3>2. CASE options.source # "live"
      <4>1. content \in UNION {[1 .. m -> PacketKinds] : m \in 0 .. MaxPackets}
        BY <3>2 DEF Init, BoundedSeq, SeqOf
      <4>2. PICK m \in 0 .. MaxPackets : content \in [1 .. m -> PacketKinds]
        BY <4>1
      <4> QED
        BY <2>1, <3>2, <4>2, CaptureAssumption
    <3> QED
      BY <3>1, <3>2
<1>3. options \in OptionType /\ Len(content) \in Nat
  BY <1>1, <1>2, CaptureAssumption
<1>4. TypeOK
  <2>1. ctx \in [num : Nat, first_ts : Int, prev_ts : Int]
    BY <1>1
  <2>2. /\ <<>> \in Seq(PacketKinds)
        /\ <<>> \in Seq(LineType)
        /\ Len(<<>>) = 0
    OBVIOUS
  <2>3. delivered \in 0 .. recorded /\ captured \in 0 .. delivered
    BY <1>1, <1>3
  <2>4. created \in BOOLEAN
    BY <1>1
  <2>5. /\ written \in Seq(PacketKinds) /\ Len(written) <= captured
        /\ printed \in Seq(LineType) /\ Len(printed) <= captured
    BY <1>1, <2>2
  <2> QED
    BY <1>1, <1>2, <2>1, <2>3, <2>4, <2>5 DEF TypeOK
<1>5. InHand
  BY <1>1, <1>2 DEF InHand, KernelFilter
<1>6. Untouched
  BY <1>1 DEF Untouched
<1>7. Count
  BY <1>1, RankZero DEF Count
<1>8. Limit
  BY <1>1, <1>3 DEF Limit, OptionType, NoCount
<1>9. WantedUpTo(0) = {}
  BY DEF WantedUpTo
<1>10. Delivers(written) /\ Delivers(Lines)
  BY <1>1, <1>9, RankZero DEF Delivers, Lines
<1>11. Reference
  BY <1>1 DEF Reference, LinesConsistent
<1> QED
  BY <1>4, <1>5, <1>6, <1>7, <1>8, <1>10, <1>11 DEF CaptureInv

--------------------------------------------------------------------------------
(* Every step keeps the invariant.                                             *)

(* The steps that only move on, and where they move.                           *)
Moves ==
  \/ Start \/ ListFails \/ Open \/ GetIfaceMac \/ OpenFails \/ CheckCount
  \/ EndOfFile \/ SourceFails \/ WriteFails \/ Killed

LEMMA MovesTo ==
  ASSUME TypeOK, Moves
  PROVE  /\ UNCHANGED <<options, content, queueVars, created, packet, captured, ctx, output>>
         /\ \/ /\ phase = "start" /\ phase' = "create"
               /\ options.mode = "capture" /\ options.filter # "bad"
            \/ phase = "start" /\ phase' = "done" /\ options.mode # "capture"
            \/ phase = "open" /\ phase' \in {"mac", "top"}
            \/ phase = "mac" /\ phase' = "top"
            \/ phase = "top" /\ phase' = "done" /\ captured >= options.count
            \/ phase = "top" /\ phase' = "next" /\ ~(options.count # NoCount /\ captured >= options.count)
            \/ phase = "next" /\ phase' = "done" /\ options.source = "file"
            \/ phase \notin {"done", "failed", "killed"} /\ phase' \in {"failed", "killed"}
<1>1. options.mode \in {"capture", "list", "dump"}
  BY Unpack DEF OptionType
<1> QED
  BY <1>1 DEF Moves, Start, ListFails, Open, GetIfaceMac, OpenFails, CheckCount, EndOfFile,
              SourceFails, WriteFails, Killed, Goto, Ended

LEMMA MovesKeeps == CaptureInv /\ Moves => CaptureInv'
<1> SUFFICES ASSUME CaptureInv, Moves PROVE CaptureInv'
  OBVIOUS
<1>1. TypeOK /\ InHand /\ Untouched /\ Count /\ Limit /\ Reference
      /\ Delivers(written) /\ Delivers(Lines)
  BY DEF CaptureInv
<1>2. UNCHANGED <<options, content, queueVars, created, packet, captured, ctx, output>>
  BY <1>1, MovesTo
<1>3. /\ Rank(delivered)' = Rank(delivered)
      /\ Delivers(written)' /\ Delivers(Lines)'
  BY <1>1, <1>2, DeliversKept
<1>4. TypeOK'
  BY <1>1, <1>2, MovesTo DEF TypeOK
<1>5. InHand'
  BY <1>1, <1>2, MovesTo DEF InHand, KernelFilter, Filtered
<1>6. Untouched'
  BY <1>1, <1>2, MovesTo DEF Untouched
<1>7. Count'
  BY <1>1, <1>2, <1>3, MovesTo DEF Count, Printing
<1>8. Limit'
  <2>1. captured \in Nat /\ options.count \in Nat \cup {NoCount}
    BY <1>1, Unpack DEF OptionType
  <2> QED
    BY <1>1, <1>2, <2>1, MovesTo DEF Limit, NoCount
<1>9. Reference'
  BY <1>1, <1>2, ReferenceKept
<1> QED
  BY <1>3, <1>4, <1>5, <1>6, <1>7, <1>8, <1>9 DEF CaptureInv

LEMMA RecordedKeeps == CaptureInv /\ PacketRecorded => CaptureInv'
<1> SUFFICES ASSUME CaptureInv, PacketRecorded PROVE CaptureInv'
  OBVIOUS
<1>1. TypeOK /\ InHand /\ Untouched /\ Count /\ Limit /\ Reference
      /\ Delivers(written) /\ Delivers(Lines)
  BY DEF CaptureInv
<1>2. UNCHANGED <<options, dropped, delivered, last, phase, created, packet, captured, ctx, output>>
  BY DEF PacketRecorded, Queue!Record
<1>3. PICK p \in PacketKinds : content' = Append(content, p) /\ (KernelFilter => p.match)
  BY DEF PacketRecorded
<1>4. /\ content' \in Seq(PacketKinds) /\ Len(content') = Len(content) + 1
      /\ \A i \in 1 .. Len(content) : content'[i] = content[i]
      /\ content'[Len(content) + 1] = p
      /\ recorded' = recorded + 1
  BY <1>1, <1>3 DEF TypeOK, PacketRecorded, Queue!Record
<1>5. \A i \in 1 .. delivered : content'[i] = content[i]
  BY <1>1, <1>4, Unpack
<1>6. /\ Rank(delivered)' = Rank(delivered)
      /\ delivered > 0 => Rank(delivered - 1)' = Rank(delivered - 1)
      /\ Delivers(written)' /\ Delivers(Lines)'
  BY <1>1, <1>2, <1>5, DeliversKept
<1>7. TypeOK'
  BY <1>1, <1>2, <1>4 DEF TypeOK
<1>8. InHand'
  <2>1. phase \in {"judge", "write", "print"} => packet' = content'[delivered']
    BY <1>1, <1>2, <1>5, Unpack DEF InHand
  <2>2. KernelFilter' => \A i \in 1 .. Len(content') : content'[i].match
    BY <1>1, <1>2, <1>3, <1>4, Unpack DEF InHand, KernelFilter, Filtered
  <2>3. phase \in {"write", "print"} => Wanted(packet)'
    BY <1>1, <1>2 DEF InHand, Wanted, PassesFilter, PassesDirection, Filtered
  <2> QED
    BY <1>1, <1>2, <2>1, <2>2, <2>3 DEF InHand, Printing
<1>9. Untouched'
  BY <1>1, <1>2 DEF Untouched
<1>10. Count'
  <2>1. phase = "judge" => delivered > 0
    BY <1>1 DEF InHand
  <2> QED
    BY <1>1, <1>2, <1>6, <2>1 DEF Count, Printing
<1>11. Limit'
  BY <1>1, <1>2 DEF Limit
<1>12. Reference'
  BY <1>1, <1>2, ReferenceKept
<1> QED
  BY <1>6, <1>7, <1>8, <1>9, <1>10, <1>11, <1>12 DEF CaptureInv

LEMMA DroppedKeeps == CaptureInv /\ PacketDropped => CaptureInv'
<1> SUFFICES ASSUME CaptureInv, PacketDropped PROVE CaptureInv'
  OBVIOUS
<1>1. TypeOK /\ InHand /\ Untouched /\ Count /\ Limit /\ Reference
      /\ Delivers(written) /\ Delivers(Lines)
  BY DEF CaptureInv
<1>2. UNCHANGED <<options, content, recorded, delivered, last, phase, created, packet,
                  captured, ctx, output>>
  BY DEF PacketDropped, Queue!Drop
<1>3. /\ Rank(delivered)' = Rank(delivered)
      /\ delivered > 0 => Rank(delivered - 1)' = Rank(delivered - 1)
      /\ Delivers(written)' /\ Delivers(Lines)'
  BY <1>1, <1>2, DeliversKept
<1>4. TypeOK'
  BY <1>1, <1>2 DEF TypeOK
<1>5. InHand'
  BY <1>1, <1>2 DEF InHand, KernelFilter, Filtered, Wanted, PassesFilter, PassesDirection, Printing
<1>6. Untouched' /\ Limit'
  BY <1>1, <1>2 DEF Untouched, Limit
<1>7. Count'
  <2>1. phase = "judge" => delivered > 0
    BY <1>1 DEF InHand
  <2> QED
    BY <1>1, <1>2, <1>3, <2>1 DEF Count, Printing
<1>8. Reference'
  BY <1>1, <1>2, ReferenceKept
<1> QED
  BY <1>3, <1>4, <1>5, <1>6, <1>7, <1>8 DEF CaptureInv

(* Emptying the output file may empty the input, of which nothing has been     *)
(* read yet.                                                                   *)
LEMMA CreateKeeps == CaptureInv /\ (Create \/ CreateFails) => CaptureInv'
<1> SUFFICES ASSUME CaptureInv, Create \/ CreateFails PROVE CaptureInv'
  OBVIOUS
<1>1. TypeOK /\ InHand /\ Untouched /\ Count /\ Limit /\ Reference
      /\ Delivers(written) /\ Delivers(Lines)
  BY DEF CaptureInv
<1>2. /\ UNCHANGED <<options, dropped, delivered, last, packet, captured, ctx, output>>
      /\ phase = "create" /\ phase' \in {"open", "failed"}
  BY DEF Create, CreateFails
<1>3. /\ content' = <<>> \/ content' = content
      /\ recorded' = Len(content')
      /\ created' \in BOOLEAN
  BY <1>1 DEF Create, CreateFails, Truncate, TypeOK
<1>4. delivered = 0 /\ captured = 0 /\ Len(written) = 0 /\ Len(printed) = 0
  BY <1>1, <1>2, RankZero DEF Untouched, Count
<1>5. \A i \in 1 .. delivered : content'[i] = content[i]
  BY <1>4
<1>6. /\ Rank(delivered)' = Rank(delivered)
      /\ Delivers(written)' /\ Delivers(Lines)'
  BY <1>1, <1>2, <1>5, DeliversKept
<1>7. TypeOK'
  <2>1. content' \in Seq(PacketKinds)
    <3>1. <<>> \in Seq(PacketKinds)
      OBVIOUS
    <3> QED
      BY <1>1, <1>3, <3>1 DEF TypeOK
  <2>2. delivered' \in 0 .. recorded' /\ captured' \in 0 .. delivered'
    BY <1>2, <1>3, <1>4, <2>1
  <2> QED
    BY <1>1, <1>2, <1>3, <2>1, <2>2 DEF TypeOK
<1>8. InHand'
  BY <1>1, <1>2, <1>3 DEF InHand, KernelFilter, Filtered
<1>9. Untouched'
  BY <1>1, <1>2, <1>4 DEF Untouched
<1>10. Count'
  BY <1>1, <1>2, <1>6 DEF Count, Printing
<1>11. Limit'
  BY <1>1, <1>2 DEF Limit
<1>12. Reference'
  BY <1>1, <1>2, ReferenceKept
<1> QED
  BY <1>6, <1>7, <1>8, <1>9, <1>10, <1>11, <1>12 DEF CaptureInv

LEMMA PacketsOf ==
  ASSUME NEW p \in Seq(LineType), NEW q, q = [i \in 1 .. Len(p) |-> p[i].packet]
  PROVE  q \in Seq(PacketKinds) /\ Len(q) = Len(p) /\ \A i \in 1 .. Len(p) : q[i] = p[i].packet
<1>1. \A i \in 1 .. Len(p) : p[i] \in LineType
  OBVIOUS
<1>2. \A i \in 1 .. Len(p) : p[i].packet \in PacketKinds
  BY <1>1 DEF LineType
<1> QED
  BY <1>2

LEMMA LinesAre ==
  ASSUME TypeOK
  PROVE  /\ Lines \in Seq(PacketKinds)
         /\ Len(Lines) = Len(printed)
         /\ \A i \in 1 .. Len(printed) : Lines[i] = printed[i].packet
  BY PacketsOf DEF TypeOK, Lines

LEMMA Frozen ==
  ASSUME options' = options, content' = content
  PROVE  /\ \A n \in Nat : Rank(n)' = Rank(n) /\ WantedUpTo(n)' = WantedUpTo(n)
         /\ \A p \in PacketKinds : Wanted(p)' = Wanted(p)
<1>1. \A n \in Nat : Rank(n)' = Rank(n) /\ WantedUpTo(n)' = WantedUpTo(n)
  <2> TAKE n \in Nat
  <2>1. n \in 0 .. n
    OBVIOUS
  <2> QED
    BY <2>1, RankKept
<1> QED
  BY <1>1 DEF Wanted, PassesFilter, PassesDirection, Filtered

(* Output that is whole up to the packets delivered so far stays in order when *)
(* one more is delivered.                                                      *)
LEMMA OneMore ==
  ASSUME NEW n \in Nat, NEW out, Len(out) \in Nat, Len(out) <= Rank(n),
         \A i \in WantedUpTo(n) : Rank(i) <= Len(out) => out[Rank(i)] = content[i]
  PROVE  /\ Len(out) <= Rank(n + 1)
         /\ \A i \in WantedUpTo(n + 1) : Rank(i) <= Len(out) => out[Rank(i)] = content[i]
<1>1. n + 1 \in Nat \ {0} /\ n \in 0 .. n + 1 /\ n + 1 - 1 = n
  OBVIOUS
<1>2. Rank(n) \in Nat /\ Rank(n + 1) \in Nat /\ Rank(n) <= Rank(n + 1)
  BY <1>1, RankType, RankMonotone
<1>3. ASSUME NEW i \in WantedUpTo(n + 1), Rank(i) <= Len(out) PROVE i \in WantedUpTo(n)
  <2>1. i \in 1 .. n + 1 /\ Wanted(content[i])
    BY DEF WantedUpTo
  <2>2. i # n + 1
    BY <1>1, <1>2, <1>3, <2>1, RankStep
  <2> QED
    BY <2>1, <2>2 DEF WantedUpTo
<1> QED
  BY <1>2, <1>3

LEMMA NextKeeps == CaptureInv /\ NextPacket => CaptureInv'
<1> SUFFICES ASSUME CaptureInv, NextPacket PROVE CaptureInv'
  OBVIOUS
<1>1. TypeOK /\ InHand /\ Untouched /\ Count /\ Limit /\ Reference
      /\ Delivers(written) /\ Delivers(Lines)
  BY DEF CaptureInv
<1>2. /\ UNCHANGED <<options, content, recorded, dropped, created, captured, ctx, output>>
      /\ phase = "next" /\ phase' = "judge"
      /\ delivered < recorded /\ delivered' = delivered + 1 /\ last' = delivered'
      /\ packet' = content[delivered']
  BY DEF NextPacket, Goto, Queue!Deliver
<1>3. /\ delivered \in Nat /\ recorded \in Nat /\ captured \in Nat
      /\ delivered + 1 \in Nat /\ delivered + 1 - 1 = delivered
      /\ Len(written) \in Nat /\ Len(printed) \in Nat
  BY <1>1, Unpack
<1>4. \A n \in Nat : Rank(n)' = Rank(n) /\ WantedUpTo(n)' = WantedUpTo(n)
  BY <1>2, Frozen
<1>5. TypeOK'
  BY <1>1, <1>2, <1>3 DEF TypeOK
<1>6. InHand'
  BY <1>1, <1>2, <1>3 DEF InHand, KernelFilter, Filtered
<1>7. Untouched'
  BY <1>1, <1>2 DEF Untouched
<1>8. captured = Rank(delivered) /\ Rank(delivered) \in Nat
  BY <1>1, <1>2, <1>3, RankType DEF Count
<1>9. Rank(delivered)' = Rank(delivered + 1) /\ Rank(delivered) <= Rank(delivered + 1)
  BY <1>2, <1>3, <1>4, RankMonotone
<1>10. Rank(delivered - 1)' = Rank(delivered)
  BY <1>2, <1>3, <1>4
<1>11. Rank(delivered + 1) \in Nat
  BY <1>3, RankType
<1>12. Count'
  BY <1>1, <1>2, <1>3, <1>8, <1>9, <1>10, <1>11 DEF Count, Printing
<1>13. Limit'
  BY <1>1, <1>2 DEF Limit
<1>14. Delivers(written)'
  <2>1. /\ Len(written) <= Rank(delivered)
        /\ \A i \in WantedUpTo(delivered) : Rank(i) <= Len(written) => written[Rank(i)] = content[i]
    BY <1>1 DEF Delivers
  <2>2. /\ Len(written) <= Rank(delivered + 1)
        /\ \A i \in WantedUpTo(delivered + 1) :
             Rank(i) <= Len(written) => written[Rank(i)] = content[i]
    BY <1>3, <2>1, OneMore
  <2>3. written' = written /\ content' = content /\ delivered' = delivered + 1
    BY <1>2
  <2> QED
    BY <1>3, <1>4, <2>2, <2>3 DEF Delivers, WantedUpTo
<1>15. Delivers(Lines)'
  <2>1. Len(Lines) = Len(printed) /\ Lines' = Lines
    BY <1>1, <1>2, LinesAre DEF Lines
  <2> QED
    BY <1>1, <1>2, <1>3, <1>4, <1>9, <2>1, OneMore DEF Delivers, WantedUpTo
<1>16. Reference'
  BY <1>1, <1>2, ReferenceKept
<1> QED
  BY <1>5, <1>6, <1>7, <1>12, <1>13, <1>14, <1>15, <1>16 DEF CaptureInv

(* With a kernel filter every packet in hand matches.                          *)
LEMMA CountedIsWanted ==
  ASSUME TypeOK, InHand, phase = "judge"
  PROVE  /\ Counted(packet) <=> Wanted(content[delivered])
         /\ packet \in PacketKinds
<1>1. packet = content[delivered] /\ delivered \in 1 .. Len(content)
  BY Unpack DEF InHand
<1>2. KernelFilter => content[delivered].match
  BY <1>1 DEF InHand
<1> QED
  BY <1>1, <1>2, Unpack DEF Counted, Wanted, PassesFilter

LEMMA JudgeKeeps == CaptureInv /\ Judge => CaptureInv'
<1> SUFFICES ASSUME CaptureInv, Judge PROVE CaptureInv'
  OBVIOUS
<1>1. TypeOK /\ InHand /\ Untouched /\ Count /\ Limit /\ Reference
      /\ Delivers(written) /\ Delivers(Lines)
  BY DEF CaptureInv
<1>2. /\ UNCHANGED <<options, content, recorded, dropped, delivered, last, created, packet, output>>
      /\ phase = "judge"
      /\ ctx'.prev_ts = ctx.prev_ts /\ ctx'.first_ts = ctx.first_ts
  <2>1. CASE Counted(packet)
    BY <1>1, <2>1 DEF Judge, Goto, TypeOK
  <2>2. CASE ~Counted(packet)
    BY <1>1, <2>2 DEF Judge, Goto, TypeOK
  <2> QED
    BY <2>1, <2>2
<1>3. \/ /\ Wanted(content[delivered])
         /\ phase' = IF options.write THEN "write" ELSE "print"
         /\ captured' = captured + 1
         /\ ctx' = [ctx EXCEPT !.num = @ + 1]
      \/ ~Wanted(content[delivered]) /\ phase' = "top" /\ captured' = captured /\ ctx' = ctx
  BY <1>1, <1>2, CountedIsWanted DEF Judge, Goto
<1>4. /\ delivered \in Nat \ {0} /\ captured \in Nat /\ delivered - 1 \in Nat
      /\ packet = content[delivered] /\ packet \in PacketKinds
      /\ Len(written) \in Nat /\ Len(printed) \in Nat
  BY <1>1, <1>2, Unpack, CountedIsWanted DEF InHand
<1>5. captured = Rank(delivered - 1) /\ captured' = Rank(delivered) /\ captured' <= delivered
  BY <1>1, <1>2, <1>3, <1>4, RankStep, RankType DEF Count
<1>6. /\ Rank(delivered)' = Rank(delivered)
      /\ Delivers(written)' /\ Delivers(Lines)'
  BY <1>1, <1>2, DeliversKept
<1>7. captured' \in Nat /\ captured <= captured'
  BY <1>3, <1>4
<1>8. ctx' \in [num : Nat, first_ts : Int, prev_ts : Int] /\ ctx'.num = captured'
  BY <1>1, <1>3, <1>4 DEF TypeOK, Count
<1>9. phase' \in {"write", "print", "top"}
  BY <1>3
<1>10. TypeOK'
  BY <1>1, <1>2, <1>4, <1>5, <1>7, <1>8, <1>9 DEF TypeOK
<1>11. InHand'
  <2>1. phase' \in {"write", "print"} => Wanted(packet)'
    BY <1>2, <1>3, <1>4, Frozen
  <2>2. phase' = "write" => options.write
    BY <1>3
  <2>3. phase' = "print" => ~options.write
    BY <1>3
  <2> QED
    BY <1>1, <1>2, <1>3, <1>4, <2>1, <2>2, <2>3 DEF InHand, KernelFilter, Filtered, Printing
<1>12. Untouched'
  BY <1>1, <1>2, <1>3 DEF Untouched
<1>13. Count'
  <2>1. Len(written) = IF ~options.write THEN 0 ELSE captured
    BY <1>1, <1>2 DEF Count
  <2>2. Len(printed) = IF ~Printing THEN 0 ELSE captured
    BY <1>1, <1>2 DEF Count
  <2>3. CASE Wanted(content[delivered])
    <3>1. captured' = captured + 1 /\ phase' = IF options.write THEN "write" ELSE "print"
      BY <1>3, <2>3
    <3>2. Len(written)' = IF ~options.write THEN 0
                          ELSE IF phase' = "write" THEN captured' - 1 ELSE captured'
      BY <1>2, <1>4, <2>1, <3>1
    <3>3. Len(printed)' = IF ~Printing THEN 0 ELSE captured' - 1
      BY <1>2, <1>4, <2>2, <3>1
    <3> QED
      BY <1>2, <1>4, <1>5, <1>6, <1>7, <1>8, <1>9, <3>1, <3>2, <3>3 DEF Count, Printing
  <2>4. CASE ~Wanted(content[delivered])
    <3>1. captured' = captured /\ phase' = "top"
      BY <1>3, <2>4
    <3> QED
      BY <1>2, <1>4, <1>5, <1>6, <1>7, <1>8, <2>1, <2>2, <3>1 DEF Count, Printing
  <2> QED
    BY <2>3, <2>4
<1>14. Limit'
  <2>1. options.count \in Nat \cup {NoCount}
    BY <1>1, Unpack DEF OptionType
  <2> QED
    BY <1>1, <1>2, <1>3, <1>4, <1>9, <2>1 DEF Limit, NoCount
<1>15. Reference'
  BY <1>1, <1>2, ReferenceKept
<1> QED
  BY <1>6, <1>10, <1>11, <1>12, <1>13, <1>14, <1>15 DEF CaptureInv

(* The packet delivered last, when it is wanted, goes to its place.            *)
LEMMA Appended ==
  ASSUME NEW n \in Nat \ {0}, NEW out \in Seq(PacketKinds), content[n] \in PacketKinds,
         Wanted(content[n]), Len(out) + 1 = Rank(n),
         \A i \in WantedUpTo(n) : Rank(i) <= Len(out) => out[Rank(i)] = content[i]
  PROVE  /\ Len(Append(out, content[n])) = Rank(n)
         /\ \A i \in WantedUpTo(n) :
              Rank(i) \in 1 .. Rank(n) /\ Append(out, content[n])[Rank(i)] = content[i]
<1> DEFINE more == Append(out, content[n])
<1>1. /\ Len(more) = Rank(n) /\ Len(out) \in Nat
      /\ \A k \in 1 .. Len(out) : more[k] = out[k]
      /\ more[Rank(n)] = content[n]
  OBVIOUS
<1>2. ASSUME NEW i \in WantedUpTo(n), i # n PROVE Rank(i) \in 1 .. Len(out)
  <2>1. i \in Nat \ {0} /\ i \in 0 .. n - 1 /\ n - 1 \in Nat /\ Wanted(content[i]) /\ i - 1 \in Nat
    BY <1>2 DEF WantedUpTo
  <2>2. Rank(i) = Rank(i - 1) + 1 /\ Rank(n) = Rank(n - 1) + 1 /\ Rank(i) <= Rank(n - 1)
    BY <2>1, RankStep, RankMonotone
  <2>3. Rank(i) \in Nat /\ Rank(i - 1) \in Nat /\ Rank(n - 1) \in Nat
    BY <2>1, RankType
  <2> QED
    BY <1>1, <2>2, <2>3
<1>3. ASSUME NEW i \in WantedUpTo(n)
      PROVE  Rank(i) \in 1 .. Rank(n) /\ more[Rank(i)] = content[i]
  <2>1. CASE i = n
    BY <1>1, <2>1
  <2>2. CASE i # n
    <3>1. Rank(i) \in 1 .. Len(out)
      BY <1>2, <2>2
    <3> QED
      BY <1>1, <3>1
  <2> QED
    BY <2>1, <2>2
<1> QED
  BY <1>1, <1>3

LEMMA WriteKeeps == CaptureInv /\ Write => CaptureInv'
<1> SUFFICES ASSUME CaptureInv, Write PROVE CaptureInv'
  OBVIOUS
<1>1. TypeOK /\ InHand /\ Untouched /\ Count /\ Limit /\ Reference
      /\ Delivers(written) /\ Delivers(Lines)
  BY DEF CaptureInv
<1>2. /\ UNCHANGED <<options, content, queueVars, created, packet, captured, ctx, printed>>
      /\ phase = "write" /\ phase' \in {"print", "top"}
      /\ written' = Append(written, packet)
  BY DEF Write, Goto
<1>3. /\ phase' = "print" => options.print
      /\ phase' = "top" => ~options.print
  BY DEF Write, Goto
<1>4. /\ delivered \in Nat \ {0} /\ captured \in Nat
      /\ packet = content[delivered] /\ packet \in PacketKinds /\ Wanted(packet)
      /\ Len(written) \in Nat /\ Len(printed) \in Nat
      /\ written \in Seq(PacketKinds)
      /\ options.write
  BY <1>1, <1>2, Unpack DEF InHand, TypeOK
<1>5. /\ captured = Rank(delivered)
      /\ Len(written) = captured - 1
      /\ Len(printed) = IF ~Printing THEN 0 ELSE captured - 1
  BY <1>1, <1>2, <1>4 DEF Count
<1>6. written' \in Seq(PacketKinds) /\ Len(written') = captured
  BY <1>2, <1>4, <1>5
<1>7. /\ Rank(delivered)' = Rank(delivered)
      /\ Delivers(Lines)'
  BY <1>1, <1>2, DeliversKept
<1>8. TypeOK'
  BY <1>1, <1>2, <1>4, <1>6 DEF TypeOK
<1>9. InHand'
  <2>1. Wanted(packet)'
    BY <1>2, <1>4, Frozen
  <2> QED
    BY <1>1, <1>2, <1>3, <1>4, <2>1 DEF InHand, KernelFilter, Filtered, Printing
<1>10. Untouched'
  BY <1>1, <1>2 DEF Untouched
<1>11. Count'
  <2>1. ctx.num = captured /\ captured <= Rank(delivered)
    BY <1>1 DEF Count
  <2>2. Len(printed') = IF ~Printing' THEN 0 ELSE IF phase' = "print" THEN captured - 1 ELSE captured
    BY <1>2, <1>3, <1>4, <1>5 DEF Printing
  <2>3. options'.write
    BY <1>2, <1>4
  <2> QED
    BY <1>2, <1>4, <1>5, <1>6, <1>7, <2>1, <2>2, <2>3 DEF Count
<1>12. Limit'
  BY <1>1, <1>2 DEF Limit
<1>13. Delivers(written)'
  <2>1. \A i \in WantedUpTo(delivered) : Rank(i) <= Len(written) => written[Rank(i)] = content[i]
    BY <1>1 DEF Delivers
  <2>2. Wanted(content[delivered]) /\ Len(written) + 1 = Rank(delivered)
    BY <1>4, <1>5
  <2>3. /\ Len(written') = Rank(delivered)
        /\ \A i \in WantedUpTo(delivered) : written'[Rank(i)] = content[i]
    BY <1>2, <1>4, <2>1, <2>2, Appended
  <2>4. \A n \in Nat : Rank(n)' = Rank(n) /\ WantedUpTo(n)' = WantedUpTo(n)
    BY <1>2, Frozen
  <2>5. delivered \in Nat /\ delivered' = delivered /\ content' = content
    BY <1>2, <1>4
  <2>6. WantedUpTo(delivered)' = WantedUpTo(delivered) /\ Rank(delivered)' = Rank(delivered)
    BY <2>4, <2>5
  <2>7. ASSUME NEW i \in WantedUpTo(delivered) PROVE Rank(i)' = Rank(i)
    BY <2>4, <2>7 DEF WantedUpTo
  <2>8. Len(written)' <= Rank(delivered)'
    BY <2>3, <2>6, <1>4, RankType
  <2> QED
    BY <2>3, <2>5, <2>6, <2>7, <2>8 DEF Delivers
<1>14. Reference'
  BY <1>1, <1>2, ReferenceKept
<1> QED
  BY <1>7, <1>8, <1>9, <1>10, <1>11, <1>12, <1>13, <1>14 DEF CaptureInv

--------------------------------------------------------------------------------
(* A time difference as it is printed.                                         *)

LEMMA Quotient ==
  ASSUME NEW n \in Nat
  PROVE  /\ n \div Second \in Nat /\ n % Second \in Nat
         /\ (n \div Second) * Second + (n % Second) = n
         /\ n >= Second => n \div Second > 0
<1>1. Second \in Nat \ {0}
  BY CaptureAssumption
<1> QED
  BY <1>1

LEMMA ShownTells ==
  ASSUME NEW delta \in Int
  PROVE  Shown(delta) \in DiffType /\ Tells(Shown(delta), delta)
<1> DEFINE size == IF delta < 0 THEN -delta ELSE delta
           q == size \div Second
           r == size % Second
<1>1. size \in Nat /\ Second \in Nat
  BY CaptureAssumption
<1>2. q \in Nat /\ r \in Nat /\ q * Second + r = size /\ (size >= Second => q > 0)
  BY <1>1, Quotient
<1>3. Shown(delta) = [secs |-> IF delta < 0 THEN -q ELSE q, rest |-> r]
  BY DEF Shown
<1> HIDE DEF q, r
<1>4. Shown(delta).secs = (IF delta < 0 THEN -q ELSE q) /\ Shown(delta).rest = r
  BY <1>3
<1>5. Shown(delta) \in DiffType
  BY <1>2, <1>3 DEF DiffType
<1>6. (IF Shown(delta).secs < 0 THEN -Shown(delta).secs ELSE Shown(delta).secs) = q
  BY <1>2, <1>4
<1>7. size >= Second => (Shown(delta).secs < 0 <=> delta < 0)
  BY <1>1, <1>2, <1>4
<1> QED
  BY <1>2, <1>4, <1>5, <1>6, <1>7 DEF Tells

(* A line added to consistent lines, with the number that comes next and times *)
(* from the right references.                                                  *)
LEMMA LineAdded ==
  ASSUME LinesConsistent, printed \in Seq(LineType), options' = options,
         NEW line \in LineType, printed' = Append(printed, line),
         line.num = Len(printed) + 1,
         Tells(line.since_prev,
               line.packet.ts - (IF printed = <<>> THEN 0 ELSE printed[Len(printed)].packet.ts)),
         options.source = "live" =>
           Tells(line.since_first,
                 line.packet.ts - (IF printed = <<>> THEN line ELSE printed[1]).packet.ts)
  PROVE  LinesConsistent'
<1>1. /\ Len(printed) \in Nat /\ Len(printed') = Len(printed) + 1
      /\ printed'[Len(printed) + 1] = line
      /\ \A i \in 1 .. Len(printed) : printed'[i] = printed[i]
      /\ printed = <<>> <=> Len(printed) = 0
  OBVIOUS
<1>2. printed'[1] = IF printed = <<>> THEN line ELSE printed[1]
  BY <1>1
<1> SUFFICES ASSUME NEW i \in 1 .. Len(printed')
             PROVE  /\ printed'[i].num = i
                    /\ Tells(printed'[i].since_prev,
                             printed'[i].packet.ts - IF i = 1 THEN 0 ELSE printed'[i - 1].packet.ts)
                    /\ options.source = "live" =>
                         Tells(printed'[i].since_first, printed'[i].packet.ts - printed'[1].packet.ts)
  BY DEF LinesConsistent, Tells
<1>3. CASE i = Len(printed) + 1
  <2>1. printed'[i] = line /\ printed'[i].num = i
    BY <1>1, <1>3
  <2>2. (IF printed = <<>> THEN 0 ELSE printed[Len(printed)].packet.ts)
          = (IF i = 1 THEN 0 ELSE printed'[i - 1].packet.ts)
    BY <1>1, <1>3
  <2> QED
    BY <1>2, <2>1, <2>2
<1>4. CASE i \in 1 .. Len(printed)
  <2>1. printed'[i] = printed[i] /\ printed'[1] = printed[1]
    BY <1>1, <1>4
  <2>2. i # 1 => printed'[i - 1] = printed[i - 1]
    BY <1>1, <1>4
  <2>3. /\ printed[i].num = i
        /\ Tells(printed[i].since_prev,
                 printed[i].packet.ts - IF i = 1 THEN 0 ELSE printed[i - 1].packet.ts)
        /\ options.source = "live" =>
             Tells(printed[i].since_first, printed[i].packet.ts - printed[1].packet.ts)
    BY <1>4 DEF LinesConsistent
  <2> QED
    BY <2>1, <2>2, <2>3
<1> QED
  BY <1>1, <1>3, <1>4

LEMMA PrintKeeps == CaptureInv /\ PrintPacket => CaptureInv'
<1> SUFFICES ASSUME CaptureInv, PrintPacket PROVE CaptureInv'
  OBVIOUS
<1> DEFINE before == IF printed = <<>> THEN 0 ELSE printed[Len(printed)].packet.ts
           line == [packet |-> packet, num |-> ctx.num,
                    since_prev |-> Shown(packet.ts - ctx.prev_ts),
                    since_first |-> Shown(packet.ts - FirstTs)]
<1>1. TypeOK /\ InHand /\ Untouched /\ Count /\ Limit /\ Reference
      /\ Delivers(written) /\ Delivers(Lines)
  BY DEF CaptureInv
<1>2. /\ UNCHANGED <<options, content, queueVars, created, packet, captured, written>>
      /\ phase = "print" /\ phase' = "top"
      /\ printed' = Append(printed, line)
      /\ ctx' = [num |-> ctx.num, first_ts |-> FirstTs, prev_ts |-> packet.ts]
  BY DEF PrintPacket, Goto
<1>3. /\ delivered \in Nat \ {0} /\ captured \in Nat
      /\ packet = content[delivered] /\ packet \in PacketKinds /\ Wanted(packet)
      /\ Len(written) \in Nat /\ Len(printed) \in Nat
      /\ printed \in Seq(LineType)
      /\ Printing
      /\ ctx \in [num : Nat, first_ts : Int, prev_ts : Int]
  BY <1>1, <1>2, Unpack DEF InHand, TypeOK
<1>4. /\ ctx.num = captured
      /\ captured = Rank(delivered)
      /\ Len(written) = IF ~options.write THEN 0 ELSE captured
      /\ Len(printed) = captured - 1
  BY <1>1, <1>2, <1>3 DEF Count
<1>5. packet.ts \in Int /\ FirstTs \in Int /\ ctx.prev_ts \in Int
  BY <1>3, CaptureAssumption DEF PacketType, FirstTs
<1>6. /\ line.since_prev \in DiffType /\ Tells(line.since_prev, packet.ts - ctx.prev_ts)
      /\ line.since_first \in DiffType /\ Tells(line.since_first, packet.ts - FirstTs)
  BY <1>5, ShownTells
<1>7. /\ line \in LineType
      /\ line.packet = packet /\ line.num = captured
  BY <1>3, <1>4, <1>6 DEF LineType
<1> HIDE DEF line
<1>8. /\ printed' \in Seq(LineType) /\ Len(printed') = captured
      /\ printed'[captured] = line
      /\ \A i \in 1 .. captured - 1 : printed'[i] = printed[i]
      /\ printed' # <<>>
  BY <1>2, <1>3, <1>4, <1>7
<1>9. /\ Rank(delivered)' = Rank(delivered)
      /\ Delivers(written)'
  BY <1>1, <1>2, DeliversKept
<1>10. TypeOK'
  <2>1. ctx' \in [num : Nat, first_ts : Int, prev_ts : Int]
    BY <1>2, <1>3, <1>5
  <2> QED
    BY <1>1, <1>2, <1>3, <1>8, <2>1 DEF TypeOK
<1>11. InHand'
  BY <1>1, <1>2 DEF InHand, KernelFilter, Filtered
<1>12. Untouched'
  BY <1>1, <1>2 DEF Untouched
<1>13. Count'
  <2>1. ctx'.num = captured /\ Printing' /\ options' = options
    BY <1>2, <1>3, <1>4 DEF Printing
  <2> QED
    BY <1>2, <1>3, <1>4, <1>8, <1>9, <2>1 DEF Count
<1>14. Limit'
  BY <1>1, <1>2 DEF Limit
<1>15. Delivers(Lines)'
  <2>1. Lines \in Seq(PacketKinds) /\ Len(Lines) + 1 = Rank(delivered)
    BY <1>1, <1>3, <1>4, LinesAre
  <2>2. \A i \in WantedUpTo(delivered) : Rank(i) <= Len(Lines) => Lines[Rank(i)] = content[i]
    BY <1>1 DEF Delivers
  <2>3. /\ Len(Append(Lines, packet)) = Rank(delivered)
        /\ \A i \in WantedUpTo(delivered) :
             Rank(i) \in 1 .. Rank(delivered) /\ Append(Lines, packet)[Rank(i)] = content[i]
    BY <1>3, <2>1, <2>2, Appended
  <2>4. \A i \in 1 .. captured : Lines'[i] = Append(Lines, packet)[i]
    <3>1. /\ Len(Lines') = captured
          /\ \A i \in 1 .. captured : Lines'[i] = printed'[i].packet
      BY <1>8, PacketsOf DEF Lines
    <3>2. captured - 1 \in Nat /\ Len(Lines) = captured - 1 /\ Len(printed) = captured - 1
      BY <1>1, <1>3, <1>4, LinesAre
    <3>3. /\ Append(Lines, packet)[captured] = packet
          /\ \A i \in 1 .. captured - 1 : Append(Lines, packet)[i] = Lines[i]
      BY <1>3, <2>1, <3>2
    <3>4. \A i \in 1 .. captured - 1 : Lines[i] = printed[i].packet
      BY <1>1, <3>2, LinesAre
    <3>5. Lines'[captured] = packet
      BY <1>7, <1>8, <3>1, <3>2
    <3>6. \A i \in 1 .. captured - 1 : Lines'[i] = Lines[i]
      BY <1>8, <3>1, <3>2, <3>4
    <3>7. \A i \in 1 .. captured : i = captured \/ i \in 1 .. captured - 1
      BY <1>3
    <3> QED
      BY <3>3, <3>5, <3>6, <3>7
  <2>5. Len(Lines') = captured
    BY <1>8, PacketsOf DEF Lines
  <2>6. \A n \in Nat : Rank(n)' = Rank(n) /\ WantedUpTo(n)' = WantedUpTo(n)
    BY <1>2, Frozen
  <2>7. delivered \in Nat /\ delivered' = delivered /\ content' = content
    BY <1>2, <1>3
  <2>8. WantedUpTo(delivered)' = WantedUpTo(delivered)
    BY <2>6, <2>7
  <2>9. ASSUME NEW i \in WantedUpTo(delivered)
        PROVE  Rank(i)' = Rank(i) /\ Lines'[Rank(i)] = content[i]
    <3>1. Rank(i)' = Rank(i)
      BY <2>6, <2>9 DEF WantedUpTo
    <3>2. Rank(i) \in 1 .. captured /\ Append(Lines, packet)[Rank(i)] = content[i]
      BY <1>4, <2>3
    <3> QED
      BY <2>4, <3>1, <3>2
  <2>10. Len(Lines)' <= Rank(delivered)'
    BY <1>3, <1>4, <1>9, <2>5
  <2> QED
    BY <2>7, <2>8, <2>9, <2>10 DEF Delivers
<1>16. Reference'
  <2>1. ctx'.prev_ts = packet.ts /\ ctx'.first_ts = FirstTs
    BY <1>2
  <2>2. ctx.prev_ts = before /\ LinesConsistent
    BY <1>1 DEF Reference
  <2>3. printed = <<>> <=> ctx.num = 1
    BY <1>3, <1>4
  <2>4. options.source = "live" => FirstTs = (IF printed = <<>> THEN line ELSE printed[1]).packet.ts
    BY <1>1, <1>7, <2>3 DEF FirstTs, Reference
  <2>5. LinesConsistent'
    BY <1>2, <1>3, <1>4, <1>6, <1>7, <2>2, <2>4, LineAdded
  <2>6. options.source = "live" => FirstTs = printed'[1].packet.ts
    BY <1>3, <1>4, <1>8, <2>3, <2>4
  <2>7. printed'[Len(printed')].packet.ts = packet.ts
    BY <1>7, <1>8
  <2> QED
    BY <1>2, <1>8, <2>1, <2>5, <2>6, <2>7 DEF Reference
<1> QED
  BY <1>9, <1>10, <1>11, <1>12, <1>13, <1>14, <1>15, <1>16 DEF CaptureInv

LEMMA CaptureStep == CaptureInv /\ [Next]_vars => CaptureInv'
<1> SUFFICES ASSUME CaptureInv, [Next]_vars PROVE CaptureInv'
  OBVIOUS
<1>1. CASE UNCHANGED vars
  <2>1. TypeOK /\ InHand /\ Untouched /\ Count /\ Limit /\ Reference
        /\ Delivers(written) /\ Delivers(Lines)
    BY DEF CaptureInv
  <2>2. /\ Rank(delivered)' = Rank(delivered)
        /\ delivered > 0 => Rank(delivered - 1)' = Rank(delivered - 1)
        /\ Delivers(written)' /\ Delivers(Lines)'
    BY <1>1, <2>1, DeliversKept DEF vars
  <2>3. TypeOK' /\ Untouched' /\ Limit' /\ Reference'
    BY <1>1, <2>1, ReferenceKept DEF vars, TypeOK, Untouched, Limit
  <2>4. InHand'
    BY <1>1, <2>1 DEF vars, InHand, KernelFilter, Filtered, Wanted, PassesFilter, PassesDirection,
                      Printing
  <2>5. Count'
    BY <1>1, <2>1, <2>2 DEF vars, Count, Printing, InHand
  <2> QED
    BY <2>2, <2>3, <2>4, <2>5 DEF CaptureInv
<1>2. CASE Moves \/ Create \/ CreateFails
  BY <1>2, MovesKeeps, CreateKeeps
<1>3. CASE PacketRecorded \/ PacketDropped
  BY <1>3, RecordedKeeps, DroppedKeeps
<1>4. CASE NextPacket \/ Judge \/ Write \/ PrintPacket
  BY <1>4, NextKeeps, JudgeKeeps, WriteKeeps, PrintKeeps
<1> QED
  BY <1>1, <1>2, <1>3, <1>4 DEF Next, Progress, Failure, Moves

--------------------------------------------------------------------------------
(* CaptureInv is an invariant of run().                                        *)
THEOREM CaptureInductive == Spec => []CaptureInv
<1> QED
  BY CaptureInit, CaptureStep, PTL DEF Spec

(* No counter of run() leaves its range, and nothing is written or printed     *)
(* that was not counted.                                                       *)
THEOREM CaptureTypeOK == Spec => []TypeOK
<1>1. CaptureInv => TypeOK
  BY DEF CaptureInv
<1> QED
  BY <1>1, CaptureInductive, PTL

(* The packets written, and those printed, are the first of the wanted ones,   *)
(* in their order; at the top of the loop, and when run() ends by itself, all  *)
(* that were read.                                                             *)
THEOREM OutputIsFaithful == Spec => []OutputFaithful
<1>1. CaptureInv => OutputFaithful
  BY DEF CaptureInv, OutputFaithful, Count
<1> QED
  BY <1>1, CaptureInductive, PTL

(* A command line that is refused, or that asks for -D or -d, touches no file. *)
THEOREM FilesAreKept == Spec => []FilesKept
<1>1. CaptureInv => FilesKept
  <2> SUFFICES ASSUME CaptureInv, options.mode # "capture" \/ options.filter = "bad"
               PROVE  ~created /\ written = <<>> /\ captured = 0
    BY DEF FilesKept
  <2>1. ~created /\ delivered = 0 /\ TypeOK /\ Count
    BY DEF CaptureInv, Untouched
  <2>2. captured = 0 /\ Len(written) = 0 /\ written \in Seq(PacketKinds)
    BY <2>1, Unpack DEF TypeOK, Count
  <2> QED
    BY <2>1, <2>2
<1> QED
  BY <1>1, CaptureInductive, PTL

(* -c is exact.                                                                *)
THEOREM CountIsExact == Spec => []CountExact
<1>1. CaptureInv => CountExact
  <2> SUFFICES ASSUME CaptureInv, options.mode = "capture", options.count # NoCount
               PROVE  /\ Len(written) <= options.count
                      /\ Len(printed) <= options.count
                      /\ phase = "done" /\ options.source = "live" =>
                           IF options.write THEN Len(written) = options.count
                           ELSE Len(printed) = options.count
    BY DEF CountExact
  <2>1. TypeOK /\ Count /\ Limit
    BY DEF CaptureInv
  <2>2. /\ captured \in Nat /\ Len(written) \in Nat /\ Len(printed) \in Nat
        /\ options.count \in Nat
    BY <2>1, Unpack DEF OptionType
  <2> QED
    BY <2>1, <2>2 DEF Count, Limit, Printing
<1> QED
  BY <1>1, CaptureInductive, PTL

(* Lines are numbered from 1 on, and their times are those since the line      *)
(* before and since the first.                                                 *)
THEOREM LinesAreConsistent == Spec => []LinesConsistent
<1>1. CaptureInv => LinesConsistent
  BY DEF CaptureInv, Reference
<1> QED
  BY <1>1, CaptureInductive, PTL
================================================================================
