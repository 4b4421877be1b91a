--------------------------- MODULE PacketRingProofs ---------------------------
(* Proofs about PacketRing and WeakPacketRing, for every ring size, block      *)
(* capacity and number of packets.                                             *)
EXTENDS WeakPacketRing, TLAPS

USE RingAssumption DEF Blocks

--------------------------------------------------------------------------------
(* Going round the ring.                                                       *)

(* The next block is the block after b, and 0 after the last one.              *)
LEMMA NextBlockStep ==
  \A b \in Blocks : /\ NextBlock(b) \in Blocks
                    /\ NextBlock(b) = IF b = BlockNr - 1 THEN 0 ELSE b + 1
  BY DEF NextBlock

(* Distances lie below the number of blocks, and only b is at distance 0.      *)
LEMMA DistRange ==
  \A a, b \in Blocks : /\ Dist(a, b) \in Blocks
                       /\ (Dist(a, b) = 0) <=> (a = b)
  BY DEF Dist

(* One block further is one more in distance, until the walk is back at a.     *)
LEMMA DistNext ==
  \A a, b \in Blocks :
    Dist(a, NextBlock(b)) = IF NextBlock(b) = a THEN 0 ELSE Dist(a, b) + 1
  BY NextBlockStep DEF Dist

(* Starting one block further, every other block is one step nearer and the    *)
(* old start is the farthest of all.                                           *)
LEMMA DistAdvance ==
  \A a, b \in Blocks :
    Dist(NextBlock(a), b) = IF b = a THEN BlockNr - 1 ELSE Dist(a, b) - 1
  BY NextBlockStep DEF Dist

(* Different blocks lie at different distances.                                *)
LEMMA DistInjective ==
  \A a, b, c \in Blocks : Dist(a, b) = Dist(a, c) => b = c
  BY DEF Dist

(* The block before a is the farthest from it.                                 *)
LEMMA DistLast ==
  \A a, b \in Blocks : NextBlock(b) = a => Dist(a, b) = BlockNr - 1
  BY NextBlockStep DEF Dist

--------------------------------------------------------------------------------
(* Every variable stays in its range.                                          *)

(* The three status words, and the flag the reader looks for in them.          *)
LEMMA StatusWords ==
  /\ {StatusKernel, StatusUser, StatusTimeout} \subseteq Status
  /\ "USER" \notin StatusKernel
  /\ "USER" \in StatusUser
  /\ "USER" \in StatusTimeout
  BY DEF Status, StatusKernel, StatusUser, StatusTimeout

LEMMA TypeInit == Init => TypeOK
  BY StatusWords DEF Init, TypeOK, Points

(* The components of TypeOK that the kernel's steps write to.                   *)
LEMMA RingTypes ==
  TypeOK => /\ status \in [Blocks -> Status]
            /\ frames \in [Blocks -> [1 .. BlockCap -> Nat]]
            /\ numPkts \in [Blocks -> 0 .. BlockCap]
            /\ numPkts[kactive] \in 0 .. BlockCap
            /\ kactive \in Blocks
            /\ NextBlock(kactive) \in Blocks
            /\ recorded \in Nat
            /\ dropped \in Nat
  BY NextBlockStep DEF TypeOK

LEMMA CountTypes ==
  TypeOK => /\ recorded \in Nat /\ dropped \in Nat
            /\ recorded + 1 \in Nat /\ dropped + 1 \in Nat
<1> SUFFICES ASSUME TypeOK PROVE recorded + 1 \in Nat /\ dropped + 1 \in Nat
  BY DEF TypeOK
<1>1. recorded \in Nat /\ dropped \in Nat
  BY DEF TypeOK
<1> QED
  BY ONLY <1>1

LEMMA RowType ==
  ASSUME NEW f \in [Blocks -> [1 .. BlockCap -> Nat]], NEW b \in Blocks
  PROVE  f[b] \in [1 .. BlockCap -> Nat]
  OBVIOUS

(* A function with one value replaced keeps its type.                          *)
LEMMA UpdateType ==
  ASSUME NEW D, NEW S, NEW f \in [D -> S], NEW d, NEW v \in S
  PROVE  [f EXCEPT ![d] = v] \in [D -> S]
  OBVIOUS

(* Writing a frame into the active block keeps the types.                      *)
LEMMA FillType ==
  ASSUME TypeOK, NEW n \in 0 .. BlockCap, FillActive(n)
  PROVE  /\ frames' \in [Blocks -> [1 .. BlockCap -> Nat]]
         /\ numPkts' \in [Blocks -> 0 .. BlockCap]
         /\ recorded' \in Nat
<1>1. n + 1 \in 1 .. BlockCap /\ n + 1 \in 0 .. BlockCap
  BY DEF FillActive
<1>2. [frames[kactive] EXCEPT ![n + 1] = recorded + 1] \in [1 .. BlockCap -> Nat]
  <2>1. frames \in [Blocks -> [1 .. BlockCap -> Nat]] /\ kactive \in Blocks
    BY RingTypes
  <2>2. frames[kactive] \in [1 .. BlockCap -> Nat]
    BY <2>1, RowType
  <2>3. recorded + 1 \in Nat
    BY CountTypes
  <2> QED
    BY <2>2, <2>3, UpdateType
<1>3. frames' = [frames EXCEPT ![kactive] =
                   [frames[kactive] EXCEPT ![n + 1] = recorded + 1]]
  BY RingTypes DEF FillActive
<1>4. frames' \in [Blocks -> [1 .. BlockCap -> Nat]]
  <2>1. frames \in [Blocks -> [1 .. BlockCap -> Nat]]
    BY RingTypes
  <2> QED
    BY <1>2, <1>3, <2>1, UpdateType
<1>5. numPkts' \in [Blocks -> 0 .. BlockCap]
  <2>1. numPkts \in [Blocks -> 0 .. BlockCap] /\ numPkts' = [numPkts EXCEPT ![kactive] = n + 1]
    BY RingTypes DEF FillActive
  <2> QED
    BY <1>1, <2>1, UpdateType
<1>6. recorded' \in Nat
  BY CountTypes DEF FillActive
<1> QED
  BY <1>4, <1>5, <1>6

(* Retiring the active block keeps the types.                                  *)
LEMMA RetireType ==
  ASSUME TypeOK, NEW st \in Status, Retire(st)
  PROVE  status' \in [Blocks -> Status] /\ kactive' \in Blocks
  BY RingTypes DEF Retire

(* A frame the reader is about to copy lies inside its block.                  *)
LEMMA ReaderInBlock ==
  ASSUME TypeOK, CursorInv, HasFrame
  PROVE  /\ cursor \in Cursor
         /\ cursor.block = current_block
         /\ cursor.num = numPkts[current_block]
         /\ cursor.seen < cursor.num
         /\ cursor.next = cursor.seen + 1
         /\ cursor.next \in 1 .. numPkts[current_block]
         /\ cursor.next \in 1 .. BlockCap
<1>1. cursor \in Cursor
  BY DEF HasFrame, TypeOK
<1>2. numPkts[current_block] \in 0 .. BlockCap
  BY DEF TypeOK
<1>3. cursor.seen \in Nat
  BY <1>1 DEF Cursor
<1> QED
  BY <1>1, <1>2, <1>3 DEF HasFrame, CursorInv

LEMMA TypeStep ==
  ASSUME TypeOK, HasFrame => cursor.next \in 1 .. BlockCap, [Next]_vars
  PROVE  TypeOK'
<1> USE DEF shared, kernel, reader
<1>1. ASSUME Record PROVE TypeOK'
  BY <1>1, RingTypes, FillType DEF Record, TypeOK
<1>2. ASSUME ThawRecord PROVE TypeOK'
  <2>1. 0 \in 0 .. BlockCap
    OBVIOUS
  <2> QED
    BY <1>2, <2>1, FillType DEF ThawRecord, TypeOK
<1>3. ASSUME RetireRecord PROVE TypeOK'
  <2>1. frames' \in [Blocks -> [1 .. BlockCap -> Nat]]
    <3>1. frames' = [frames EXCEPT ![NextBlock(kactive)] =
                       [frames[NextBlock(kactive)] EXCEPT ![1] = recorded + 1]]
      BY <1>3, RingTypes DEF RetireRecord
    <3>2. [frames[NextBlock(kactive)] EXCEPT ![1] = recorded + 1]
            \in [1 .. BlockCap -> Nat]
      <4>1. frames \in [Blocks -> [1 .. BlockCap -> Nat]] /\ NextBlock(kactive) \in Blocks
        BY RingTypes
      <4>2. frames[NextBlock(kactive)] \in [1 .. BlockCap -> Nat]
        BY <4>1, RowType
      <4>3. recorded + 1 \in Nat
        BY CountTypes
      <4> QED
        BY <4>2, <4>3, UpdateType
    <3>3. frames \in [Blocks -> [1 .. BlockCap -> Nat]]
      BY RingTypes
    <3> QED
      BY <3>1, <3>2, <3>3, UpdateType
  <2>2. numPkts' \in [Blocks -> 0 .. BlockCap]
    <3>1. numPkts' = [numPkts EXCEPT ![NextBlock(kactive)] = 1]
      BY <1>3 DEF RetireRecord
    <3>2. numPkts \in [Blocks -> 0 .. BlockCap]
      BY RingTypes
    <3>3. 1 \in 0 .. BlockCap
      BY RingAssumption
    <3> QED
      BY <3>1, <3>2, <3>3, UpdateType
  <2>3. recorded' \in Nat
    BY <1>3, CountTypes DEF RetireRecord
  <2>4. status' \in [Blocks -> Status] /\ kactive' \in Blocks
    BY <1>3, RetireType, StatusWords DEF RetireRecord
  <2>5. UNCHANGED <<queue, dropped, reader>>
    BY <1>3 DEF RetireRecord
  <2> QED
    BY <2>1, <2>2, <2>3, <2>4, <2>5 DEF TypeOK
<1>4. ASSUME RetireDrop PROVE TypeOK'
  <2>1. status' \in [Blocks -> Status] /\ kactive' \in Blocks
    BY <1>4, RetireType, StatusWords DEF RetireDrop
  <2>2. dropped' \in Nat /\ queue' = "frozen" /\ UNCHANGED <<frames, numPkts, recorded, reader>>
    BY <1>4, CountTypes DEF RetireDrop
  <2> QED
    BY <2>1, <2>2 DEF TypeOK
<1>5. ASSUME FrozenDrop PROVE TypeOK'
  <2>1. dropped' \in Nat /\ UNCHANGED <<shared, kactive, queue, recorded, reader>>
    BY <1>5, CountTypes DEF FrozenDrop
  <2> QED
    BY <2>1 DEF TypeOK
<1>6. ASSUME TimerRetire PROVE TypeOK'
  <2>1. numPkts' \in [Blocks -> 0 .. BlockCap]
    <3>1. numPkts' = numPkts \/ numPkts' = [numPkts EXCEPT ![NextBlock(kactive)] = 0]
      BY <1>6 DEF TimerRetire
    <3>2. numPkts \in [Blocks -> 0 .. BlockCap]
      BY RingTypes
    <3>3. 0 \in 0 .. BlockCap
      BY RingAssumption
    <3>4. [numPkts EXCEPT ![NextBlock(kactive)] = 0] \in [Blocks -> 0 .. BlockCap]
      BY <3>2, <3>3, UpdateType
    <3> QED
      BY <3>1, <3>2, <3>4
  <2>2. status' \in [Blocks -> Status] /\ kactive' \in Blocks
    BY <1>6, RetireType, StatusWords DEF TimerRetire
  <2>3. UNCHANGED <<frames, recorded, dropped, reader>> /\ queue' \in {"running", "frozen"}
    BY <1>6 DEF TimerRetire
  <2> QED
    BY <2>1, <2>2, <2>3 DEF TypeOK
<1>7. ASSUME TimerThaw PROVE TypeOK'
  <2>1. numPkts' \in [Blocks -> 0 .. BlockCap]
    BY <1>7, RingTypes DEF TimerThaw
  <2> QED
    BY <1>7, <2>1 DEF TimerThaw, TypeOK
<1>8. ASSUME Call PROVE TypeOK'
  BY <1>8 DEF Call, Points, TypeOK
<1>9. ASSUME Deliver PROVE TypeOK'
  <2>1. HasFrame
    BY <1>9 DEF Deliver
  <2>2. NextOffset(cursor.block, cursor.next) \in Nat
    BY DEF NextOffset
  <2>3. cursor \in Cursor
    BY <2>1 DEF HasFrame, TypeOK
  <2>4. cursor' \in Cursor
    BY <1>9, <2>2, <2>3 DEF Deliver, Cursor
  <2>5. last' \in Nat
    <3>1. frames \in [Blocks -> [1 .. BlockCap -> Nat]] /\ cursor.block \in Blocks
      BY <2>3 DEF TypeOK, Cursor
    <3>2. frames[cursor.block] \in [1 .. BlockCap -> Nat]
      BY <3>1, RowType
    <3> QED
      BY <1>9, <2>1, <3>2 DEF Deliver
  <2>6. UNCHANGED <<shared, kernel, current_block>> /\ delivered' = delivered + 1 /\ rpc' = "idle"
    BY <1>9 DEF Deliver
  <2> QED
    BY <2>4, <2>5, <2>6 DEF Points, TypeOK
<1>10. ASSUME ReleaseBlock PROVE TypeOK'
  <2>1. status' \in [Blocks -> Status]
    BY <1>10, RingTypes, StatusWords DEF ReleaseBlock
  <2> QED
    BY <1>10, <2>1, NextBlockStep DEF ReleaseBlock, Points, TypeOK
<1>11. ASSUME CheckStatus PROVE TypeOK'
  BY <1>11 DEF CheckStatus, Points, TypeOK
<1>12. ASSUME PollReturn PROVE TypeOK'
  BY <1>12 DEF PollReturn, Points, TypeOK
<1>13. ASSUME PollFail PROVE TypeOK'
  BY <1>13 DEF PollFail, Points, TypeOK
<1>14. ASSUME LoadHeader PROVE TypeOK'
  <2>1. cursor' \in Cursor
    <3>1. numPkts[current_block] \in Nat /\ current_block \in Blocks
      BY DEF TypeOK
    <3> QED
      BY <1>14, <3>1 DEF LoadHeader, Cursor
  <2> QED
    BY <1>14, <2>1 DEF LoadHeader, Points, TypeOK
<1>15. CASE UNCHANGED vars
  BY <1>15 DEF vars, TypeOK
<1> QED
  BY <1>1, <1>2, <1>3, <1>4, <1>5, <1>6, <1>7, <1>8, <1>9, <1>10, <1>11,
     <1>12, <1>13, <1>14, <1>15 DEF Next, Kernel, Timer, Reader

--------------------------------------------------------------------------------
(* Facts about the window of blocks that user space owns.                      *)

LEMMA CellTypes ==
  ASSUME TypeOK
  PROVE  \A b \in Blocks : /\ numPkts[b] \in Nat
                           /\ numPkts[b] <= BlockCap
                           /\ \A j \in 1 .. BlockCap : frames[b][j] \in Nat
  BY DEF TypeOK

LEMMA ActiveTypes ==
  ASSUME TypeOK
  PROVE  ActiveNum \in 0 .. BlockCap /\ ActiveBase \in Int
<1>1. ActiveNum \in 0 .. BlockCap
  BY RingTypes DEF ActiveNum
<1> QED
  BY <1>1, RingTypes DEF ActiveBase

(* A free active block lies just behind the window; an owned one means that    *)
(* the window is the whole ring.                                               *)
LEMMA WindowEnd ==
  ASSUME TypeOK, Window
  PROVE  /\ current_block \in Blocks /\ kactive \in Blocks
         /\ Lag \in 0 .. BlockNr
         /\ ~InUse(kactive) => Lag = Dist(current_block, kactive) /\ Lag < BlockNr
         /\ InUse(kactive) => kactive = current_block /\ Lag = BlockNr
         /\ InUse(current_block) <=> Lag > 0
         /\ ~InUse(current_block) => kactive = current_block
<1>1. current_block \in Blocks /\ kactive \in Blocks
  BY DEF TypeOK
<1>2. Dist(current_block, kactive) \in Blocks
  BY <1>1, DistRange
<1>3. Lag \in 0 .. BlockNr
  BY <1>2 DEF Lag
<1>4. Dist(current_block, current_block) = 0
  BY <1>1, DistRange
<1>5. InUse(current_block) <=> Lag > 0
  BY <1>1, <1>3, <1>4 DEF Window
<1>6. ~InUse(kactive) => Lag = Dist(current_block, kactive) /\ Lag < BlockNr
  BY <1>1, <1>2, <1>4 DEF Lag
<1>7. InUse(kactive) => kactive = current_block
  BY <1>1, <1>2 DEF Lag, Window
<1>8. InUse(kactive) => Lag = BlockNr
  BY <1>7 DEF Lag
<1>9. ~InUse(current_block) => kactive = current_block
  BY <1>1, <1>2, <1>3, <1>5, DistRange DEF Lag
<1> QED
  BY <1>1, <1>3, <1>5, <1>6, <1>7, <1>8, <1>9

(* Two blocks do not have the same successor.                                  *)
LEMMA NextBlockInjective ==
  \A a, b \in Blocks : NextBlock(a) = NextBlock(b) => a = b
  BY NextBlockStep

--------------------------------------------------------------------------------
(* Opening the active block, or filling it further, leaves the window alone.   *)
LEMMA FillWindow ==
  ASSUME TypeOK, Window, NEW n \in 0 .. BlockCap,
         numPkts' = [numPkts EXCEPT ![kactive] = n],
         ~InUse(kactive), UNCHANGED <<status, kactive, current_block>>
  PROVE  /\ Window'
         /\ Lag' = Lag
         /\ \A b \in Blocks : InUse(b)' <=> InUse(b)
         /\ \A b \in Blocks : InUse(b) => numPkts'[b] = numPkts[b]
<1>1. \A b \in Blocks : InUse(b) => b # kactive
  OBVIOUS
<1>2. \A b \in Blocks : InUse(b) => numPkts'[b] = numPkts[b]
  BY <1>1, RingTypes
<1>3. Lag' = Lag /\ \A b \in Blocks : InUse(b)' <=> InUse(b)
  BY DEF Lag, InUse
<1>4. Window'
  BY <1>2, <1>3 DEF Window, InUse
<1> QED
  BY <1>2, <1>3, <1>4

(* The kernel writes one more frame into the active block.                     *)
LEMMA FillStep ==
  ASSUME IInv, FillActive(ActiveNum), ~InUse(kactive), ~Frozen',
         UNCHANGED <<status, kactive, reader>>
  PROVE  (Window /\ Contents /\ Chain /\ ReaderAt /\ CursorInv)'
<1> USE DEF reader
<1>1. TypeOK /\ Window /\ Contents /\ Chain /\ ReaderAt /\ CursorInv
  BY DEF IInv
<1>2. /\ kactive \in Blocks /\ current_block \in Blocks
      /\ ActiveNum \in 0 .. BlockCap /\ recorded \in Nat /\ ActiveBase \in Int
      /\ ActiveNum + 1 \in 1 .. BlockCap
  <2>1. ActiveNum < BlockCap
    BY DEF FillActive
  <2>2. ActiveNum \in 0 .. BlockCap /\ ActiveBase \in Int
    BY <1>1, ActiveTypes
  <2>3. kactive \in Blocks /\ recorded \in Nat
    BY <1>1, RingTypes
  <2>4. current_block \in Blocks
    BY <1>1, WindowEnd
  <2>5. ActiveNum + 1 \in 1 .. BlockCap
    BY <2>1, <2>2
  <2> QED
    BY <2>2, <2>3, <2>4, <2>5
<1>3. /\ \A b \in Blocks \ {kactive} : frames'[b] = frames[b]
      /\ \A j \in 1 .. BlockCap : frames'[kactive][j] =
           IF j = ActiveNum + 1 THEN recorded + 1 ELSE frames[kactive][j]
  BY <1>1, <1>2, RingTypes DEF FillActive
<1>4. /\ \A b \in Blocks \ {kactive} : numPkts'[b] = numPkts[b]
      /\ numPkts'[kactive] = ActiveNum + 1
  BY <1>1, <1>2, RingTypes DEF FillActive
<1>5. ActiveNum' = ActiveNum + 1 /\ recorded' = recorded + 1
  BY <1>4 DEF FillActive, ActiveNum
<1>6. ActiveBase' = ActiveBase
  BY <1>2, <1>5 DEF ActiveBase
<1>7. /\ \A b \in Blocks : InUse(b)' <=> InUse(b)
      /\ \A b \in Blocks : InUse(b) => b # kactive
      /\ Lag' = Lag
  BY DEF InUse, Lag
<1>8. Window'
  <2>1. ActiveNum + 1 \in 0 .. BlockCap /\ numPkts' = [numPkts EXCEPT ![kactive] = ActiveNum + 1]
    BY <1>2 DEF FillActive
  <2> QED
    BY <1>1, <2>1, FillWindow
<1>9. Contents'
  <2>1. \A b \in Blocks : InUse(b)' =>
          \A j \in 1 .. numPkts'[b] : frames'[b][j] + 1 = frames'[b][1] + j
    BY <1>1, <1>3, <1>4, <1>7 DEF Contents
  <2>2. ASSUME NEW j \in 1 .. ActiveNum' PROVE frames'[kactive][j] + 1 = ActiveBase' + j
    <3>1. CASE j = ActiveNum + 1
      BY <1>2, <1>3, <1>6, <3>1 DEF ActiveBase
    <3>2. CASE j \in 1 .. ActiveNum
      <4>1. frames'[kactive][j] = frames[kactive][j]
        BY <1>2, <1>3, <3>2
      <4> QED
        BY <1>1, <1>6, <3>2, <4>1 DEF Contents
    <3> QED
      BY <1>2, <1>5, <3>1, <3>2
  <2>3. ActiveNum' <= recorded'
    BY <1>1, <1>2, <1>5 DEF Contents
  <2> QED
    BY <2>1, <2>2, <2>3 DEF Contents, InUse
<1>10. Chain'
  BY <1>1, <1>3, <1>4, <1>6, <1>7, NextBlockStep DEF Chain, InUse
<1>11. ReaderAt'
  BY <1>1, <1>2, <1>3, <1>6, <1>7 DEF ReaderAt, InUse, Seen
<1>12. CursorInv'
  BY <1>1, <1>2, <1>4, <1>7 DEF CursorInv, InUse
<1> QED
  BY <1>8, <1>9, <1>10, <1>11, <1>12

--------------------------------------------------------------------------------
(* The kernel retires the active block.                                        *)

(* The next block is free unless the window already fills the rest of the ring.*)
LEMMA FreeNext ==
  ASSUME TypeOK, Window, ~InUse(kactive)
  PROVE  NextIsFree <=> NextBlock(kactive) # current_block
<1> DEFINE next == NextBlock(kactive)
<1>1. kactive \in Blocks /\ current_block \in Blocks /\ next \in Blocks
  BY WindowEnd, RingTypes
<1>2. Lag = Dist(current_block, kactive) /\ Lag \in 0 .. BlockNr
  BY WindowEnd
<1>3. ASSUME next # current_block PROVE NextIsFree
  <2>1. Dist(current_block, next) = Lag + 1
    BY <1>1, <1>2, <1>3, DistNext
  <2>2. ~InUse(next)
    BY <1>1, <1>2, <2>1 DEF Window
  <2>3. next # kactive
    BY <1>2, <2>1
  <2> QED
    BY <2>2, <2>3 DEF NextIsFree
<1>4. ASSUME next = current_block PROVE ~NextIsFree
  BY <1>4, WindowEnd DEF NextIsFree
<1> QED
  BY <1>3, <1>4

(* Opened with m frames (none by the timer, one by a packet), or frozen.       *)
Opened(m) ==
  /\ NextIsFree
  /\ ~Frozen'
  /\ numPkts' = [numPkts EXCEPT ![NextBlock(kactive)] = m]
  /\ \A b \in Blocks \ {NextBlock(kactive)} : frames'[b] = frames[b]
  /\ m = 1 => frames'[NextBlock(kactive)][1] = recorded + 1
  /\ recorded' = recorded + m

Froze ==
  /\ ~NextIsFree
  /\ Frozen'
  /\ UNCHANGED <<numPkts, frames, recorded>>

(* The window grows by the block just retired.                                 *)
LEMMA RetireWindow ==
  ASSUME TypeOK, Window, NEW st, "USER" \in st, Retire(st),
         Opened(0) \/ Opened(1) \/ Froze,
         UNCHANGED current_block
  PROVE  /\ Window'
         /\ Lag' = Lag + 1
         /\ \A b \in Blocks : InUse(b)' <=> InUse(b) \/ b = kactive
         /\ \A b \in Blocks : InUse(b)' =>
              frames'[b] = frames[b] /\ numPkts'[b] = numPkts[b]
<1> DEFINE next == NextBlock(kactive)
<1>1. TypeOK /\ Window
  OBVIOUS
<1>2. ~Frozen /\ ~InUse(kactive) /\ numPkts[kactive] >= 1
  BY <1>1 DEF Retire, Window
<1>3. kactive \in Blocks /\ current_block \in Blocks /\ next \in Blocks
  BY <1>1, WindowEnd, RingTypes
<1>5. Lag = Dist(current_block, kactive) /\ Lag \in 0 .. BlockNr - 1
  BY <1>1, <1>2, WindowEnd
<1>7. kactive' = next /\ current_block' = current_block
  BY DEF Retire
<1>8. \A b \in Blocks : InUse(b)' <=> InUse(b) \/ b = kactive
  BY <1>1, <1>3, RingTypes DEF Retire, InUse
<1>10. Lag' = Lag + 1
  <2>1. CASE next = current_block
    <3>1. InUse(current_block)'
      <4>1. kactive = current_block \/ InUse(current_block)
        BY <1>1, WindowEnd
      <4> QED
        BY <1>3, <1>8, <4>1
    <3>2. Lag' = BlockNr
      BY <1>7, <2>1, <3>1 DEF Lag, InUse
    <3> QED
      BY <1>3, <1>5, <2>1, <3>2, DistLast
  <2>2. CASE next # current_block
    <3>1. Lag' = Dist(current_block, next)
      BY <1>7, <2>2 DEF Lag
    <3> QED
      BY <1>3, <1>5, <2>2, <3>1, DistNext
  <2> QED
    BY <2>1, <2>2
<1>11. \A b \in Blocks : InUse(b)' =>
         frames'[b] = frames[b] /\ numPkts'[b] = numPkts[b]
  <2> SUFFICES ASSUME NEW b \in Blocks, InUse(b)'
               PROVE  frames'[b] = frames[b] /\ numPkts'[b] = numPkts[b]
    OBVIOUS
  <2>1. NextIsFree => b # next
    BY <1>8 DEF NextIsFree
  <2>2. CASE Opened(0) \/ Opened(1)
    BY <1>1, <1>3, <2>1, <2>2, RingTypes DEF Opened
  <2>3. CASE Froze
    BY <2>3 DEF Froze
  <2> QED
    BY <2>2, <2>3
<1>13. Window'
  <2>1. ASSUME NEW b \in Blocks PROVE InUse(b)' <=> Dist(current_block, b) < Lag'
    <3>1. InUse(b) <=> Dist(current_block, b) < Lag
      BY <1>1 DEF Window
    <3>2. b = kactive <=> Dist(current_block, b) = Lag
      BY <1>3, <1>5, DistInjective
    <3>3. Dist(current_block, b) \in Int
      BY <1>3, DistRange
    <3> QED
      BY <1>5, <1>8, <1>10, <3>1, <3>2, <3>3
  <2>2. ASSUME NEW b \in Blocks, InUse(b)' PROVE numPkts'[b] >= 1
    BY <1>1, <1>2, <1>8, <1>11, <2>2 DEF Window
  <2>3. "USER" \in status'[next] => Frozen'
    <3>1. CASE Opened(0) \/ Opened(1)
      <4>1. next # kactive /\ ~InUse(next)
        BY <3>1 DEF Opened, NextIsFree
      <4> QED
        BY <1>3, <1>8, <4>1 DEF InUse
    <3>2. CASE Froze
      BY <3>2 DEF Froze
    <3> QED
      BY <3>1, <3>2
  <2> QED
    BY <1>7, <2>1, <2>2, <2>3 DEF Window, InUse
<1> QED
  BY <1>8, <1>10, <1>11, <1>13

LEMMA RetireStep ==
  ASSUME IInv, TypeOK', NEW st, "USER" \in st, Retire(st),
         Opened(0) \/ Opened(1) \/ Froze,
         UNCHANGED reader
  PROVE  (Window /\ Contents /\ Chain /\ ReaderAt /\ CursorInv)'
<1> DEFINE next == NextBlock(kactive)
<1> USE DEF reader
<1>1. TypeOK /\ Window /\ Contents /\ Chain /\ ReaderAt /\ CursorInv
  BY DEF IInv
<1>2. ~Frozen /\ ~InUse(kactive) /\ numPkts[kactive] >= 1
  BY <1>1 DEF Retire, Window
<1>3. kactive \in Blocks /\ current_block \in Blocks /\ next \in Blocks
  BY <1>1, WindowEnd, RingTypes
<1>4. recorded \in Nat /\ numPkts[kactive] \in Nat /\ ActiveNum \in 0 .. BlockCap
      /\ ActiveBase \in Int
  BY <1>1, <1>3, RingTypes, CellTypes, ActiveTypes
<1>5. Lag = Dist(current_block, kactive) /\ Lag \in 0 .. BlockNr - 1
  BY <1>1, <1>2, WindowEnd
<1>6. ActiveNum = numPkts[kactive] /\ ActiveBase = recorded + 1 - numPkts[kactive]
  BY <1>2 DEF ActiveNum, ActiveBase
<1>7. kactive' = next /\ current_block' = current_block /\ cursor' = cursor
  BY DEF Retire
<1>8. \A b \in Blocks : InUse(b)' <=> InUse(b) \/ b = kactive
  BY <1>1, RetireWindow DEF reader
<1>10. Lag' = Lag + 1
  BY <1>1, RetireWindow DEF reader
<1>11. \A b \in Blocks : InUse(b)' =>
         frames'[b] = frames[b] /\ numPkts'[b] = numPkts[b]
  BY <1>1, RetireWindow DEF reader
<1>12. ActiveBase' = recorded + 1 /\ ActiveNum' \in 0 .. 1 /\ recorded' = recorded + ActiveNum'
       /\ (ActiveNum' = 1 => frames'[next][1] = recorded + 1)
  <2>1. ASSUME NEW m \in 0 .. 1, Opened(m)
        PROVE  /\ ActiveNum' = m /\ recorded' = recorded + m
               /\ m = 1 => frames'[next][1] = recorded + 1
    <3>1. numPkts'[next] = m
      BY <1>1, <1>3, <2>1, RingTypes DEF Opened
    <3>2. ActiveNum' = m
      BY <1>7, <2>1, <3>1 DEF Opened, ActiveNum
    <3> QED
      BY <2>1, <3>2 DEF Opened
  <2>2. ASSUME Froze PROVE ActiveNum' = 0 /\ recorded' = recorded
    BY <2>2 DEF Froze, ActiveNum
  <2>3. /\ ActiveNum' \in 0 .. 1 /\ recorded' = recorded + ActiveNum'
        /\ (ActiveNum' = 1 => frames'[next][1] = recorded + 1)
    BY <1>4, <2>1, <2>2
  <2> QED
    BY <1>4, <2>3 DEF ActiveBase
<1>13. Window'
  BY <1>1, RetireWindow DEF reader
<1>14. Contents'
  <2>1. ASSUME NEW b \in Blocks, InUse(b)', NEW j \in 1 .. numPkts'[b]
        PROVE  frames'[b][j] + 1 = frames'[b][1] + j
    <3>1. frames'[b] = frames[b] /\ j \in 1 .. numPkts[b]
      BY <1>11, <2>1
    <3>2. CASE InUse(b)
      BY <1>1, <3>1, <3>2 DEF Contents
    <3>3. CASE b = kactive
      <4>1. frames[b][j] + 1 = ActiveBase + j
        BY <1>1, <1>6, <3>1, <3>3 DEF Contents
      <4>2. frames[b][1] + 1 = ActiveBase + 1
        BY <1>1, <1>2, <1>4, <1>6, <3>3 DEF Contents
      <4>3. frames[b][1] \in Nat
        BY <1>1, CellTypes
      <4> QED
        BY <1>4, <3>1, <4>1, <4>2, <4>3
    <3> QED
      BY <1>8, <2>1, <3>2, <3>3
  <2>2. \A j \in 1 .. ActiveNum' : frames'[next][j] + 1 = ActiveBase' + j
    BY <1>12
  <2>3. ActiveNum' <= recorded'
    BY <1>4, <1>12
  <2> QED
    BY <1>7, <2>1, <2>2, <2>3 DEF Contents, InUse
<1>15. frames[kactive][1] = ActiveBase /\ frames[kactive][1] + numPkts[kactive] = recorded + 1
  <2>1. frames[kactive][1] + 1 = ActiveBase + 1
    BY <1>1, <1>2, <1>4, <1>6 DEF Contents
  <2>2. frames[kactive][1] \in Nat
    BY <1>1, <1>3, CellTypes
  <2> QED
    BY <1>4, <1>6, <2>1, <2>2
<1>16. Chain'
  <2> SUFFICES ASSUME NEW b \in Blocks, InUse(b)'
               PROVE  /\ frames'[b][1] + numPkts'[b] =
                           IF NextBlock(b) = next THEN ActiveBase'
                           ELSE frames'[NextBlock(b)][1]
                      /\ frames'[b][1] + numPkts'[b]
                           + (Lag' - 1 - Dist(current_block, b)) <= ActiveBase'
    BY <1>7 DEF Chain, InUse
  <2>1. frames'[b] = frames[b] /\ numPkts'[b] = numPkts[b]
    BY <1>11
  <2>2. CASE b = kactive
    BY <1>4, <1>5, <1>10, <1>12, <1>15, <2>1, <2>2
  <2>3. CASE b # kactive
    <3>1. InUse(b)
      BY <1>8, <2>3
    <3>2. NextBlock(b) # next /\ NextBlock(b) \in Blocks
      BY <1>3, <2>3, NextBlockInjective, NextBlockStep
    <3>3. frames'[NextBlock(b)] = frames[NextBlock(b)]
      BY <3>2 DEF Opened, Froze
    <3>4. /\ frames[b][1] + numPkts[b] = IF NextBlock(b) = kactive THEN ActiveBase
                                         ELSE frames[NextBlock(b)][1]
          /\ frames[b][1] + numPkts[b] + (Lag - 1 - Dist(current_block, b)) <= ActiveBase
      BY <1>1, <3>1 DEF Chain
    <3>5. frames'[b][1] + numPkts'[b] = frames'[NextBlock(b)][1]
      BY <1>15, <2>1, <3>3, <3>4
    <3>6. Dist(current_block, b) \in Int /\ frames[b][1] \in Int /\ numPkts[b] \in Int
      <4>1. Dist(current_block, b) \in Int
        BY <1>3, DistRange
      <4> QED
        BY <1>1, <4>1, CellTypes
    <3>7. frames[b][1] + numPkts[b] + (Lag' - 1 - Dist(current_block, b)) <= ActiveBase'
      BY <1>2, <1>4, <1>5, <1>6, <1>10, <1>12, <3>4, <3>6
    <3> QED
      BY <2>1, <3>2, <3>5, <3>7
  <2> QED
    BY <2>2, <2>3
<1>17. ReaderAt'
  <2>1. CASE InUse(current_block)
    <3>1. InUse(current_block)' /\ frames'[current_block] = frames[current_block]
      BY <1>3, <1>8, <1>11, <2>1
    <3> QED
      BY <1>1, <2>1, <3>1 DEF ReaderAt, InUse, Seen
  <2>2. CASE ~InUse(current_block)
    <3>1. kactive = current_block /\ cursor = NoCursor
      BY <1>1, <2>2, WindowEnd DEF CursorInv
    <3>2. InUse(current_block)' /\ frames'[current_block] = frames[current_block]
      BY <1>3, <1>8, <1>11, <3>1
    <3>3. frames[current_block][1] = delivered + 1 /\ Seen' = 0 /\ last = delivered
      BY <1>1, <1>7, <1>15, <2>2, <3>1 DEF ReaderAt, Seen
    <3>4. delivered \in Nat
      BY <1>1 DEF TypeOK
    <3> QED
      BY <3>2, <3>3, <3>4 DEF ReaderAt, InUse
  <2> QED
    BY <2>1, <2>2
<1>18. CursorInv'
  <2>1. InUse(current_block) => InUse(current_block)'
                                /\ numPkts'[current_block] = numPkts[current_block]
    BY <1>3, <1>8, <1>11
  <2> QED
    BY <1>1, <1>7, <2>1 DEF CursorInv, InUse
<1> QED
  BY <1>13, <1>14, <1>16, <1>17, <1>18

--------------------------------------------------------------------------------
(* The reader's steps.                                                         *)

(* The frame at the cursor carries the stamp after the one returned last, and  *)
(* it has been recorded.                                                       *)
LEMMA NextStamp ==
  ASSUME IInv, HasFrame
  PROVE  /\ frames[cursor.block][cursor.next] = delivered + 1
         /\ delivered < recorded
<1>1. TypeOK /\ Window /\ Contents /\ Chain /\ ReaderAt /\ CursorInv
  BY DEF IInv
<1>2. /\ cursor # NoCursor /\ cursor \in Cursor
      /\ cursor.block = current_block /\ cursor.num = numPkts[current_block]
      /\ cursor.seen < cursor.num /\ cursor.next = cursor.seen + 1
      /\ cursor.next \in 1 .. numPkts[current_block]
  BY <1>1, ReaderInBlock DEF HasFrame
<1>3. InUse(current_block) /\ current_block \in Blocks
  BY <1>1, <1>2, WindowEnd DEF CursorInv
<1>4. frames[current_block][cursor.next] + 1 = frames[current_block][1] + cursor.next
  BY <1>1, <1>2, <1>3 DEF Contents
<1>5. frames[current_block][1] + cursor.seen = delivered + 1
  BY <1>1, <1>2, <1>3 DEF ReaderAt, Seen
<1>6. /\ numPkts[current_block] \in Nat /\ delivered \in Nat /\ recorded \in Nat
      /\ cursor.seen \in Nat
  BY <1>1, <1>2, <1>3, CellTypes DEF TypeOK, Cursor
<1>7. frames[current_block][cursor.next] \in Nat /\ frames[current_block][1] \in Nat
  <2>1. cursor.next \in 1 .. BlockCap /\ 1 \in 1 .. BlockCap
    BY <1>1, ReaderInBlock
  <2> QED
    BY <1>1, <1>3, <2>1, CellTypes
<1>8. frames[current_block][1] + numPkts[current_block] <= recorded + 1
  <2>1. frames[current_block][1] + numPkts[current_block]
          + (Lag - 1 - Dist(current_block, current_block)) <= ActiveBase
    BY <1>1, <1>3 DEF Chain
  <2>2. Dist(current_block, current_block) = 0 /\ Lag \in Nat /\ Lag > 0
    BY <1>1, <1>3, DistRange, WindowEnd
  <2>3. ActiveBase \in Int /\ ActiveBase <= recorded + 1
    BY <1>1, <1>6, ActiveTypes DEF ActiveBase
  <2> QED
    BY <1>6, <1>7, <2>1, <2>2, <2>3
<1>9. frames[current_block][cursor.next] = delivered + 1
  BY <1>2, <1>4, <1>5, <1>6, <1>7
<1>10. delivered < recorded
  BY <1>2, <1>5, <1>6, <1>7, <1>8
<1> QED
  BY <1>2, <1>9, <1>10

LEMMA DeliverStep ==
  ASSUME IInv, Deliver
  PROVE  (Window /\ Contents /\ Chain /\ ReaderAt /\ CursorInv)'
<1> USE DEF shared, kernel
<1>1. TypeOK /\ Window /\ Contents /\ Chain /\ ReaderAt /\ CursorInv
  BY DEF IInv
<1>2. HasFrame /\ cursor # NoCursor
  BY DEF Deliver, HasFrame
<1>3. /\ cursor \in Cursor /\ cursor.block = current_block
      /\ cursor.num = numPkts[current_block] /\ cursor.seen < cursor.num
      /\ cursor.next = cursor.seen + 1
      /\ cursor.next \in 1 .. numPkts[current_block]
  BY <1>1, <1>2, ReaderInBlock
<1>4. /\ numPkts[current_block] \in Nat /\ cursor.seen \in Nat /\ delivered \in Nat
      /\ current_block \in Blocks /\ frames[current_block][1] \in Nat
  BY <1>1, <1>3, CellTypes DEF TypeOK, Cursor
<1>5. /\ cursor'.block = current_block /\ cursor'.num = numPkts[current_block]
      /\ cursor'.seen = cursor.seen + 1
      /\ cursor'.next = cursor.next + NextOffset(current_block, cursor.next)
      /\ UNCHANGED <<shared, kernel, current_block>>
      /\ rpc' = "idle"
  BY <1>3 DEF Deliver
<1>6. cursor' # NoCursor
  <2>1. NextOffset(cursor.block, cursor.next) \in Nat
    BY DEF NextOffset
  <2>2. cursor' \in Cursor
    BY <1>3, <1>4, <2>1 DEF Deliver, Cursor
  <2> QED
    BY <2>2
<1>7. Window' /\ Contents' /\ Chain'
  BY <1>1, <1>5 DEF Window, Contents, Chain, InUse, Lag, ActiveNum, ActiveBase, Frozen
<1>8. ReaderAt'
  <2>1. InUse(current_block) /\ Seen' = cursor.seen + 1 /\ Seen = cursor.seen
    BY <1>1, <1>2, <1>5, <1>6 DEF CursorInv, Seen
  <2>2. last' = delivered + 1 /\ delivered' = delivered + 1
    BY <1>2, NextStamp DEF Deliver
  <2>3. frames[current_block][1] + (cursor.seen + 1) = delivered + 1 + 1
    BY <1>1, <1>4, <2>1 DEF ReaderAt
  <2> QED
    BY <1>5, <2>1, <2>2, <2>3 DEF ReaderAt, InUse
<1>9. CursorInv'
  <2>1. cursor'.next = IF cursor'.seen < cursor'.num THEN cursor'.seen + 1
                       ELSE cursor'.num
    BY <1>3, <1>4, <1>5 DEF NextOffset
  <2>2. cursor'.seen <= cursor'.num
    BY <1>3, <1>4, <1>5
  <2> QED
    BY <1>1, <1>2, <1>5, <1>6, <2>1, <2>2 DEF CursorInv, InUse
<1> QED
  BY <1>7, <1>8, <1>9

(* The window gives up its first block, whatever the cursor counted.           *)
LEMMA ReleaseWindow ==
  ASSUME TypeOK, Window, ReleaseBlock, cursor.block = current_block, InUse(current_block)
  PROVE  /\ Window'
         /\ Lag' = Lag - 1
         /\ \A b \in Blocks : "USER" \in status'[b] <=> InUse(b) /\ b # current_block
<1> DEFINE next == NextBlock(current_block)
           Used(b) == "USER" \in status'[b]
<1> USE DEF kernel
<1>1. TypeOK /\ Window
  OBVIOUS
<1>2. cursor.block = current_block /\ InUse(current_block)
  OBVIOUS
<1>3. current_block \in Blocks /\ next \in Blocks /\ kactive \in Blocks
  BY <1>1, WindowEnd, NextBlockStep
<1>4. Lag \in 0 .. BlockNr /\ Lag > 0
  BY <1>1, <1>2, WindowEnd
<1>5. /\ current_block' = next /\ cursor' = NoCursor /\ rpc' = "wait"
      /\ UNCHANGED <<frames, numPkts, kernel, delivered, last>>
  BY DEF ReleaseBlock
<1>6. \A b \in Blocks : Used(b) <=> InUse(b) /\ b # current_block
  <2>1. status' = [status EXCEPT ![current_block] = StatusKernel]
    BY <1>2 DEF ReleaseBlock
  <2> QED
    BY <1>1, <1>3, <2>1, RingTypes, StatusWords DEF InUse
<1>7. kactive = current_block => Lag = BlockNr
  BY <1>1, <1>2, WindowEnd
<1>8. kactive # current_block => Lag = Dist(current_block, kactive)
  BY DEF Lag
<1>9. kactive = next => ~Used(next)
  BY <1>1, <1>3, <1>6, WindowEnd
<1>10. Lag' = Lag - 1
  <2>1. CASE kactive = next
    <3>1. Lag' = 0
      BY <1>5, <1>9, <2>1 DEF Lag, InUse
    <3>2. Lag = 1
      <4>1. CASE kactive = current_block
        <5>1. current_block = IF current_block = BlockNr - 1 THEN 0 ELSE current_block + 1
          BY <1>3, <2>1, <4>1, NextBlockStep
        <5>2. BlockNr = 1
          BY <1>3, <5>1
        <5> QED
          BY <1>7, <4>1, <5>2
      <4>2. CASE kactive # current_block
        <5>1. Dist(current_block, next) = Dist(current_block, current_block) + 1
          BY <1>3, <2>1, <4>2, DistNext
        <5>2. Dist(current_block, current_block) = 0
          BY <1>3, DistRange
        <5> QED
          BY <1>8, <2>1, <4>2, <5>1, <5>2
      <4> QED
        BY <4>1, <4>2
    <3> QED
      BY <3>1, <3>2
  <2>2. CASE kactive # next
    <3>1. Lag' = Dist(next, kactive)
      BY <1>5, <2>2 DEF Lag
    <3> QED
      BY <1>3, <1>7, <1>8, <3>1, DistAdvance
  <2> QED
    BY <2>1, <2>2
<1>11. \A b \in Blocks : Used(b) => Dist(next, b) = Dist(current_block, b) - 1
  BY <1>3, <1>6, DistAdvance
<1>12. \A b \in Blocks : Used(b) <=> Dist(next, b) < Lag'
  <2> SUFFICES ASSUME NEW b \in Blocks PROVE Used(b) <=> Dist(next, b) < Lag'
    OBVIOUS
  <2>1. InUse(b) <=> Dist(current_block, b) < Lag
    BY <1>1 DEF Window
  <2>2. Dist(next, b) = IF b = current_block THEN BlockNr - 1
                        ELSE Dist(current_block, b) - 1
    BY <1>3, DistAdvance
  <2>3. Dist(current_block, b) \in Int
    BY <1>3, DistRange
  <2> QED
    BY <1>4, <1>6, <1>10, <2>1, <2>2, <2>3
<1>13. Window'
  <2>1. \A b \in Blocks : Used(b) => numPkts[b] >= 1
    BY <1>1, <1>6 DEF Window
  <2>2. Used(kactive) => Frozen
    BY <1>1, <1>3, <1>6 DEF Window
  <2> QED
    BY <1>5, <1>12, <2>1, <2>2 DEF Window, InUse, Frozen
<1> QED
  BY <1>6, <1>10, <1>13

LEMMA ReleaseStep ==
  ASSUME IInv, ReleaseBlock
  PROVE  (Window /\ Contents /\ Chain /\ ReaderAt /\ CursorInv)'
<1> DEFINE next == NextBlock(current_block)
           Used(b) == "USER" \in status'[b]
<1> USE DEF kernel
<1>1. TypeOK /\ Window /\ Contents /\ Chain /\ ReaderAt /\ CursorInv
  BY DEF IInv
<1>2. /\ cursor # NoCursor /\ cursor.block = current_block /\ InUse(current_block)
      /\ cursor.num = numPkts[current_block] /\ cursor.seen = numPkts[current_block]
  <2>1. cursor # NoCursor /\ cursor.block = current_block /\ InUse(current_block)
        /\ cursor.num = numPkts[current_block] /\ cursor.seen <= cursor.num
        /\ ~(cursor.seen < cursor.num)
    BY <1>1 DEF ReleaseBlock, CursorInv, HasFrame
  <2>2. cursor.seen \in Nat /\ numPkts[current_block] \in Nat
    BY <1>1, <2>1, CellTypes, WindowEnd DEF TypeOK, Cursor
  <2> QED
    BY <2>1, <2>2
<1>3. current_block \in Blocks /\ next \in Blocks /\ kactive \in Blocks
  BY <1>1, WindowEnd, NextBlockStep
<1>4. Lag \in 0 .. BlockNr /\ Lag > 0
  BY <1>1, <1>2, WindowEnd
<1>5. /\ current_block' = next /\ cursor' = NoCursor /\ rpc' = "wait"
      /\ UNCHANGED <<frames, numPkts, kernel, delivered, last>>
  BY DEF ReleaseBlock
<1>6. \A b \in Blocks : Used(b) <=> InUse(b) /\ b # current_block
  BY <1>1, <1>2, ReleaseWindow
<1>9. kactive = next => ~Used(next)
  BY <1>1, <1>3, <1>6, WindowEnd
<1>10. Lag' = Lag - 1
  BY <1>1, <1>2, ReleaseWindow
<1>11. \A b \in Blocks : Used(b) => Dist(next, b) = Dist(current_block, b) - 1
  BY <1>3, <1>6, DistAdvance
<1>12. \A b \in Blocks : Used(b) <=> Dist(next, b) < Lag'
  <2> SUFFICES ASSUME NEW b \in Blocks PROVE Used(b) <=> Dist(next, b) < Lag'
    OBVIOUS
  <2>1. InUse(b) <=> Dist(current_block, b) < Lag
    BY <1>1 DEF Window
  <2>2. Dist(next, b) = IF b = current_block THEN BlockNr - 1
                        ELSE Dist(current_block, b) - 1
    BY <1>3, DistAdvance
  <2>3. Dist(current_block, b) \in Int
    BY <1>3, DistRange
  <2> QED
    BY <1>4, <1>6, <1>10, <2>1, <2>2, <2>3
<1>13. Window'
  BY <1>1, <1>2, ReleaseWindow
<1>14. ActiveNum' = ActiveNum /\ ActiveBase' = ActiveBase
  BY <1>5 DEF ActiveNum, ActiveBase, Frozen
<1>15. Contents'
  BY <1>1, <1>5, <1>6, <1>14 DEF Contents, InUse
<1>16. Chain'
  <2> SUFFICES ASSUME NEW b \in Blocks, Used(b)
               PROVE  /\ frames[b][1] + numPkts[b] =
                           IF NextBlock(b) = kactive THEN ActiveBase
                           ELSE frames[NextBlock(b)][1]
                      /\ frames[b][1] + numPkts[b] + (Lag' - 1 - Dist(next, b))
                           <= ActiveBase
    BY <1>5, <1>14 DEF Chain, InUse
  <2>1. InUse(b) /\ Dist(next, b) = Dist(current_block, b) - 1
    BY <1>6, <1>11
  <2>2. Dist(current_block, b) \in Int
    BY <1>3, DistRange
  <2>3. Lag' - 1 - Dist(next, b) = Lag - 1 - Dist(current_block, b)
    BY <1>4, <1>10, <2>1, <2>2
  <2> QED
    BY <1>1, <2>1, <2>3 DEF Chain
<1>17. ReaderAt'
  <2>1. frames[current_block][1] + numPkts[current_block] = delivered + 1
    BY <1>1, <1>2 DEF ReaderAt, Seen
  <2>2. IF next = kactive THEN ActiveBase = delivered + 1
        ELSE frames[next][1] = delivered + 1
    BY <1>1, <1>2, <1>3, <2>1 DEF Chain
  <2>3. Used(next) => frames[next][1] + 0 = delivered + 1
    <3>1. Used(next) => frames[next][1] = delivered + 1
      BY <1>9, <2>2
    <3>2. frames[next][1] \in Nat
      BY <1>1, <1>3, CellTypes
    <3> QED
      BY <3>1, <3>2
  <2>4. ~Used(next) => ActiveBase = delivered + 1
    <3>1. ASSUME ~Used(next) PROVE kactive = next
      <4>1. ~(0 < Lag') \/ Dist(next, next) # 0
        BY <1>3, <1>12, <3>1
      <4>2. Lag' = 0
        BY <1>3, <1>4, <1>10, <4>1, DistRange
      <4>3. kactive # next => Lag' = Dist(next, kactive)
        BY <1>5 DEF Lag
      <4> QED
        BY <1>3, <4>2, <4>3, DistRange
    <3> QED
      BY <2>2, <3>1
  <2> QED
    BY <1>1, <1>5, <1>14, <2>3, <2>4 DEF ReaderAt, InUse, Seen
<1>18. CursorInv'
  BY <1>5 DEF CursorInv
<1> QED
  BY <1>13, <1>15, <1>16, <1>17, <1>18

--------------------------------------------------------------------------------
(* The inductive invariant.                                                    *)

LEMMA InvInit == Init => IInv
<1> SUFFICES ASSUME Init PROVE IInv
  OBVIOUS
<1>1. TypeOK
  BY TypeInit
<1>2. \A b \in Blocks : ~InUse(b)
  BY StatusWords DEF Init, InUse
<1>3. 0 \in Blocks /\ Dist(0, 0) = 0
  BY DEF Dist
<1>4. Lag = 0 /\ ActiveNum = 0 /\ ActiveBase = 1
  BY <1>2, <1>3 DEF Init, Lag, ActiveNum, ActiveBase
<1>5. \A b \in Blocks : ~(Dist(0, b) < 0)
  BY DEF Dist
<1>6. Window
  BY <1>2, <1>3, <1>4, <1>5 DEF Init, Window
<1>7. Contents /\ Chain
  BY <1>2, <1>4 DEF Init, Contents, Chain
<1>8. ReaderAt /\ CursorInv
  BY <1>2, <1>3, <1>4 DEF Init, ReaderAt, CursorInv
<1> QED
  BY <1>1, <1>6, <1>7, <1>8 DEF IInv

LEMMA InvStep == IInv /\ [Next]_vars => IInv'
<1> SUFFICES ASSUME IInv, [Next]_vars PROVE IInv'
  OBVIOUS
<1> USE DEF shared, kernel, reader
<1>1. TypeOK /\ Window /\ Contents /\ Chain /\ ReaderAt /\ CursorInv
  BY DEF IInv
<1>2. TypeOK'
  BY <1>1, ReaderInBlock, TypeStep
<1> SUFFICES (Window /\ Contents /\ Chain /\ ReaderAt /\ CursorInv)'
  BY <1>2 DEF IInv
<1>3. kactive \in Blocks /\ NextBlock(kactive) \in Blocks
  BY <1>1, RingTypes
<1>4. ASSUME Record PROVE (Window /\ Contents /\ Chain /\ ReaderAt /\ CursorInv)'
  <2>1. ActiveNum = numPkts[kactive] /\ ~InUse(kactive) /\ ~Frozen'
    BY <1>1, <1>4 DEF Record, ActiveNum, Window, Frozen
  <2>2. FillActive(ActiveNum) /\ UNCHANGED <<status, kactive, reader>>
    BY <1>4, <2>1 DEF Record
  <2> QED
    BY <2>1, <2>2, FillStep
<1>5. ASSUME ThawRecord PROVE (Window /\ Contents /\ Chain /\ ReaderAt /\ CursorInv)'
  <2>1. ActiveNum = 0 /\ ~InUse(kactive) /\ ~Frozen'
    BY <1>5 DEF ThawRecord, ActiveNum, Frozen
  <2>2. FillActive(ActiveNum) /\ UNCHANGED <<status, kactive, reader>>
    BY <1>5, <2>1 DEF ThawRecord
  <2> QED
    BY <2>1, <2>2, FillStep
<1>6. ASSUME RetireRecord PROVE (Window /\ Contents /\ Chain /\ ReaderAt /\ CursorInv)'
  <2>1. frames' = [frames EXCEPT ![NextBlock(kactive)] =
                     [frames[NextBlock(kactive)] EXCEPT ![1] = recorded + 1]]
    BY <1>1, <1>3, <1>6, RingTypes DEF RetireRecord
  <2>2. \A b \in Blocks \ {NextBlock(kactive)} : frames'[b] = frames[b]
    BY <1>1, <2>1, RingTypes
  <2>3. frames'[NextBlock(kactive)][1] = recorded + 1
    <3>1. frames[NextBlock(kactive)] \in [1 .. BlockCap -> Nat]
      BY <1>1, <1>3, RingTypes
    <3>2. frames'[NextBlock(kactive)] =
            [frames[NextBlock(kactive)] EXCEPT ![1] = recorded + 1]
      BY <1>1, <1>3, <2>1, RingTypes
    <3> QED
      BY <3>1, <3>2
  <2>4. Opened(1)
    BY <1>6, <2>2, <2>3 DEF RetireRecord, Retire, Opened, Frozen
  <2>5. Retire(StatusUser) /\ UNCHANGED reader
    BY <1>6 DEF RetireRecord
  <2> QED
    BY <1>2, <2>4, <2>5, RetireStep, StatusWords
<1>7. ASSUME RetireDrop PROVE (Window /\ Contents /\ Chain /\ ReaderAt /\ CursorInv)'
  <2>1. Froze /\ Retire(StatusUser) /\ UNCHANGED reader
    BY <1>7 DEF RetireDrop, Froze, Frozen
  <2> QED
    BY <1>2, <2>1, RetireStep, StatusWords
<1>8. ASSUME FrozenDrop PROVE (Window /\ Contents /\ Chain /\ ReaderAt /\ CursorInv)'
  BY <1>1, <1>8 DEF FrozenDrop, Window, Contents, Chain, ReaderAt, CursorInv,
                    InUse, Lag, ActiveNum, ActiveBase, Frozen, Seen
<1>9. ASSUME TimerRetire PROVE (Window /\ Contents /\ Chain /\ ReaderAt /\ CursorInv)'
  <2>1. Retire(StatusTimeout) /\ UNCHANGED <<frames, recorded, reader>>
    BY <1>9 DEF TimerRetire
  <2>2. Opened(0) \/ Froze
    <3>1. CASE NextIsFree
      <4>1. recorded' = recorded + 0
        BY <1>1, <2>1, RingTypes
      <4> QED
        BY <1>9, <3>1, <4>1 DEF TimerRetire, Opened, Frozen
    <3>2. CASE ~NextIsFree
      BY <1>9, <3>2 DEF TimerRetire, Froze, Frozen
    <3> QED
      BY <3>1, <3>2
  <2> QED
    BY <1>2, <2>1, <2>2, RetireStep, StatusWords
<1>10. ASSUME TimerThaw PROVE (Window /\ Contents /\ Chain /\ ReaderAt /\ CursorInv)'
  <2>1. /\ \A b \in Blocks : InUse(b) => numPkts'[b] = numPkts[b]
        /\ numPkts'[kactive] = 0
    BY <1>1, <1>3, <1>10, RingTypes DEF TimerThaw
  <2>2. ActiveNum' = 0 /\ ActiveNum = 0 /\ ActiveBase' = ActiveBase /\ Lag' = Lag
    BY <1>10, <2>1 DEF TimerThaw, ActiveNum, ActiveBase, Frozen, Lag, InUse
  <2>3. Window' /\ Contents' /\ Chain'
    <3>1. Window'
      BY <1>1, <1>10, <2>1, <2>2 DEF TimerThaw, Window, InUse
    <3>2. Contents'
      BY <1>1, <1>10, <2>1, <2>2 DEF TimerThaw, Contents, InUse
    <3>3. Chain'
      BY <1>1, <1>10, <2>1, <2>2 DEF TimerThaw, Chain, InUse
    <3> QED
      BY <3>1, <3>2, <3>3
  <2>4. ReaderAt'
    BY <1>1, <1>10, <2>2 DEF TimerThaw, ReaderAt, InUse, Seen
  <2>5. CursorInv'
    BY <1>1, <1>10, <2>1, WindowEnd DEF TimerThaw, CursorInv, InUse
  <2> QED
    BY <2>3, <2>4, <2>5
<1>11. ASSUME Deliver PROVE (Window /\ Contents /\ Chain /\ ReaderAt /\ CursorInv)'
  BY <1>11, DeliverStep
<1>12. ASSUME ReleaseBlock PROVE (Window /\ Contents /\ Chain /\ ReaderAt /\ CursorInv)'
  BY <1>12, ReleaseStep
<1>13. ASSUME LoadHeader PROVE (Window /\ Contents /\ Chain /\ ReaderAt /\ CursorInv)'
  <2>1. InUse(current_block) /\ cursor = NoCursor /\ current_block \in Blocks
    BY <1>1, <1>13, WindowEnd DEF LoadHeader, CursorInv
  <2>2. numPkts[current_block] \in Nat /\ numPkts[current_block] >= 1
    BY <1>1, <2>1, CellTypes DEF Window
  <2>3. /\ cursor'.block = current_block /\ cursor'.num = numPkts[current_block]
        /\ cursor'.seen = 0 /\ cursor'.next = 1 /\ cursor' \in Cursor
    BY <1>13, <2>1, <2>2 DEF LoadHeader, Cursor
  <2>4. cursor' # NoCursor /\ Seen' = 0 /\ Seen = 0
    BY <2>1, <2>3 DEF Seen
  <2>5. Window' /\ Contents' /\ Chain'
    BY <1>1, <1>13 DEF LoadHeader, Window, Contents, Chain, InUse, Lag,
                       ActiveNum, ActiveBase, Frozen
  <2>6. ReaderAt'
    BY <1>1, <1>13, <2>4 DEF LoadHeader, ReaderAt, InUse, ActiveNum, ActiveBase, Frozen
  <2>7. CursorInv'
    BY <1>13, <2>1, <2>2, <2>3, <2>4 DEF LoadHeader, CursorInv, InUse
  <2> QED
    BY <2>5, <2>6, <2>7
<1>14. ASSUME Call \/ CheckStatus \/ PollReturn \/ PollFail
       PROVE  (Window /\ Contents /\ Chain /\ ReaderAt /\ CursorInv)'
  <2>1. UNCHANGED <<shared, kernel, current_block, cursor, delivered, last>>
    BY <1>14 DEF Call, CheckStatus, PollReturn, PollFail
  <2>2. Window' /\ Contents' /\ Chain' /\ ReaderAt'
    BY <1>1, <2>1 DEF Window, Contents, Chain, ReaderAt, InUse, Lag, ActiveNum,
                      ActiveBase, Frozen, Seen
  <2>3. CursorInv'
    BY <1>1, <1>14, <2>1 DEF Call, CheckStatus, PollReturn, PollFail, CursorInv, InUse
  <2> QED
    BY <2>2, <2>3
<1>15. CASE UNCHANGED vars
  BY <1>1, <1>15 DEF vars, Window, Contents, Chain, ReaderAt, CursorInv, InUse, Lag,
                     ActiveNum, ActiveBase, Frozen, Seen
<1> QED
  BY <1>4, <1>5, <1>6, <1>7, <1>8, <1>9, <1>10, <1>11, <1>12, <1>13, <1>14, <1>15
     DEF Next, Kernel, Timer, Reader

--------------------------------------------------------------------------------
(* The theorems.                                                               *)

(* The inductive invariant holds in every reachable state.                     *)
THEOREM Inductive == Spec => []IInv
<1>1. Init => IInv
  BY InvInit
<1>2. IInv /\ [Next]_vars => IInv'
  BY InvStep
<1> QED
  BY <1>1, <1>2, PTL DEF Spec

(* Every variable of the ring and of the socket stays in its range: no block   *)
(* index, frame index or count leaves the ring.                                *)
THEOREM TypeCorrect == Spec => []TypeOK
<1>1. IInv => TypeOK
  BY DEF IInv
<1> QED
  BY <1>1, Inductive, PTL

(* Every block that user space owns holds a packet not returned yet, but for   *)
(* the current one when it has been read to its end.                           *)
LEMMA Backlog ==
  ASSUME IInv
  PROVE  delivered + Lag <= ActiveBase
<1>1. TypeOK /\ Window /\ Contents /\ Chain /\ ReaderAt /\ CursorInv
  BY DEF IInv
<1>2. delivered \in Nat /\ current_block \in Blocks /\ Lag \in Nat
  BY <1>1, WindowEnd, SMTT(30) DEF TypeOK
<1>3. ActiveBase \in Int
  BY <1>1, ActiveTypes
<1>4. CASE InUse(current_block)
  <2>1. frames[current_block][1] + Seen = delivered + 1
    BY <1>1, <1>4 DEF ReaderAt
  <2>2. Seen \in Nat /\ Seen <= numPkts[current_block]
    <3>1. numPkts[current_block] \in Nat
      BY <1>1, <1>2, CellTypes
    <3> QED
      BY <1>1, <3>1 DEF Seen, CursorInv, TypeOK, Cursor
  <2>3. frames[current_block][1] + numPkts[current_block]
          + (Lag - 1 - Dist(current_block, current_block)) <= ActiveBase
    BY <1>1, <1>2, <1>4 DEF Chain
  <2>4. Dist(current_block, current_block) = 0
    BY <1>2, DistRange
  <2>5. frames[current_block][1] \in Nat /\ numPkts[current_block] \in Nat
    BY <1>1, <1>2, CellTypes
  <2> QED
    BY <1>2, <1>3, <2>1, <2>2, <2>3, <2>4, <2>5
<1>5. CASE ~InUse(current_block)
  <2>1. Lag = 0
    BY <1>1, <1>2, <1>5, WindowEnd
  <2> QED
    BY <1>1, <1>2, <1>5, <2>1 DEF ReaderAt
<1> QED
  BY <1>4, <1>5

LEMMA InvInOrder == IInv => InOrder
<1> SUFFICES ASSUME IInv PROVE InOrder
  OBVIOUS
<1>1. TypeOK /\ Window /\ ReaderAt
  BY DEF IInv
<1>2. last = delivered /\ delivered \in Nat /\ recorded \in Nat
  BY <1>1 DEF ReaderAt, TypeOK
<1>3. Lag \in Nat /\ InUse(current_block) => Lag > 0
  BY <1>1, WindowEnd
<1>4. ActiveBase \in Int /\ ActiveBase <= recorded + 1
  BY <1>1, <1>2, ActiveTypes DEF ActiveBase
<1>5. CASE InUse(current_block)
  BY <1>1, <1>2, <1>3, <1>4, <1>5, Backlog, WindowEnd DEF InOrder
<1>6. CASE ~InUse(current_block)
  BY <1>1, <1>2, <1>4, <1>6 DEF ReaderAt, InOrder
<1> QED
  BY <1>5, <1>6

(* next_packet() returns the recorded packets in order, each exactly once.     *)
THEOREM DeliveryInOrder == Spec => []InOrder
  BY Inductive, InvInOrder, PTL

(* The reader's block is owned by user space and unchanged, and the kernel     *)
(* never fills a block that user space owns.                                   *)
THEOREM Ownership == Spec => []BlockOwnership
<1>1. IInv => BlockOwnership
  BY DEF IInv, CursorInv, Window, BlockOwnership
<1> QED
  BY <1>1, Inductive, PTL

--------------------------------------------------------------------------------
(* Losing packets.                                                             *)

(* When the kernel finds the next block taken, the window is the rest of the   *)
(* ring, and the block just retired completes it.                              *)
LEMMA DropHeld ==
  ASSUME TypeOK, Window, RetireDrop \/ FrozenDrop
  PROVE  /\ \A b \in Blocks : "USER" \in status'[b]
         /\ Lag = IF Frozen THEN BlockNr ELSE BlockNr - 1
<1>2. kactive \in Blocks /\ current_block \in Blocks /\ NextBlock(kactive) \in Blocks
  BY WindowEnd, RingTypes
<1>4. CASE RetireDrop
  <2>1. Retire(StatusUser) /\ ~Frozen /\ ~NextIsFree
    BY <1>4 DEF RetireDrop, Retire
  <2>2. ~InUse(kactive)
    BY <2>1 DEF Window
  <2>3. Lag = Dist(current_block, kactive) /\ NextBlock(kactive) = current_block
    BY <2>1, <2>2, FreeNext, WindowEnd
  <2>4. Lag = BlockNr - 1
    BY <1>2, <2>3, DistLast
  <2>5. ASSUME NEW b \in Blocks PROVE "USER" \in status'[b]
    <3>1. CASE b = kactive
      BY <1>2, <2>1, <3>1, RingTypes, StatusWords DEF Retire
    <3>2. CASE b # kactive
      <4>1. Dist(current_block, b) # Lag
        BY <1>2, <2>3, <3>2, DistInjective
      <4>2. Dist(current_block, b) \in Blocks
        BY <1>2, DistRange
      <4>3. InUse(b)
        BY <2>4, <4>1, <4>2 DEF Window
      <4> QED
        BY <1>2, <2>1, <3>2, <4>3, RingTypes DEF Retire, InUse
    <3> QED
      BY <3>1, <3>2
  <2> QED
    BY <2>1, <2>4, <2>5
<1>5. CASE FrozenDrop
  <2>1. Frozen /\ InUse(kactive) /\ status' = status
    BY <1>5 DEF FrozenDrop, shared
  <2>2. Lag = BlockNr
    BY <2>1, WindowEnd
  <2>3. \A b \in Blocks : InUse(b)
    BY <1>2, <2>2, DistRange DEF Window
  <2> QED
    BY <2>1, <2>2, <2>3 DEF InUse
<1> QED
  BY <1>4, <1>5

(* A packet is lost only when BlockNr - 1 recorded ones are waiting.           *)
LEMMA DropStep ==
  ASSUME IInv, RetireDrop \/ FrozenDrop
  PROVE  /\ \A b \in Blocks : "USER" \in status'[b]
         /\ recorded >= delivered + (BlockNr - 1)
<1>1. TypeOK /\ Window /\ Contents
  BY DEF IInv
<1>2. recorded \in Nat /\ delivered \in Nat /\ ActiveNum \in Nat /\ ActiveBase \in Int
  <2>1. ActiveNum \in 0 .. BlockCap /\ ActiveBase \in Int
    BY <1>1, ActiveTypes
  <2>2. recorded \in Nat /\ delivered \in Nat
    BY <1>1 DEF TypeOK
  <2> QED
    BY <2>1, <2>2
<1>3. Lag = IF Frozen THEN BlockNr ELSE BlockNr - 1
  BY <1>1, DropHeld
<1>4. ActiveBase <= IF Frozen THEN recorded + 1 ELSE recorded
  <2>1. CASE RetireDrop
    <3>1. ~Frozen /\ ActiveNum = numPkts[kactive] /\ numPkts[kactive] >= 1
      BY <2>1 DEF RetireDrop, ActiveNum, Retire
    <3> QED
      BY <1>2, <3>1 DEF ActiveBase
  <2>2. CASE FrozenDrop
    <3>1. Frozen /\ ActiveNum = 0
      BY <2>2 DEF FrozenDrop, ActiveNum
    <3> QED
      BY <1>2, <3>1 DEF ActiveBase
  <2> QED
    BY <2>1, <2>2
<1>5. delivered + Lag <= ActiveBase
  BY Backlog
<1>6. recorded >= delivered + (BlockNr - 1)
  BY <1>2, <1>3, <1>4, <1>5
<1> QED
  BY <1>1, <1>6, DropHeld

(* No other step loses a packet.                                               *)
LEMMA NoOtherDrop ==
  ASSUME [Next]_vars, dropped' # dropped
  PROVE  RetireDrop \/ FrozenDrop
  BY DEF Next, vars, kernel, Kernel, Timer, Reader, Record, ThawRecord, RetireRecord,
         TimerRetire, TimerThaw, Call, Deliver, ReleaseBlock, CheckStatus, PollReturn,
         PollFail, LoadHeader

(* A packet is lost only when the reader holds every block.                    *)
THEOREM DropsOnlyWhenAllHeld == Spec => DropOnlyWhenAllHeld
<1>1. IInv /\ [Next]_vars =>
        [dropped' # dropped => \A b \in Blocks : "USER" \in status'[b]]_vars
  BY DropStep, NoOtherDrop
<1> QED
  BY <1>1, Inductive, PTL DEF Spec, DropOnlyWhenAllHeld

--------------------------------------------------------------------------------
(* The ring implements the queue.                                              *)

LEMMA QueueInit == Init => Queue!Init
  BY DEF Init, Queue!Init

LEMMA QueueStep == IInv /\ [Next]_vars => [Queue!Next]_Queue!vars
<1> SUFFICES ASSUME IInv, [Next]_vars PROVE [Queue!Next]_Queue!vars
  OBVIOUS
<1> USE DEF shared, kernel, reader
<1>1. ASSUME Record \/ ThawRecord \/ RetireRecord PROVE Queue!Record
  BY <1>1 DEF Record, ThawRecord, RetireRecord, FillActive, Queue!Record
<1>2. ASSUME RetireDrop \/ FrozenDrop PROVE Queue!Drop
  <2>1. recorded >= delivered + (BlockNr - 1)
    BY <1>2, DropStep
  <2> QED
    BY <1>2, <2>1 DEF RetireDrop, FrozenDrop, Queue!Drop
<1>3. ASSUME Deliver PROVE Queue!Deliver
  <2>1. HasFrame
    BY <1>3 DEF Deliver
  <2>2. last' = delivered + 1 /\ delivered < recorded
    BY <1>3, <2>1, NextStamp DEF Deliver
  <2> QED
    BY <1>3, <2>2 DEF Deliver, Queue!Deliver
<1>4. ASSUME \/ TimerRetire \/ TimerThaw \/ Call \/ ReleaseBlock \/ CheckStatus
             \/ PollReturn \/ PollFail \/ LoadHeader \/ UNCHANGED vars
      PROVE  UNCHANGED Queue!vars
  BY <1>4 DEF TimerRetire, TimerThaw, Call, ReleaseBlock, CheckStatus, PollReturn,
              PollFail, LoadHeader, vars, Queue!vars
<1> QED
  BY <1>1, <1>2, <1>3, <1>4 DEF Next, Kernel, Timer, Reader, Queue!Next

(* Safety part of the refinement: seen from the caller, the ring is a queue    *)
(* that loses nothing it has recorded.                                         *)
THEOREM RingImplementsQueue == Spec => ImplementsQueue
<1>1. Init => Queue!Init
  BY QueueInit
<1>2. IInv /\ [Next]_vars => [Queue!Next]_Queue!vars
  BY QueueStep
<1> QED
  BY <1>1, <1>2, Inductive, PTL DEF Spec, ImplementsQueue, Queue!Spec

--------------------------------------------------------------------------------
(* Early loads.  What WeakPacketRing keeps of the ring's properties rests on   *)
(* the window and on the order of next_packet()'s steps, not on the count the  *)
(* cursor holds.                                                               *)

(* The kernel leaves the reader's state, the blocks of user space and their    *)
(* headers alone.                                                              *)
LEMMA KernelWindow ==
  ASSUME TypeOK, Window, Kernel
  PROVE  /\ Window'
         /\ UNCHANGED reader
         /\ \A b \in Blocks : InUse(b) => InUse(b)' /\ numPkts'[b] = numPkts[b]
<1> USE DEF shared
<1>1. UNCHANGED reader
  BY DEF Kernel, Timer, Record, ThawRecord, RetireRecord, RetireDrop, FrozenDrop,
         TimerRetire, TimerThaw
<1>2. UNCHANGED current_block
  BY <1>1 DEF reader
<1> DEFINE Kept == Window' /\ \A b \in Blocks : InUse(b) => InUse(b)' /\ numPkts'[b] = numPkts[b]
<1>3. ASSUME NEW n \in 0 .. BlockCap, numPkts' = [numPkts EXCEPT ![kactive] = n],
             ~InUse(kactive), UNCHANGED <<status, kactive>>
      PROVE  Kept
  BY <1>2, <1>3, FillWindow
<1>4. ASSUME NEW st, "USER" \in st, Retire(st), Opened(0) \/ Opened(1) \/ Froze
      PROVE  Kept
  BY <1>2, <1>4, RetireWindow
<1>5. ASSUME NEW n \in 0 .. BlockCap, FillActive(n)
      PROVE  n + 1 \in 0 .. BlockCap /\ numPkts' = [numPkts EXCEPT ![kactive] = n + 1]
  BY <1>5 DEF FillActive
<1>6. numPkts[kactive] \in 0 .. BlockCap /\ 0 \in 0 .. BlockCap
  BY RingTypes
<1>7. CASE Record
  <2>1. ~InUse(kactive)
    BY <1>7 DEF Record, Window
  <2>2. FillActive(numPkts[kactive]) /\ UNCHANGED <<status, kactive>>
    BY <1>7 DEF Record
  <2> QED
    BY <1>1, <1>3, <1>5, <1>6, <2>1, <2>2
<1>8. CASE ThawRecord
  <2>1. ~InUse(kactive) /\ FillActive(0) /\ UNCHANGED <<status, kactive>>
    BY <1>8 DEF ThawRecord
  <2> QED
    BY <1>1, <1>3, <1>5, <1>6, <2>1
<1>9. CASE RetireRecord
  <2>1. \A b \in Blocks \ {NextBlock(kactive)} : frames'[b] = frames[b]
    <3>1. frames' = [frames EXCEPT ![NextBlock(kactive)][1] = recorded + 1]
      BY <1>9 DEF RetireRecord
    <3> QED
      BY <3>1, RingTypes
  <2>2. frames'[NextBlock(kactive)][1] = recorded + 1
    <3>1. frames' = [frames EXCEPT ![NextBlock(kactive)] =
                       [frames[NextBlock(kactive)] EXCEPT ![1] = recorded + 1]]
      BY <1>9, RingTypes DEF RetireRecord
    <3>2. frames[NextBlock(kactive)] \in [1 .. BlockCap -> Nat]
      BY RingTypes, RowType
    <3>3. frames'[NextBlock(kactive)] = [frames[NextBlock(kactive)] EXCEPT ![1] = recorded + 1]
      BY <3>1, RingTypes
    <3> QED
      BY <3>2, <3>3
  <2>3. Opened(1)
    BY <1>9, <2>1, <2>2 DEF RetireRecord, Retire, Opened, Frozen
  <2>4. Retire(StatusUser)
    BY <1>9 DEF RetireRecord
  <2> QED
    BY <1>1, <1>4, <2>3, <2>4, StatusWords
<1>10. CASE RetireDrop
  <2>1. Retire(StatusUser) /\ Froze
    BY <1>10 DEF RetireDrop, Froze, Frozen
  <2> QED
    BY <1>1, <1>4, <2>1, StatusWords
<1>11. CASE FrozenDrop
  <2>1. UNCHANGED <<status, numPkts, kactive, queue, current_block>>
    BY <1>2, <1>11 DEF FrozenDrop
  <2>2. Window' /\ \A b \in Blocks : InUse(b)' <=> InUse(b)
    BY <2>1 DEF Window, InUse, Lag, Frozen
  <2> QED
    BY <1>1, <2>1, <2>2
<1>12. CASE TimerRetire
  <2>1. Retire(StatusTimeout) /\ UNCHANGED <<frames, recorded>>
    BY <1>12 DEF TimerRetire
  <2>2. Opened(0) \/ Froze
    <3>1. recorded' = recorded + 0
      BY <2>1, RingTypes
    <3> QED
      BY <1>12, <2>1, <3>1 DEF TimerRetire, Opened, Froze, Frozen
  <2> QED
    BY <1>1, <1>4, <2>1, <2>2, StatusWords
<1>13. CASE TimerThaw
  BY <1>1, <1>3, <1>6, <1>13 DEF TimerThaw
<1> QED
  BY <1>7, <1>8, <1>9, <1>10, <1>11, <1>12, <1>13 DEF Kernel, Timer

LEMMA WeakInitInv == WeakInit => WeakInv
<1> SUFFICES ASSUME WeakInit PROVE WeakInv
  OBVIOUS
<1>1. IInv
  BY InvInit DEF WeakInit
<1> QED
  BY <1>1 DEF WeakInit, Init, IInv, WeakInv, EarlyCount, WeakCursor

(* All steps but LoadEarly and WeakLoadHeader are steps of the ring.           *)
LEMMA WeakIsStep ==
  ASSUME [WeakNext]_weakVars, ~LoadEarly, ~WeakLoadHeader
  PROVE  /\ \/ Kernel \/ Call \/ Deliver \/ ReleaseBlock \/ CheckStatus \/ PollReturn
            \/ PollFail \/ UNCHANGED vars
         /\ [Next]_vars
         /\ early' \in {early, NoLoad}
  BY DEF WeakNext, weakVars, WeakCheckStatus, Next, Reader

(* The frame at a cursor lies inside the block.                                *)
LEMMA WeakInBlock ==
  ASSUME WeakInv, cursor # NoCursor
  PROVE  cursor \in Cursor /\ cursor.next \in 1 .. BlockCap
<1>1. cursor \in Cursor /\ cursor.next \in 1 .. numPkts[current_block]
  BY DEF WeakInv, WeakCursor, TypeOK
<1>2. numPkts[current_block] \in 0 .. BlockCap
  BY DEF WeakInv, TypeOK
<1>3. cursor.next \in Nat
  BY <1>1 DEF Cursor
<1> QED
  BY <1>1, <1>2, <1>3

LEMMA WeakLoadStep ==
  ASSUME WeakInv, WeakLoadHeader
  PROVE  WeakInv'
<1> USE DEF shared, kernel
<1>1. TypeOK /\ EarlyCount /\ Window /\ WeakCursor
  BY DEF WeakInv
<1>2. current_block \in Blocks /\ InUse(current_block)
  BY <1>1 DEF WeakLoadHeader, WeakCursor, TypeOK
<1>3. numPkts[current_block] \in Nat /\ numPkts[current_block] >= 1
  BY <1>1, <1>2, CellTypes DEF Window
<1> DEFINE num == IF early = NoLoad THEN numPkts[current_block] ELSE early
<1>4. num \in Nat
  BY <1>1, <1>3 DEF EarlyCount
<1>5. /\ cursor' = [block |-> current_block, num |-> num, seen |-> 0, next |-> 1]
      /\ UNCHANGED <<shared, kernel, current_block, delivered, last>>
      /\ rpc' = "scan" /\ early' = NoLoad
  BY DEF WeakLoadHeader
<1> HIDE DEF num
<1>6. cursor' \in Cursor /\ cursor'.block = current_block /\ cursor'.next = 1
  BY <1>2, <1>4, <1>5 DEF Cursor
<1>7. TypeOK'
  BY <1>1, <1>5, <1>6 DEF TypeOK, Points
<1>8. Window' /\ EarlyCount'
  BY <1>1, <1>5 DEF Window, InUse, Lag, Frozen, EarlyCount
<1>9. WeakCursor'
  BY <1>2, <1>3, <1>5, <1>6 DEF WeakCursor, InUse
<1> QED
  BY <1>7, <1>8, <1>9 DEF WeakInv

LEMMA WeakInvStep == WeakInv /\ [WeakNext]_weakVars => WeakInv'
<1> SUFFICES ASSUME WeakInv, [WeakNext]_weakVars PROVE WeakInv'
  OBVIOUS
<1> USE DEF shared, kernel, reader
<1>1. TypeOK /\ EarlyCount /\ Window /\ WeakCursor
  BY DEF WeakInv
<1>2. CASE WeakLoadHeader
  BY <1>2, WeakLoadStep
<1>3. CASE LoadEarly
  <2>1. UNCHANGED vars /\ early' = numPkts[current_block]
    BY <1>3 DEF LoadEarly
  <2>2. EarlyCount'
    BY <1>1, <2>1 DEF EarlyCount, TypeOK
  <2>3. TypeOK' /\ Window' /\ WeakCursor'
    BY <1>1, <2>1 DEF vars, TypeOK, Window, WeakCursor, InUse, Lag, Frozen
  <2> QED
    BY <2>2, <2>3 DEF WeakInv
<1>4. CASE ~WeakLoadHeader /\ ~LoadEarly
  <2>1. [Next]_vars /\ EarlyCount'
    BY <1>1, <1>4, WeakIsStep DEF EarlyCount
  <2>2. TypeOK'
    BY <1>1, <2>1, WeakInBlock, TypeStep DEF HasFrame
  <2>3. ASSUME Window',
               cursor # NoCursor /\ InUse(current_block) =>
                 /\ InUse(current_block)'
                 /\ numPkts'[current_block] = numPkts[current_block],
               InUse(current_block) => InUse(current_block)',
               UNCHANGED reader
        PROVE  WeakInv'
    <3>1. WeakCursor'
      BY <1>1, <2>3 DEF WeakCursor, InUse
    <3> QED
      BY <2>1, <2>2, <2>3, <3>1 DEF WeakInv
  <2>4. current_block \in Blocks
    BY <1>1 DEF TypeOK
  <2>5. CASE Kernel
    BY <1>1, <2>3, <2>4, <2>5, KernelWindow
  <2>6. CASE UNCHANGED vars
    <3>1. Window'
      BY <1>1, <2>6 DEF vars, Window, InUse, Lag, Frozen
    <3> QED
      BY <2>3, <2>6, <3>1 DEF vars, InUse
  <2>7. CASE Deliver
    <3>1. HasFrame /\ cursor # NoCursor
      BY <2>7 DEF Deliver, HasFrame
    <3>2. /\ cursor \in Cursor /\ cursor.block = current_block /\ InUse(current_block)
          /\ cursor.next \in 1 .. numPkts[current_block]
      BY <1>1, <3>1, WeakInBlock DEF WeakCursor
    <3>3. numPkts[current_block] \in Nat
      BY <1>1, <2>4, CellTypes
    <3>4. UNCHANGED <<shared, kernel, current_block>> /\ rpc' = "idle"
      BY <2>7 DEF Deliver
    <3>5. /\ cursor'.block = current_block
          /\ cursor'.next = cursor.next + NextOffset(current_block, cursor.next)
      BY <2>7, <3>2 DEF Deliver
    <3>6. cursor'.next \in 1 .. numPkts[current_block]
      BY <3>2, <3>3, <3>5 DEF NextOffset
    <3>7. Window'
      BY <1>1, <3>4 DEF Window, InUse, Lag, Frozen
    <3>8. WeakCursor'
      BY <3>2, <3>4, <3>5, <3>6 DEF WeakCursor, InUse
    <3> QED
      BY <2>1, <2>2, <3>7, <3>8 DEF WeakInv
  <2>8. CASE ReleaseBlock
    <3>1. cursor.block = current_block /\ InUse(current_block)
      BY <1>1, <2>8 DEF ReleaseBlock, WeakCursor
    <3>2. Window'
      BY <1>1, <2>8, <3>1, ReleaseWindow
    <3>3. WeakCursor'
      BY <2>8 DEF ReleaseBlock, WeakCursor
    <3> QED
      BY <2>1, <2>2, <3>2, <3>3 DEF WeakInv
  <2>9. CASE Call \/ CheckStatus \/ PollReturn \/ PollFail
    <3>1. UNCHANGED <<shared, kernel, current_block, cursor, delivered, last>>
      BY <2>9 DEF Call, CheckStatus, PollReturn, PollFail
    <3>2. Window'
      BY <1>1, <3>1 DEF Window, InUse, Lag, Frozen
    <3>3. WeakCursor'
      BY <1>1, <2>9, <3>1 DEF Call, CheckStatus, PollReturn, PollFail, WeakCursor, InUse
    <3> QED
      BY <2>1, <2>2, <3>2, <3>3 DEF WeakInv
  <2> QED
    BY <1>4, <2>5, <2>6, <2>7, <2>8, <2>9, WeakIsStep
<1> QED
  BY <1>2, <1>3, <1>4

(* Loads done early move no block: every block, count and offset stays in its  *)
(* range, the window of user space stays whole, and the cursor in it.          *)
THEOREM WeakInductive == WeakSpec => []WeakInv
<1>1. WeakInit => WeakInv
  BY WeakInitInv
<1>2. WeakInv /\ [WeakNext]_weakVars => WeakInv'
  BY WeakInvStep
<1> QED
  BY <1>1, <1>2, PTL DEF WeakSpec

(* The block next_packet() reads is the reader's however early its header was  *)
(* loaded, and the kernel fills no block of user space.                        *)
THEOREM HeldThroughout == WeakSpec => []BlockHeld
<1>1. WeakInv => BlockHeld
  BY DEF WeakInv, WeakCursor, Window, BlockHeld
<1> QED
  BY <1>1, WeakInductive, PTL

(* Nor does a load done early make the kernel lose packets: it still loses one *)
(* only when every block waits for the reader.                                 *)
THEOREM WeakDropsOnlyWhenAllHeld == WeakSpec => DropOnlyWhenAllHeld
<1>1. WeakInv /\ [WeakNext]_weakVars =>
        [dropped' # dropped => \A b \in Blocks : "USER" \in status'[b]]_vars
  <2> SUFFICES ASSUME WeakInv, [WeakNext]_weakVars, dropped' # dropped
               PROVE  \A b \in Blocks : "USER" \in status'[b]
    OBVIOUS
  <2>1. ~LoadEarly /\ ~WeakLoadHeader
    BY DEF LoadEarly, WeakLoadHeader, vars, kernel
  <2>2. RetireDrop \/ FrozenDrop
    BY <2>1, WeakIsStep, NoOtherDrop
  <2> QED
    BY <2>2, DropHeld DEF WeakInv
<1> QED
  BY <1>1, WeakInductive, PTL DEF WeakSpec, DropOnlyWhenAllHeld

(* The order of the two loads is all that is missing: where none is done early *)
(* the machine is the ring of PacketRing, with everything shown of it above.   *)
THEOREM InOrderIsRing == WeakSpec /\ [](early = NoLoad) => Spec
<1>1. WeakInit => Init
  BY DEF WeakInit
<1>2. early = NoLoad /\ (early = NoLoad)' /\ [WeakNext]_weakVars => [Next]_vars
  <2> SUFFICES ASSUME early = NoLoad, [WeakNext]_weakVars PROVE [Next]_vars
    OBVIOUS
  <2>1. CASE LoadEarly
    BY <2>1 DEF LoadEarly
  <2>2. CASE WeakLoadHeader
    BY <2>2 DEF WeakLoadHeader, LoadHeader, Next, Reader
  <2>3. CASE ~LoadEarly /\ ~WeakLoadHeader
    BY <2>3, WeakIsStep
  <2> QED
    BY <2>1, <2>2, <2>3
<1> QED
  BY <1>1, <1>2, PTL DEF WeakSpec, Spec

(* In particular what the cursor copied from a header then stays true, which   *)
(* is what the code's comment on the socket takes for granted.                 *)
THEOREM InOrderUnshared == WeakSpec /\ [](early = NoLoad) => []HeaderUnshared
<1>1. BlockOwnership => HeaderUnshared
  BY DEF BlockOwnership, HeaderUnshared
<1> QED
  BY <1>1, InOrderIsRing, Ownership, PTL

================================================================================
