---------------------------- MODULE FrameRingProofs ----------------------------
(* Proofs about the memory of the ring: the offsets next_packet() follows      *)
(* without checking them always lead to a frame, and what it copies out are    *)
(* the bytes of the packet recorded, for any number and size of blocks, any    *)
(* alignment and any packet lengths that fit a block.                          *)
EXTENDS FrameRing, PacketRingProofs

USE DEF shared, kernel, reader

--------------------------------------------------------------------------------
(* The memory adds to the steps of the ring and takes nothing from them.       *)

LEMMA FrameStepIsRing == [FrameNext]_frameVars => [Next]_vars
<1>1. FrameKernel => Kernel
  BY DEF FrameKernel, Kernel, Timer, FrameRecord, FrameThawRecord, FrameRetireRecord,
         FrameRetireDrop, FrameFrozenDrop, FrameTimerRetire, FrameTimerThaw
<1>2. FrameReader => Reader
  BY DEF FrameReader, Reader, FrameDeliver, FrameLoadHeader
<1> QED
  BY <1>1, <1>2 DEF FrameNext, Next, frameVars

(* The ring with its memory implements the ring without.                       *)
THEOREM FrameImplementsRing == FrameSpec => Spec
<1>1. FrameInit => Init
  BY DEF FrameInit
<1> QED
  BY <1>1, FrameStepIsRing, PTL DEF FrameSpec, Spec

--------------------------------------------------------------------------------
(* The size of a frame.                                                        *)

LEMMA Sizes ==
  /\ {BlockSize, FirstOffset, MacOffset, Alignment, AcceptLen} \subseteq Nat \ {0}
  /\ \A len \in Lengths : /\ Snap(len) \in Nat \ {0}
                          /\ FirstOffset + FrameSize(len) < BlockSize
  BY FrameAssumption DEF Snap

LEMMA RoundUp ==
  ASSUME NEW x \in Nat, NEW a \in Nat \ {0}
  PROVE  ((x + a - 1) \div a) * a \in Nat /\ ((x + a - 1) \div a) * a >= x
<1> DEFINE q == (x + a - 1) \div a
           r == (x + a - 1) % a
<1>1. x + a - 1 \in Nat
  OBVIOUS
<1>2. q \in Nat /\ r \in 0 .. a - 1
  BY <1>1
<1>3. q * a + r = x + a - 1
  BY <1>1
<1> HIDE DEF q, r
<1>4. q * a \in Nat
  BY <1>2
<1>5. q * a >= x
  BY <1>2, <1>3, <1>4
<1> QED
  BY <1>4, <1>5 DEF q

LEMMA FrameHolds ==
  ASSUME NEW len \in Lengths
  PROVE  FrameSize(len) \in Nat /\ FrameSize(len) >= MacOffset + Snap(len)
<1>1. MacOffset + Snap(len) \in Nat /\ Alignment \in Nat \ {0}
  BY Sizes
<1>2. /\ ((MacOffset + Snap(len) + Alignment - 1) \div Alignment) * Alignment \in Nat
      /\ ((MacOffset + Snap(len) + Alignment - 1) \div Alignment) * Alignment >= MacOffset + Snap(len)
  BY <1>1, RoundUp
<1> QED
  BY <1>2 DEF FrameSize

LEMMA WireSizes ==
  ASSUME NEW wire \in Seq(Lengths), NEW k \in 1 .. Len(wire)
  PROVE  /\ wire[k] \in Lengths
         /\ Snap(wire[k]) \in Nat \ {0} /\ MacOffset \in Nat \ {0} /\ BlockSize \in Nat
         /\ FrameSize(wire[k]) \in Nat /\ FrameSize(wire[k]) >= MacOffset + Snap(wire[k])
         /\ FrameSize(wire[k]) > 0
<1>1. wire[k] \in Lengths
  OBVIOUS
<1>2. /\ Snap(wire[k]) \in Nat \ {0} /\ MacOffset \in Nat \ {0} /\ BlockSize \in Nat
      /\ FrameSize(wire[k]) \in Nat /\ FrameSize(wire[k]) >= MacOffset + Snap(wire[k])
  BY <1>1, Sizes, FrameHolds
<1> QED
  BY <1>1, <1>2

--------------------------------------------------------------------------------
(* What the kernel leaves in a block.                                          *)

LEMMA CellFields ==
  \A k, i, snap, mac, next :
    /\ Cell(k, i, snap, mac, next).of = k
    /\ Cell(k, i, snap, mac, next).byte = i
    /\ Cell(k, i, snap, mac, next).snap = snap
    /\ Cell(k, i, snap, mac, next).mac = mac
    /\ Cell(k, i, snap, mac, next).next = next
  BY DEF Cell

(* A frame written at offset at: its header, its bytes, and nothing else.      *)
LEMMA WrittenCells ==
  ASSUME NEW cells \in [Cells -> CellType], NEW at \in Nat, NEW k \in Nat,
         NEW len \in Lengths, at + FrameSize(len) < BlockSize,
         NEW new, new = Written(cells, at, k, len)
  PROVE  /\ at \in Cells
         /\ new \in [Cells -> CellType]
         /\ new[at] = Cell(k, 0, Snap(len), MacOffset, FrameSize(len))
         /\ \A i \in 1 .. Snap(len) : new[at + MacOffset + i - 1] = Cell(k, i, 0, 0, 0)
         /\ \A o \in Cells : o < at \/ o >= at + FrameSize(len) => new[o] = cells[o]
         /\ \A o \in Cells : new[o] = cells[o]
                               \/ (new[o].of = k /\ (new[o].byte = 0 => o = at))
<1> DEFINE data == at + MacOffset
<1>1. /\ MacOffset \in Nat \ {0} /\ Snap(len) \in Nat \ {0} /\ BlockSize \in Nat
      /\ FrameSize(len) \in Nat /\ FrameSize(len) >= MacOffset + Snap(len)
  BY Sizes, FrameHolds
<1>2. at \in Cells /\ DOMAIN cells = Cells
  BY <1>1 DEF Cells
<1>3. \A i \in 1 .. Snap(len) : Payload(k, len)[i] = Cell(k, i, 0, 0, 0)
  BY DEF Payload
<1>4. new = [o \in Cells |->
               IF o = at THEN Cell(k, 0, Snap(len), MacOffset, FrameSize(len))
               ELSE IF o \in data .. data + Snap(len) - 1 THEN Payload(k, len)[o - data + 1]
               ELSE cells[o]]
  BY <1>2 DEF Written
<1>5. new[at] = Cell(k, 0, Snap(len), MacOffset, FrameSize(len))
  BY <1>2, <1>4
<1>6. ASSUME NEW o \in Cells, o \in data .. data + Snap(len) - 1
      PROVE  /\ o - data + 1 \in 1 .. Snap(len) /\ o # at
             /\ new[o] = Cell(k, o - data + 1, 0, 0, 0)
  <2>1. o - data + 1 \in 1 .. Snap(len) /\ o # at
    BY <1>1, <1>6, SMTT(30) DEF Cells
  <2> QED
    BY <1>3, <1>4, <1>6, <2>1
<1>7. ASSUME NEW o \in Cells, o # at, o \notin data .. data + Snap(len) - 1
      PROVE  new[o] = cells[o]
  BY <1>4, <1>7
<1>8. ASSUME NEW o \in Cells PROVE new[o] \in CellType
  <2>1. CASE o = at
    BY <1>1, <1>5, <2>1 DEF Cell, CellType
  <2>2. CASE o \in data .. data + Snap(len) - 1
    <3>1. o - data + 1 \in Nat /\ new[o] = Cell(k, o - data + 1, 0, 0, 0)
      BY <1>1, <1>6, <2>2
    <3> QED
      BY <3>1 DEF Cell, CellType
  <2> QED
    BY <1>7, <2>1, <2>2
<1>9. new \in [Cells -> CellType]
  BY <1>4, <1>8
<1>10. ASSUME NEW i \in 1 .. Snap(len)
       PROVE  new[at + MacOffset + i - 1] = Cell(k, i, 0, 0, 0)
  <2> DEFINE p == at + MacOffset + i - 1
  <2>1. p \in Cells /\ p \in data .. data + Snap(len) - 1
    BY <1>1 DEF Cells
  <2>2. p - data + 1 = i
    BY <1>1
  <2>3. new[p] = Cell(k, p - data + 1, 0, 0, 0)
    BY <1>6, <2>1
  <2> QED
    BY <2>2, <2>3
<1>11. ASSUME NEW o \in Cells, o < at \/ o >= at + FrameSize(len)
       PROVE  new[o] = cells[o]
  <2>1. o # at /\ o \notin data .. data + Snap(len) - 1
    BY <1>1, <1>11 DEF Cells
  <2> QED
    BY <1>7, <2>1
<1>12. ASSUME NEW o \in Cells
       PROVE  new[o] = cells[o] \/ (new[o].of = k /\ (new[o].byte = 0 => o = at))
  <2>1. CASE o = at
    BY <1>5, <2>1, CellFields
  <2>2. CASE o \in data .. data + Snap(len) - 1
    <3>1. o - data + 1 # 0 /\ new[o] = Cell(k, o - data + 1, 0, 0, 0)
      BY <1>1, <1>6, <2>2
    <3> QED
      BY <3>1, CellFields
  <2> QED
    BY <1>7, <2>1, <2>2
<1> QED
  BY <1>2, <1>5, <1>9, <1>10, <1>11, <1>12

(* Closing a block changes the offset in its last frame, and nothing else.     *)
LEMMA ClosedCells ==
  ASSUME NEW cells \in [Cells -> CellType], NEW at \in Cells,
         NEW new, new = [cells EXCEPT ![at].next = 0]
  PROVE  /\ new \in [Cells -> CellType]
         /\ new[at] = [cells[at] EXCEPT !.next = 0]
         /\ \A o \in Cells : o # at => new[o] = cells[o]
         /\ \A o \in Cells : new[o].of = cells[o].of /\ new[o].byte = cells[o].byte
<1>1. cells[at] \in CellType
  OBVIOUS
<1>2. [cells[at] EXCEPT !.next = 0] \in CellType
  BY <1>1 DEF CellType
<1>3. /\ [cells[at] EXCEPT !.next = 0].of = cells[at].of
      /\ [cells[at] EXCEPT !.next = 0].byte = cells[at].byte
  BY <1>1 DEF CellType
<1>4. new = [cells EXCEPT ![at] = [cells[at] EXCEPT !.next = 0]]
  OBVIOUS
<1> QED
  BY <1>2, <1>3, <1>4

--------------------------------------------------------------------------------
(* A block that is left alone, closed, or written to.                          *)

(* What is laid out stays so while other packets are recorded.                 *)
LEMMA LaidKept ==
  ASSUME NEW cells, NEW stamps, NEW wire, NEW n \in Nat, NEW m \in Int,
         Laid(cells, stamps, wire, n, m),
         NEW other, \A j \in 1 .. n : other[j] = stamps[j],
         NEW more, Len(wire) \in Nat, Len(more) \in Nat, Len(wire) <= Len(more),
         \A k \in 1 .. Len(wire) : more[k] = wire[k]
  PROVE  Laid(cells, other, more, n, m)
<1>1. n >= 1 => Header(cells, FirstOffset, other[1])
  BY DEF Laid
<1>2. ASSUME NEW j \in 1 .. n
      PROVE  /\ other[j] \in 1 .. Len(more)
             /\ \A o \in Cells : Header(cells, o, other[j]) =>
                  /\ o + FrameSize(more[other[j]]) < BlockSize
                  /\ Whole(cells, o, other[j], Snap(more[other[j]]),
                           IF j <= m THEN FrameSize(more[other[j]]) ELSE 0)
                  /\ j < n => Header(cells, o + FrameSize(more[other[j]]), other[j + 1])
  <2>1. other[j] = stamps[j] /\ stamps[j] \in 1 .. Len(wire)
    BY DEF Laid
  <2>2. more[other[j]] = wire[stamps[j]]
    BY <2>1
  <2>3. j < n => other[j + 1] = stamps[j + 1]
    OBVIOUS
  <2> QED
    BY <2>1, <2>2, <2>3 DEF Laid
<1> QED
  BY <1>1, <1>2 DEF Laid

(* Only the last frame lies where the last frame is.                           *)
LEMMA OnlyLastAt ==
  ASSUME NEW cells, NEW stamps, NEW wire \in Seq(Lengths), NEW n \in Nat, NEW at,
         Laid(cells, stamps, wire, n, n), LastAt(cells, stamps, wire, n, at),
         NEW j \in 1 .. n, j # n
  PROVE  ~Header(cells, at, stamps[j])
<1> SUFFICES ASSUME Header(cells, at, stamps[j]) PROVE FALSE
  OBVIOUS
<1> DEFINE size(i) == FrameSize(wire[stamps[i]])
<1>1. at \in Cells /\ n \in 1 .. n /\ j + 1 \in 1 .. n /\ j < n /\ n >= 1
  BY DEF Header
<1>2. \A i \in 1 .. n : stamps[i] \in 1 .. Len(wire)
  BY DEF Laid
<1>3. \A i \in 1 .. n : size(i) \in Nat /\ size(i) > 0
  BY <1>2, WireSizes
<1>4. Header(cells, at, stamps[n])
  BY <1>1 DEF LastAt
<1>5. /\ cells[at] = Cell(stamps[n], 0, Snap(wire[stamps[n]]), MacOffset, size(n))
      /\ cells[at] = Cell(stamps[j], 0, Snap(wire[stamps[j]]), MacOffset, size(j))
  BY <1>1, <1>4 DEF Laid, Whole
<1>6. size(j) = size(n)
  BY <1>5, CellFields
<1>7. Header(cells, at + size(j), stamps[j + 1])
  BY <1>1 DEF Laid
<1>8. at + size(j) \in Cells /\ at + size(j) + size(j + 1) <= at + size(n)
  BY <1>1, <1>7 DEF LastAt, Header
<1> QED
  BY <1>1, <1>3, <1>6, <1>8 DEF Cells

(* A closed block has the offset in its last frame cleared.                    *)
LEMMA CloseBlock ==
  ASSUME NEW cells \in [Cells -> CellType], NEW stamps, NEW wire \in Seq(Lengths),
         NEW n \in Nat \ {0},
         Laid(cells, stamps, wire, n, n), LastAt(cells, stamps, wire, n, tail),
         NEW new, new = Closed(cells)
  PROVE  Laid(new, stamps, wire, n, n - 1)
<1>1. /\ Header(cells, tail, stamps[n])
      /\ \A o \in Cells : Header(cells, o, stamps[n]) => o = tail
  BY DEF LastAt
<1>2. tail \in Cells /\ cells[tail].byte = 0
  BY <1>1 DEF Header
<1>3. /\ new[tail] = [cells[tail] EXCEPT !.next = 0]
      /\ \A o \in Cells : o # tail => new[o] = cells[o]
      /\ \A o \in Cells : new[o].of = cells[o].of /\ new[o].byte = cells[o].byte
  BY <1>2, ClosedCells DEF Closed
<1>4. \A o, k : Header(new, o, k) <=> Header(cells, o, k)
  BY <1>3 DEF Header
<1>5. n >= 1 => Header(new, FirstOffset, stamps[1])
  BY <1>4 DEF Laid
<1>6. ASSUME NEW j \in 1 .. n
      PROVE  /\ stamps[j] \in 1 .. Len(wire)
             /\ \A o \in Cells : Header(new, o, stamps[j]) =>
                  /\ o + FrameSize(wire[stamps[j]]) < BlockSize
                  /\ Whole(new, o, stamps[j], Snap(wire[stamps[j]]),
                           IF j <= n - 1 THEN FrameSize(wire[stamps[j]]) ELSE 0)
                  /\ j < n => Header(new, o + FrameSize(wire[stamps[j]]), stamps[j + 1])
  <2> DEFINE k == stamps[j]
             snap == Snap(wire[k])
             size == FrameSize(wire[k])
  <2>1. k \in 1 .. Len(wire)
    BY DEF Laid
  <2>2. ASSUME NEW o \in Cells, Header(cells, o, k)
        PROVE  /\ o + size < BlockSize
               /\ cells[o] = Cell(k, 0, snap, MacOffset, size)
               /\ \A i \in 1 .. snap : cells[o + MacOffset + i - 1] = Cell(k, i, 0, 0, 0)
               /\ j < n => Header(cells, o + size, stamps[j + 1])
    BY <2>2 DEF Laid, Whole
  <2>3. /\ snap \in Nat /\ MacOffset \in Nat \ {0} /\ BlockSize \in Nat
        /\ size \in Nat /\ size >= MacOffset + snap
    BY <2>1, WireSizes
  <2>4. ASSUME NEW o \in Cells, Header(cells, o, k), NEW i \in 1 .. snap
        PROVE  new[o + MacOffset + i - 1] = Cell(k, i, 0, 0, 0)
    <3> DEFINE p == o + MacOffset + i - 1
    <3>1. p \in Cells
      BY <2>2, <2>3, <2>4 DEF Cells
    <3>2. cells[p] = Cell(k, i, 0, 0, 0)
      BY <2>2, <2>4
    <3>3. p # tail
      BY <1>2, <3>2, CellFields
    <3> QED
      BY <1>3, <3>1, <3>2, <3>3
  <2>5. ASSUME NEW o \in Cells, Header(cells, o, k)
        PROVE  new[o] = Cell(k, 0, snap, MacOffset, IF j <= n - 1 THEN size ELSE 0)
    <3>1. CASE j = n
      <4>1. o = tail
        BY <1>1, <2>5, <3>1
      <4>2. new[o] = Cell(k, 0, snap, MacOffset, 0)
        BY <1>3, <2>2, <2>5, <4>1 DEF Cell
      <4>3. (IF j <= n - 1 THEN size ELSE 0) = 0
        BY <3>1
      <4> QED
        BY <4>2, <4>3
    <3>2. CASE j # n
      <4>1. o # tail
        BY <2>5, <3>2, OnlyLastAt
      <4>2. (IF j <= n - 1 THEN size ELSE 0) = size
        BY <3>2
      <4> QED
        BY <1>3, <2>2, <2>5, <4>1, <4>2
    <3> QED
      BY <3>1, <3>2
  <2>6. \A o \in Cells : Header(cells, o, k) =>
          Whole(new, o, k, snap, IF j <= n - 1 THEN size ELSE 0)
    BY <2>4, <2>5 DEF Whole
  <2> QED
    BY <1>4, <2>1, <2>2, <2>6
<1> QED
  BY <1>5, <1>6 DEF Laid

(* A frame written behind the n that are there, or as the first one, is laid   *)
(* out with them.                                                              *)
Extends(cells, stamps, wire, n, before, at, len, new, other, more) ==
  /\ cells \in [Cells -> CellType] /\ wire \in Seq(Lengths)
  /\ \A o \in Cells : cells[o].of <= Len(wire)
  /\ len \in Lengths /\ at \in Nat /\ at + FrameSize(len) < BlockSize
  /\ n \in Nat
  /\ n = 0 => at = FirstOffset
  /\ n # 0 => /\ Laid(cells, stamps, wire, n, n)
              /\ LastAt(cells, stamps, wire, n, before)
              /\ at = before + FrameSize(wire[stamps[n]])
  /\ \A j \in 1 .. n : other[j] = stamps[j]
  /\ other[n + 1] = Len(wire) + 1
  /\ more = Append(wire, len)
  /\ new = Written(cells, at, Len(wire) + 1, len)

LEMMA WriteFrame ==
  ASSUME NEW cells, NEW stamps, NEW wire, NEW n, NEW before, NEW at, NEW len,
         NEW new, NEW other, NEW more,
         Extends(cells, stamps, wire, n, before, at, len, new, other, more)
  PROVE  /\ Laid(new, other, more, n + 1, n + 1)
         /\ LastAt(new, other, more, n + 1, at)
<1> SUFFICES ASSUME cells \in [Cells -> CellType], wire \in Seq(Lengths),
                    \A o \in Cells : cells[o].of <= Len(wire),
                    len \in Lengths, at \in Nat, at + FrameSize(len) < BlockSize,
                    n \in Nat,
                    n = 0 => at = FirstOffset,
                    n # 0 => /\ Laid(cells, stamps, wire, n, n)
                             /\ LastAt(cells, stamps, wire, n, before)
                             /\ at = before + FrameSize(wire[stamps[n]]),
                    \A j \in 1 .. n : other[j] = stamps[j],
                    other[n + 1] = Len(wire) + 1,
                    more = Append(wire, len),
                    new = Written(cells, at, Len(wire) + 1, len)
             PROVE  /\ Laid(new, other, more, n + 1, n + 1)
                    /\ LastAt(new, other, more, n + 1, at)
  BY DEF Extends
<1> DEFINE top == Len(wire) + 1
           size(j) == FrameSize(wire[stamps[j]])
<1>1. /\ Len(wire) \in Nat /\ top \in Nat /\ Len(more) = top
      /\ more[top] = len /\ \A i \in 1 .. Len(wire) : more[i] = wire[i]
  OBVIOUS
<1>2. /\ at \in Cells
      /\ new \in [Cells -> CellType]
      /\ new[at] = Cell(top, 0, Snap(len), MacOffset, FrameSize(len))
      /\ \A i \in 1 .. Snap(len) : new[at + MacOffset + i - 1] = Cell(top, i, 0, 0, 0)
      /\ \A o \in Cells : o < at \/ o >= at + FrameSize(len) => new[o] = cells[o]
      /\ \A o \in Cells : new[o] = cells[o]
                            \/ (new[o].of = top /\ (new[o].byte = 0 => o = at))
  BY <1>1, WrittenCells
<1>3. \A o \in Cells : cells[o].of \in Nat /\ cells[o].of < top
  BY <1>1 DEF CellType
<1>4. \A o \in Cells : Header(new, o, top) <=> o = at
  <2>1. new[at].of = top /\ new[at].byte = 0
    BY <1>2, CellFields
  <2> QED
    BY <1>1, <1>2, <1>3, <2>1 DEF Header
<1>5. ASSUME NEW j \in 1 .. n
      PROVE  /\ stamps[j] \in 1 .. Len(wire) /\ stamps[j] # top
             /\ more[stamps[j]] = wire[stamps[j]]
             /\ Snap(wire[stamps[j]]) \in Nat \ {0} /\ size(j) \in Nat
             /\ size(j) >= MacOffset + Snap(wire[stamps[j]]) /\ size(j) > 0
             /\ MacOffset \in Nat \ {0} /\ BlockSize \in Nat
  <2>1. stamps[j] \in 1 .. Len(wire)
    BY DEF Laid
  <2>2. stamps[j] # top /\ more[stamps[j]] = wire[stamps[j]]
    BY <1>1, <2>1
  <2> DEFINE k == stamps[j]
  <2>3. k \in 1 .. Len(wire)
    BY <2>1
  <2> HIDE DEF k
  <2>4. /\ Snap(wire[k]) \in Nat \ {0} /\ FrameSize(wire[k]) \in Nat
        /\ FrameSize(wire[k]) >= MacOffset + Snap(wire[k]) /\ FrameSize(wire[k]) > 0
        /\ MacOffset \in Nat \ {0} /\ BlockSize \in Nat
    BY <2>3, WireSizes
  <2> QED
    BY <2>1, <2>2, <2>4 DEF k
<1>6. ASSUME NEW j \in 1 .. n, NEW o \in Cells, Header(new, o, stamps[j])
      PROVE  Header(cells, o, stamps[j])
  <2>1. stamps[j] # top
    BY <1>5
  <2>2. new[o] = cells[o]
    BY <1>2, <1>6, <2>1 DEF Header
  <2> QED
    BY <1>6, <2>2 DEF Header
<1>7. ASSUME NEW j \in 1 .. n, NEW o \in Cells, Header(cells, o, stamps[j])
      PROVE  o + size(j) <= at /\ o < at /\ (j = n => o + size(j) = at)
  <2>1. o + size(j) <= at /\ (j = n => o = before)
    BY <1>7 DEF LastAt
  <2>2. o \in Nat /\ size(j) \in Nat /\ size(j) > 0 /\ at = before + size(n)
    <3>1. size(j) \in Nat /\ size(j) > 0
      BY <1>5
    <3>2. n # 0
      OBVIOUS
    <3> QED
      BY <3>1, <3>2 DEF Cells
  <2>3. j = n => o + size(j) = at
    BY <2>1, <2>2
  <2> QED
    BY <2>1, <2>2, <2>3
<1>8. ASSUME NEW j \in 1 .. n, NEW o \in Cells, Header(cells, o, stamps[j])
      PROVE  /\ o + size(j) < BlockSize
             /\ Whole(new, o, stamps[j], Snap(wire[stamps[j]]), size(j))
             /\ Header(new, o, stamps[j])
             /\ j < n => Header(cells, o + size(j), stamps[j + 1])
  <2>1. /\ o + size(j) < BlockSize
        /\ cells[o] = Cell(stamps[j], 0, Snap(wire[stamps[j]]), MacOffset, size(j))
        /\ \A i \in 1 .. Snap(wire[stamps[j]]) :
             cells[o + MacOffset + i - 1] = Cell(stamps[j], i, 0, 0, 0)
        /\ j < n => Header(cells, o + size(j), stamps[j + 1])
    <3>1. j <= n /\ Laid(cells, stamps, wire, n, n)
      OBVIOUS
    <3> QED
      BY <1>8, <3>1 DEF Laid, Whole
  <2>2. new[o] = cells[o]
    BY <1>2, <1>7, <1>8
  <2>3. ASSUME NEW i \in 1 .. Snap(wire[stamps[j]])
        PROVE  new[o + MacOffset + i - 1] = Cell(stamps[j], i, 0, 0, 0)
    <3> DEFINE p == o + MacOffset + i - 1
    <3>1. /\ o + size(j) <= at /\ o \in Nat /\ size(j) \in Nat
          /\ size(j) >= MacOffset + Snap(wire[stamps[j]])
          /\ MacOffset \in Nat \ {0} /\ Snap(wire[stamps[j]]) \in Nat
          /\ BlockSize \in Nat /\ at \in 0 .. BlockSize - 1
      BY <1>2, <1>5, <1>7, <1>8 DEF Cells
    <3>2. p \in Nat /\ p < at
      BY <3>1
    <3>3. p \in Cells
      BY <3>1, <3>2 DEF Cells
    <3>4. cells[p] = Cell(stamps[j], i, 0, 0, 0)
      BY <2>1
    <3> HIDE DEF p
    <3>5. new[p] = cells[p]
      BY <1>2, <3>2, <3>3
    <3> QED
      BY <3>4, <3>5 DEF p
  <2>4. Header(new, o, stamps[j])
    BY <1>8, <2>2 DEF Header
  <2> QED
    BY <2>1, <2>2, <2>3, <2>4 DEF Whole
<1>9. ASSUME NEW j \in 1 .. n, NEW o \in Cells, Header(cells, o, stamps[j])
      PROVE  Header(new, o + size(j), other[j + 1])
  <2>1. CASE j < n
    <3>1. o + size(j) \in Cells /\ Header(cells, o + size(j), stamps[j + 1])
      BY <1>8, <1>9, <2>1 DEF Header
    <3>2. j + 1 \in 1 .. n /\ other[j + 1] = stamps[j + 1]
      BY <2>1
    <3> QED
      BY <1>8, <3>1, <3>2
  <2>2. CASE j = n
    <3>1. o + size(j) = at /\ other[j + 1] = top
      BY <1>7, <1>9, <2>2
    <3> QED
      BY <1>2, <1>4, <3>1
  <2> QED
    BY <2>1, <2>2
<1>10. n + 1 >= 1 => Header(new, FirstOffset, other[1])
  <2>1. CASE n = 0
    BY <1>2, <1>4, <2>1
  <2>2. CASE n # 0
    <3>1. 1 \in 1 .. n /\ other[1] = stamps[1] /\ Header(cells, FirstOffset, stamps[1])
      BY <2>2 DEF Laid
    <3>2. FirstOffset \in Cells
      BY <3>1 DEF Header
    <3> QED
      BY <1>8, <3>1, <3>2
  <2> QED
    BY <2>1, <2>2
<1>11. ASSUME NEW j \in 1 .. n + 1
       PROVE  /\ other[j] \in 1 .. Len(more)
              /\ \A o \in Cells : Header(new, o, other[j]) =>
                   /\ o + FrameSize(more[other[j]]) < BlockSize
                   /\ Whole(new, o, other[j], Snap(more[other[j]]), FrameSize(more[other[j]]))
                   /\ j < n + 1 => Header(new, o + FrameSize(more[other[j]]), other[j + 1])
  <2>1. CASE j \in 1 .. n
    <3>1. /\ other[j] = stamps[j] /\ more[other[j]] = wire[stamps[j]]
          /\ other[j] \in 1 .. Len(more)
      <4>1. /\ stamps[j] \in 1 .. Len(wire) /\ more[stamps[j]] = wire[stamps[j]]
        BY <1>5, <2>1
      <4>2. other[j] = stamps[j]
        BY <2>1
      <4>3. 1 .. Len(wire) \subseteq 1 .. Len(more)
        BY <1>1
      <4> QED
        BY <4>1, <4>2, <4>3
    <3>2. \A o \in Cells : Header(new, o, stamps[j]) =>
            /\ o + size(j) < BlockSize
            /\ Whole(new, o, stamps[j], Snap(wire[stamps[j]]), size(j))
            /\ Header(new, o + size(j), other[j + 1])
      BY <1>6, <1>8, <1>9, <2>1
    <3> QED
      BY <3>1, <3>2
  <2>2. CASE j = n + 1
    <3>1. other[j] = top /\ more[other[j]] = len /\ top \in 1 .. Len(more) /\ ~(j < n + 1)
      BY <1>1, <2>2
    <3>2. Whole(new, at, top, Snap(len), FrameSize(len))
      BY <1>2 DEF Whole
    <3> QED
      BY <1>4, <3>1, <3>2
  <2> QED
    BY <2>1, <2>2
<1>12. Laid(new, other, more, n + 1, n + 1)
  <2>1. \A j \in 1 .. n + 1 : j <= n + 1
    OBVIOUS
  <2> QED
    BY <1>10, <1>11, <2>1 DEF Laid
<1>13. FrameSize(len) \in Nat
  BY FrameHolds
<1>14. ASSUME NEW j \in 1 .. n + 1, NEW o \in Cells, Header(new, o, other[j])
       PROVE  /\ o + FrameSize(more[other[j]]) <= at + FrameSize(more[other[n + 1]])
              /\ j = n + 1 => o = at
  <2>1. CASE j \in 1 .. n
    <3>1. Header(cells, o, stamps[j]) /\ other[j] = stamps[j] /\ more[other[j]] = wire[stamps[j]]
      BY <1>5, <1>6, <1>14, <2>1
    <3>2. /\ o + size(j) <= at /\ more[other[n + 1]] = len
          /\ FrameSize(more[other[j]]) = size(j)
      BY <1>1, <1>7, <2>1, <3>1
    <3>3. o + size(j) \in Nat /\ at \in Nat /\ j # n + 1
      <4>1. size(j) \in Nat
        BY <1>5, <2>1
      <4>2. o \in Nat /\ n \in Nat
        BY DEF Cells
      <4> QED
        BY <2>1, <4>1, <4>2
    <3>4. o + size(j) <= at + FrameSize(len)
      <4> DEFINE a == o + size(j)
                 f == FrameSize(len)
      <4>1. a \in Nat /\ f \in Nat /\ a <= at
        BY <1>13, <3>2, <3>3
      <4> HIDE DEF a, f
      <4>2. a <= at + f
        BY <4>1
      <4> QED
        BY <4>2 DEF a, f
    <3> QED
      BY <3>2, <3>3, <3>4
  <2>2. CASE j = n + 1
    <3>1. other[j] = top /\ other[n + 1] = top /\ more[top] = len
      BY <1>1, <2>2
    <3>2. o = at
      BY <1>4, <1>14, <3>1
    <3>3. at + FrameSize(len) <= at + FrameSize(len)
      BY <1>13
    <3> QED
      BY <3>1, <3>2, <3>3
  <2>3. j \in 1 .. n \/ j = n + 1
    OBVIOUS
  <2> QED
    BY <2>1, <2>2, <2>3
<1>15. LastAt(new, other, more, n + 1, at)
  BY <1>2, <1>4, <1>14 DEF LastAt
<1> QED
  BY <1>12, <1>15

--------------------------------------------------------------------------------
(* The kernel's steps.                                                         *)

LEMMA FrameTypes ==
  ASSUME IInv, FrameInv
  PROVE  /\ kactive \in Blocks /\ NextBlock(kactive) \in Blocks
         /\ recorded \in Nat /\ delivered \in Nat /\ delivered <= recorded
         /\ numPkts[kactive] \in 0 .. BlockCap /\ ActiveNum \in Nat
         /\ lens \in Seq(Lengths) /\ Len(lens) = recorded
         /\ \A b \in Blocks : /\ memory[b] \in [Cells -> CellType]
                              /\ \A o \in Cells : memory[b][o].of <= recorded
                              /\ numPkts[b] \in Nat
<1>1. TypeOK /\ InOrder
  BY InvInOrder DEF IInv
<1> QED
  BY <1>1, RingTypes, CellTypes, ActiveTypes DEF FrameInv, MemoryTypes, TypeOK, InOrder

LEMMA FrameInitial == FrameInit => FrameInv
<1> SUFFICES ASSUME FrameInit PROVE FrameInv
  OBVIOUS
<1>1. Init /\ memory = [b \in Blocks |-> [o \in Cells |-> Blank]] /\ lens = <<>> /\ offset = FirstOffset
  BY DEF FrameInit, Cells
<1>2. /\ recorded = 0 /\ delivered = 0 /\ cursor = NoCursor
      /\ queue = "running" /\ kactive \in Blocks /\ numPkts[kactive] = 0
      /\ \A b \in Blocks : ~InUse(b)
  <2>1. \A b \in Blocks : ~InUse(b)
    BY <1>1, StatusWords DEF Init, InUse
  <2>2. kactive \in Blocks
    BY <1>1, TypeInit DEF TypeOK
  <2> QED
    BY <1>1, <2>1, <2>2 DEF Init
<1>3. Blank \in CellType /\ Blank.of = 0
  BY CellFields DEF Blank, Cell, CellType
<1>4. MemoryTypes
  <2>1. memory \in [Blocks -> [Cells -> CellType]]
    BY <1>1, <1>3
  <2>2. lens \in Seq(Lengths) /\ Len(lens) = 0
    BY <1>1
  <2>3. \A b \in Blocks, o \in Cells : memory[b][o].of <= recorded
    BY <1>1, <1>2, <1>3
  <2> QED
    BY <1>1, <1>2, <2>1, <2>2, <2>3, Sizes DEF MemoryTypes
<1>5. ActiveNum = 0
  BY <1>2 DEF ActiveNum, Frozen
<1>6. ActiveLaid
  BY <1>5 DEF ActiveLaid, Laid, LastAt
<1>7. UsedLaid /\ ReaderOnFrame /\ PacketIntact
  BY <1>2 DEF UsedLaid, ReaderOnFrame, HasFrame, PacketIntact
<1> QED
  BY <1>4, <1>6, <1>7 DEF FrameInv

(* The next frame goes behind the last one.                                    *)
LEMMA FillBehind ==
  ASSUME IInv, FrameInv, ~Frozen
  PROVE  /\ FillOffset \in Nat
         /\ ActiveNum = 0 => FillOffset = FirstOffset
         /\ ActiveNum # 0 => FillOffset = tail + FrameSize(lens[frames[kactive][ActiveNum]])
<1>1. ActiveNum = numPkts[kactive] /\ ActiveNum \in Nat
  BY FrameTypes DEF ActiveNum
<1>2. CASE ActiveNum = 0
  BY <1>1, <1>2, Sizes DEF FillOffset
<1>3. CASE ActiveNum # 0
  <2> DEFINE n == ActiveNum
             k == frames[kactive][n]
  <2>1. /\ n \in 1 .. n /\ n >= 1
        /\ Laid(memory[kactive], frames[kactive], lens, n, n)
        /\ Header(memory[kactive], tail, k)
    BY <1>1, <1>3 DEF FrameInv, ActiveLaid, LastAt
  <2>2. tail \in Cells /\ k \in 1 .. Len(lens)
    BY <2>1 DEF Header, Laid
  <2>3. memory[kactive][tail] = Cell(k, 0, Snap(lens[k]), MacOffset, FrameSize(lens[k]))
    BY <2>1, <2>2 DEF Laid, Whole
  <2>4. memory[kactive][tail].next = FrameSize(lens[k])
    BY <2>3, CellFields
  <2>5. FillOffset = tail + FrameSize(lens[k])
    BY <1>1, <1>3, <2>4 DEF FillOffset
  <2>6. lens \in Seq(Lengths) /\ BlockSize \in Nat
    BY FrameTypes, Sizes
  <2>7. FrameSize(lens[k]) \in Nat
    BY <2>2, <2>6, WireSizes
  <2>8. tail \in Nat
    BY <2>2, <2>6 DEF Cells
  <2> QED
    BY <1>3, <2>5, <2>7, <2>8
<1> QED
  BY <1>2, <1>3

(* What the reader holds stays as it is.                                       *)
LEMMA KernelSpares ==
  ASSUME IInv, FrameInv, UNCHANGED <<reader, offset, packet>>,
         \A b \in Blocks : InUse(b) =>
           memory'[b] = memory[b] /\ frames'[b] = frames[b] /\ numPkts'[b] = numPkts[b],
         recorded' \in Nat, recorded <= recorded', Len(lens') = recorded',
         \A k \in 1 .. recorded : lens'[k] = lens[k]
  PROVE  /\ \A b \in Blocks : InUse(b) =>
              Laid(memory'[b], frames'[b], lens', numPkts'[b], numPkts'[b] - 1)
         /\ ReaderOnFrame'
         /\ PacketIntact'
<1>1. /\ lens \in Seq(Lengths) /\ Len(lens) = recorded /\ recorded \in Nat
      /\ delivered \in Nat /\ delivered <= recorded
      /\ \A b \in Blocks : numPkts[b] \in Nat
  BY FrameTypes
<1>2. ASSUME NEW b \in Blocks, InUse(b)
      PROVE  Laid(memory'[b], frames'[b], lens', numPkts'[b], numPkts'[b] - 1)
  <2>1. Laid(memory[b], frames[b], lens, numPkts[b], numPkts[b] - 1)
    BY <1>2 DEF FrameInv, UsedLaid
  <2>2. Laid(memory[b], frames[b], lens', numPkts[b], numPkts[b] - 1)
    BY <1>1, <2>1, LaidKept
  <2> QED
    BY <1>2, <2>2
<1>3. ReaderOnFrame'
  <2> SUFFICES ASSUME HasFrame'
               PROVE  Header(memory'[cursor'.block], offset', frames'[cursor'.block][cursor'.next])
    BY DEF ReaderOnFrame
  <2>1. HasFrame /\ cursor' = cursor /\ offset' = offset
    BY DEF HasFrame
  <2>2. cursor.block \in Blocks /\ InUse(cursor.block)
    BY <2>1 DEF IInv, CursorInv, TypeOK, HasFrame
  <2>3. Header(memory[cursor.block], offset, frames[cursor.block][cursor.next])
    BY <2>1 DEF FrameInv, ReaderOnFrame
  <2> QED
    BY <2>1, <2>2, <2>3
<1>4. PacketIntact'
  <2>1. delivered > 0 => lens'[delivered] = lens[delivered]
    BY <1>1
  <2> QED
    BY <2>1 DEF FrameInv, PacketIntact, Payload
<1> QED
  BY <1>2, <1>3, <1>4


(* What filling the active block changes.                                      *)
LEMMA FillFacts ==
  ASSUME TypeOK, NEW n \in 0 .. BlockCap, FillActive(n)
  PROVE  /\ \A j \in 1 .. n : frames'[kactive][j] = frames[kactive][j]
         /\ frames'[kactive][n + 1] = recorded + 1
         /\ numPkts'[kactive] = n + 1
         /\ recorded' = recorded + 1
         /\ \A b \in Blocks : b # kactive => frames'[b] = frames[b] /\ numPkts'[b] = numPkts[b]
<1>1. n + 1 \in 1 .. BlockCap /\ \A j \in 1 .. n : j \in 1 .. BlockCap /\ j # n + 1
  BY RingAssumption DEF FillActive
<1>2. frames' = [frames EXCEPT ![kactive] = [frames[kactive] EXCEPT ![n + 1] = recorded + 1]]
  BY DEF FillActive
<1>3. frames[kactive] \in [1 .. BlockCap -> Nat]
  BY RingTypes
<1>4. frames'[kactive] = [frames[kactive] EXCEPT ![n + 1] = recorded + 1]
  BY <1>2, RingTypes
<1>5. /\ \A j \in 1 .. n : frames'[kactive][j] = frames[kactive][j]
      /\ frames'[kactive][n + 1] = recorded + 1
  BY <1>1, <1>3, <1>4
<1>6. \A b \in Blocks : b # kactive => frames'[b] = frames[b]
  BY <1>2, RingTypes
<1>7. /\ numPkts'[kactive] = n + 1
      /\ \A b \in Blocks : b # kactive => numPkts'[b] = numPkts[b]
  BY RingTypes DEF FillActive
<1> QED
  BY <1>5, <1>6, <1>7 DEF FillActive

(* A packet is stored: memory is of its type, the packets before it keep their *)
(* lengths.                                                                    *)
LEMMA MemoryWritten ==
  ASSUME IInv, FrameInv,
         NEW before \in [Blocks -> [Cells -> CellType]],
         \A b \in Blocks, o \in Cells : before[b][o].of <= recorded,
         NEW into \in Blocks, NEW len \in Lengths,
         NEW at \in Nat, at + FrameSize(len) < BlockSize,
         memory' = [before EXCEPT ![into] = Written(before[into], at, recorded + 1, len)],
         recorded' = recorded + 1, lens' = Append(lens, len), offset' = offset
  PROVE  /\ MemoryTypes'
         /\ memory'[into] = Written(before[into], at, recorded + 1, len)
         /\ \A b \in Blocks : b # into => memory'[b] = before[b]
         /\ recorded' \in Nat /\ recorded <= recorded' /\ Len(lens') = recorded'
         /\ \A k \in 1 .. recorded : lens'[k] = lens[k]
<1>1. lens \in Seq(Lengths) /\ Len(lens) = recorded /\ recorded \in Nat /\ offset \in Nat
  BY FrameTypes DEF FrameInv, MemoryTypes
<1>2. /\ lens' \in Seq(Lengths) /\ Len(lens') = recorded'
      /\ \A k \in 1 .. recorded : lens'[k] = lens[k]
  BY <1>1
<1> DEFINE new == Written(before[into], at, recorded + 1, len)
<1>3. before[into] \in [Cells -> CellType] /\ recorded + 1 \in Nat
  BY <1>1
<1>4. /\ new \in [Cells -> CellType]
      /\ \A o \in Cells : new[o] = before[into][o] \/ new[o].of = recorded + 1
  BY <1>3, WrittenCells
<1>5. memory'[into] = new /\ \A b \in Blocks : b # into => memory'[b] = before[b]
  OBVIOUS
<1> HIDE DEF new
<1>6. memory' \in [Blocks -> [Cells -> CellType]]
  BY <1>4 DEF new
<1>7. \A o \in Cells : before[into][o].of \in Nat /\ before[into][o].of <= recorded
  BY <1>3 DEF CellType
<1>8. \A o \in Cells : new[o].of <= recorded'
  BY <1>1, <1>4, <1>7
<1>9. ASSUME NEW b \in Blocks, NEW o \in Cells, b # into
      PROVE  before[b][o].of <= recorded'
  <2>1. before[b][o].of \in Nat /\ before[b][o].of <= recorded
    BY DEF CellType
  <2> QED
    BY <1>1, <2>1
<1>10. \A b \in Blocks, o \in Cells : memory'[b][o].of <= recorded'
  BY <1>5, <1>8, <1>9
<1>11. MemoryTypes'
  BY <1>1, <1>2, <1>6, <1>10 DEF MemoryTypes
<1> QED
  BY <1>1, <1>2, <1>5, <1>11 DEF new

(* The frames of the block that is filled, after a packet was added to them.   *)
LEMMA ActiveFilled ==
  ASSUME IInv, FrameInv, NEW n \in Nat, n = 0 \/ (n = ActiveNum /\ ~Frozen),
         NEW len \in Lengths, NEW at \in Nat, at + FrameSize(len) < BlockSize,
         n = 0 => at = FirstOffset,
         n # 0 => at = tail + FrameSize(lens[frames[kactive][n]]),
         NEW cells \in [Cells -> CellType],
         \A o \in Cells : cells[o].of <= recorded,
         n # 0 => cells = memory[kactive],
         memory'[kactive'] = Written(cells, at, recorded + 1, len),
         \A j \in 1 .. n : frames'[kactive'][j] = frames[kactive][j],
         frames'[kactive'][n + 1] = recorded + 1,
         ActiveNum' = n + 1, lens' = Append(lens, len), tail' = at
  PROVE  ActiveLaid'
<1>1. lens \in Seq(Lengths) /\ Len(lens) = recorded /\ recorded \in Nat
  BY FrameTypes
<1>2. n # 0 => /\ Laid(cells, frames[kactive], lens, n, n)
               /\ LastAt(cells, frames[kactive], lens, n, tail)
  BY DEF FrameInv, ActiveLaid
<1> DEFINE stamps == frames[kactive]
           other == frames'[kactive']
           new == memory'[kactive']
           more == lens'
<1>3. /\ \A o \in Cells : cells[o].of <= Len(lens)
      /\ other[n + 1] = Len(lens) + 1
      /\ new = Written(cells, at, Len(lens) + 1, len)
  BY <1>1
<1>4. /\ \A j \in 1 .. n : other[j] = stamps[j]
      /\ more = Append(lens, len)
      /\ n # 0 => /\ Laid(cells, stamps, lens, n, n)
                  /\ LastAt(cells, stamps, lens, n, tail)
                  /\ at = tail + FrameSize(lens[stamps[n]])
  BY <1>2
<1> HIDE DEF stamps, other, new, more
<1>5. Extends(cells, stamps, lens, n, tail, at, len, new, other, more)
  BY <1>1, <1>3, <1>4 DEF Extends
<1>6. /\ Laid(new, other, more, n + 1, n + 1)
      /\ LastAt(new, other, more, n + 1, at)
  BY <1>5, WriteFrame
<1> QED
  BY <1>6 DEF ActiveLaid, stamps, other, new, more


(* The packet fits behind the others.                                          *)
LEMMA FrameRecordStep ==
  ASSUME IInv, FrameInv, FrameRecord
  PROVE  FrameInv'
<1>1. PICK len \in Lengths :
        /\ Fits(len)
        /\ memory' = [memory EXCEPT ![kactive] = Written(memory[kactive], FillOffset, recorded', len)]
        /\ Keep(FillOffset, len)
  BY DEF FrameRecord
<1>2. /\ Record /\ ~Frozen /\ kactive' = kactive /\ queue' = queue /\ status' = status
      /\ FillActive(numPkts[kactive]) /\ UNCHANGED reader
  BY DEF FrameRecord, Record
<1>3. TypeOK /\ kactive \in Blocks /\ recorded \in Nat /\ numPkts[kactive] \in 0 .. BlockCap
  BY FrameTypes DEF IInv
<1>4. /\ ActiveNum = numPkts[kactive] /\ ActiveNum \in Nat
      /\ \A j \in 1 .. ActiveNum : frames'[kactive][j] = frames[kactive][j]
      /\ frames'[kactive][ActiveNum + 1] = recorded + 1
      /\ numPkts'[kactive] = ActiveNum + 1
      /\ recorded' = recorded + 1
      /\ \A b \in Blocks : b # kactive => frames'[b] = frames[b] /\ numPkts'[b] = numPkts[b]
  BY <1>2, <1>3, FillFacts DEF ActiveNum
<1>5. /\ FillOffset \in Nat
      /\ ActiveNum = 0 => FillOffset = FirstOffset
      /\ ActiveNum # 0 => FillOffset = tail + FrameSize(lens[frames[kactive][ActiveNum]])
  BY <1>2, FillBehind
<1>6. /\ FillOffset + FrameSize(len) < BlockSize
      /\ tail' = FillOffset /\ lens' = Append(lens, len) /\ UNCHANGED <<offset, packet>>
  BY <1>1 DEF Fits, Keep
<1>7. memory' = [memory EXCEPT ![kactive] = Written(memory[kactive], FillOffset, recorded + 1, len)]
  BY <1>1, <1>4
<1>8. /\ memory \in [Blocks -> [Cells -> CellType]]
      /\ \A b \in Blocks, o \in Cells : memory[b][o].of <= recorded
  BY DEF FrameInv, MemoryTypes
<1> DEFINE at == FillOffset
<1> HIDE DEF at
<1>9. /\ MemoryTypes'
      /\ memory'[kactive] = Written(memory[kactive], at, recorded + 1, len)
      /\ \A b \in Blocks : b # kactive => memory'[b] = memory[b]
      /\ recorded' \in Nat /\ recorded <= recorded' /\ Len(lens') = recorded'
      /\ \A k \in 1 .. recorded : lens'[k] = lens[k]
  BY <1>3, <1>4, <1>5, <1>6, <1>7, <1>8, MemoryWritten DEF at
<1>10. ActiveNum' = ActiveNum + 1
  BY <1>2, <1>4 DEF ActiveNum, Frozen
<1>11. ActiveLaid'
  <2>1. /\ memory[kactive] \in [Cells -> CellType]
        /\ \A o \in Cells : memory[kactive][o].of <= recorded
    BY <1>3, <1>8
  <2> DEFINE m == ActiveNum
  <2>2. /\ m \in Nat /\ m = ActiveNum /\ ~Frozen
        /\ at \in Nat /\ at + FrameSize(len) < BlockSize
        /\ m = 0 => at = FirstOffset
        /\ m # 0 => at = tail + FrameSize(lens[frames[kactive][m]])
    BY <1>2, <1>4, <1>5, <1>6 DEF at
  <2>3. /\ memory'[kactive'] = Written(memory[kactive], at, recorded + 1, len)
        /\ \A j \in 1 .. m : frames'[kactive'][j] = frames[kactive][j]
        /\ frames'[kactive'][m + 1] = recorded + 1
    BY <1>2, <1>4, <1>9
  <2>4. ActiveNum' = m + 1 /\ lens' = Append(lens, len) /\ tail' = at
    BY <1>6, <1>10 DEF at
  <2> HIDE DEF m
  <2> QED
    BY <2>1, <2>2, <2>3, <2>4, ActiveFilled
<1>12. \A b \in Blocks : InUse(b) => b # kactive
  BY <1>2 DEF IInv, Window
<1>13. /\ \A b \in Blocks : InUse(b) =>
            Laid(memory'[b], frames'[b], lens', numPkts'[b], numPkts'[b] - 1)
       /\ ReaderOnFrame' /\ PacketIntact'
  BY <1>2, <1>4, <1>6, <1>9, <1>12, KernelSpares
<1>14. UsedLaid'
  BY <1>2, <1>13 DEF UsedLaid, InUse
<1> QED
  BY <1>9, <1>11, <1>13, <1>14 DEF FrameInv

(* The packet opens the block that was waited for.                             *)
LEMMA FrameThawRecordStep ==
  ASSUME IInv, FrameInv, FrameThawRecord
  PROVE  FrameInv'
<1>1. PICK len \in Lengths :
        /\ memory' = [memory EXCEPT ![kactive] = Written(memory[kactive], FirstOffset, recorded', len)]
        /\ Keep(FirstOffset, len)
  BY DEF FrameThawRecord
<1>2. /\ ThawRecord /\ ~InUse(kactive) /\ kactive' = kactive /\ queue' = "running"
      /\ status' = status /\ FillActive(0) /\ UNCHANGED reader
  BY DEF FrameThawRecord, ThawRecord
<1>3. TypeOK /\ kactive \in Blocks /\ recorded \in Nat /\ 0 \in 0 .. BlockCap /\ 0 + 1 = 1
  BY FrameTypes, RingAssumption DEF IInv
<1>4. /\ frames'[kactive][1] = recorded + 1
      /\ numPkts'[kactive] = 1
      /\ recorded' = recorded + 1
      /\ \A b \in Blocks : b # kactive => frames'[b] = frames[b] /\ numPkts'[b] = numPkts[b]
  BY <1>2, <1>3, FillFacts
<1>5. /\ FirstOffset \in Nat /\ FirstOffset + FrameSize(len) < BlockSize
      /\ tail' = FirstOffset /\ lens' = Append(lens, len) /\ UNCHANGED <<offset, packet>>
  BY <1>1, Sizes DEF Keep
<1>6. memory' = [memory EXCEPT ![kactive] = Written(memory[kactive], FirstOffset, recorded + 1, len)]
  BY <1>1, <1>4
<1>7. /\ memory \in [Blocks -> [Cells -> CellType]]
      /\ \A b \in Blocks, o \in Cells : memory[b][o].of <= recorded
  BY DEF FrameInv, MemoryTypes
<1>8. /\ MemoryTypes'
      /\ memory'[kactive] = Written(memory[kactive], FirstOffset, recorded + 1, len)
      /\ \A b \in Blocks : b # kactive => memory'[b] = memory[b]
      /\ recorded' \in Nat /\ recorded <= recorded' /\ Len(lens') = recorded'
      /\ \A k \in 1 .. recorded : lens'[k] = lens[k]
  BY <1>3, <1>4, <1>5, <1>6, <1>7, MemoryWritten
<1>9. ActiveNum' = 0 + 1
  BY <1>2, <1>4 DEF ActiveNum, Frozen
<1>10. ActiveLaid'
  <2>1. /\ memory[kactive] \in [Cells -> CellType]
        /\ \A o \in Cells : memory[kactive][o].of <= recorded
    BY <1>3, <1>7
  <2>2. /\ 0 \in Nat /\ \A j \in 1 .. 0 : frames'[kactive'][j] = frames[kactive][j]
        /\ memory'[kactive'] = Written(memory[kactive], FirstOffset, recorded + 1, len)
        /\ frames'[kactive'][0 + 1] = recorded + 1
    BY <1>2, <1>4, <1>8
  <2> QED
    BY <1>5, <1>9, <2>1, <2>2, ActiveFilled
<1>11. \A b \in Blocks : InUse(b) => b # kactive
  BY <1>2
<1>12. /\ \A b \in Blocks : InUse(b) =>
            Laid(memory'[b], frames'[b], lens', numPkts'[b], numPkts'[b] - 1)
       /\ ReaderOnFrame' /\ PacketIntact'
  BY <1>2, <1>4, <1>5, <1>8, <1>11, KernelSpares
<1>13. UsedLaid'
  BY <1>2, <1>12 DEF UsedLaid, InUse
<1> QED
  BY <1>8, <1>10, <1>12, <1>13 DEF FrameInv


(* The block that is handed over is closed, the others are left alone.         *)
LEMMA ClosesActive ==
  ASSUME IInv, FrameInv, NEW st, "USER" \in st, Retire(st),
         NEW before, before = [memory EXCEPT ![kactive] = Closed(memory[kactive])]
  PROVE  /\ before \in [Blocks -> [Cells -> CellType]]
         /\ \A b \in Blocks, o \in Cells : before[b][o].of <= recorded
         /\ \A b \in Blocks : b # kactive => before[b] = memory[b]
         /\ Laid(before[kactive], frames[kactive], lens, numPkts[kactive], numPkts[kactive] - 1)
         /\ ~InUse(kactive)
         /\ \A b \in Blocks : InUse(b)' => InUse(b) \/ b = kactive
<1>1. /\ kactive \in Blocks /\ lens \in Seq(Lengths)
      /\ numPkts[kactive] \in Nat \ {0} /\ ActiveNum = numPkts[kactive]
      /\ memory \in [Blocks -> [Cells -> CellType]]
      /\ \A b \in Blocks, o \in Cells : memory[b][o].of <= recorded
  BY FrameTypes DEF Retire, ActiveNum, FrameInv, MemoryTypes
<1>2. /\ Laid(memory[kactive], frames[kactive], lens, numPkts[kactive], numPkts[kactive])
      /\ LastAt(memory[kactive], frames[kactive], lens, numPkts[kactive], tail)
  BY <1>1 DEF FrameInv, ActiveLaid
<1> DEFINE new == Closed(memory[kactive])
<1>3. tail \in Cells
  BY <1>1, <1>2 DEF LastAt, Header
<1>4. /\ new \in [Cells -> CellType]
      /\ \A o \in Cells : new[o].of = memory[kactive][o].of
  <2> DEFINE cells == memory[kactive]
  <2>1. cells \in [Cells -> CellType]
    BY <1>1
  <2>2. new = [cells EXCEPT ![tail].next = 0]
    BY DEF Closed
  <2> HIDE DEF cells, new
  <2>3. new \in [Cells -> CellType] /\ \A o \in Cells : new[o].of = cells[o].of
    BY <1>3, <2>1, <2>2, ClosedCells
  <2> QED
    BY <2>3 DEF cells
<1>5. before[kactive] = new /\ \A b \in Blocks : b # kactive => before[b] = memory[b]
  BY <1>1
<1>6. Laid(new, frames[kactive], lens, numPkts[kactive], numPkts[kactive] - 1)
  BY <1>1, <1>2, CloseBlock DEF Closed
<1> HIDE DEF new
<1>7. before \in [Blocks -> [Cells -> CellType]]
  BY <1>1, <1>4 DEF new
<1>8. \A b \in Blocks, o \in Cells : before[b][o].of <= recorded
  BY <1>1, <1>4, <1>5
<1>9. ~InUse(kactive)
  BY DEF Retire, IInv, Window
<1>10. \A b \in Blocks : InUse(b)' => InUse(b) \/ b = kactive
  BY <1>1 DEF Retire, InUse, IInv, TypeOK
<1> QED
  BY <1>5, <1>6, <1>7, <1>8, <1>9, <1>10

(* The packet does not fit: it becomes the first of the next block.            *)
LEMMA FrameRetireRecordStep ==
  ASSUME IInv, FrameInv, FrameRetireRecord
  PROVE  FrameInv'
<1> DEFINE next == NextBlock(kactive)
           before == [memory EXCEPT ![kactive] = Closed(memory[kactive])]
<1>1. PICK len \in Lengths :
        /\ memory' = [memory EXCEPT ![kactive] = Closed(@),
                                    ![kactive'] = Written(@, FirstOffset, recorded', len)]
        /\ Keep(FirstOffset, len)
  BY DEF FrameRetireRecord
<1>2. /\ RetireRecord /\ Retire(StatusUser) /\ "USER" \in StatusUser /\ ~Frozen
      /\ kactive' = next /\ next # kactive /\ ~InUse(next)
      /\ queue' = queue /\ recorded' = recorded + 1 /\ UNCHANGED reader
  BY StatusWords DEF FrameRetireRecord, RetireRecord, Retire, NextIsFree
<1>3. /\ TypeOK /\ kactive \in Blocks /\ next \in Blocks /\ recorded \in Nat
      /\ Len(lens) = recorded /\ lens \in Seq(Lengths)
      /\ numPkts[kactive] \in Nat
  BY FrameTypes DEF IInv
<1>4. /\ frames'[next][1] = recorded + 1 /\ numPkts'[next] = 1
      /\ \A b \in Blocks : b # next => frames'[b] = frames[b] /\ numPkts'[b] = numPkts[b]
  <2>1. 1 \in 1 .. BlockCap
    BY RingAssumption
  <2>2. frames[next] \in [1 .. BlockCap -> Nat]
    BY <1>3, RingTypes
  <2>3. frames' = [frames EXCEPT ![next] = [frames[next] EXCEPT ![1] = recorded + 1]]
    BY <1>2 DEF RetireRecord
  <2>4. frames'[next] = [frames[next] EXCEPT ![1] = recorded + 1]
    BY <1>3, <2>3, RingTypes
  <2>5. frames'[next][1] = recorded + 1
    BY <2>1, <2>2, <2>4
  <2>6. \A b \in Blocks : b # next => frames'[b] = frames[b]
    BY <1>3, <2>3, RingTypes
  <2>7. numPkts'[next] = 1 /\ \A b \in Blocks : b # next => numPkts'[b] = numPkts[b]
    BY <1>2, <1>3, RingTypes DEF RetireRecord
  <2> QED
    BY <2>5, <2>6, <2>7
<1>5. /\ FirstOffset \in Nat /\ FirstOffset + FrameSize(len) < BlockSize
      /\ tail' = FirstOffset /\ lens' = Append(lens, len) /\ UNCHANGED <<offset, packet>>
  BY <1>1, Sizes DEF Keep
<1>6. /\ before \in [Blocks -> [Cells -> CellType]]
      /\ \A b \in Blocks, o \in Cells : before[b][o].of <= recorded
      /\ \A b \in Blocks : b # kactive => before[b] = memory[b]
      /\ Laid(before[kactive], frames[kactive], lens, numPkts[kactive], numPkts[kactive] - 1)
      /\ ~InUse(kactive)
      /\ \A b \in Blocks : InUse(b)' => InUse(b) \/ b = kactive
  BY <1>2, ClosesActive
<1>7. memory' = [before EXCEPT ![next] = Written(before[next], FirstOffset, recorded + 1, len)]
  BY <1>1, <1>2
<1> HIDE DEF before
<1>8. /\ MemoryTypes'
      /\ memory'[next] = Written(before[next], FirstOffset, recorded + 1, len)
      /\ \A b \in Blocks : b # next => memory'[b] = before[b]
      /\ recorded' \in Nat /\ recorded <= recorded' /\ Len(lens') = recorded'
      /\ \A k \in 1 .. recorded : lens'[k] = lens[k]
  BY <1>2, <1>3, <1>5, <1>6, <1>7, MemoryWritten
<1>9. ActiveNum' = 0 + 1
  BY <1>2, <1>4 DEF ActiveNum, Frozen
<1>10. ActiveLaid'
  <2>1. /\ before[next] \in [Cells -> CellType]
        /\ \A o \in Cells : before[next][o].of <= recorded
    BY <1>3, <1>6
  <2>2. /\ 0 \in Nat /\ \A j \in 1 .. 0 : frames'[kactive'][j] = frames[kactive][j]
        /\ memory'[kactive'] = Written(before[next], FirstOffset, recorded + 1, len)
        /\ frames'[kactive'][0 + 1] = recorded + 1
    BY <1>2, <1>4, <1>8
  <2> QED
    BY <1>5, <1>9, <2>1, <2>2, ActiveFilled
<1>11. ASSUME NEW b \in Blocks, InUse(b)
       PROVE  memory'[b] = memory[b] /\ frames'[b] = frames[b] /\ numPkts'[b] = numPkts[b]
  BY <1>2, <1>4, <1>6, <1>8, <1>11
<1>12. /\ \A b \in Blocks : InUse(b) =>
            Laid(memory'[b], frames'[b], lens', numPkts'[b], numPkts'[b] - 1)
       /\ ReaderOnFrame' /\ PacketIntact'
  BY <1>2, <1>5, <1>8, <1>11, KernelSpares
<1>13. Laid(memory'[kactive], frames'[kactive], lens', numPkts'[kactive], numPkts'[kactive] - 1)
  <2>1. memory'[kactive] = before[kactive] /\ frames'[kactive] = frames[kactive]
        /\ numPkts'[kactive] = numPkts[kactive]
    BY <1>2, <1>3, <1>4, <1>8
  <2>2. Laid(before[kactive], frames[kactive], lens', numPkts[kactive], numPkts[kactive] - 1)
    BY <1>3, <1>6, <1>8, LaidKept
  <2> QED
    BY <2>1, <2>2
<1>14. UsedLaid'
  BY <1>6, <1>12, <1>13 DEF UsedLaid
<1> QED
  BY <1>8, <1>10, <1>12, <1>14 DEF FrameInv

(* A block is closed and the next one is empty, or none is free.               *)
LEMMA FrameCloseStep ==
  ASSUME IInv, FrameInv, NEW st, "USER" \in st, Retire(st),
         memory' = [memory EXCEPT ![kactive] = Closed(memory[kactive])],
         UNCHANGED <<frames, recorded, lens, offset, packet, reader>>,
         \A b \in Blocks : InUse(b) \/ b = kactive => numPkts'[b] = numPkts[b],
         ActiveNum' = 0
  PROVE  FrameInv'
<1> DEFINE new == memory'
<1>1. /\ new \in [Blocks -> [Cells -> CellType]]
      /\ \A b \in Blocks, o \in Cells : new[b][o].of <= recorded
      /\ \A b \in Blocks : b # kactive => new[b] = memory[b]
      /\ Laid(new[kactive], frames[kactive], lens, numPkts[kactive], numPkts[kactive] - 1)
      /\ ~InUse(kactive)
      /\ \A b \in Blocks : InUse(b)' => InUse(b) \/ b = kactive
  BY ClosesActive
<1>2. MemoryTypes'
  BY <1>1 DEF FrameInv, MemoryTypes
<1>3. ActiveLaid'
  BY DEF ActiveLaid, Laid, LastAt
<1>4. recorded' \in Nat /\ recorded <= recorded' /\ Len(lens') = recorded'
      /\ \A k \in 1 .. recorded : lens'[k] = lens[k]
  BY FrameTypes
<1>5. \A b \in Blocks : InUse(b) =>
        memory'[b] = memory[b] /\ frames'[b] = frames[b] /\ numPkts'[b] = numPkts[b]
  BY <1>1
<1>6. /\ \A b \in Blocks : InUse(b) =>
           Laid(memory'[b], frames'[b], lens', numPkts'[b], numPkts'[b] - 1)
      /\ ReaderOnFrame' /\ PacketIntact'
  BY <1>4, <1>5, KernelSpares
<1>7. Laid(memory'[kactive], frames'[kactive], lens', numPkts'[kactive], numPkts'[kactive] - 1)
  BY <1>1, FrameTypes
<1>8. UsedLaid'
  BY <1>1, <1>6, <1>7 DEF UsedLaid
<1> QED
  BY <1>2, <1>3, <1>6, <1>8 DEF FrameInv

LEMMA FrameRetireDropStep ==
  ASSUME IInv, FrameInv, FrameRetireDrop
  PROVE  FrameInv'
<1>1. /\ Retire(StatusUser) /\ "USER" \in StatusUser /\ queue' = "frozen"
      /\ memory' = [memory EXCEPT ![kactive] = Closed(memory[kactive])]
      /\ UNCHANGED <<frames, numPkts, recorded, lens, offset, packet, reader>>
  BY StatusWords DEF FrameRetireDrop, RetireDrop
<1>2. ActiveNum' = 0
  BY <1>1 DEF ActiveNum, Frozen
<1> QED
  BY <1>1, <1>2, FrameCloseStep

LEMMA FrameTimerRetireStep ==
  ASSUME IInv, FrameInv, FrameTimerRetire
  PROVE  FrameInv'
<1>1. /\ Retire(StatusTimeout) /\ "USER" \in StatusTimeout
      /\ kactive' = NextBlock(kactive)
      /\ memory' = [memory EXCEPT ![kactive] = Closed(memory[kactive])]
      /\ UNCHANGED <<frames, recorded, lens, offset, packet, reader>>
  BY StatusWords DEF FrameTimerRetire, TimerRetire, Retire
<1>2. numPkts \in [Blocks -> 0 .. BlockCap] /\ NextBlock(kactive) \in Blocks
  BY RingTypes DEF IInv
<1>3. /\ \A b \in Blocks : InUse(b) \/ b = kactive => numPkts'[b] = numPkts[b]
      /\ ActiveNum' = 0
  <2>1. CASE NextIsFree
    <3>1. numPkts' = [numPkts EXCEPT ![NextBlock(kactive)] = 0] /\ queue' = "running"
      BY <2>1 DEF FrameTimerRetire, TimerRetire
    <3>2. numPkts'[kactive'] = 0
      BY <1>1, <1>2, <3>1
    <3> QED
      BY <1>2, <2>1, <3>1, <3>2 DEF NextIsFree, ActiveNum, Frozen
  <2>2. CASE ~NextIsFree
    BY <2>2 DEF FrameTimerRetire, TimerRetire, ActiveNum, Frozen
  <2> QED
    BY <2>1, <2>2
<1> QED
  BY <1>1, <1>3, FrameCloseStep

(* The kernel changes nothing in memory, and the block it fills is empty or as *)
(* it was.                                                                     *)
LEMMA FrameIdleStep ==
  ASSUME IInv, FrameInv,
         UNCHANGED <<status, frames, kactive, recorded, memory, tail, lens, offset, packet, reader>>,
         \A b \in Blocks : InUse(b) => numPkts'[b] = numPkts[b],
         ActiveNum' \in {0, ActiveNum}
  PROVE  FrameInv'
<1>1. recorded' \in Nat /\ recorded <= recorded' /\ Len(lens') = recorded'
      /\ \A k \in 1 .. recorded : lens'[k] = lens[k]
  BY FrameTypes
<1>2. /\ \A b \in Blocks : InUse(b) =>
           Laid(memory'[b], frames'[b], lens', numPkts'[b], numPkts'[b] - 1)
      /\ ReaderOnFrame' /\ PacketIntact'
  BY <1>1, KernelSpares
<1>3. MemoryTypes' /\ UsedLaid'
  BY <1>2 DEF FrameInv, MemoryTypes, UsedLaid, InUse
<1>4. ActiveLaid'
  <2>1. CASE ActiveNum' = 0
    BY <2>1 DEF ActiveLaid, Laid, LastAt
  <2>2. CASE ActiveNum' = ActiveNum
    BY <2>2 DEF FrameInv, ActiveLaid
  <2> QED
    BY <2>1, <2>2
<1> QED
  BY <1>2, <1>3, <1>4 DEF FrameInv

LEMMA FrameTimerThawStep ==
  ASSUME IInv, FrameInv, FrameTimerThaw
  PROVE  FrameInv'
<1>1. /\ UNCHANGED <<status, frames, kactive, recorded, memory, tail, lens, offset, packet, reader>>
      /\ ~InUse(kactive) /\ numPkts' = [numPkts EXCEPT ![kactive] = 0] /\ queue' = "running"
  BY DEF FrameTimerThaw, TimerThaw
<1>2. numPkts \in [Blocks -> 0 .. BlockCap] /\ kactive \in Blocks
  BY RingTypes DEF IInv
<1>3. numPkts'[kactive'] = 0 /\ \A b \in Blocks : InUse(b) => numPkts'[b] = numPkts[b]
  BY <1>1, <1>2
<1>4. ActiveNum' = 0
  BY <1>1, <1>3 DEF ActiveNum, Frozen
<1> QED
  BY <1>1, <1>3, <1>4, FrameIdleStep

LEMMA FrameFrozenDropStep ==
  ASSUME IInv, FrameInv, FrameFrozenDrop
  PROVE  FrameInv'
<1>1. UNCHANGED <<status, frames, numPkts, kactive, queue, recorded, memory, tail, lens,
                  offset, packet, reader>>
  BY DEF FrameFrozenDrop, FrozenDrop
<1>2. ActiveNum' = ActiveNum
  BY <1>1 DEF ActiveNum, Frozen
<1> QED
  BY <1>1, <1>2, FrameIdleStep

LEMMA FrameKernelStep ==
  ASSUME IInv, FrameInv, FrameKernel
  PROVE  FrameInv'
  BY FrameRecordStep, FrameThawRecordStep, FrameRetireRecordStep, FrameRetireDropStep,
     FrameFrozenDropStep, FrameTimerRetireStep, FrameTimerThawStep DEF FrameKernel


--------------------------------------------------------------------------------
(* The reader's steps.                                                         *)

(* What the reader finds at its offset: the header and the bytes of the first  *)
(* packet not yet returned.                                                    *)
LEMMA ReaderFrame ==
  ASSUME IInv, FrameInv, HasFrame
  PROVE  LET b == cursor.block
             j == cursor.next
             k == delivered + 1
             size == FrameSize(lens[k])
         IN  /\ k \in 1 .. Len(lens) /\ frames[b][j] = k
             /\ offset \in Nat
             /\ CellAt(b, offset) = Cell(k, 0, Snap(lens[k]), MacOffset,
                                         IF j < cursor.num THEN size ELSE 0)
             /\ \A i \in 1 .. Snap(lens[k]) :
                  CellAt(b, offset + MacOffset + i - 1) = Cell(k, i, 0, 0, 0)
             /\ offset + size < BlockSize
             /\ j < cursor.num => Header(memory[b], offset + size, frames[b][j + 1])
<1> DEFINE b == cursor.block
           j == cursor.next
           k == delivered + 1
           n == numPkts[b]
           size == FrameSize(lens[k])
           snap == Snap(lens[k])
<1>1. TypeOK /\ CursorInv
  BY DEF IInv
<1>2. /\ b = current_block /\ b \in Blocks /\ InUse(b)
      /\ cursor.num = n /\ j \in 1 .. n /\ n \in Nat
  <2>1. b = current_block /\ cursor.num = n /\ j \in 1 .. n
    BY <1>1, ReaderInBlock
  <2>2. b \in Blocks /\ InUse(b)
    BY <1>1, <2>1 DEF TypeOK, CursorInv, HasFrame
  <2> QED
    BY <2>1, <2>2, FrameTypes
<1>3. frames[b][j] = k
  BY NextStamp
<1>4. Laid(memory[b], frames[b], lens, n, n - 1) /\ Header(memory[b], offset, k)
  BY <1>2, <1>3 DEF FrameInv, UsedLaid, ReaderOnFrame
<1>5. offset \in Cells
  BY <1>4 DEF Header
<1>6. /\ k \in 1 .. Len(lens)
      /\ offset + size < BlockSize
      /\ Whole(memory[b], offset, k, snap, IF j <= n - 1 THEN size ELSE 0)
      /\ j < n => Header(memory[b], offset + size, frames[b][j + 1])
  BY <1>2, <1>3, <1>4, <1>5 DEF Laid
<1>7. /\ lens \in Seq(Lengths) /\ BlockSize \in Nat
      /\ MacOffset \in Nat \ {0} /\ snap \in Nat
      /\ size \in Nat /\ size >= MacOffset + snap
  <2>1. lens \in Seq(Lengths)
    BY FrameTypes
  <2> QED
    BY <1>6, <2>1, WireSizes
<1>8. offset \in Nat /\ offset < BlockSize
  BY <1>5, <1>7 DEF Cells
<1>9. CellAt(b, offset) = Cell(k, 0, snap, MacOffset, IF j < n THEN size ELSE 0)
  <2>1. (j <= n - 1) <=> (j < n)
    BY <1>2
  <2>2. CellAt(b, offset) = memory[b][offset]
    BY <1>8 DEF CellAt
  <2> QED
    BY <1>6, <2>1, <2>2 DEF Whole
<1>10. ASSUME NEW i \in 1 .. snap
       PROVE  CellAt(b, offset + MacOffset + i - 1) = Cell(k, i, 0, 0, 0)
  <2>1. offset + MacOffset + i - 1 < BlockSize
    BY <1>6, <1>7, <1>8
  <2>2. memory[b][offset + MacOffset + i - 1] = Cell(k, i, 0, 0, 0)
    BY <1>6 DEF Whole
  <2> QED
    BY <2>1, <2>2 DEF CellAt
<1> QED
  BY <1>2, <1>3, <1>6, <1>8, <1>9, <1>10

(* The packet is copied out and the offset moves to the next frame.            *)
LEMMA FrameDeliverStep ==
  ASSUME IInv, FrameInv, FrameDeliver
  PROVE  FrameInv'
<1> DEFINE b == cursor.block
           j == cursor.next
           k == delivered + 1
           size == FrameSize(lens[k])
           snap == Snap(lens[k])
           next == IF j < cursor.num THEN size ELSE 0
<1>1. HasFrame /\ delivered' = k /\ UNCHANGED <<shared, kernel, current_block, memory, tail, lens>>
  BY DEF FrameDeliver, Deliver
<1>2. /\ k \in 1 .. Len(lens) /\ frames[b][j] = k
      /\ offset \in Nat
      /\ CellAt(b, offset) = Cell(k, 0, snap, MacOffset, next)
      /\ \A i \in 1 .. snap : CellAt(b, offset + MacOffset + i - 1) = Cell(k, i, 0, 0, 0)
      /\ offset + size < BlockSize
      /\ j < cursor.num => Header(memory[b], offset + size, frames[b][j + 1])
  BY <1>1, ReaderFrame
<1>3. /\ packet' = CopyOut(b, offset + MacOffset, snap)
      /\ offset' = offset + next
  <2>1. CellAt(b, offset).snap = snap /\ CellAt(b, offset).mac = MacOffset
        /\ CellAt(b, offset).next = next
    BY <1>2, CellFields
  <2> QED
    BY <2>1 DEF FrameDeliver
<1>4. size \in Nat
  <2>1. lens \in Seq(Lengths)
    BY FrameTypes
  <2> QED
    BY <1>2, <2>1, WireSizes
<1>5. offset' \in Nat
  BY <1>2, <1>3, <1>4
<1>6. MemoryTypes' /\ ActiveLaid' /\ UsedLaid'
  <2>1. ActiveNum' = ActiveNum
    BY <1>1 DEF ActiveNum, Frozen
  <2> QED
    BY <1>1, <1>5, <2>1 DEF FrameInv, MemoryTypes, ActiveLaid, UsedLaid, InUse
<1>7. ReaderOnFrame'
  <2> SUFFICES ASSUME HasFrame'
               PROVE  Header(memory'[cursor'.block], offset', frames'[cursor'.block][cursor'.next])
    BY DEF ReaderOnFrame
  <2>1. /\ cursor \in Cursor /\ cursor.num = numPkts[b] /\ j = cursor.seen + 1
    BY <1>1, ReaderInBlock DEF IInv
  <2>2. cursor' = [block |-> b, num |-> cursor.num, seen |-> cursor.seen + 1,
                   next |-> j + NextOffset(b, j)]
    BY DEF FrameDeliver, Deliver
  <2>3. cursor'.block = b /\ cursor'.next = j + NextOffset(b, j)
        /\ cursor'.seen = cursor.seen + 1 /\ cursor'.num = cursor.num
    BY <2>2
  <2>4. j < cursor.num
    BY <2>1, <2>3 DEF HasFrame
  <2>5. cursor'.next = j + 1 /\ next = size
    BY <2>1, <2>3, <2>4 DEF NextOffset
  <2> QED
    BY <1>1, <1>2, <1>3, <2>3, <2>4, <2>5
<1>8. PacketIntact'
  <2>1. packet'.data = [i \in 1 .. snap |-> CellAt(b, offset + MacOffset + i - 1)]
    BY <1>3 DEF CopyOut
  <2>2. packet'.data = [i \in 1 .. snap |-> Cell(k, i, 0, 0, 0)]
    BY <1>2, <2>1
  <2>3. packet'.data = Payload(k, lens[k])
    BY <2>2 DEF Payload
  <2> QED
    BY <1>1, <2>3 DEF PacketIntact, Payload
<1> QED
  BY <1>6, <1>7, <1>8 DEF FrameInv

(* The walk begins at the first frame of the new block.                        *)
LEMMA FrameLoadHeaderStep ==
  ASSUME IInv, FrameInv, FrameLoadHeader
  PROVE  FrameInv'
<1> DEFINE b == current_block
<1>1. /\ LoadHeader /\ offset' = FirstOffset
      /\ UNCHANGED <<shared, kernel, current_block, delivered, memory, tail, lens, packet>>
  BY DEF FrameLoadHeader, LoadHeader
<1>2. cursor'.block = b /\ cursor'.next = 1
  BY <1>1 DEF LoadHeader
<1>3. InUse(b) /\ b \in Blocks /\ numPkts[b] >= 1 /\ numPkts[b] \in Nat
  BY <1>1, FrameTypes DEF LoadHeader, IInv, CursorInv, TypeOK, Window
<1>4. ActiveNum' = ActiveNum
  BY <1>1 DEF ActiveNum, Frozen
<1>5. MemoryTypes' /\ ActiveLaid' /\ UsedLaid' /\ PacketIntact'
  BY <1>1, <1>4, Sizes
     DEF FrameInv, MemoryTypes, ActiveLaid, UsedLaid, InUse, PacketIntact, Payload
<1>6. Header(memory[b], FirstOffset, frames[b][1])
  BY <1>3 DEF FrameInv, UsedLaid, Laid
<1>7. ReaderOnFrame'
  BY <1>1, <1>2, <1>6 DEF ReaderOnFrame
<1> QED
  BY <1>5, <1>7 DEF FrameInv

(* The other steps of the reader touch no memory: the cursor stays or goes.    *)
LEMMA FrameWaitStep ==
  ASSUME IInv, FrameInv,
         Call \/ ReleaseBlock \/ CheckStatus \/ PollReturn \/ PollFail,
         UNCHANGED <<memory, tail, lens, offset, packet>>
  PROVE  FrameInv'
<1>1. UNCHANGED <<frames, numPkts, kernel, delivered>>
  BY DEF Call, ReleaseBlock, CheckStatus, PollReturn, PollFail
<1>2. cursor' \in {cursor, NoCursor}
  BY DEF Call, ReleaseBlock, CheckStatus, PollReturn, PollFail
<1>3. \A b \in Blocks : InUse(b)' => InUse(b)
  <2>1. CASE ReleaseBlock
    <3>1. status' = [status EXCEPT ![cursor.block] = StatusKernel] /\ "USER" \notin StatusKernel
      BY <2>1, StatusWords DEF ReleaseBlock
    <3>2. status \in [Blocks -> Status]
      BY RingTypes DEF IInv
    <3> QED
      BY <3>1, <3>2 DEF InUse
  <2>2. CASE ~ReleaseBlock
    BY <2>2 DEF InUse, Call, CheckStatus, PollReturn, PollFail
  <2> QED
    BY <2>1, <2>2
<1>4. ActiveNum' = ActiveNum
  BY <1>1 DEF ActiveNum, Frozen
<1>5. MemoryTypes' /\ ActiveLaid' /\ PacketIntact'
  BY <1>1, <1>4 DEF FrameInv, MemoryTypes, ActiveLaid, PacketIntact, Payload
<1>6. UsedLaid'
  BY <1>1, <1>3 DEF FrameInv, UsedLaid
<1>7. ReaderOnFrame'
  BY <1>1, <1>2 DEF FrameInv, ReaderOnFrame, HasFrame
<1> QED
  BY <1>5, <1>6, <1>7 DEF FrameInv

LEMMA FrameReaderStep ==
  ASSUME IInv, FrameInv, FrameReader
  PROVE  FrameInv'
  BY FrameDeliverStep, FrameLoadHeaderStep, FrameWaitStep DEF FrameReader

LEMMA FrameStutter ==
  ASSUME FrameInv, UNCHANGED frameVars
  PROVE  FrameInv'
<1>1. ActiveNum' = ActiveNum /\ HasFrame' = HasFrame
  BY DEF frameVars, vars, ActiveNum, Frozen, HasFrame
<1> QED
  BY <1>1 DEF FrameInv, frameVars, vars, MemoryTypes, ActiveLaid, UsedLaid, InUse,
              ReaderOnFrame, PacketIntact, Payload


--------------------------------------------------------------------------------
(* The theorems.                                                               *)

(* The memory of the ring is always in order: the frames the kernel wrote lie  *)
(* one behind the other in every block it has handed over and in the one it    *)
(* fills, and the offset the reader holds is that of its next frame.           *)
THEOREM FrameInductive == FrameSpec => []FrameInv
<1>1. FrameInit => FrameInv
  BY FrameInitial
<1>2. IInv /\ FrameInv /\ [FrameNext]_frameVars => FrameInv'
  BY FrameKernelStep, FrameReaderStep, FrameStutter DEF FrameNext
<1> QED
  BY <1>1, <1>2, FrameImplementsRing, Inductive, PTL DEF FrameSpec

(* next_packet() returns the bytes of the packet recorded, all that were kept  *)
(* of it, in order, and none of another packet: the offsets it follows never   *)
(* lead astray and no block is written while it is read.                       *)
THEOREM PacketsAreIntact == FrameSpec => []PacketIntact
<1>1. FrameInv => PacketIntact
  BY DEF FrameInv
<1> QED
  BY <1>1, FrameInductive, PTL

(* Every offset next_packet() follows without checking it is the offset of a   *)
(* frame's header, and the bytes it copies end inside the block.               *)
THEOREM OffsetsAreOnFrames == FrameSpec => []OffsetOnFrame
<1>1. ASSUME IInv, FrameInv PROVE OffsetOnFrame
  <2> DEFINE b == cursor.block
             j == cursor.next
             k == delivered + 1
             size == FrameSize(lens[k])
             snap == Snap(lens[k])
             next == IF j < cursor.num THEN size ELSE 0
  <2> SUFFICES ASSUME HasFrame
               PROVE  LET f == frames[b][j]
                          header == CellAt(b, offset)
                      IN  /\ header.of = f
                          /\ header.byte = 0
                          /\ header.snap = Snap(lens[f])
                          /\ offset + header.mac + header.snap < BlockSize
    BY DEF OffsetOnFrame
  <2>1. /\ k \in 1 .. Len(lens) /\ frames[b][j] = k
        /\ offset \in Nat
        /\ CellAt(b, offset) = Cell(k, 0, snap, MacOffset, next)
        /\ offset + size < BlockSize
    BY <1>1, ReaderFrame
  <2>2. /\ CellAt(b, offset).of = k /\ CellAt(b, offset).byte = 0
        /\ CellAt(b, offset).snap = snap /\ CellAt(b, offset).mac = MacOffset
    BY <2>1, CellFields
  <2>3. /\ BlockSize \in Nat /\ MacOffset \in Nat \ {0} /\ snap \in Nat
        /\ size \in Nat /\ size >= MacOffset + snap
    <3>1. lens \in Seq(Lengths)
      BY <1>1, FrameTypes
    <3> QED
      BY <2>1, <3>1, WireSizes
  <2>4. offset + MacOffset + snap < BlockSize
    BY <2>1, <2>3
  <2> QED
    BY <2>1, <2>2, <2>4
<1>2. IInv /\ FrameInv => OffsetOnFrame
  BY <1>1
<1> QED
  BY <1>2, FrameInductive, FrameImplementsRing, Inductive, PTL

(* What holds of the ring holds of it with its bytes: packets come in order,   *)
(* once each, from blocks that are the reader's, are lost only when the reader *)
(* holds every block, and the whole is a capture queue.                        *)
THEOREM FrameRingKeepsOrder ==
  FrameSpec => /\ [](TypeOK /\ InOrder /\ BlockOwnership)
               /\ DropOnlyWhenAllHeld
               /\ ImplementsQueue
  BY FrameImplementsRing, TypeCorrect, DeliveryInOrder, Ownership, DropsOnlyWhenAllHeld,
     RingImplementsQueue, PTL
================================================================================
