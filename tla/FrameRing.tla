------------------------------- MODULE FrameRing -------------------------------
(* The ring of PacketRing with its memory: where the frames lie in a block and *)
(* which bytes next_packet() copies out.  PacketRing counts frames by their    *)
(* position; the code finds them by byte offsets the kernel left in the block. *)
(* Every action here is one of PacketRing's with the bytes it touches.         *)
(*                                                                             *)
(* Memory is a row of cells.  A cell tells which packet it belongs to and      *)
(* which byte of it, 0 for the frame's header, which carries tp_snaplen,       *)
(* tp_mac and tp_next_offset.                                                  *)
EXTENDS PacketRing, Sequences

CONSTANTS BlockSize,    \* cells of a block
          FirstOffset,  \* offset_to_first_pkt: the block's own header ends here
          MacOffset,    \* tp_mac: from a frame's header to the packet's bytes
          Alignment,    \* frames begin at multiples of it
          Lengths,      \* packet lengths on the wire
          AcceptLen,    \* most bytes the kernel keeps: the filter's CBPF_ACCEPT
          SnapLen       \* what -s asks for

VARIABLES memory,  \* the cells of every block
          tail,    \* offset of the frame written last in the active block
          lens,    \* wire lengths of the packets recorded so far
          offset,  \* cursor.next_offset
          packet   \* the packet returned last: data and orig_len

frameVars == <<vars, memory, tail, lens, offset, packet>>

Snap(len) == IF len > AcceptLen THEN AcceptLen ELSE len
FrameSize(len) == ((MacOffset + Snap(len) + Alignment - 1) \div Alignment) * Alignment

(* Every packet fits in an empty block, as with the default block size, and    *)
(* no block holds more than BlockCap of them.                                  *)
ASSUME FrameAssumption ==
  /\ {BlockSize, FirstOffset, MacOffset, Alignment, AcceptLen} \subseteq Nat \ {0}
  /\ Lengths \subseteq Nat \ {0}
  /\ SnapLen \in Nat
  /\ \A len \in Lengths :
       /\ FirstOffset + FrameSize(len) < BlockSize
       /\ FirstOffset + (BlockCap + 1) * FrameSize(len) >= BlockSize

Cell(k, i, snap, mac, next) == [of |-> k, byte |-> i, snap |-> snap, mac |-> mac, next |-> next]
Blank == Cell(0, 0, 0, 0, 0)

FrameInit ==
  /\ Init
  /\ memory = [b \in Blocks |-> [o \in 0 .. BlockSize - 1 |-> Blank]]
  /\ tail = FirstOffset
  /\ lens = <<>>
  /\ offset = FirstOffset
  /\ packet = [data |-> <<>>, orig_len |-> 0]

--------------------------------------------------------------------------------
(* The kernel.  The k-th packet recorded is written behind the frame before    *)
(* it, with the offset at which the next would follow.                         *)

Payload(k, len) == [i \in 1 .. Snap(len) |-> Cell(k, i, 0, 0, 0)]

Written(cells, at, k, len) ==
  LET data == at + MacOffset
  IN  [o \in DOMAIN cells |->
        IF o = at THEN Cell(k, 0, Snap(len), MacOffset, FrameSize(len))
        ELSE IF o \in data .. data + Snap(len) - 1 THEN Payload(k, len)[o - data + 1]
        ELSE cells[o]]

(* Closing a block clears the offset in its last frame.                        *)
Closed(cells) == [cells EXCEPT ![tail].next = 0]

FillOffset ==
  IF numPkts[kactive] = 0 THEN FirstOffset ELSE tail + memory[kactive][tail].next

Fits(len) == FillOffset + FrameSize(len) < BlockSize

Keep(at, len) ==
  /\ tail' = at
  /\ lens' = Append(lens, len)
  /\ UNCHANGED <<offset, packet>>

FrameRecord ==
  /\ Record
  /\ \E len \in Lengths :
       /\ Fits(len)
       /\ memory' = [memory EXCEPT ![kactive] = Written(@, FillOffset, recorded', len)]
       /\ Keep(FillOffset, len)

FrameThawRecord ==
  /\ ThawRecord
  /\ \E len \in Lengths :
       /\ memory' = [memory EXCEPT ![kactive] = Written(@, FirstOffset, recorded', len)]
       /\ Keep(FirstOffset, len)

FrameRetireRecord ==
  /\ RetireRecord
  /\ \E len \in Lengths :
       /\ ~Fits(len)
       /\ memory' = [memory EXCEPT ![kactive] = Closed(@),
                                   ![kactive'] = Written(@, FirstOffset, recorded', len)]
       /\ Keep(FirstOffset, len)

FrameRetireDrop ==
  /\ RetireDrop
  /\ \E len \in Lengths : ~Fits(len)
  /\ memory' = [memory EXCEPT ![kactive] = Closed(@)]
  /\ UNCHANGED <<tail, lens, offset, packet>>

FrameTimerRetire ==
  /\ TimerRetire
  /\ memory' = [memory EXCEPT ![kactive] = Closed(@)]
  /\ UNCHANGED <<tail, lens, offset, packet>>

FrameTimerThaw == TimerThaw /\ UNCHANGED <<memory, tail, lens, offset, packet>>

FrameFrozenDrop == FrozenDrop /\ UNCHANGED <<memory, tail, lens, offset, packet>>

FrameKernel ==
  \/ FrameRecord
  \/ FrameThawRecord
  \/ FrameRetireRecord
  \/ FrameRetireDrop
  \/ FrameFrozenDrop
  \/ FrameTimerRetire
  \/ FrameTimerThaw

--------------------------------------------------------------------------------
(* The reader.  Nothing checks an offset against the block.                    *)

CellAt(b, o) == IF o < BlockSize THEN memory[b][o] ELSE Blank

(* build_packet() takes the captured length for the length on the wire.        *)
CopyOut(b, at, len) ==
  [data |-> [i \in 1 .. len |-> CellAt(b, at + i - 1)], orig_len |-> len]

(* Slips: the packet is looked for right behind the header's first byte, and   *)
(* the whole cursor is moved by the captured length.                           *)
FrameDeliverNoMac ==
  /\ Deliver
  /\ LET frame == CellAt(cursor.block, offset)
     IN  /\ packet' = CopyOut(cursor.block, offset + 1, frame.snap)
         /\ offset' = offset + frame.next
  /\ UNCHANGED <<memory, tail, lens>>

FrameDeliverUnaligned ==
  /\ Deliver
  /\ LET frame == CellAt(cursor.block, offset)
     IN  /\ packet' = CopyOut(cursor.block, offset + frame.mac, frame.snap)
         /\ offset' = offset + frame.mac + frame.snap
  /\ UNCHANGED <<memory, tail, lens>>

FrameDeliver ==
  /\ Deliver
  /\ LET frame == CellAt(cursor.block, offset)
     IN  /\ packet' = CopyOut(cursor.block, offset + frame.mac, frame.snap)
         /\ offset' = offset + frame.next
  /\ UNCHANGED <<memory, tail, lens>>

(* A slip: the walk goes on at the offset where the last block was left.       *)
FrameLoadHeaderStale == LoadHeader /\ UNCHANGED <<memory, tail, lens, offset, packet>>

FrameLoadHeader ==
  /\ LoadHeader
  /\ offset' = FirstOffset
  /\ UNCHANGED <<memory, tail, lens, packet>>

FrameReader ==
  \/ FrameDeliver
  \/ FrameLoadHeader
  \/ /\ Call \/ ReleaseBlock \/ CheckStatus \/ PollReturn \/ PollFail
     /\ UNCHANGED <<memory, tail, lens, offset, packet>>

--------------------------------------------------------------------------------
FrameNext == FrameKernel \/ FrameReader

FrameSpec == FrameInit /\ [][FrameNext]_frameVars

(* The fairness of PacketRing.                                                 *)
FrameFairSpec ==
  /\ FrameSpec
  /\ WF_frameVars(FrameReader)
  /\ WF_frameVars(FrameTimerRetire)
  /\ WF_frameVars(FrameTimerThaw)

--------------------------------------------------------------------------------
(* The packet next_packet() returned holds the bytes the kernel kept of it,    *)
(* all of them, in order, and of no other packet: the walk by offsets finds    *)
(* every frame, and no byte is overwritten before it is copied.                *)
PacketIntact ==
  delivered > 0 => packet.data = Payload(delivered, lens[delivered])

(* The offset and the position walk together: while frames are left, the       *)
(* cursor's offset is that of the header of the frame the position names, and  *)
(* the frame ends inside the block.                                            *)
OffsetOnFrame ==
  HasFrame =>
    LET k == frames[cursor.block][cursor.next]
        header == CellAt(cursor.block, offset)
    IN  /\ header.of = k
        /\ header.byte = 0
        /\ header.snap = Snap(lens[k])
        /\ offset + header.mac + header.snap < BlockSize

(* -s cuts packets: no more than SnapLen bytes of a packet are captured.       *)
Snapped == SnapLen # 0 => Len(packet.data) <= SnapLen

--------------------------------------------------------------------------------
(* The inductive invariant behind PacketIntact and OffsetOnFrame, beside the   *)
(* one of PacketRing: how the frames lie in a block.                           *)

Cells == 0 .. BlockSize - 1
CellType == [of : Nat, byte : Nat, snap : Nat, mac : Nat, next : Nat]

MemoryTypes ==
  /\ memory \in [Blocks -> [Cells -> CellType]]
  /\ lens \in Seq(Lengths)
  /\ Len(lens) = recorded
  /\ offset \in Nat
  /\ \A b \in Blocks, o \in Cells : memory[b][o].of <= recorded

Header(cells, o, k) == o \in Cells /\ cells[o].of = k /\ cells[o].byte = 0

Whole(cells, o, k, snap, next) ==
  /\ cells[o] = Cell(k, 0, snap, MacOffset, next)
  /\ \A i \in 1 .. snap : cells[o + MacOffset + i - 1] = Cell(k, i, 0, 0, 0)

(* The first n frames of a block, with these stamps: the first lies where the  *)
(* block's header ends, each is whole and ends inside the block, and the next  *)
(* one follows it.  All but the first m have the offset in them cleared.       *)
Laid(cells, stamps, wire, n, m) ==
  /\ n >= 1 => Header(cells, FirstOffset, stamps[1])
  /\ \A j \in 1 .. n :
       LET k == stamps[j]
           size == FrameSize(wire[k])
       IN  /\ k \in 1 .. Len(wire)
           /\ \A o \in Cells : Header(cells, o, k) =>
                /\ o + size < BlockSize
                /\ Whole(cells, o, k, Snap(wire[k]), IF j <= m THEN size ELSE 0)
                /\ j < n => Header(cells, o + size, stamps[j + 1])

(* The last of them is at offset at and the others end no later.               *)
LastAt(cells, stamps, wire, n, at) ==
  n >= 1 =>
    /\ Header(cells, at, stamps[n])
    /\ \A j \in 1 .. n, o \in Cells : Header(cells, o, stamps[j]) =>
         /\ o + FrameSize(wire[stamps[j]]) <= at + FrameSize(wire[stamps[n]])
         /\ j = n => o = at

ActiveLaid ==
  /\ Laid(memory[kactive], frames[kactive], lens, ActiveNum, ActiveNum)
  /\ LastAt(memory[kactive], frames[kactive], lens, ActiveNum, tail)

UsedLaid ==
  \A b \in Blocks : InUse(b) => Laid(memory[b], frames[b], lens, numPkts[b], numPkts[b] - 1)

ReaderOnFrame ==
  HasFrame => Header(memory[cursor.block], offset, frames[cursor.block][cursor.next])

FrameInv == MemoryTypes /\ ActiveLaid /\ UsedLaid /\ ReaderOnFrame /\ PacketIntact
================================================================================
