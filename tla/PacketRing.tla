------------------------------ MODULE PacketRing ------------------------------
(* The TPACKET_V3 receive ring of netdump-afpacket, shared by the kernel,      *)
(* which fills blocks and hands them to user space, and by                     *)
(* AfPacketSocket::next_packet(), which walks the frames of the current block  *)
(* and gives the block back.  The two sides take no common lock: the block     *)
(* status word is all they agree on.                                           *)
(*                                                                             *)
(* The kernel's actions are external: they state the TPACKET_V3 contract that  *)
(* next_packet() is written against.  Packet contents are abstracted to a      *)
(* stamp: the k-th packet recorded carries k.                                  *)
EXTENDS Integers

CONSTANTS BlockNr,     \* blocks in the ring (OpenOptions::block_nr)
          BlockCap,    \* frames of the smallest size that fit in a block
          MaxPackets,  \* bound on the packets that arrive
          NoCursor     \* cursor: None

Blocks == 0 .. BlockNr - 1
Cursor == [block : Blocks, num : Nat, seen : Nat, next : Nat]

ASSUME RingAssumption ==
  /\ BlockNr \in Nat \ {0}
  /\ BlockCap \in Nat \ {0}
  /\ MaxPackets \in Nat
  /\ NoCursor \notin Cursor

VARIABLES
  status,         \* block_status of every block, the set of its flags
  frames,         \* the frames of every block, by position
  numPkts,        \* num_pkts of every block header
  kactive,        \* the block the kernel fills, or would fill next
  queue,          \* "frozen" once the kernel found no free block, else "running"
  recorded,       \* packets recorded so far
  dropped,        \* packets dropped so far
  current_block,  \* AfPacketSocket::current_block
  cursor,         \* AfPacketSocket::cursor
  rpc,            \* where the thread inside next_packet() is
  delivered,      \* packets returned so far
  last            \* stamp of the packet returned last

shared == <<status, frames, numPkts>>
kernel == <<kactive, queue, recorded, dropped>>
reader == <<current_block, cursor, rpc, delivered, last>>
vars == <<shared, kernel, reader>>

--------------------------------------------------------------------------------
(* Block status words: TP_STATUS_KERNEL is the word without flags; a block     *)
(* retired by the timer carries TP_STATUS_BLK_TMO beside TP_STATUS_USER.       *)
StatusKernel == {}
StatusUser == {"USER"}
StatusTimeout == {"USER", "BLK_TMO"}
Status == {StatusKernel, StatusUser, StatusTimeout}

Frozen == queue = "frozen"
InUse(b) == "USER" \in status[b]
NextBlock(b) == (b + 1) % BlockNr

Points == {"idle", "scan", "wait", "poll", "load"}

TypeOK ==
  /\ status \in [Blocks -> Status]
  /\ frames \in [Blocks -> [1 .. BlockCap -> Nat]]
  /\ numPkts \in [Blocks -> 0 .. BlockCap]
  /\ kactive \in Blocks
  /\ queue \in {"running", "frozen"}
  /\ recorded \in Nat
  /\ dropped \in Nat
  /\ current_block \in Blocks
  /\ cursor \in Cursor \cup {NoCursor}
  /\ rpc \in Points
  /\ delivered \in Nat
  /\ last \in Nat

(* A fresh ring: every block belongs to the kernel, block 0 is open.           *)
Init ==
  /\ status = [b \in Blocks |-> StatusKernel]
  /\ frames = [b \in Blocks |-> [j \in 1 .. BlockCap |-> 0]]
  /\ numPkts = [b \in Blocks |-> 0]
  /\ kactive = 0
  /\ queue = "running"
  /\ recorded = 0
  /\ dropped = 0
  /\ current_block = 0
  /\ cursor = NoCursor
  /\ rpc = "idle"
  /\ delivered = 0
  /\ last = 0

--------------------------------------------------------------------------------
(* The kernel.  Each action runs under the receive queue's lock.               *)

MayArrive == recorded + dropped < MaxPackets

(* The packet fits behind the n frames already in the active block.            *)
FillActive(n) ==
  /\ n < BlockCap
  /\ frames' = [frames EXCEPT ![kactive][n + 1] = recorded + 1]
  /\ numPkts' = [numPkts EXCEPT ![kactive] = n + 1]
  /\ recorded' = recorded + 1

Record ==
  /\ MayArrive
  /\ ~Frozen
  /\ FillActive(numPkts[kactive])
  /\ UNCHANGED <<status, kactive, queue, dropped, reader>>

(* The block that froze the queue is free again: reopening it empties its      *)
(* header and leaves the old frames behind.                                    *)
ThawRecord ==
  /\ MayArrive
  /\ Frozen /\ ~InUse(kactive)
  /\ queue' = "running"
  /\ FillActive(0)
  /\ UNCHANGED <<status, kactive, dropped, reader>>

(* The active block is handed to user space with the flags st.                 *)
Retire(st) ==
  /\ ~Frozen
  /\ numPkts[kactive] >= 1
  /\ status' = [status EXCEPT ![kactive] = st]
  /\ kactive' = NextBlock(kactive)

NextIsFree == NextBlock(kactive) # kactive /\ ~InUse(NextBlock(kactive))

(* The packet does not fit: frames have different lengths, so a block may be   *)
(* full before it holds BlockCap of them.                                      *)
RetireRecord ==
  /\ MayArrive
  /\ Retire(StatusUser)
  /\ NextIsFree
  /\ frames' = [frames EXCEPT ![NextBlock(kactive)][1] = recorded + 1]
  /\ numPkts' = [numPkts EXCEPT ![NextBlock(kactive)] = 1]
  /\ recorded' = recorded + 1
  /\ UNCHANGED <<queue, dropped, reader>>

(* No free block: the queue freezes and the packet is lost.                    *)
RetireDrop ==
  /\ MayArrive
  /\ Retire(StatusUser)
  /\ ~NextIsFree
  /\ queue' = "frozen"
  /\ dropped' = dropped + 1
  /\ UNCHANGED <<frames, numPkts, recorded, reader>>

FrozenDrop ==
  /\ MayArrive
  /\ Frozen /\ InUse(kactive)
  /\ dropped' = dropped + 1
  /\ UNCHANGED <<shared, kactive, queue, recorded, reader>>

(* The retire timer: a block that holds packets is closed, an empty one stays. *)
TimerRetire ==
  /\ Retire(StatusTimeout)
  /\ queue' = IF NextIsFree THEN "running" ELSE "frozen"
  /\ numPkts' = IF NextIsFree THEN [numPkts EXCEPT ![NextBlock(kactive)] = 0]
                ELSE numPkts
  /\ UNCHANGED <<frames, recorded, dropped, reader>>

TimerThaw ==
  /\ Frozen /\ ~InUse(kactive)
  /\ queue' = "running"
  /\ numPkts' = [numPkts EXCEPT ![kactive] = 0]
  /\ UNCHANGED <<status, frames, kactive, recorded, dropped, reader>>

Timer == TimerRetire \/ TimerThaw
Kernel == Record \/ ThawRecord \/ RetireRecord \/ RetireDrop \/ FrozenDrop \/ Timer

--------------------------------------------------------------------------------
(* The reader: next_packet() and wait_for_block().  Between any two of these   *)
(* steps the kernel may run.                                                   *)

(* Variants of the reader's steps, as a slip in the code would make them; the  *)
(* properties below tell each of them from the real step.                      *)

(* The last frame of a block is skipped.                                       *)
HasFrameShort == cursor # NoCursor /\ cursor.seen + 1 < cursor.num

HasFrame == cursor # NoCursor /\ cursor.seen < cursor.num

(* The caller enters next_packet(): an open cursor is looked at first.         *)
Call ==
  /\ rpc = "idle"
  /\ rpc' = IF cursor = NoCursor THEN "wait" ELSE "scan"
  /\ UNCHANGED <<shared, kernel, current_block, cursor, delivered, last>>

(* tp_next_offset of a frame; the kernel leaves 0 in the last one of a block.  *)
NextOffset(b, j) == IF j < numPkts[b] THEN 1 ELSE 0

(* The cursor's offset stays where it is.                                      *)
DeliverStuck ==
  /\ rpc = "scan"
  /\ HasFrame
  /\ last' = frames[cursor.block][cursor.next]
  /\ delivered' = delivered + 1
  /\ cursor' = [cursor EXCEPT !.seen = @ + 1]
  /\ rpc' = "idle"
  /\ UNCHANGED <<shared, kernel, current_block>>

(* The frame is copied out and the packet returned.                            *)
Deliver ==
  /\ rpc = "scan"
  /\ HasFrame
  /\ last' = frames[cursor.block][cursor.next]
  /\ delivered' = delivered + 1
  /\ cursor' = [block |-> cursor.block, num |-> cursor.num,
                seen |-> cursor.seen + 1,
                next |-> cursor.next + NextOffset(cursor.block, cursor.next)]
  /\ rpc' = "idle"
  /\ UNCHANGED <<shared, kernel, current_block>>

(* Three slips of giving a block back: no wrap-around, advancing before the    *)
(* release, and keeping the cursor.                                            *)
ReleaseNoWrap ==
  /\ rpc = "scan"
  /\ ~HasFrame
  /\ status' = [status EXCEPT ![cursor.block] = StatusKernel]
  /\ cursor' = NoCursor
  /\ current_block' = current_block + 1
  /\ rpc' = "wait"
  /\ UNCHANGED <<frames, numPkts, kernel, delivered, last>>

ReleaseAfterAdvance ==
  /\ rpc = "scan"
  /\ ~HasFrame
  /\ status' = [status EXCEPT ![NextBlock(current_block)] = StatusKernel]
  /\ cursor' = NoCursor
  /\ current_block' = NextBlock(current_block)
  /\ rpc' = "wait"
  /\ UNCHANGED <<frames, numPkts, kernel, delivered, last>>

ReleaseKeepsCursor ==
  /\ rpc = "scan"
  /\ ~HasFrame
  /\ status' = [status EXCEPT ![cursor.block] = StatusKernel]
  /\ current_block' = NextBlock(current_block)
  /\ rpc' = "wait"
  /\ UNCHANGED <<frames, numPkts, kernel, cursor, delivered, last>>

(* The block is exhausted: it goes back to the kernel.                         *)
ReleaseBlock ==
  /\ rpc = "scan"
  /\ ~HasFrame
  /\ status' = [status EXCEPT ![cursor.block] = StatusKernel]
  /\ cursor' = NoCursor
  /\ current_block' = NextBlock(current_block)
  /\ rpc' = "wait"
  /\ UNCHANGED <<frames, numPkts, kernel, delivered, last>>

(* The status word is compared as a whole, its flags forgotten.                *)
CheckWholeWord ==
  /\ rpc = "wait"
  /\ rpc' = IF status[current_block] = StatusUser THEN "load" ELSE "poll"
  /\ UNCHANGED <<shared, kernel, current_block, cursor, delivered, last>>

(* wait_for_block() reads the status word: only the USER flag counts.          *)
CheckStatus ==
  /\ rpc = "wait"
  /\ rpc' = IF "USER" \in status[current_block] THEN "load" ELSE "poll"
  /\ UNCHANGED <<shared, kernel, current_block, cursor, delivered, last>>

(* A timeout is taken for readiness: the status is not read again.             *)
PollTrusted ==
  /\ rpc = "poll"
  /\ rpc' = "load"
  /\ UNCHANGED <<shared, kernel, current_block, cursor, delivered, last>>

(* poll() returns on readiness or after POLL_TIMEOUT_MS, whichever is first;   *)
(* its revents are not looked at.                                              *)
PollReturn ==
  /\ rpc = "poll"
  /\ rpc' = "wait"
  /\ UNCHANGED <<shared, kernel, current_block, cursor, delivered, last>>

(* poll() fails: next_packet() returns the error, the socket stays usable.     *)
PollFail ==
  /\ rpc = "poll"
  /\ rpc' = "idle"
  /\ UNCHANGED <<shared, kernel, current_block, cursor, delivered, last>>

(* The header of the new current block is read into a fresh cursor.            *)
LoadHeader ==
  /\ rpc = "load"
  /\ cursor' = [block |-> current_block, num |-> numPkts[current_block],
                seen |-> 0, next |-> 1]
  /\ rpc' = "scan"
  /\ UNCHANGED <<shared, kernel, current_block, delivered, last>>

Reader ==
  \/ Call
  \/ Deliver
  \/ ReleaseBlock
  \/ CheckStatus
  \/ PollReturn
  \/ PollFail
  \/ LoadHeader

--------------------------------------------------------------------------------
Next == Kernel \/ Reader

Spec == Init /\ [][Next]_vars

(* The reader's thread keeps running and its caller keeps calling; the retire  *)
(* timer is re-armed for as long as the socket is open.                        *)
FairSpec == Spec /\ WF_vars(Reader) /\ WF_vars(TimerRetire) /\ WF_vars(TimerThaw)

--------------------------------------------------------------------------------
(* Safety.                                                                     *)

(* next_packet() returns every recorded packet exactly once and in the order   *)
(* of recording, whatever block boundaries, timeouts, freezes and failed polls *)
(* lie in between: the k-th packet returned is the k-th recorded.              *)
InOrder == last = delivered /\ delivered <= recorded

(* While next_packet() holds a cursor, its block is the current one, belongs   *)
(* to user space and still has the packet count the cursor copied; the block   *)
(* the kernel fills is never one that user space owns.                         *)
BlockOwnership ==
  /\ cursor # NoCursor =>
       /\ cursor.block = current_block
       /\ InUse(cursor.block)
       /\ cursor.num = numPkts[cursor.block]
       /\ cursor.seen <= cursor.num
  /\ ~Frozen => ~InUse(kactive)

(* A step may lose a packet only when every block waits for the reader: blocks *)
(* are released in the order the kernel reuses them.                           *)
DropOnlyWhenAllHeld ==
  [][dropped' # dropped => \A b \in Blocks : "USER" \in status'[b]]_vars

(* Liveness: a recorded packet is returned, even when nothing arrives any more *)
(* and its block is never filled.                                              *)
EventuallyDelivered ==
  \A n \in 1 .. MaxPackets : recorded >= n ~> delivered >= n

(* Liveness: a queue frozen because the reader lagged does not stay frozen.    *)
EventuallyThawed == Frozen ~> ~Frozen

(* The ring implements the queue; BlockNr - 1 recorded packets must be waiting *)
(* before one is dropped.                                                      *)
Queue == INSTANCE CaptureQueue WITH Slack <- BlockNr - 1

ImplementsQueue == Queue!Spec

(* Under fairness it is also as live as the queue: while a recorded packet     *)
(* waits, next_packet() goes on returning packets.                             *)
ImplementsFairQueue == Queue!FairSpec

--------------------------------------------------------------------------------
(* The inductive invariant behind InOrder and BlockOwnership: where every      *)
(* recorded packet lies, in terms of the window of blocks user space owns.     *)

(* How many blocks b lies ahead of a, going round the ring.                    *)
Dist(a, b) == IF b >= a THEN b - a ELSE b - a + BlockNr

(* Blocks owned by user space: the window from current_block up to kactive.    *)
Lag ==
  IF kactive # current_block THEN Dist(current_block, kactive)
  ELSE IF InUse(current_block) THEN BlockNr ELSE 0

(* Packets in the block the kernel fills, and the stamp of the first of them,  *)
(* or of the first that will be written there.                                 *)
ActiveNum == IF Frozen THEN 0 ELSE numPkts[kactive]
ActiveBase == recorded + 1 - ActiveNum

Seen == IF cursor = NoCursor THEN 0 ELSE cursor.seen

(* User space owns the Lag blocks from current_block on, and no others; none   *)
(* of them is empty.                                                           *)
Window ==
  /\ \A b \in Blocks : InUse(b) <=> Dist(current_block, b) < Lag
  /\ \A b \in Blocks : InUse(b) => numPkts[b] >= 1
  /\ InUse(kactive) => Frozen

(* The stamps in a block are consecutive.                                      *)
Contents ==
  /\ \A b \in Blocks : InUse(b) =>
       \A j \in 1 .. numPkts[b] : frames[b][j] + 1 = frames[b][1] + j
  /\ \A j \in 1 .. ActiveNum : frames[kactive][j] + 1 = ActiveBase + j
  /\ ActiveNum <= recorded

(* Each block goes on where the one before it ends, the last one where the     *)
(* active block begins; every later block holds at least one packet.           *)
Chain ==
  \A b \in Blocks : InUse(b) =>
    /\ frames[b][1] + numPkts[b] =
         IF NextBlock(b) = kactive THEN ActiveBase ELSE frames[NextBlock(b)][1]
    /\ frames[b][1] + numPkts[b] + (Lag - 1 - Dist(current_block, b)) <= ActiveBase

(* The reader stands at the first packet not yet returned.                     *)
ReaderAt ==
  /\ last = delivered
  /\ IF InUse(current_block) THEN frames[current_block][1] + Seen = delivered + 1
     ELSE ActiveBase = delivered + 1

(* The cursor agrees with the header and the frames of its block.              *)
CursorInv ==
  /\ cursor # NoCursor =>
       /\ cursor.block = current_block
       /\ InUse(current_block)
       /\ cursor.num = numPkts[current_block]
       /\ cursor.seen <= cursor.num
       /\ cursor.next = IF cursor.seen < cursor.num THEN cursor.seen + 1 ELSE cursor.num
  /\ rpc = "scan" => cursor # NoCursor
  /\ rpc \in {"wait", "poll", "load"} => cursor = NoCursor
  /\ rpc = "load" => InUse(current_block)

IInv == TypeOK /\ Window /\ Contents /\ Chain /\ ReaderAt /\ CursorInv
================================================================================
