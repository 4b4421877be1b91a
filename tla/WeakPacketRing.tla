---------------------------- MODULE WeakPacketRing ----------------------------
(* The same ring on a machine that may perform loads early (aarch64, one of    *)
(* the two targets of the Makefile).  wait_for_block() reads the status word   *)
(* with a volatile load, which orders nothing, and next_packet() then reads    *)
(* num_pkts with a plain one: only a branch lies between the two, so the       *)
(* header may be loaded before the status that is meant to guard it.  The      *)
(* kernel side keeps its barriers.                                             *)
EXTENDS PacketRing

NoLoad == -1

VARIABLE early   \* num_pkts as loaded ahead of the status word, or NoLoad

weakVars == <<vars, early>>

WeakInit == Init /\ early = NoLoad

(* The load of num_pkts is performed while the status load is outstanding.     *)
LoadEarly ==
  /\ rpc = "wait"
  /\ early = NoLoad
  /\ early' = numPkts[current_block]
  /\ UNCHANGED vars

(* On the way to poll() a load done too early is thrown away.                  *)
WeakCheckStatus ==
  /\ CheckStatus
  /\ early' = IF rpc' = "load" THEN early ELSE NoLoad

WeakLoadHeader ==
  /\ rpc = "load"
  /\ cursor' = [block |-> current_block,
                num |-> IF early = NoLoad THEN numPkts[current_block] ELSE early,
                seen |-> 0, next |-> 1]
  /\ rpc' = "scan"
  /\ early' = NoLoad
  /\ UNCHANGED <<shared, kernel, current_block, delivered, last>>

WeakNext ==
  \/ LoadEarly
  \/ WeakCheckStatus
  \/ WeakLoadHeader
  \/ /\ Kernel \/ Call \/ Deliver \/ ReleaseBlock \/ PollReturn \/ PollFail
     /\ UNCHANGED early

WeakSpec == WeakInit /\ [][WeakNext]_weakVars

--------------------------------------------------------------------------------
(* "No shared mutable state": what the reader copied from a block header is    *)
(* what the header says for as long as the reader holds the block.             *)
HeaderUnshared ==
  cursor # NoCursor => cursor.num = numPkts[cursor.block]

(* The ownership of blocks does not depend on the order of the two loads: the  *)
(* block next_packet() reads is the current one and belongs to user space, and *)
(* the kernel fills no block of user space, whatever count the reader took for *)
(* the block's and however early it gave the block back.                       *)
BlockHeld ==
  /\ cursor # NoCursor => cursor.block = current_block /\ InUse(cursor.block)
  /\ ~Frozen => ~InUse(kactive)

--------------------------------------------------------------------------------
(* The inductive invariant behind BlockHeld, WeakInv.                          *)

(* The count loaded early is one that some header held.                        *)
EarlyCount == early \in 0 .. BlockCap \cup {NoLoad}

(* What is left of CursorInv: the cursor's block is the reader's, and its      *)
(* offset is that of a frame; the cursor's count says nothing.                 *)
WeakCursor ==
  /\ cursor # NoCursor =>
       /\ cursor.block = current_block
       /\ InUse(current_block)
       /\ cursor.next \in 1 .. numPkts[current_block]
  /\ rpc = "scan" => cursor # NoCursor
  /\ rpc \in {"wait", "poll", "load"} => cursor = NoCursor
  /\ rpc = "load" => InUse(current_block)

WeakInv == TypeOK /\ EarlyCount /\ Window /\ WeakCursor
================================================================================
