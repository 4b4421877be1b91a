----------------------------- MODULE CaptureQueue -----------------------------
(* What the capture socket promises to its caller: a lossless first-in         *)
(* first-out queue between the kernel, which records or drops every arriving   *)
(* packet, and next_packet(), which hands the recorded packets out.  The k-th  *)
(* packet recorded carries the stamp k.  A packet may be dropped only while at *)
(* least Slack recorded packets wait for the caller.                           *)
EXTENDS Naturals

CONSTANT Slack  \* a natural number

VARIABLES recorded,   \* packets the kernel put into the ring
          dropped,    \* packets the kernel discarded for lack of room
          delivered,  \* packets next_packet() has returned
          last        \* stamp of the packet returned last, 0 before the first

vars == <<recorded, dropped, delivered, last>>

Init ==
  /\ recorded = 0
  /\ dropped = 0
  /\ delivered = 0
  /\ last = 0

Record ==
  /\ recorded' = recorded + 1
  /\ UNCHANGED <<dropped, delivered, last>>

Drop ==
  /\ recorded >= delivered + Slack
  /\ dropped' = dropped + 1
  /\ UNCHANGED <<recorded, delivered, last>>

(* The packet handed out is the oldest one not handed out yet.                 *)
Deliver ==
  /\ delivered < recorded
  /\ delivered' = delivered + 1
  /\ last' = delivered + 1
  /\ UNCHANGED <<recorded, dropped>>

Next == Record \/ Drop \/ Deliver

Spec == Init /\ [][Next]_vars

FairSpec == Spec /\ WF_vars(Deliver)
================================================================================
