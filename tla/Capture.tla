-------------------------------- MODULE Capture --------------------------------
(* run(): the filter is read, the output file created and the source opened;   *)
(* then packets come from the capture socket, here the queue it implements, or *)
(* from a pcap file; each is filtered, counted, and written, printed or both,  *)
(* until the count is reached, the file ends, a step fails or somebody ends    *)
(* the process.                                                                *)
EXTENDS Integers, Sequences, FiniteSets, SequencesExt

CONSTANTS OptionSet,    \* command lines
          PacketKinds,  \* packets: do they match the filter, are they outgoing, ...
          MaxPackets,   \* bound on the packets of a file or an interface
          Slack,        \* packets the socket holds before it drops one
          Second        \* time stamps per second (1_000_000 in the code)

NoCount == -1

OptionType ==
  [source : {"live", "file"}, mode : {"capture", "list", "dump"}, same : BOOLEAN,
   filter : {"none", "good", "bad"}, userspace_filter : BOOLEAN,
   direction : {"none", "inout", "in", "out"}, count : Nat \cup {NoCount},
   write : BOOLEAN, print : BOOLEAN]

PacketType == [match : BOOLEAN, outgoing : BOOLEAN, short : BOOLEAN, ts : Int]

ASSUME CaptureAssumption ==
  /\ OptionSet \subseteq OptionType
  /\ PacketKinds \subseteq PacketType
  /\ MaxPackets \in Nat
  /\ Slack \in Nat
  /\ Second \in Nat \ {0}

VARIABLES options,      \* the command line
          content,      \* the packets recorded by the kernel, or those of the file
          recorded, dropped, delivered, last,  \* the queue, see CaptureQueue
          phase,        \* where run() is
          created,      \* the output file has been created, and emptied
          packet,       \* the packet in hand
          captured,     \* packets counted
          ctx,          \* PktCtx: num, first_ts, prev_ts
          written,      \* packets written to the output file
          printed       \* lines printed: packet, number and time differences

queueVars == <<recorded, dropped, delivered, last>>
output == <<written, printed>>
vars == <<options, content, queueVars, phase, created, packet, captured, ctx, output>>

Queue == INSTANCE CaptureQueue

--------------------------------------------------------------------------------
Filtered == options.filter = "good"

KernelFilter == options.source = "live" /\ Filtered /\ ~options.userspace_filter

(* What the filter and -Q let through.  A frame too short to hold the addresses *)
(* is not asked for its direction, and a file has none; a value of -Q that is   *)
(* neither "in" nor "out" lets every packet through.                           *)
PassesFilter(p) == Filtered => p.match

PassesDirection(p) ==
  options.source = "live" /\ ~p.short =>
    /\ options.direction = "in" => ~p.outgoing
    /\ options.direction = "out" => p.outgoing

Wanted(p) == PassesFilter(p) /\ PassesDirection(p)

Init ==
  /\ options \in OptionSet
  /\ content \in IF options.source = "live" THEN {<<>>} ELSE BoundedSeq(PacketKinds, MaxPackets)
  /\ recorded = Len(content)
  /\ dropped = 0
  /\ delivered = 0
  /\ last = 0
  /\ phase = "start"
  /\ created = FALSE
  /\ packet = <<>>
  /\ captured = 0
  /\ ctx = [num |-> 0, first_ts |-> 0, prev_ts |-> 0]
  /\ written = <<>>
  /\ printed = <<>>

--------------------------------------------------------------------------------
(* The kernel's side of the socket, once it is open: with a kernel filter only *)
(* matching packets reach the queue (SocketOpen).                              *)

Ended == phase \in {"done", "failed", "killed"}

Listening == options.source = "live" /\ ~Ended /\ phase \notin {"start", "create", "open"}

PacketRecorded ==
  /\ Listening
  /\ Len(content) < MaxPackets
  /\ \E p \in PacketKinds :
       /\ KernelFilter => p.match
       /\ content' = Append(content, p)
  /\ Queue!Record
  /\ UNCHANGED <<options, phase, created, packet, captured, ctx, output>>

PacketDropped ==
  /\ Listening
  /\ dropped < MaxPackets
  /\ Queue!Drop
  /\ UNCHANGED <<options, content, phase, created, packet, captured, ctx, output>>

--------------------------------------------------------------------------------
(* An input file that is the output file as well is emptied.                   *)
Truncate ==
  /\ created' = TRUE
  /\ content' = IF options.same THEN <<>> ELSE content
  /\ recorded' = Len(content')

(* A slip: the output file is created before the filter is looked at.          *)
StartCreating ==
  /\ phase = "start"
  /\ IF options.write THEN Truncate ELSE UNCHANGED <<created, content, recorded>>
  /\ phase' = IF options.mode = "capture" /\ options.filter # "bad" THEN "create" ELSE "failed"
  /\ UNCHANGED <<options, dropped, delivered, last, packet, captured, ctx, output>>

(* Before the loop.  -D and -d end the program, and so does a filter that      *)
(* cannot be read or parsed, or one to dump where there is none.               *)

Start ==
  /\ phase = "start"
  /\ phase' = CASE options.mode = "list" -> "done"
                [] options.filter = "bad" \/ (options.mode = "dump" /\ ~Filtered) -> "failed"
                [] options.mode = "dump" -> "done"
                [] OTHER -> "create"
  /\ UNCHANGED <<options, content, queueVars, created, packet, captured, ctx, output>>

ListFails ==
  /\ phase = "start"
  /\ options.mode = "list"
  /\ phase' = "failed"
  /\ UNCHANGED <<options, content, queueVars, created, packet, captured, ctx, output>>

Create ==
  /\ phase = "create"
  /\ IF options.write THEN Truncate ELSE UNCHANGED <<created, content, recorded>>
  /\ phase' = "open"
  /\ UNCHANGED <<options, dropped, delivered, last, packet, captured, ctx, output>>

(* The file cannot be created, or its header not be written.                   *)
CreateFails ==
  /\ phase = "create"
  /\ options.write
  /\ Truncate \/ UNCHANGED <<created, content, recorded>>
  /\ phase' = "failed"
  /\ UNCHANGED <<options, dropped, delivered, last, packet, captured, ctx, output>>

Goto(p) == phase' = p /\ UNCHANGED <<options, content, created>>

Open ==
  /\ phase = "open"
  /\ Goto(IF options.source = "live" /\ options.direction # "none" THEN "mac" ELSE "top")
  /\ UNCHANGED <<queueVars, packet, captured, ctx, output>>

(* The address -Q compares the senders with, once the socket is listening.     *)
GetIfaceMac ==
  /\ phase = "mac"
  /\ Goto("top")
  /\ UNCHANGED <<queueVars, packet, captured, ctx, output>>

OpenFails ==
  /\ phase \in {"open", "mac"}
  /\ Goto("failed")
  /\ UNCHANGED <<queueVars, packet, captured, ctx, output>>

--------------------------------------------------------------------------------
(* The loop.                                                                   *)

(* A slip: the count is compared after one packet more.                        *)
CheckCountLate ==
  /\ phase = "top"
  /\ Goto(IF options.count # NoCount /\ captured > options.count THEN "done" ELSE "next")
  /\ UNCHANGED <<queueVars, packet, captured, ctx, output>>

CheckCount ==
  /\ phase = "top"
  /\ Goto(IF options.count # NoCount /\ captured >= options.count THEN "done" ELSE "next")
  /\ UNCHANGED <<queueVars, packet, captured, ctx, output>>

(* next_packet() of the socket or of the file.                                 *)
NextPacket ==
  /\ phase = "next"
  /\ Queue!Deliver
  /\ packet' = content[last']
  /\ Goto("judge")
  /\ UNCHANGED <<captured, ctx, output>>

EndOfFile ==
  /\ phase = "next"
  /\ options.source = "file"
  /\ delivered = recorded
  /\ Goto("done")
  /\ UNCHANGED <<queueVars, packet, captured, ctx, output>>

(* poll() fails, or the file is damaged.                                       *)
SourceFails ==
  /\ phase = "next"
  /\ Goto("failed")
  /\ UNCHANGED <<queueVars, packet, captured, ctx, output>>

(* The packet is filtered in user space unless the kernel did so, then by its  *)
(* direction, and counted.                                                     *)
Counted(p) == (KernelFilter \/ PassesFilter(p)) /\ PassesDirection(p)

(* A slip: a filter is taken to be the kernel's whenever there is one.         *)
JudgeNever ==
  /\ phase = "judge"
  /\ IF PassesDirection(packet)
     THEN /\ Goto(IF options.write THEN "write" ELSE "print")
          /\ captured' = captured + 1
          /\ ctx' = [ctx EXCEPT !.num = @ + 1]
     ELSE Goto("top") /\ UNCHANGED <<captured, ctx>>
  /\ UNCHANGED <<queueVars, packet, output>>

(* A slip: every packet read is given a number.                                *)
JudgeNumbersAll ==
  /\ phase = "judge"
  /\ ctx' = [ctx EXCEPT !.num = @ + 1]
  /\ IF Counted(packet)
     THEN /\ Goto(IF options.write THEN "write" ELSE "print")
          /\ captured' = captured + 1
     ELSE Goto("top") /\ UNCHANGED captured
  /\ UNCHANGED <<queueVars, packet, output>>

(* A slip: packets are counted only when they are printed.                     *)
JudgeUncounted ==
  /\ phase = "judge"
  /\ IF Counted(packet)
     THEN /\ Goto(IF options.write THEN "write" ELSE "print")
          /\ captured' = IF options.write THEN captured ELSE captured + 1
          /\ ctx' = [ctx EXCEPT !.num = @ + 1]
     ELSE Goto("top") /\ UNCHANGED <<captured, ctx>>
  /\ UNCHANGED <<queueVars, packet, output>>

Judge ==
  /\ phase = "judge"
  /\ IF Counted(packet)
     THEN /\ Goto(IF options.write THEN "write" ELSE "print")
          /\ captured' = captured + 1
          /\ ctx' = [ctx EXCEPT !.num = @ + 1]
     ELSE Goto("top") /\ UNCHANGED <<captured, ctx>>
  /\ UNCHANGED <<queueVars, packet, output>>

Write ==
  /\ phase = "write"
  /\ written' = Append(written, packet)
  /\ Goto(IF options.print THEN "print" ELSE "top")
  /\ UNCHANGED <<queueVars, packet, captured, ctx, printed>>

WriteFails ==
  /\ phase = "write"
  /\ Goto("failed")
  /\ UNCHANGED <<queueVars, packet, captured, ctx, output>>

(* A live capture takes the first packet's time as the reference of -ttttt; a  *)
(* file takes that of every packet.                                            *)
FirstTs == IF options.source = "file" \/ ctx.num = 1 THEN packet.ts ELSE ctx.first_ts

(* A time difference as it is printed: whole seconds rounded to zero, with     *)
(* their sign, and the rest without one.                                       *)
Shown(delta) ==
  [secs |-> IF delta < 0 THEN -((-delta) \div Second) ELSE delta \div Second,
   rest |-> (IF delta < 0 THEN -delta ELSE delta) % Second]

PrintPacket ==
  /\ phase = "print"
  /\ printed' = Append(printed, [packet |-> packet, num |-> ctx.num,
                                 since_prev |-> Shown(packet.ts - ctx.prev_ts),
                                 since_first |-> Shown(packet.ts - FirstTs)])
  /\ ctx' = [num |-> ctx.num, first_ts |-> FirstTs, prev_ts |-> packet.ts]
  /\ Goto("top")
  /\ UNCHANGED <<queueVars, packet, captured, written>>

(* The process is ended from outside, by an interrupt for instance; nothing    *)
(* more is written.                                                            *)
Killed ==
  /\ ~Ended
  /\ Goto("killed")
  /\ UNCHANGED <<queueVars, packet, captured, ctx, output>>

Progress ==
  \/ Start
  \/ Create
  \/ Open
  \/ GetIfaceMac
  \/ CheckCount
  \/ NextPacket
  \/ EndOfFile
  \/ Judge
  \/ Write
  \/ PrintPacket

Failure == ListFails \/ CreateFails \/ OpenFails \/ SourceFails \/ WriteFails

Next == PacketRecorded \/ PacketDropped \/ Progress \/ Failure \/ Killed

Spec == Init /\ [][Next]_vars

(* run() is one thread that waits only for a packet; the socket hands every    *)
(* recorded packet out (ImplementsFairQueue of PacketRing).                    *)
FairSpec == Spec /\ WF_vars(Progress)

--------------------------------------------------------------------------------
(* The wanted packets among the first n, and how many they are: the place of   *)
(* the n-th packet in the output if it is wanted.                              *)
WantedUpTo(n) == {i \in 1 .. n : Wanted(content[i])}
Rank(n) == Cardinality(WantedUpTo(n))

DiffType == [secs : Int, rest : Nat]
LineType == [packet : PacketKinds, num : Nat, since_prev : DiffType, since_first : DiffType]

TypeOK ==
  /\ options \in OptionSet
  /\ content \in Seq(PacketKinds)
  /\ recorded = Len(content)
  /\ delivered \in 0 .. recorded
  /\ phase \in {"start", "create", "open", "mac", "top", "next", "judge", "write", "print",
                "done", "failed", "killed"}
  /\ created \in BOOLEAN
  /\ captured \in 0 .. delivered
  /\ ctx \in [num : Nat, first_ts : Int, prev_ts : Int]
  /\ written \in Seq(PacketKinds) /\ Len(written) <= captured
  /\ printed \in Seq(LineType) /\ Len(printed) <= captured

(* The packets that reach the file are those the caller asked for, each once   *)
(* and in order, wherever the filter ran and however the run ends; at the top  *)
(* of the loop none is missing, also of those printed.                         *)
Lines == [i \in 1 .. Len(printed) |-> printed[i].packet]

Printing == options.print \/ ~options.write

Delivers(out) ==
  /\ Len(out) <= Rank(delivered)
  /\ \A i \in WantedUpTo(delivered) : Rank(i) <= Len(out) => out[Rank(i)] = content[i]

OutputFaithful ==
  /\ Delivers(written)
  /\ Delivers(Lines)
  /\ phase \in {"top", "next"} \/ (phase = "done" /\ options.mode = "capture") =>
       /\ options.write => Len(written) = Rank(delivered)
       /\ Printing => Len(printed) = Rank(delivered)

(* A run that gets no further than its command line, for -D, -d or a filter    *)
(* that is not accepted, leaves the files it names as they are.                *)
FilesKept ==
  options.mode # "capture" \/ options.filter = "bad" =>
    ~created /\ written = <<>> /\ captured = 0

(* Never more packets than -c asks for, and a live capture that ends by itself *)
(* has exactly that many.                                                      *)
CountExact ==
  options.mode = "capture" /\ options.count # NoCount =>
    /\ Len(written) <= options.count
    /\ Len(printed) <= options.count
    /\ phase = "done" /\ options.source = "live" =>
         IF options.write THEN Len(written) = options.count
         ELSE Len(printed) = options.count

(* What a printed difference tells: its size, and its sign if it is a second   *)
(* or more.                                                                    *)
Tells(shown, delta) ==
  LET size == IF delta < 0 THEN -delta ELSE delta
      secs == IF shown.secs < 0 THEN -shown.secs ELSE shown.secs
  IN  /\ secs * Second + shown.rest = size
      /\ size >= Second => (shown.secs < 0 <=> delta < 0)

(* Lines carry consecutive numbers, and the times of a live capture are those  *)
(* since the line before and since the first line, whatever was filtered in    *)
(* between and also where the clock went back.                                 *)
LinesConsistent ==
  \A i \in 1 .. Len(printed) :
    LET line == printed[i]
        prev == IF i = 1 THEN 0 ELSE printed[i - 1].packet.ts
    IN  /\ line.num = i
        /\ Tells(line.since_prev, line.packet.ts - prev)
        /\ options.source = "live" => Tells(line.since_first, line.packet.ts - printed[1].packet.ts)

(* Once enough wanted packets were recorded a capture with -c ends.            *)
CountReached ==
  (/\ phase = "top"
   /\ options.count # NoCount
   /\ Rank(Len(content)) >= options.count) ~> Ended

--------------------------------------------------------------------------------
(* The inductive invariant of run(), CaptureInv.                               *)

(* With a kernel filter only matching packets were recorded; the packet in     *)
(* hand is the one delivered last, and is wanted once it has been judged.      *)
InHand ==
  /\ last = delivered
  /\ KernelFilter => \A i \in 1 .. Len(content) : content[i].match
  /\ phase \in {"judge", "write", "print"} => delivered > 0 /\ packet = content[delivered]
  /\ phase \in {"write", "print"} => Wanted(packet)
  /\ phase = "write" => options.write
  /\ phase = "print" => Printing

(* Nothing has happened before the loop, nor if the command line is refused.   *)
Untouched ==
  /\ phase \in {"start", "create", "open", "mac"} => delivered = 0
  /\ options.mode # "capture" \/ options.filter = "bad" =>
       phase \in {"start", "done", "failed", "killed"} /\ ~created /\ delivered = 0
  /\ phase \in {"start", "create"} => ~created

(* What has been counted, written and printed, by the packets delivered; less  *)
(* when the run failed or was killed.                                          *)
Count ==
  /\ ctx.num = captured
  /\ captured <= Rank(delivered)
  /\ Len(written) <= captured
  /\ Len(printed) <= captured
  /\ phase \notin {"failed", "killed"} =>
       /\ captured = Rank(IF phase = "judge" THEN delivered - 1 ELSE delivered)
       /\ Len(written) = IF ~options.write THEN 0
                         ELSE IF phase = "write" THEN captured - 1 ELSE captured
       /\ Len(printed) = IF ~Printing THEN 0
                         ELSE IF phase \in {"write", "print"} THEN captured - 1 ELSE captured

(* -c: another packet is asked for only while some are missing.                *)
Limit ==
  options.count # NoCount =>
    /\ captured <= options.count
    /\ phase \in {"next", "judge"} => captured < options.count
    /\ phase = "done" /\ options.mode = "capture" /\ options.source = "live" =>
         captured = options.count

(* The reference times are those of the last line and of the first.            *)
Reference ==
  /\ ctx.prev_ts = IF printed = <<>> THEN 0 ELSE printed[Len(printed)].packet.ts
  /\ options.source = "live" /\ printed # <<>> => ctx.first_ts = printed[1].packet.ts
  /\ LinesConsistent

CaptureInv ==
  /\ TypeOK
  /\ InHand
  /\ Untouched
  /\ Count
  /\ Limit
  /\ Delivers(written)
  /\ Delivers(Lines)
  /\ Reference
================================================================================
