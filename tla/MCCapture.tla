------------------------------- MODULE MCCapture -------------------------------
(* Every combination of source, filter, direction and output, small counts.    *)
EXTENDS Capture

Live ==
  [source : {"live"}, mode : {"capture"}, same : {FALSE}, filter : {"none", "good"},
   userspace_filter : BOOLEAN, direction : {"none", "inout", "in", "out"},
   count : {NoCount, 0, 2}, write : BOOLEAN, print : BOOLEAN]

File ==
  [source : {"file"}, mode : {"capture"}, same : BOOLEAN, filter : {"none", "good"},
   userspace_filter : {FALSE}, direction : {"none", "out"},
   count : {NoCount, 1}, write : BOOLEAN, print : BOOLEAN]

(* Runs that end early.                                                        *)
Early ==
  [source : {"file"}, mode : {"list", "dump", "capture"}, same : BOOLEAN,
   filter : {"none", "good", "bad"}, userspace_filter : {FALSE}, direction : {"none"},
   count : {NoCount}, write : BOOLEAN, print : {FALSE}]

CommandLines == {o \in Live \cup File \cup Early : o.same => o.write}

Kinds ==
  {[match |-> TRUE, outgoing |-> FALSE, short |-> FALSE, ts |-> 5],
   [match |-> TRUE, outgoing |-> TRUE, short |-> FALSE, ts |-> 8],
   [match |-> FALSE, outgoing |-> FALSE, short |-> FALSE, ts |-> 6],
   [match |-> TRUE, outgoing |-> FALSE, short |-> TRUE, ts |-> 4]}
================================================================================
