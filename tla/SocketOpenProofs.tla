---------------------------- MODULE SocketOpenProofs ----------------------------
(* Proofs about SocketOpen and DefaultInterface, for any interfaces, options,  *)
(* traffic and changes of the host: the geometry of the ring, the safety of    *)
(* opening a socket, with its interface named or chosen, and the choice.       *)
EXTENDS DefaultInterface, InductionLemmas, FiniteSetTheorems, TLAPS

--------------------------------------------------------------------------------
(* Where open_with_options() goes from each step.                              *)

(* Where each step stands in the order.                                        *)
LEMMA Positions ==
  /\ Len(Order) = 12
  /\ Order[1] = "lookup" /\ Order[2] = "socket" /\ Order[3] = "nonblock"
  /\ Order[4] = "buffer" /\ Order[5] = "getflags" /\ Order[6] = "setflags"
  /\ Order[7] = "version" /\ Order[8] = "bind" /\ Order[9] = "attach"
  /\ Order[10] = "ring" /\ Order[11] = "mmap" /\ Order[12] = "open"
  BY DEF Order

(* The steps between socket() and bind().                                      *)
Configuring == {"nonblock", "buffer", "getflags", "setflags", "version"}

LEMMA Place ==
  ASSUME NEW i \in 1 .. 12
  PROVE  /\ Order[i] = "lookup" <=> i = 1
         /\ Order[i] = "socket" <=> i = 2
         /\ Order[i] \in Configuring <=> i \in 3 .. 7
         /\ Order[i] = "bind" <=> i = 8
         /\ Order[i] = "attach" <=> i = 9
         /\ Order[i] = "ring" <=> i = 10
         /\ Order[i] = "mmap" <=> i = 11
         /\ Order[i] = "open" <=> i = 12
<1>1. \/ i = 1 \/ i = 2 \/ i = 3 \/ i = 4 \/ i = 5 \/ i = 6 \/ i = 7 \/ i = 8
      \/ i = 9 \/ i = 10 \/ i = 11 \/ i = 12
  OBVIOUS
<1> QED
 BY <1>1, Positions DEF Configuring

(* Only the receive buffer, the interface's flags and an absent filter are     *)
(* ever skipped.                                                               *)
LEMMA Skips ==
  ASSUME NEW i \in 1 .. 12, Order[i] \in Skipped(options)
  PROVE  i \in 4 .. 6 \/ (i = 9 /\ ~options.filtered)
<1>1. \/ Order[i] = "buffer" \/ Order[i] = "getflags" \/ Order[i] = "setflags"
      \/ (Order[i] = "attach" /\ ~options.filtered)
  BY DEF Skipped
<1> QED
  BY <1>1, Place, Positions

(* No step passes over the filter of a caller who has one, nor over bind().    *)
LEMMA StepTo ==
  ASSUME NEW name, Step(name)
  PROVE  /\ name = "lookup" => at' = "socket"
         /\ name = "socket" => at' = "nonblock"
         /\ name \in Configuring => at' \in Configuring \cup {"bind"}
         /\ name = "bind" => \/ at' = "attach" /\ options.filtered
                             \/ at' = "ring" /\ ~options.filtered
         /\ name = "attach" => at' = "ring"
         /\ name = "ring" => at' = "mmap"
         /\ name = "mmap" => at' = "open"
<1>1. PICK i \in 1 .. 12, j \in 1 .. 12 : Order[i] = name /\ Follows(i, j) /\ at' = Order[j]
  BY Positions DEF Step
<1>2. \A k \in 1 .. 12 :
        Order[k] \in Skipped(options) => k \in 4 .. 6 \/ (k = 9 /\ ~options.filtered)
  BY Skips
<1>3. i < j /\ \A k \in i + 1 .. j - 1 : k \in 4 .. 6 \/ (k = 9 /\ ~options.filtered)
  BY <1>1, <1>2 DEF Follows
<1>4. i = 1 => j = 2
  BY <1>3
<1>5. i = 2 => j = 3
  BY <1>3
<1>6. i \in 3 .. 7 => j \in 3 .. 8
  BY <1>3
<1>7. i = 8 => (j = 9 /\ options.filtered) \/ (j = 10 /\ ~options.filtered)
  <2>1. i = 8 => j = 9 \/ (j = 10 /\ ~options.filtered)
    BY <1>3
  <2>2. j = 9 => options.filtered
    <3>1. j = 9 => "attach" \notin Skipped(options)
      BY <1>1, Positions DEF Follows
    <3> QED
      BY <3>1 DEF Skipped
  <2> QED
    BY <2>1, <2>2
<1>8. /\ i = 9 => j = 10
      /\ i = 10 => j = 11
      /\ i = 11 => j = 12
  BY <1>3
<1>9. name = Order[i] /\ at' = Order[j]
  BY <1>1
<1>10. name \in Configuring => at' \in Configuring \cup {"bind"}
  BY <1>6, <1>9, Place
<1>11. name = "bind" => \/ at' = "attach" /\ options.filtered
                        \/ at' = "ring" /\ ~options.filtered
  BY <1>7, <1>9, Place
<1>12. name = "lookup" => at' = "socket"
  BY <1>4, <1>9, Place
<1>13. name = "socket" => at' = "nonblock"
  BY <1>5, <1>9, Place, Positions
<1>14. /\ name = "attach" => at' = "ring"
       /\ name = "ring" => at' = "mmap"
       /\ name = "mmap" => at' = "open"
  BY <1>8, <1>9, Place
<1> QED
  BY <1>10, <1>11, <1>12, <1>13, <1>14

--------------------------------------------------------------------------------
(* The inductive invariant.                                                    *)

USE DEF opener, packets, socket

LEMMA OpenInit == Init => OpenInv
<1> SUFFICES ASSUME Init PROVE OpenInv
  OBVIOUS
<1>1. at \in {"list", "socket", "lookup"}
  BY DEF Init, First
<1>2. Descriptor
  BY <1>1 DEF Init, Descriptor, NoSocket, HasSocket, AfterBind, AfterAttach, AfterRing
<1>3. Prepared
  BY <1>1 DEF Init, Prepared, AfterBind, AfterAttach, AfterRing
<1>4. Judged
  BY <1>1 DEF Init, Judged
<1> QED
  BY <1>2, <1>3, <1>4 DEF OpenInv

LEMMA LookupKeeps == OpenInv /\ LookupInterface => OpenInv'
<1> SUFFICES ASSUME OpenInv, LookupInterface PROVE OpenInv'
  OBVIOUS
<1>1. at = "lookup" /\ at' = "socket" /\ options' = options
  BY StepTo DEF LookupInterface, Step
<1>2. UNCHANGED <<kernel_filter_attached, mapped, fd, bound, filter, late, hook, inflight, queue, ring>>
  BY DEF LookupInterface
<1>3. Descriptor'
  BY <1>1, <1>2 DEF OpenInv, Descriptor, NoSocket, HasSocket, AfterBind, AfterAttach, AfterRing
<1>4. Prepared'
  BY <1>1, <1>2 DEF OpenInv, Prepared, NoSocket, AfterBind, AfterAttach, AfterRing
<1>5. Judged'
  BY <1>1, <1>2 DEF OpenInv, Judged, AfterRing, Over, AskedFor, Passed
<1> QED
  BY <1>3, <1>4, <1>5 DEF OpenInv

LEMMA CreateKeeps == OpenInv /\ CreateSocket => OpenInv'
<1> SUFFICES ASSUME OpenInv, CreateSocket PROVE OpenInv'
  OBVIOUS
<1>1. at = "socket" /\ at' = "nonblock" /\ options' = options /\ fd' = "open"
  BY StepTo DEF CreateSocket, Step
<1>2. UNCHANGED <<kernel_filter_attached, mapped, filter, late, hook, inflight, queue, ring>>
  BY DEF CreateSocket
<1>3. Descriptor'
  BY <1>1, <1>2 DEF OpenInv, Descriptor, NoSocket, HasSocket, AfterBind, AfterAttach, AfterRing
<1>4. Prepared'
  BY <1>1, <1>2 DEF OpenInv, Prepared, NoSocket, AfterBind, AfterAttach, AfterRing
<1>5. Judged'
  BY <1>1, <1>2 DEF OpenInv, Judged, AfterRing, Over, AskedFor, Passed
<1> QED
  BY <1>3, <1>4, <1>5 DEF OpenInv

(* Calls that touch neither the filter nor the packets.                        *)
LEMMA ConfigureKeeps == OpenInv /\ (Configure \/ GetFlags \/ SetFlags) => OpenInv'
<1> SUFFICES ASSUME OpenInv, Configure \/ GetFlags \/ SetFlags PROVE OpenInv'
  OBVIOUS
<1>1. PICK name \in Configuring : Step(name)
  BY DEF Configure, GetFlags, SetFlags, Configuring
<1>2. at \in Configuring /\ at' \in Configuring \cup {"bind"} /\ options' = options
  BY <1>1, StepTo DEF Step
<1>3. UNCHANGED <<kernel_filter_attached, mapped, fd, bound, filter, late, hook, inflight, queue, ring>>
  BY DEF Configure, GetFlags, SetFlags
<1>4. Descriptor'
  BY <1>2, <1>3
     DEF OpenInv, Descriptor, HasSocket, AfterBind, AfterAttach, AfterRing, Configuring
<1>5. Prepared'
  BY <1>2, <1>3 DEF OpenInv, Prepared, NoSocket, AfterBind, AfterAttach, AfterRing, Configuring
<1>6. Judged'
  BY <1>2, <1>3 DEF OpenInv, Judged, AfterRing, Over, AskedFor, Passed, Configuring
<1> QED
  BY <1>4, <1>5, <1>6 DEF OpenInv

LEMMA BindKeeps == OpenInv /\ Bind => OpenInv'
<1> SUFFICES ASSUME OpenInv, Bind PROVE OpenInv'
  OBVIOUS
<1>1. /\ at = "bind" /\ options' = options
      /\ \/ at' = "attach" /\ options.filtered
         \/ at' = "ring" /\ ~options.filtered
  BY StepTo DEF Bind, Step
<1>2. UNCHANGED <<kernel_filter_attached, mapped, fd, filter, late, hook, inflight, queue, ring>>
  BY DEF Bind
<1>3. Descriptor'
  BY <1>1, <1>2 DEF OpenInv, Descriptor, HasSocket, AfterBind, AfterAttach, AfterRing
<1>4. Prepared'
  BY <1>1, <1>2
     DEF OpenInv, Prepared, NoSocket, AfterBind, AfterAttach, AfterRing, Bind, Wanted
<1>5. Judged'
  BY <1>1, <1>2 DEF OpenInv, Judged, AfterRing, Over, AskedFor, Passed
<1> QED
  BY <1>3, <1>4, <1>5 DEF OpenInv

LEMMA AttachKeeps == OpenInv /\ AttachFilter => OpenInv'
<1> SUFFICES ASSUME OpenInv, AttachFilter PROVE OpenInv'
  OBVIOUS
<1>1. at = "attach" /\ at' = "ring" /\ options' = options /\ options.filtered
  BY StepTo DEF AttachFilter, Step, OpenInv, Prepared
<1>2. UNCHANGED <<mapped, fd, bound, late, hook, inflight, queue, ring>>
  BY DEF AttachFilter
<1>3. Descriptor'
  BY <1>1, <1>2 DEF OpenInv, Descriptor, HasSocket, AfterBind, AfterAttach, AfterRing
<1>4. Prepared'
  BY <1>1, <1>2
     DEF OpenInv, Prepared, NoSocket, AfterBind, AfterAttach, AfterRing, AttachFilter, Wanted
<1>5. Judged'
  BY <1>1, <1>2 DEF OpenInv, Judged, AfterRing, Over, AskedFor, Passed
<1> QED
  BY <1>3, <1>4, <1>5 DEF OpenInv

(* The hook moves to the ring with nothing in flight, so no packet judged      *)
(* before reaches it.                                                          *)
LEMMA SetRingKeeps == OpenInv /\ SetRing => OpenInv'
<1> SUFFICES ASSUME OpenInv, SetRing PROVE OpenInv'
  OBVIOUS
<1>1. at = "ring" /\ at' = "mmap" /\ options' = options
  BY StepTo DEF SetRing, Step
<1>2. /\ UNCHANGED <<kernel_filter_attached, mapped, fd, bound, filter, late, inflight, ring>>
      /\ inflight = {} /\ queue' = {}
      /\ hook' = IF RingRequest(options).block_nr = 0 THEN hook ELSE "ring"
  BY DEF SetRing
<1>3. Descriptor'
  BY <1>1, <1>2 DEF OpenInv, Descriptor, HasSocket, AfterBind, AfterAttach, AfterRing
<1>4. Prepared'
  BY <1>1, <1>2 DEF OpenInv, Prepared, NoSocket, AfterBind, AfterAttach, AfterRing, Wanted
<1>5. Judged'
  BY <1>1, <1>2 DEF OpenInv, Judged, AfterRing, Over, AskedFor, Passed
<1> QED
  BY <1>3, <1>4, <1>5 DEF OpenInv

(* An unset ring is not mapped.                                                *)
LEMMA MapKeeps == OpenInv /\ MapRing => OpenInv'
<1> SUFFICES ASSUME OpenInv, MapRing PROVE OpenInv'
  OBVIOUS
<1>1. at = "mmap" /\ at' = "open" /\ options' = options /\ hook = "ring"
  BY StepTo DEF MapRing, Step, OpenInv, Judged
<1>2. UNCHANGED <<kernel_filter_attached, fd, bound, filter, late, hook, inflight, queue, ring>>
  BY DEF MapRing
<1>3. Descriptor'
  BY <1>1, <1>2 DEF OpenInv, Descriptor, HasSocket, AfterBind, AfterAttach, AfterRing
<1>4. Prepared'
  BY <1>1, <1>2 DEF OpenInv, Prepared, NoSocket, AfterBind, AfterAttach, AfterRing, Wanted
<1>5. Judged'
  BY <1>1, <1>2 DEF OpenInv, Judged, AfterRing, Over, AskedFor, Passed
<1> QED
  BY <1>3, <1>4, <1>5 DEF OpenInv

(* A failing call leaves no mapping: mmap() is the last one.                   *)
LEMMA FailKeeps == OpenInv /\ Fail => OpenInv'
<1> SUFFICES ASSUME OpenInv, Fail PROVE OpenInv'
  OBVIOUS
<1>1. /\ at \in NoSocket \cup HasSocket /\ at # "open"
      /\ at' = "failed"
      /\ UNCHANGED <<options, kernel_filter_attached, mapped, filter, late, hook>>
  BY DEF Fail, CloseFd, OpenInv, Descriptor, Over
<1>2. ~mapped /\ ~mapped'
  BY <1>1 DEF OpenInv, Descriptor
<1>3. fd' # "open" /\ inflight' = {} /\ queue' = {} /\ ring' = {}
  BY <1>2 DEF Fail, CloseFd
<1>4. Descriptor'
  BY <1>1, <1>2, <1>3 DEF Descriptor, Over, HasSocket, AfterBind, AfterAttach, AfterRing
<1>5. Prepared'
  BY <1>1 DEF OpenInv, Prepared, NoSocket, AfterBind, AfterAttach, AfterRing
<1>6. Judged'
  BY <1>1, <1>3 DEF Judged, Over
<1> QED
  BY <1>4, <1>5, <1>6 DEF OpenInv

LEMMA DropKeeps == OpenInv /\ Drop => OpenInv'
<1> SUFFICES ASSUME OpenInv, Drop PROVE OpenInv'
  OBVIOUS
<1>1. /\ at = "open" /\ at' = "dropped" /\ ~mapped'
      /\ UNCHANGED <<options, kernel_filter_attached, filter, late, hook>>
  BY DEF Drop, CloseFd
<1>2. fd' # "open" /\ inflight' = {} /\ queue' = {} /\ ring' = {}
  BY <1>1 DEF Drop, CloseFd
<1>3. Descriptor'
  BY <1>1, <1>2 DEF Descriptor, Over, HasSocket, AfterBind, AfterAttach, AfterRing
<1>4. Prepared'
  BY <1>1 DEF OpenInv, Prepared, NoSocket, AfterBind, AfterAttach, AfterRing
<1>5. Judged'
  BY <1>1, <1>2 DEF Judged, Over
<1> QED
  BY <1>3, <1>4, <1>5 DEF OpenInv

(* What the opening program or one attached since has passed, stays so.        *)
LEMMA AttachLateKeeps == OpenInv /\ AttachLate => OpenInv'
<1> SUFFICES ASSUME OpenInv, AttachLate PROVE OpenInv'
  OBVIOUS
<1>1. /\ at = "open"
      /\ \/ \E p \in Programs : filter' = p /\ late' = late \cup {p}
         \/ UNCHANGED <<filter, late>>
      /\ UNCHANGED <<options, at, kernel_filter_attached, mapped, fd, bound, hook, inflight,
                     queue, ring>>
  BY DEF AttachLate
<1>2. Descriptor'
  BY <1>1 DEF OpenInv, Descriptor
<1>3. Prepared'
  BY <1>1 DEF OpenInv, Prepared, Wanted, AfterBind, AfterAttach, AfterRing
<1>4. late \subseteq late'
  BY <1>1
<1>5. \A p : AskedFor(p) => AskedFor(p)'
  BY <1>1, <1>4 DEF AskedFor, Passed, Wanted
<1>6. Judged'
  BY <1>1, <1>5 DEF OpenInv, Judged
<1> QED
  BY <1>2, <1>3, <1>6 DEF OpenInv

(* A packet that is put into the ring arrived on an interface the caller named, *)
(* and passed the caller's filter or one attached in its place.                *)
LEMMA ArriveKeeps == OpenInv /\ Arrive => OpenInv'
<1> SUFFICES ASSUME OpenInv, Arrive PROVE OpenInv'
  OBVIOUS
<1>1. /\ fd = "open"
      /\ UNCHANGED <<options, at, kernel_filter_attached, mapped, fd, bound, filter, late, hook,
                     queue, ring>>
  BY DEF Arrive
<1>2. PICK i \in bound, passes \in Traffic :
        /\ filter # "none" => filter \in passes
        /\ inflight' = inflight \cup
             {[id |-> arrivals', from |-> i, passes |-> passes, hook |-> hook]}
  BY DEF Arrive
<1> DEFINE new == [id |-> arrivals', from |-> i, passes |-> passes, hook |-> hook]
<1>3. new.hook = hook /\ new.from = i /\ new.passes = passes
  BY <1>2
<1>4. at \in HasSocket
  BY <1>1 DEF OpenInv, Descriptor
<1>5. ASSUME hook = "ring" PROVE AskedFor(new)
  <2>1. at \in AfterRing
    BY <1>4, <1>5 DEF OpenInv, Judged, Over, HasSocket, AfterBind, AfterAttach, AfterRing
  <2>2. /\ bound = Wanted(options) /\ late \subseteq Programs
        /\ options.filtered => filter \in {"opening"} \cup late
    BY <2>1 DEF OpenInv, Prepared, AfterBind, AfterAttach
  <2>3. options.filtered => filter \in passes /\ filter \in {"opening"} \cup late
    BY <1>2, <2>2 DEF Programs
  <2> QED
    BY <1>3, <2>2, <2>3 DEF AskedFor, Passed
<1>6. Descriptor'
  BY <1>1 DEF OpenInv, Descriptor
<1>7. Prepared'
  BY <1>1 DEF OpenInv, Prepared, Wanted
<1>8. Judged'
  <2>1. \A p \in inflight' : p.hook = hook /\ (hook = "ring" => AskedFor(p))
    BY <1>2, <1>3, <1>5 DEF OpenInv, Judged
  <2> QED
    BY <1>1, <2>1 DEF OpenInv, Judged, AskedFor, Passed, Wanted
<1> QED
  BY <1>6, <1>7, <1>8 DEF OpenInv

LEMMA StoreKeeps == OpenInv /\ Store => OpenInv'
<1> SUFFICES ASSUME OpenInv, Store PROVE OpenInv'
  OBVIOUS
<1>1. UNCHANGED <<options, at, kernel_filter_attached, mapped, fd, bound, filter, late, hook>>
  BY DEF Store
<1>2. PICK p \in inflight :
        /\ inflight' = inflight \ {p}
        /\ IF p.hook = "ring" THEN ring' = ring \cup {p} /\ UNCHANGED queue
           ELSE queue' = queue \cup {p} /\ UNCHANGED ring
  BY DEF Store
<1>3. fd = "open"
  BY <1>2 DEF OpenInv, Descriptor
<1>4. Descriptor'
  BY <1>1, <1>3 DEF OpenInv, Descriptor
<1>5. Prepared'
  BY <1>1 DEF OpenInv, Prepared, Wanted
<1>6. Judged'
  <2>1. ring' \subseteq ring \cup {p} /\ (p \in ring' \ ring => hook = "ring")
    BY <1>2 DEF OpenInv, Judged
  <2>2. \A q \in ring' : AskedFor(q)
    BY <1>2, <2>1 DEF OpenInv, Judged
  <2> QED
    BY <1>1, <1>2, <2>2 DEF OpenInv, Judged, AskedFor, Passed, Wanted
<1> QED
  BY <1>4, <1>5, <1>6 DEF OpenInv

(* Steps that change nothing the invariant speaks of.                          *)
LEMMA OtherKeeps ==
  OpenInv /\ UNCHANGED <<options, at, kernel_filter_attached, mapped, socket, packets>>
    => OpenInv'
<1> SUFFICES ASSUME OpenInv,
                    UNCHANGED <<options, at, kernel_filter_attached, mapped, socket, packets>>
             PROVE  OpenInv'
  OBVIOUS
<1>1. Descriptor'
  BY DEF OpenInv, Descriptor
<1>2. Prepared'
  BY DEF OpenInv, Prepared, Wanted
<1>3. Judged'
  BY DEF OpenInv, Judged, AskedFor, Passed, Wanted
<1> QED
  BY <1>1, <1>2, <1>3 DEF OpenInv

LEMMA OpenStep == OpenInv /\ [Next]_vars => OpenInv'
<1> SUFFICES ASSUME OpenInv, [Next]_vars PROVE OpenInv'
  OBVIOUS
<1>1. CASE LookupInterface
  BY <1>1, LookupKeeps
<1>2. CASE CreateSocket
  BY <1>2, CreateKeeps
<1>3. CASE Configure \/ GetFlags \/ SetFlags
  BY <1>3, ConfigureKeeps
<1>4. CASE Bind
  BY <1>4, BindKeeps
<1>5. CASE AttachFilter
  BY <1>5, AttachKeeps
<1>6. CASE SetRing
  BY <1>6, SetRingKeeps
<1>7. CASE MapRing
  BY <1>7, MapKeeps
<1>8. CASE Fail
  BY <1>8, FailKeeps
<1>9. CASE AttachLate
  BY <1>9, AttachLateKeeps
<1>10. CASE Drop
  BY <1>10, DropKeeps
<1>11. CASE Arrive
  BY <1>11, ArriveKeeps
<1>12. CASE Store
  BY <1>12, StoreKeeps
<1>13. CASE OtherFlags \/ UNCHANGED vars
  BY <1>13, OtherKeeps DEF OtherFlags, vars
<1> QED
  BY <1>1, <1>2, <1>3, <1>4, <1>5, <1>6, <1>7, <1>8, <1>9, <1>10, <1>11, <1>12, <1>13
     DEF Next

--------------------------------------------------------------------------------
(* The inductive invariant holds in every reachable state of opening a named   *)
(* interface, or all of them.                                                  *)
THEOREM OpenInductive == Spec => []OpenInv
<1>1. Init => OpenInv
  BY OpenInit
<1>2. OpenInv /\ [Next]_vars => OpenInv'
  BY OpenStep
<1> QED
  BY <1>1, <1>2, PTL DEF Spec


--------------------------------------------------------------------------------
(* The geometry of the ring.                                                   *)

PowersOfTwo ==
  {1, 2, 4, 8, 16, 32, 64, 128, 256, 512, 1024, 2048, 4096, 8192, 16384, 32768, 65536,
   131072, 262144, 524288, 1048576, 2097152, 4194304, 8388608, 16777216, 33554432,
   67108864, 134217728, 268435456, 536870912, 1073741824}

LEMMA Powers == {2 ^ i : i \in 0 .. 30} = PowersOfTwo
<1>1. /\ 2 ^ 0 = 1 /\ 2 ^ 1 = 2 /\ 2 ^ 2 = 4 /\ 2 ^ 3 = 8 /\ 2 ^ 4 = 16 /\ 2 ^ 5 = 32
      /\ 2 ^ 6 = 64 /\ 2 ^ 7 = 128 /\ 2 ^ 8 = 256 /\ 2 ^ 9 = 512 /\ 2 ^ 10 = 1024
      /\ 2 ^ 11 = 2048 /\ 2 ^ 12 = 4096 /\ 2 ^ 13 = 8192 /\ 2 ^ 14 = 16384
      /\ 2 ^ 15 = 32768 /\ 2 ^ 16 = 65536 /\ 2 ^ 17 = 131072 /\ 2 ^ 18 = 262144
      /\ 2 ^ 19 = 524288 /\ 2 ^ 20 = 1048576 /\ 2 ^ 21 = 2097152 /\ 2 ^ 22 = 4194304
      /\ 2 ^ 23 = 8388608 /\ 2 ^ 24 = 16777216 /\ 2 ^ 25 = 33554432 /\ 2 ^ 26 = 67108864
      /\ 2 ^ 27 = 134217728 /\ 2 ^ 28 = 268435456 /\ 2 ^ 29 = 536870912
      /\ 2 ^ 30 = 1073741824
  BY SMT
<1>2. 0 .. 30 = {0, 1, 2, 3, 4, 5, 6, 7, 8, 9, 10, 11, 12, 13, 14, 15, 16, 17, 18, 19, 20,
                 21, 22, 23, 24, 25, 26, 27, 28, 29, 30}
  BY SMT
<1> QED
  BY SMT, <1>1, <1>2 DEF PowersOfTwo

(* Halving a power of two gives one, and those up to a megabyte divide it.     *)
LEMMA Halves ==
  \A p \in PowersOfTwo : /\ p \in Nat \ {0}
                         /\ p = 1 \/ (p = 2 * (p \div 2) /\ p \div 2 \in PowersOfTwo)
                         /\ p < 2097152 => p <= 1048576 /\ 1048576 % p = 0
<1>1. \A p \in PowersOfTwo : p \in Nat \ {0} /\ (p = 1 \/ p = 2 * (p \div 2))
  BY SMT DEF PowersOfTwo
<1>2. \A p \in PowersOfTwo : p = 1 \/ p \div 2 \in PowersOfTwo
  BY SMT DEF PowersOfTwo
<1>3. \A p \in PowersOfTwo : p < 2097152 => p <= 1048576 /\ 1048576 % p = 0
  BY SMT DEF PowersOfTwo
<1> QED
  BY <1>1, <1>2, SMT, <1>3

(* The smallest power of two that is no less than n.                           *)
LEMMA PowerAbove ==
  ASSUME NEW n \in Nat \ {0}, n <= 1073741824
  PROVE  /\ NextPowerOfTwo(n) \in PowersOfTwo
         /\ NextPowerOfTwo(n) >= n
         /\ NextPowerOfTwo(n) < 2 * n
<1> DEFINE Found(p) == p >= n /\ (p = 1 \/ p \div 2 < n)
           Above == {p \in PowersOfTwo : p >= n}
<1>1. Above \in SUBSET Nat /\ 1073741824 \in Above
  BY SMT, Halves DEF PowersOfTwo
<1>2. PICK least \in Above : \A p \in Above : least <= p
  <2> HIDE DEF Above
  <2> QED
    BY SMT, <1>1, LeastElement
<1>3. Found(least)
  BY SMT, <1>2, Halves
<1>4. \E p \in PowersOfTwo : Found(p)
  BY SMT, <1>2, <1>3
<1>5. NextPowerOfTwo(n) = CHOOSE p \in PowersOfTwo : Found(p)
  BY SMT, Powers DEF NextPowerOfTwo
<1>6. NextPowerOfTwo(n) \in PowersOfTwo /\ Found(NextPowerOfTwo(n))
  BY <1>4, <1>5
<1> QED
  BY SMT, <1>6, Halves

(* Options whose frames are no larger than a gigabyte.                         *)
Moderate(o) ==
  /\ {o.block_size, o.block_nr, o.frame_size, o.snaplen} \subseteq Nat
  /\ o.frame_size <= 1073741824
  /\ o.snaplen + 256 <= 1073741824

LEMMA Geometry ==
  ASSUME NEW o, Moderate(o)
  PROVE  /\ FrameSize(o) \in PowersOfTwo /\ FrameSize(o) \in Nat \ {0}
         /\ FrameSize(o) >= o.frame_size /\ FrameSize(o) >= o.snaplen + 256
         /\ BlockSize(o) \in Nat /\ BlockSize(o) % PageSize = 0
         /\ BlockSize(o) >= o.block_size /\ BlockSize(o) >= FrameSize(o)
         /\ o.block_nr \in Nat
<1>1. /\ o.frame_size \in Nat /\ o.snaplen \in Nat /\ o.block_size \in Nat /\ o.block_nr \in Nat
      /\ o.frame_size <= 1073741824 /\ o.snaplen + 256 <= 1073741824
  BY SMT DEF Moderate
<1> DEFINE need == Larger(o.frame_size, o.snaplen + 256)
           size == Larger(o.block_size, FrameSize(o))
<1>2. /\ need \in Nat \ {0} /\ need <= 1073741824 /\ need >= o.frame_size /\ need >= o.snaplen + 256
  BY SMT, <1>1 DEF Larger
<1>4. /\ FrameSize(o) \in PowersOfTwo /\ FrameSize(o) \in Nat \ {0}
      /\ FrameSize(o) >= need
  BY SMT, <1>2, Halves, PowerAbove DEF FrameSize
<1>5. size \in Nat /\ size >= o.block_size /\ size >= FrameSize(o)
  BY <1>1, <1>4 DEF Larger
<1>6. /\ BlockSize(o) = ((size + PageSize - 1) \div PageSize) * PageSize
  BY DEF BlockSize, AlignTo
<1> HIDE DEF size
<1>7. BlockSize(o) \in Nat /\ BlockSize(o) >= size /\ BlockSize(o) % PageSize = 0
  BY <1>5, <1>6 DEF PageSize
<1> QED
  BY SMT, <1>1, <1>2, <1>4, <1>5, <1>7

(* Options whose ring a c_uint can describe.                                   *)
Uncut(o) ==
  /\ 2 * BlockSize(o) < UintSize
  /\ o.block_nr < UintSize
  /\ RingSize(o) \div FrameSize(o) < UintSize

LEMMA WholeFrames ==
  ASSUME NEW b \in Nat, NEW f \in Nat \ {0}, NEW n \in Nat
  PROVE  (b \div f) * n = (b * n) \div f <=> (b % f) * n < f
  OBVIOUS

LEMMA Frames ==
  ASSUME NEW b \in Nat, NEW f \in Nat \ {0}, NEW n \in Nat
  PROVE  (b * n) \div f \in Nat
  OBVIOUS

LEMMA Small ==
  ASSUME NEW m \in Nat, NEW u \in Nat \ {0}, m < u
  PROVE  m % u = m
  OBVIOUS

(* packet_set_ring() takes what open_with_options() asks for, when nothing of  *)
(* it is cut to 32 bits, exactly if the remainders of the blocks do not add up *)
(* to one more frame: pages and frame sizes are always right, the count of     *)
(* frames is not.                                                              *)
THEOREM GeometryAccepted ==
  ASSUME NEW o, Moderate(o), Uncut(o)
  PROVE  ValidRing(RingRequest(o)) <=>
           o.block_nr = 0 \/ (BlockSize(o) % FrameSize(o)) * o.block_nr < FrameSize(o)
<1>1. /\ FrameSize(o) \in Nat \ {0} /\ BlockSize(o) \in Nat /\ o.block_nr \in Nat
      /\ BlockSize(o) >= FrameSize(o) /\ BlockSize(o) % PageSize = 0
  BY Geometry
<1> DEFINE b == BlockSize(o)
           f == FrameSize(o)
           n == o.block_nr
           m == (b * n) \div f
           r == RingRequest(o)
<1>2. /\ r.block_size = b % UintSize /\ r.block_nr = n % UintSize
      /\ r.frame_size = f % UintSize /\ r.frame_nr = m % UintSize
  BY DEF RingRequest, RingSize
<1>3. 2 * b < UintSize /\ n < UintSize /\ m < UintSize /\ UintSize \in Nat \ {0}
  BY OpenAssumption DEF Uncut, RingSize
<1> HIDE DEF b, f, n, r
<1>4. f \in Nat \ {0} /\ b \in Nat /\ n \in Nat /\ f <= b /\ b % PageSize = 0
  BY <1>1 DEF b, f, n
<1>5. m \in Nat
  BY <1>4, Frames
<1> HIDE DEF m
<1>6. b < UintSize /\ f < UintSize
  BY <1>3, <1>4
<1>7. r.block_size = b /\ r.block_nr = n /\ r.frame_size = f /\ r.frame_nr = m
  BY <1>2, <1>3, <1>4, <1>5, <1>6, Small
<1>8. CASE n = 0
  <2>1. b * 0 = 0 /\ 0 \div f = 0
    BY <1>4
  <2>2. m = 0
    BY <1>8, <2>1 DEF m
  <2>3. ValidRing(r)
    BY <1>7, <1>8, <2>2 DEF ValidRing
  <2> QED
    BY <1>8, <2>3 DEF r, n
<1>9. CASE n # 0
  <2>1. ValidRing(r) <=> (b \div f) * n = m
    BY <1>3, <1>4, <1>7, <1>9 DEF ValidRing
  <2>2. ValidRing(r) <=> (b % f) * n < f
    BY <1>4, <2>1, WholeFrames DEF m
  <2> QED
    BY <1>9, <2>2 DEF b, f, n, r
<1> QED
  BY <1>8, <1>9

(* With blocks of a megabyte, the default, the kernel never refuses the ring,  *)
(* whatever -s and --block-nr are, as long as a frame fits in a block and      *)
(* nothing is cut to 32 bits.                                                  *)
THEOREM DefaultBlockAccepted ==
  ASSUME NEW o, Moderate(o), Uncut(o), o.block_size = 1048576,
         o.frame_size <= 1048576, o.snaplen + 256 <= 1048576
  PROVE  ValidRing(RingRequest(o))
<1>1. o.frame_size \in Nat /\ o.snaplen \in Nat /\ o.block_nr \in Nat
  BY SMT DEF Moderate
<1> DEFINE need == Larger(o.frame_size, o.snaplen + 256)
<1>2. need \in Nat \ {0} /\ need <= 1048576
  BY SMT, <1>1 DEF Larger
<1>3. FrameSize(o) \in PowersOfTwo /\ FrameSize(o) < 2 * need
  BY SMT, <1>2, PowerAbove DEF FrameSize
<1>5. FrameSize(o) \in Nat \ {0} /\ FrameSize(o) <= 1048576 /\ 1048576 % FrameSize(o) = 0
  <2>1. FrameSize(o) < 2097152
    BY SMT, <1>2, <1>3, Halves
  <2> QED
    BY SMT, <1>3, <2>1, Halves
<1>6. BlockSize(o) = 1048576
  <2>1. Larger(o.block_size, FrameSize(o)) = 1048576
    BY SMT, <1>5 DEF Larger
  <2> QED
    BY SMT, <2>1 DEF BlockSize, AlignTo, PageSize
<1>7. (BlockSize(o) % FrameSize(o)) * o.block_nr < FrameSize(o)
  BY SMT, <1>1, <1>5, <1>6
<1> QED
  BY SMT, <1>7, GeometryAccepted

--------------------------------------------------------------------------------
(* Choosing the interface first, while the host changes, keeps it too.         *)

LEMMA ChooseKeeps == OpenInv /\ Choose => OpenInv'
<1> SUFFICES ASSUME OpenInv, Choose PROVE OpenInv'
  OBVIOUS
<1>1. /\ at = "walk"
      /\ UNCHANGED <<kernel_filter_attached, mapped, socket, packets>>
  BY DEF Choose, ChooseAs
<1>2. at' \in {"failed", "list", "lookup", "socket"}
  BY DEF Choose, ChooseAs, First
<1>3. ~kernel_filter_attached /\ ~mapped /\ hook # "ring" /\ fd # "open"
      /\ inflight = {} /\ queue = {} /\ ring = {}
  BY <1>1
     DEF OpenInv, Descriptor, Prepared, Judged, NoSocket, HasSocket, AfterBind, AfterAttach,
         AfterRing, Over
<1>4. Descriptor'
  BY <1>1, <1>2, <1>3
     DEF Descriptor, NoSocket, HasSocket, AfterBind, AfterAttach, AfterRing, Over
<1>5. Prepared'
  BY <1>1, <1>2, <1>3 DEF OpenInv, Prepared, AfterBind, AfterAttach, AfterRing
<1>6. Judged'
  BY <1>1, <1>2, <1>3 DEF Judged
<1> QED
  BY <1>4, <1>5, <1>6 DEF OpenInv

LEMMA DefaultStep == OpenInv /\ [DefaultNext]_allVars => OpenInv'
<1> SUFFICES ASSUME OpenInv, [DefaultNext]_allVars PROVE OpenInv'
  OBVIOUS
<1>1. CASE Snapshot
  <2>1. /\ at = "list" /\ at' = "walk"
        /\ UNCHANGED <<options, kernel_filter_attached, mapped, socket, packets>>
    BY <1>1 DEF Snapshot
  <2>2. Descriptor'
    BY <2>1
       DEF OpenInv, Descriptor, NoSocket, HasSocket, AfterBind, AfterAttach, AfterRing, Over
  <2>3. Prepared'
    BY <2>1 DEF OpenInv, Prepared, NoSocket, AfterBind, AfterAttach, AfterRing
  <2>4. Judged'
    BY <2>1 DEF OpenInv, Judged, AfterRing, Over, AskedFor, Passed, Wanted
  <2> QED
    BY <2>2, <2>3, <2>4 DEF OpenInv
<1>2. CASE Choose
  BY <1>2, ChooseKeeps
<1>3. CASE Open
  BY <1>3, OpenStep DEF Open
<1>4. CASE Walk \/ Change \/ UNCHANGED allVars
  BY <1>4, OtherKeeps DEF Walk, Change, allVars, vars
<1> QED
  BY <1>1, <1>2, <1>3, <1>4 DEF DefaultNext

--------------------------------------------------------------------------------
(* The theorems about the socket.                                              *)

(* The inductive invariant of SocketOpen holds in every reachable state, also  *)
(* while the interface is chosen and the host changes.                         *)
THEOREM DefaultInductive == DefaultSpec => []OpenInv
<1>1. DefaultInit => OpenInv
  BY OpenInit DEF DefaultInit
<1>2. OpenInv /\ [DefaultNext]_allVars => OpenInv'
  BY DefaultStep
<1> QED
  BY <1>1, <1>2, PTL DEF DefaultSpec

(* Nothing the caller did not ask for is ever in the ring, whatever arrives    *)
(* while the socket is opened.                                                 *)
THEOREM RingHoldsOnlyWanted == DefaultSpec => []NoPrefilterLeak
<1>1. OpenInv => NoPrefilterLeak
  BY DEF OpenInv, Judged, NoPrefilterLeak
<1> QED
  BY <1>1, DefaultInductive, PTL

(* kernel_filter_attached says of an open socket whether it was opened with a   *)
(* filter, whatever is attached later, and nothing that passed neither filter  *)
(* is on its way into the ring.                                                *)
THEOREM OpenIsSettled == DefaultSpec => []Settled
<1>1. OpenInv => Settled
  BY DEF OpenInv, Prepared, Judged, Settled, AskedFor, Passed, AfterAttach, AfterRing
<1> QED
  BY <1>1, DefaultInductive, PTL

(* Whichever call fails, and after the socket is dropped, nothing is left.     *)
THEOREM NothingIsLeft == DefaultSpec => []NothingLeftBehind
<1>1. OpenInv => NothingLeftBehind
  BY DEF OpenInv, Descriptor, NothingLeftBehind, Over, HasSocket, AfterBind, AfterAttach, AfterRing
<1> QED
  BY <1>1, DefaultInductive, PTL

--------------------------------------------------------------------------------
(* The list of interfaces.                                                     *)

LEMMA PresentFinite ==
  ASSUME NEW S \in SUBSET Interfaces
  PROVE  IsFiniteSet(S) /\ Cardinality(S) \in Nat
  BY ListAssumption, FS_Subset, FS_CardinalityType

(* An enumeration of a finite set without repetitions is a sequence of its     *)
(* elements, and leaves none out.                                              *)
LEMMA Enumerates ==
  ASSUME NEW S \in SUBSET Interfaces, NEW f \in SetToSeqs(S)
  PROVE  f \in Seq(S) /\ \A x \in S : \E i \in 1 .. Len(f) : f[i] = x
<1> DEFINE D == 1 .. Cardinality(S)
           Image == {f[i] : i \in D}
<1>1. IsFiniteSet(S) /\ Cardinality(S) \in Nat
  BY PresentFinite
<1>2. f \in [D -> S] /\ \A i, j \in D : i # j => f[i] # f[j]
  BY DEF SetToSeqs
<1>3. f \in Seq(S) /\ Len(f) = Cardinality(S)
  BY <1>1, <1>2
<1>4. IsFiniteSet(D) /\ Cardinality(D) = Cardinality(S)
  BY <1>1, FS_Interval
<1>5. f \in Bijection(D, Image)
  BY <1>2 DEF Bijection, Injection, Surjection, IsInjective
<1>6. Cardinality(Image) = Cardinality(S)
  BY <1>4, <1>5, FS_Bijection DEF ExistsBijection
<1>7. Image \in SUBSET S
  BY <1>2
<1>8. Image = S
  BY <1>1, <1>6, <1>7, FS_Subset
<1> QED
  BY <1>3, <1>8

(* Indexes and flags of a host.                                                *)
LEMMA HostTypes ==
  ASSUME NEW h \in HostType, NEW n \in Interfaces
  PROVE  h[n].index \in 0 .. MaxIndex /\ h[n].up \in BOOLEAN
  BY DEF HostType

LEMMA ListInit == DefaultInit => ListInv
<1> SUFFICES ASSUME DefaultInit PROVE ListInv
  OBVIOUS
<1>1. host \in HostType /\ taken = host /\ entries = <<>> /\ infos = <<>>
  BY ListAssumption DEF DefaultInit, HostType
<1>2. at # "walk"
  BY DEF DefaultInit, Init, First
<1>3. options \in OptionType
  BY OpenAssumption DEF DefaultInit, Init
<1> QED
  BY <1>1, <1>2, <1>3 DEF ListInv, ListTypes, InfosTrue, NoneLost

LEMMA SnapshotKeeps == ListInv /\ Snapshot => ListInv'
<1> SUFFICES ASSUME ListInv, Snapshot PROVE ListInv'
  OBVIOUS
<1>1. taken' = host /\ host' = host /\ infos' = <<>> /\ at' = "walk" /\ options' = options
  BY DEF Snapshot, hostVars, ListInv, NoneLost
<1>2. PICK links \in SetToSeqs(Present(host)), addressed \in SUBSET Present(host) :
        \E addresses \in SetToSeqs(addressed) : entries' = links \o addresses
  BY DEF Snapshot
<1>3. PICK addresses \in SetToSeqs(addressed) : entries' = links \o addresses
  BY <1>2
<1>4. Present(host) \in SUBSET Interfaces /\ addressed \in SUBSET Interfaces
  BY DEF Present
<1>5. /\ links \in Seq(Present(host)) /\ addresses \in Seq(Present(host))
      /\ \A n \in Present(host) : \E i \in 1 .. Len(links) : links[i] = n
  BY <1>4, Enumerates
<1>6. /\ entries' \in Seq(Present(host))
      /\ Len(entries') = Len(links) + Len(addresses)
      /\ \A i \in 1 .. Len(links) : entries'[i] = links[i]
  BY <1>3, <1>5
<1>7. Present(taken)' = Present(host)
  BY <1>1 DEF Present
<1>8. ListTypes'
  BY <1>1, <1>6, <1>7 DEF ListInv, ListTypes
<1>9. InfosTrue'
  BY <1>1 DEF InfosTrue
<1>10. \A n \in Present(host) : \E i \in 1 .. Len(entries') : entries'[i] = n
  <2>1. 1 .. Len(links) \subseteq 1 .. Len(entries')
    BY <1>5, <1>6
  <2> QED
    BY <1>5, <1>6, <2>1
<1>11. NoneLost'
  BY <1>1, <1>7, <1>10 DEF NoneLost
<1> QED
  BY <1>8, <1>9, <1>11 DEF ListInv

LEMMA WalkKeeps == ListInv /\ Walk => ListInv'
<1> SUFFICES ASSUME ListInv, Walk PROVE ListInv'
  OBVIOUS
<1> DEFINE n == Head(entries)
           new == Info(n)
<1>1. /\ at = "walk" /\ UNCHANGED <<at, options, taken, host>>
      /\ entries # <<>> /\ entries' = Tail(entries)
      /\ infos' = IF Listed(n) THEN infos ELSE Append(infos, new)
  BY DEF Walk, vars, hostVars
<1>2. ListTypes /\ InfosTrue /\ NoneLost
  BY DEF ListInv
<1>3. entries \in Seq(Present(taken)) /\ infos \in Seq(InfoType)
  BY <1>2 DEF ListTypes
<1>4. n \in Present(taken) /\ n \in Interfaces
  BY <1>1, <1>3 DEF Present
<1>5. new \in InfoType
  <2>1. host[n].index \in 0 .. MaxIndex
    BY <1>2, <1>4, HostTypes DEF ListTypes
  <2> QED
    BY <1>4, <2>1 DEF Info, InfoType
<1>6. Present(taken)' = Present(taken)
  BY <1>1 DEF Present
<1>7. ListTypes'
  <2>1. entries' \in Seq(Present(taken))
    BY <1>1, <1>3
  <2>2. infos' \in Seq(InfoType)
    BY <1>1, <1>3, <1>5
  <2> QED
    BY <1>1, <1>2, <1>6, <2>1, <2>2 DEF ListTypes
<1>8. \A i \in 1 .. Len(entries) : i = 1 \/ (i - 1 \in 1 .. Len(entries') /\ entries'[i - 1] = entries[i])
  BY <1>1, <1>3
<1>9. entries[1] = n
  BY <1>1, <1>3
<1>10. CASE Listed(n)
  <2>1. infos' = infos
    BY <1>1, <1>10
  <2>2. InfosTrue'
    BY <1>1, <1>2, <1>6, <2>1 DEF InfosTrue
  <2>3. NoneLost'
    <3>1. /\ at' = at /\ at = "walk"
          /\ \A m : Listed(m)' = Listed(m)
      BY <1>1, <2>1 DEF Listed
    <3>2. \A m \in Present(taken) : Listed(m) \/ \E i \in 1 .. Len(entries') : entries'[i] = m
      BY <1>2, <3>1, <1>8, <1>9, <1>10 DEF NoneLost
    <3> QED
      BY <1>6, <3>1, <3>2 DEF NoneLost
  <2> QED
    BY <1>7, <2>2, <2>3 DEF ListInv
<1>11. CASE ~Listed(n)
  <2>1. /\ infos' = Append(infos, new) /\ Len(infos') = Len(infos) + 1
        /\ \A i \in 1 .. Len(infos) : infos'[i] = infos[i]
        /\ infos'[Len(infos')] = new
    BY <1>1, <1>3, <1>5, <1>11
  <2>2. new.name = n /\ new.is_up = (taken[n].up /\ n \notin Loopback)
    BY DEF Info
  <2>3. \A i \in 1 .. Len(infos) : infos[i].name # n
    BY <1>11 DEF Listed
  <2>4. InfosTrue'
    BY <1>1, <1>2, <1>3, <1>4, <1>6, <2>1, <2>2, <2>3 DEF InfosTrue
  <2>5. \A m : Listed(m) \/ m = n => Listed(m)'
    BY <1>3, <2>1, <2>2 DEF Listed
  <2>6. NoneLost'
    <3>1. at' = at /\ at = "walk"
      BY <1>1
    <3>2. \A m \in Present(taken) : Listed(m)' \/ \E i \in 1 .. Len(entries') : entries'[i] = m
      BY <1>2, <3>1, <1>8, <1>9, <2>5 DEF NoneLost
    <3> QED
      BY <1>6, <3>1, <3>2 DEF NoneLost
  <2> QED
    BY <1>7, <2>4, <2>6 DEF ListInv
<1> QED
  BY <1>10, <1>11

(* No step of opening goes back to listing.                                    *)
LEMMA NoWayBack ==
  ASSUME OpenInv, [Next]_vars, at' # at
  PROVE  at' \notin {"list", "walk"}
<1>1. ASSUME NEW name, Step(name) PROVE at' \notin {"list", "walk"}
  BY <1>1, Positions DEF Step, Order
<1> QED
  BY <1>1 DEF Next, vars, LookupInterface, CreateSocket, Configure, GetFlags, SetFlags, Bind,
     AttachFilter, SetRing, MapRing, Fail, AttachLate, Drop, Arrive, Store, OtherFlags

(* Opening leaves the options as they are.                                     *)
LEMMA OptionsKept == [Next]_vars => options' = options
<1>1. ASSUME NEW name, Step(name) PROVE options' = options
  BY <1>1 DEF Step
<1> QED
  BY <1>1 DEF Next, vars, LookupInterface, CreateSocket, Configure, GetFlags, SetFlags, Bind,
     AttachFilter, SetRing, MapRing, Fail, AttachLate, Drop, Arrive, Store, OtherFlags

(* The host may change under the walk: the list speaks of the snapshot.        *)
LEMMA ChangeKeeps == ListInv /\ Change => ListInv'
<1> SUFFICES ASSUME ListInv, Change PROVE ListInv'
  OBVIOUS
<1>1. UNCHANGED <<at, options, taken, entries, infos>>
  BY DEF Change, vars, listVars
<1>2. host \in HostType
  BY DEF ListInv, ListTypes
<1>3. host' \in HostType
  <2>1. PICK n \in Interfaces :
          \/ host' = [host EXCEPT ![n].index = 0]
          \/ \E k \in 1 .. MaxIndex : host' = [host EXCEPT ![n].index = k]
          \/ host' = [host EXCEPT ![n].up = ~@]
    BY DEF Change
  <2>2. host[n] \in [index : 0 .. MaxIndex, up : BOOLEAN]
    BY <1>2 DEF HostType
  <2>3. 0 \in 0 .. MaxIndex /\ 1 .. MaxIndex \subseteq 0 .. MaxIndex
    BY ListAssumption
  <2>4. CASE \E k \in 0 .. MaxIndex : host' = [host EXCEPT ![n].index = k]
    BY <1>2, <2>2, <2>4 DEF HostType
  <2>5. CASE host' = [host EXCEPT ![n].up = ~@]
    BY <1>2, <2>2, <2>5 DEF HostType
  <2> QED
    BY <2>1, <2>3, <2>4, <2>5
<1> QED
  BY <1>1, <1>3 DEF ListInv, ListTypes, InfosTrue, NoneLost, Listed, Present

LEMMA OpenKeepsList ==
  ASSUME OpenInv, ListInv, Open \/ UNCHANGED allVars
  PROVE  ListInv'
<1>1. UNCHANGED <<host, taken, entries, infos>>
  BY DEF Open, allVars, listVars, hostVars
<1>2. at' = at \/ at' \notin {"list", "walk"}
  BY NoWayBack DEF Open, allVars, vars
<1>3. options' = options
  BY OptionsKept DEF Open, allVars, vars
<1> QED
  BY <1>1, <1>2, <1>3 DEF ListInv, ListTypes, InfosTrue, NoneLost, Listed, Present

--------------------------------------------------------------------------------
(* The choice.                                                                 *)

(* Among the interfaces that are up there is a first one, by index and, where  *)
(* two share an index, by their place in the list.                             *)
LEMMA FirstExists ==
  ASSUME ListTypes, Up # {}
  PROVE  \E i \in Up : \A j \in Up \ {i} :
           \/ infos[i].ifindex < infos[j].ifindex
           \/ infos[i].ifindex = infos[j].ifindex /\ i < j
<1> DEFINE Indexes == {infos[i].ifindex : i \in Up}
<1>1. \A i \in Up : infos[i].ifindex \in Nat /\ i \in Nat
  <2>1. \A i \in Up : i \in Nat /\ infos[i] \in InfoType
    BY DEF ListTypes, Up
  <2> QED
    BY <2>1, ListAssumption DEF InfoType
<1>2. Indexes \in SUBSET Nat /\ Indexes # {}
  BY <1>1
<1>3. PICK m \in Indexes : \A k \in Indexes : m <= k
  BY <1>2, LeastElement
<1> DEFINE Firsts == {i \in Up : infos[i].ifindex = m}
<1>4. Firsts \in SUBSET Nat /\ Firsts # {}
  BY <1>1
<1>5. PICK i \in Firsts : \A j \in Firsts : i <= j
  BY <1>4, LeastElement
<1>6. ASSUME NEW j \in Up \ {i}
      PROVE  \/ infos[i].ifindex < infos[j].ifindex
             \/ infos[i].ifindex = infos[j].ifindex /\ i < j
  <2>1. i \in Up /\ infos[i].ifindex = m /\ j \in Up /\ i # j /\ i \in Nat /\ j \in Nat
    BY <1>1, <1>5
  <2>2. CASE infos[j].ifindex = m
    <3>1. i <= j
      BY <1>5, <2>1, <2>2
    <3> QED
      BY <2>1, <2>2, <3>1
  <2>3. CASE infos[j].ifindex # m
    <3>1. infos[j].ifindex \in Indexes
      BY <2>1
    <3>2. m <= infos[j].ifindex /\ m \in Nat /\ infos[j].ifindex \in Nat
      BY <1>2, <1>3, <3>1
    <3> QED
      BY <2>1, <2>3, <3>2
  <2> QED
    BY <2>2, <2>3
<1> QED
  BY <1>5, <1>6

(* What Choose does when an interface is up.                                   *)
LEMMA Chosen ==
  ASSUME ListInv, Choose, Up # {}
  PROVE  \E i \in Up :
           /\ options' = [options EXCEPT !.ifname = infos[i].name]
           /\ \A j \in Up : infos[i].ifindex <= infos[j].ifindex
<1>1. ListTypes
  BY DEF ListInv
<1> DEFINE i == CHOOSE i \in Up : \A j \in Up \ {i} :
                  \/ infos[i].ifindex < infos[j].ifindex
                  \/ infos[i].ifindex = infos[j].ifindex /\ i < j
<1>2. options' = [options EXCEPT !.ifname = infos[i].name]
  BY DEF Choose, ChooseAs
<1>3. /\ i \in Up
      /\ \A j \in Up \ {i} : \/ infos[i].ifindex < infos[j].ifindex
                             \/ infos[i].ifindex = infos[j].ifindex /\ i < j
  BY <1>1, FirstExists
<1> HIDE DEF i
<1>4. \A j \in Up : infos[j].ifindex \in Nat
  <2>1. \A j \in Up : infos[j] \in InfoType
    BY <1>1 DEF ListTypes, Up
  <2> QED
    BY <2>1, ListAssumption DEF InfoType
<1> QED
  BY <1>2, <1>3, <1>4

(* A name in place of another leaves the other options alone.                  *)
LEMMA Renamed ==
  ASSUME NEW o \in OptionType, NEW n \in Interfaces
  PROVE  /\ [o EXCEPT !.ifname = n] \in OptionType
         /\ [o EXCEPT !.ifname = n].ifname = n
  BY DEF OptionType

LEMMA ChosenIsLowest ==
  ASSUME ListInv, Choose, options'.ifname # options.ifname
  PROVE  /\ options'.ifname \in Eligible
         /\ \A n \in Eligible : Listed(n)
         /\ options'.ifname \in Steady =>
              \A n \in Eligible \cap Steady : taken[options'.ifname].index <= taken[n].index
<1>1. ListTypes /\ InfosTrue /\ NoneLost
  BY DEF ListInv
<1>2. at = "walk" /\ entries = <<>> /\ Up # {}
  BY DEF Choose, ChooseAs
<1>3. PICK i \in Up :
        /\ options' = [options EXCEPT !.ifname = infos[i].name]
        /\ \A j \in Up : infos[i].ifindex <= infos[j].ifindex
  BY <1>2, Chosen
<1>4. i \in 1 .. Len(infos) /\ infos[i].is_up
  BY DEF Up
<1>5. infos[i].name \in Eligible
  BY <1>1, <1>4 DEF InfosTrue, Eligible
<1>6. options'.ifname = infos[i].name
  BY <1>1, <1>3, <1>5, Renamed DEF ListTypes, Eligible, Present
<1>7. \A n \in Eligible : Listed(n)
  BY <1>1, <1>2 DEF NoneLost, Eligible
<1>8. ASSUME infos[i].name \in Steady, NEW n \in Eligible \cap Steady
      PROVE  taken[infos[i].name].index <= taken[n].index
  <2>1. PICK k \in 1 .. Len(infos) : infos[k].name = n /\ infos[k].ifindex = taken[n].index
    BY <1>8 DEF Steady
  <2>2. k \in Up
    BY <1>1, <1>8, <2>1 DEF InfosTrue, Eligible, Up
  <2>3. infos[i].ifindex = taken[infos[i].name].index
    BY <1>1, <1>4, <1>8 DEF Steady, InfosTrue
  <2> QED
    BY <1>3, <2>1, <2>2, <2>3
<1> QED
  BY <1>5, <1>6, <1>7, <1>8

LEMMA ChooseKeepsList == ListInv /\ Choose => ListInv'
<1> SUFFICES ASSUME ListInv, Choose PROVE ListInv'
  OBVIOUS
<1>1. ListTypes /\ InfosTrue
  BY DEF ListInv
<1>2. entries' = <<>> /\ taken' = host /\ host' = host /\ infos' = <<>> /\ at' # "walk"
  BY DEF Choose, ChooseAs, hostVars, First
<1>3. options' \in OptionType
  <2>1. CASE Up = {}
    BY <1>1, <2>1 DEF Choose, ChooseAs, ListTypes
  <2>2. CASE Up # {}
    <3>1. PICK i \in Up : options' = [options EXCEPT !.ifname = infos[i].name]
      BY <2>2, Chosen
    <3>2. infos[i].name \in Interfaces
      BY <1>1 DEF Up, InfosTrue, Present
    <3> QED
      BY <1>1, <3>1, <3>2, Renamed DEF ListTypes
  <2> QED
    BY <2>1, <2>2
<1> QED
  BY <1>1, <1>2, <1>3 DEF ListInv, ListTypes, InfosTrue, NoneLost

LEMMA ListStep == OpenInv /\ ListInv /\ [DefaultNext]_allVars => ListInv'
  BY SnapshotKeeps, WalkKeeps, ChangeKeeps, OpenKeepsList, ChooseKeepsList DEF DefaultNext

(* Only the choice changes the name.                                           *)
LEMMA OnlyChooseNames ==
  ASSUME [DefaultNext]_allVars, options'.ifname # options.ifname
  PROVE  Choose
  BY OptionsKept DEF DefaultNext, Snapshot, Walk, Open, Change, allVars, vars

(* The list is true to the snapshot throughout the walk.                       *)
THEOREM ListInductive == DefaultSpec => []ListInv
<1>1. DefaultInit => ListInv
  BY ListInit
<1>2. OpenInv /\ ListInv /\ [DefaultNext]_allVars => ListInv'
  BY ListStep
<1> QED
  BY <1>1, <1>2, DefaultInductive, PTL DEF DefaultSpec

(* default_interface() takes the lowest interface that is up, among those the  *)
(* host did not renumber meanwhile.                                            *)
THEOREM ChoosesLowest == DefaultSpec => DefaultIsLowest
<1>1. ListInv /\ [DefaultNext]_allVars =>
        [options'.ifname # options.ifname =>
           /\ options'.ifname \in Eligible
           /\ \A n \in Eligible : Listed(n)
           /\ options'.ifname \in Steady =>
                \A n \in Eligible \cap Steady :
                  taken[options'.ifname].index <= taken[n].index]_allVars
  BY ChosenIsLowest, OnlyChooseNames
<1> QED
  BY <1>1, ListInductive, PTL DEF DefaultSpec, DefaultIsLowest

--------------------------------------------------------------------------------
(* The ring that is walked.                                                    *)

(* A number that is cut is smaller, so a product of numbers that are cut is    *)
(* that of the numbers themselves only if none was.                            *)
LEMMA CutProduct ==
  ASSUME NEW b \in Nat, NEW n \in Nat, NEW u \in Nat \ {0},
         b > 0, n % u > 0, (b % u) * (n % u) = b * n
  PROVE  b % u = b /\ n % u = n
<1> DEFINE c == b % u
           k == n % u
<1>1. c \in Nat /\ k \in Nat /\ c <= b /\ k <= n /\ k > 0 /\ c * k = b * n
  OBVIOUS
<1> HIDE DEF c, k
<1>2. c * k <= b * k /\ b * k <= b * n
  BY <1>1
<1>3. c = b
  <2>1. c * k = b * k
    BY <1>1, <1>2
  <2> QED
    BY <1>1, <2>1
<1>4. k = n
  <2>1. b * k = b * n
    BY <1>1, <1>2
  <2> QED
    BY <1>1, <1>3, <2>1
<1> QED
  BY <1>3, <1>4 DEF c, k

(* Opening ends with mmap().                                                   *)
LEMMA MappedLast ==
  ASSUME [Next]_vars, at' = "open", at # "open"
  PROVE  MapRing
<1>1. ASSUME NEW name \in {"lookup", "socket", "bind", "attach", "ring"} \cup Configuring, Step(name)
      PROVE  at' # "open"
  BY <1>1, StepTo DEF Configuring
<1>2. ~LookupInterface /\ ~CreateSocket /\ ~Configure /\ ~GetFlags /\ ~SetFlags /\ ~Bind
      /\ ~AttachFilter /\ ~SetRing
  BY <1>1 DEF LookupInterface, CreateSocket, Configure, GetFlags, SetFlags, Bind, AttachFilter,
     SetRing, Configuring
<1> QED
  BY <1>2 DEF Next, vars, Fail, AttachLate, Drop, Arrive, Store, OtherFlags

LEMMA RingMapped ==
  ASSUME ListInv, Moderate(options), MapRing
  PROVE  WalkInRing'
<1> DEFINE b == BlockSize(options)
           n == options.block_nr
           r == RingRequest(options)
<1>1. b \in Nat /\ b > 0 /\ n \in Nat
  BY Geometry
<1>2. r.block_size = b % UintSize /\ r.block_nr = n % UintSize
  BY DEF RingRequest
<1>3. r.block_nr > 0 /\ r.block_size * r.block_nr = b * n /\ options' = options
  BY DEF MapRing, RingSize, Step
<1> HIDE DEF b, n, r
<1>4. b % UintSize = b /\ n % UintSize = n
  BY <1>1, <1>2, <1>3, CutProduct, OpenAssumption
<1>5. r.block_nr > 0 /\ r.block_size = b /\ r.block_nr = n
  BY <1>2, <1>3, <1>4
<1> QED
  BY <1>3, <1>5 DEF WalkInRing, b, n, r

LEMMA RenamedModerate ==
  ASSUME NEW o \in OptionType, Moderate(o), NEW n \in Interfaces
  PROVE  Moderate([o EXCEPT !.ifname = n])
<1> DEFINE e == [o EXCEPT !.ifname = n]
<1>1. /\ e.block_size = o.block_size /\ e.block_nr = o.block_nr
      /\ e.frame_size = o.frame_size /\ e.snaplen = o.snaplen
  BY DEF OptionType
<1> HIDE DEF e
<1>2. Moderate(e)
  BY <1>1 DEF Moderate
<1> QED
  BY <1>2 DEF e

LEMMA ModerateKept ==
  ASSUME ListInv, Moderate(options), [DefaultNext]_allVars
  PROVE  Moderate(options)'
<1>1. CASE Choose
  <2>1. CASE Up = {}
    BY <1>1, <2>1 DEF Choose, ChooseAs
  <2>2. CASE Up # {}
    <3>1. PICK i \in Up : options' = [options EXCEPT !.ifname = infos[i].name]
      BY <1>1, <2>2, Chosen
    <3>2. options \in OptionType /\ infos[i].name \in Interfaces
      BY DEF ListInv, ListTypes, Up, InfosTrue, Present
    <3> QED
      BY <3>1, <3>2, RenamedModerate
  <2> QED
    BY <2>1, <2>2
<1>2. CASE ~Choose
  <2>1. options' = options
    BY <1>2, OptionsKept DEF DefaultNext, Snapshot, Walk, Open, Change, allVars, vars
  <2> QED
    BY <2>1
<1> QED
  BY <1>1, <1>2

LEMMA WalkKept ==
  ASSUME ListInv, Moderate(options), WalkInRing, [DefaultNext]_allVars
  PROVE  WalkInRing'
<1> SUFFICES ASSUME at' = "open" PROVE WalkInRing'
  BY DEF WalkInRing
<1>1. CASE at # "open"
  <2>1. Open
    BY <1>1 DEF DefaultNext, Snapshot, Walk, Choose, ChooseAs, Change, First, allVars, vars
  <2> QED
    BY <1>1, <2>1, MappedLast, RingMapped DEF Open
<1>2. CASE at = "open"
  <2>1. options' = options
    BY <1>2, OptionsKept DEF DefaultNext, Snapshot, Walk, Choose, ChooseAs, Open, Change,
       allVars, vars
  <2> QED
    BY <1>2, <2>1 DEF WalkInRing
<1> QED
  BY <1>1, <1>2

(* With frames of no more than a gigabyte the ring that is walked is the       *)
(* kernel's, although its request is cut to 32 bits: what was cut differs in   *)
(* size from what mmap() asks for.                                             *)
THEOREM WalkStaysInRing ==
  ASSUME \A o \in OptionSet : Moderate(o)
  PROVE  DefaultSpec => []WalkInRing
<1>1. DefaultInit => Moderate(options) /\ WalkInRing
  BY DEF DefaultInit, Init, WalkInRing, First
<1>2. ListInv /\ (Moderate(options) /\ WalkInRing) /\ [DefaultNext]_allVars
        => (Moderate(options) /\ WalkInRing)'
  BY ModerateKept, WalkKept
<1> QED
  BY <1>1, <1>2, ListInductive, PTL DEF DefaultSpec
================================================================================
