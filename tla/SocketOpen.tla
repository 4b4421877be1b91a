------------------------------ MODULE SocketOpen ------------------------------
(* AfPacketSocket::open_with_options(): one system call after another, any of  *)
(* which may fail, while packets already arrive.  A packet socket receives     *)
(* from every interface as soon as it exists, unfiltered, into its receive     *)
(* queue; the ring must come to hold nothing of that.                          *)
EXTENDS Integers, Sequences, FiniteSets, SequencesExt

CONSTANTS Interfaces,   \* the interfaces of the host
          OptionSet,    \* the options open_with_options() is called with
          UintSize,     \* how many values a c_uint has
          Traffic,      \* the packets there are, each by the programs it passes
          MaxArrivals   \* bound on the packets that arrive

(* The program in OpenOptions, and any other.                                  *)
Programs == {"opening", "other"}

OptionType ==
  [ifname : Interfaces \cup {"any", ""}, filtered : BOOLEAN, promiscuous : BOOLEAN,
   buffered : BOOLEAN, block_size : Nat, block_nr : Nat, frame_size : Nat, snaplen : Nat]

ASSUME OpenAssumption ==
  /\ Interfaces # {}
  /\ UintSize \in Nat \ {0}
  /\ Traffic \subseteq SUBSET Programs
  /\ MaxArrivals \in Nat
  /\ OptionSet \subseteq OptionType

VARIABLES options,      \* interface and OpenOptions
          at,           \* the step that comes next, or how opening ended
          kernel_filter_attached,
          seen,         \* interface flags SIOCGIFFLAGS returned
          mapped,       \* is the ring mapped
          fd,           \* "none", "open" or "closed"
          bound,        \* interfaces the socket receives from
          filter,       \* the program attached, or "none"
          late,         \* programs attach_filter() attached (an auxiliary variable)
          hook,         \* where the kernel puts packets: "queue" or "ring"
          inflight,     \* accepted by the kernel, not stored yet
          queue,        \* in the socket's receive queue
          ring,         \* in the ring
          arrivals,     \* packets seen so far
          flags         \* flags of the interface

opener == <<options, at, kernel_filter_attached, seen, mapped>>
packets == <<inflight, queue, ring, arrivals>>
socket == <<fd, bound, filter, late, hook>>
vars == <<opener, socket, packets, flags>>

--------------------------------------------------------------------------------
(* The geometry of the ring.                                                   *)

PageSize == 4096
NextPowerOfTwo(n) ==
  CHOOSE p \in {2 ^ i : i \in 0 .. 30} : p >= n /\ (p = 1 \/ p \div 2 < n)
Larger(m, n) == IF m >= n THEN m ELSE n
AlignTo(n, align) == ((n + align - 1) \div align) * align

FrameSize(o) == NextPowerOfTwo(Larger(o.frame_size, o.snaplen + 256))
BlockSize(o) == AlignTo(Larger(o.block_size, FrameSize(o)), PageSize)

(* ring_size, which mmap() is asked for.                                       *)
RingSize(o) == BlockSize(o) * o.block_nr

(* `as c_uint`: every number of the request is cut to its width.               *)
RingRequest(o) ==
  [block_size |-> BlockSize(o) % UintSize, block_nr |-> o.block_nr % UintSize,
   frame_size |-> FrameSize(o) % UintSize,
   frame_nr |-> (RingSize(o) \div FrameSize(o)) % UintSize]

(* What packet_set_ring() takes: a size of blocks that is positive as an int,  *)
(* and no others.  A request for no blocks sets up no ring.                    *)
ValidRing(r) ==
  IF r.block_nr = 0 THEN r.frame_nr = 0
  ELSE /\ r.block_size > 0 /\ 2 * r.block_size < UintSize
       /\ r.block_size % PageSize = 0
       /\ r.frame_size > 0 /\ r.frame_size <= r.block_size
       /\ (r.block_size \div r.frame_size) * r.block_nr = r.frame_nr

--------------------------------------------------------------------------------
(* The order of the steps.                                                     *)

(* Slips: the order docs/architecture.md gives, the filter last; and a socket  *)
(* bound to its interface after the ring is set up.                            *)
BindLast ==
  <<"lookup", "socket", "nonblock", "buffer", "getflags", "setflags", "version", "attach",
    "ring", "bind", "mmap", "open">>

DocumentedOrder ==
  <<"lookup", "socket", "nonblock", "buffer", "getflags", "setflags", "version", "bind",
    "ring", "mmap", "attach", "open">>

Order ==
  <<"lookup", "socket", "nonblock", "buffer", "getflags", "setflags", "version", "bind",
    "attach", "ring", "mmap", "open">>

Skipped(o) ==
  (IF o.buffered THEN {} ELSE {"buffer"})
    \cup (IF o.promiscuous /\ o.ifname # "any" THEN {} ELSE {"getflags", "setflags"})
    \cup (IF o.filtered THEN {} ELSE {"attach"})

(* Without a name the interface is chosen first (DefaultInterface); "any" is    *)
(* not looked up.                                                              *)
First(o) == IF o.ifname = "" THEN "list" ELSE IF o.ifname = "any" THEN "socket" ELSE "lookup"

(* Between a step and the one after it only steps are passed that are skipped. *)
Follows(i, j) ==
  /\ i < j
  /\ Order[j] \notin Skipped(options)
  /\ \A k \in i + 1 .. j - 1 : Order[k] \in Skipped(options)

(* The interfaces the caller asked for.                                        *)
Wanted(o) == IF o.ifname = "any" THEN Interfaces ELSE {o.ifname}

Init ==
  /\ options \in OptionSet
  /\ at = First(options)
  /\ kernel_filter_attached = FALSE
  /\ seen = {}
  /\ mapped = FALSE
  /\ fd = "none"
  /\ bound = {}
  /\ filter = "none"
  /\ late = {}
  /\ hook = "queue"
  /\ inflight = {}
  /\ queue = {}
  /\ ring = {}
  /\ arrivals = 0
  /\ flags \in {{}, {"UP"}}

--------------------------------------------------------------------------------
(* The steps of open_with_options().                                           *)

Step(name) ==
  /\ at = name
  /\ \E i, j \in 1 .. Len(Order) : Order[i] = name /\ Follows(i, j) /\ at' = Order[j]
  /\ UNCHANGED options

LookupInterface ==
  /\ Step("lookup")
  /\ UNCHANGED <<kernel_filter_attached, seen, mapped, socket, packets, flags>>

(* socket(AF_PACKET, SOCK_RAW, ETH_P_ALL): packets arrive from here on.        *)
CreateSocket ==
  /\ Step("socket")
  /\ fd' = "open"
  /\ bound' = Interfaces
  /\ UNCHANGED <<kernel_filter_attached, seen, mapped, filter, late, hook, packets, flags>>

(* O_NONBLOCK, SO_RCVBUF and PACKET_VERSION.                                   *)
Configure ==
  /\ Step("nonblock") \/ Step("buffer") \/ Step("version")
  /\ UNCHANGED <<kernel_filter_attached, seen, mapped, socket, packets, flags>>

(* set_promiscuous() reads the interface's flags and writes them back.         *)
GetFlags ==
  /\ Step("getflags")
  /\ seen' = flags
  /\ UNCHANGED <<kernel_filter_attached, mapped, socket, packets, flags>>

SetFlags ==
  /\ Step("setflags")
  /\ flags' = seen \cup {"PROMISC"}
  /\ UNCHANGED <<kernel_filter_attached, seen, mapped, socket, packets>>

(* bind() takes the socket off its interfaces, waits for the packets in        *)
(* flight, and puts it on the new one.                                         *)
Bind ==
  /\ Step("bind")
  /\ Wanted(options) = bound \/ inflight = {}
  /\ bound' = Wanted(options)
  /\ UNCHANGED <<kernel_filter_attached, seen, mapped, fd, filter, late, hook, packets, flags>>

(* SO_ATTACH_FILTER judges the packets that arrive from now on, not those in   *)
(* flight.                                                                     *)
AttachFilter ==
  /\ Step("attach")
  /\ filter' = "opening"
  /\ kernel_filter_attached' = TRUE
  /\ UNCHANGED <<seen, mapped, fd, bound, late, hook, packets, flags>>

(* PACKET_RX_RING waits for the packets in flight, discards the receive queue  *)
(* and records into the ring from now on.                                      *)
SetRing ==
  /\ Step("ring")
  /\ ValidRing(RingRequest(options))
  /\ inflight = {}
  /\ queue' = {}
  /\ hook' = IF RingRequest(options).block_nr = 0 THEN hook ELSE "ring"
  /\ UNCHANGED <<kernel_filter_attached, seen, mapped, fd, bound, filter, late, inflight, ring,
                 arrivals, flags>>

(* A slip: as much is mapped as the request says.                              *)
MapRequested ==
  /\ Step("mmap")
  /\ RingRequest(options).block_nr > 0
  /\ mapped' = TRUE
  /\ UNCHANGED <<kernel_filter_attached, seen, socket, packets, flags>>

(* The kernel maps the ring it was asked for, if any, and only as a whole.     *)
MapRing ==
  /\ Step("mmap")
  /\ RingRequest(options).block_nr > 0
  /\ RingRequest(options).block_size * RingRequest(options).block_nr = RingSize(options)
  /\ mapped' = TRUE
  /\ UNCHANGED <<kernel_filter_attached, seen, socket, packets, flags>>

(* Closing the descriptor frees what the kernel holds for the socket; the ring *)
(* lives on while it is mapped.                                                *)
CloseFd ==
  /\ fd' = IF fd = "open" THEN "closed" ELSE fd
  /\ bound' = {}
  /\ UNCHANGED <<filter, late, hook>>
  /\ inflight' = {}
  /\ queue' = {}
  /\ ring' = IF mapped' THEN ring ELSE {}
  /\ UNCHANGED arrivals

(* A slip: the error path forgets the descriptor.                              *)
FailLeaking ==
  /\ at \notin {"open", "failed", "dropped"}
  /\ at' = "failed"
  /\ UNCHANGED <<options, kernel_filter_attached, seen, mapped, socket, packets, flags>>

(* A system call fails; OwnedFd closes the descriptor on the way out.          *)
Fail ==
  /\ at \notin {"open", "failed", "dropped"}
  /\ at' = "failed"
  /\ UNCHANGED <<options, kernel_filter_attached, seen, mapped, flags>>
  /\ CloseFd

(* A slip: the flag is raised.                                                 *)
AttachLateFlagged ==
  /\ at = "open"
  /\ \E p \in Programs : filter' = p /\ late' = late \cup {p}
  /\ kernel_filter_attached' = TRUE
  /\ UNCHANGED <<options, at, seen, mapped, fd, bound, hook, packets, flags>>

(* attach_filter() on the open socket, whose ring may hold packets already:    *)
(* the caller's program replaces the one attached, whatever that was, and the  *)
(* flag stays as it is.  An empty program, or an error, changes nothing.       *)
AttachLate ==
  /\ at = "open"
  /\ \/ \E p \in Programs : filter' = p /\ late' = late \cup {p}
     \/ UNCHANGED <<filter, late>>
  /\ UNCHANGED <<opener, fd, bound, hook, packets, flags>>

(* The socket goes out of scope: munmap(), then close().                       *)
Drop ==
  /\ at = "open"
  /\ at' = "dropped"
  /\ mapped' = FALSE
  /\ UNCHANGED <<options, kernel_filter_attached, seen, flags>>
  /\ CloseFd

--------------------------------------------------------------------------------
(* The kernel and the rest of the host.                                        *)

(* A packet passes the filter attached when it arrives, and is stored where    *)
(* the socket's hook at that time puts it.                                     *)
Arrive ==
  /\ fd = "open"
  /\ arrivals < MaxArrivals
  /\ arrivals' = arrivals + 1
  /\ \E i \in bound, passes \in Traffic :
       /\ filter # "none" => filter \in passes
       /\ inflight' = inflight \cup {[id |-> arrivals', from |-> i, passes |-> passes, hook |-> hook]}
  /\ UNCHANGED <<opener, socket, queue, ring, flags>>

Store ==
  /\ \E p \in inflight :
       /\ inflight' = inflight \ {p}
       /\ IF p.hook = "ring" THEN ring' = ring \cup {p} /\ UNCHANGED queue
          ELSE queue' = queue \cup {p} /\ UNCHANGED ring
  /\ UNCHANGED <<opener, socket, arrivals, flags>>

(* Somebody else brings the interface up or down.                              *)
OtherFlags ==
  /\ flags' \in {flags \cup {"UP"}, flags \ {"UP"}}
  /\ flags' # flags
  /\ UNCHANGED <<opener, socket, packets>>

Next ==
  \/ LookupInterface
  \/ CreateSocket
  \/ Configure
  \/ GetFlags
  \/ SetFlags
  \/ Bind
  \/ AttachFilter
  \/ SetRing
  \/ MapRing
  \/ Fail
  \/ AttachLate
  \/ Drop
  \/ Arrive
  \/ Store
  \/ OtherFlags

Spec == Init /\ [][Next]_vars

--------------------------------------------------------------------------------
(* The ring holds only packets the caller asked for: from the interface it     *)
(* named, and passed by the filter it opened the socket with, or by one it has *)
(* attached in place of that since.                                            *)
Passed(p) == p.passes \cap ({"opening"} \cup late) # {}
AskedFor(p) == p.from \in Wanted(options) /\ (options.filtered => Passed(p))

NoPrefilterLeak == \A p \in ring : AskedFor(p)

(* Once opened, nothing is on its way into the ring that should not be there,  *)
(* and main.rs, which does not filter a packet again if kernel_filter_attached *)
(* is set, finds it set exactly if the socket was opened with a filter: a      *)
(* filter attached later, to a ring with packets in it, does not set it.       *)
Settled ==
  at = "open" =>
    /\ kernel_filter_attached <=> options.filtered
    /\ \A p \in inflight : p.hook = "ring" /\ (options.filtered => Passed(p))

(* next_packet() walks `block_nr` blocks of `block_size` bytes: on an open     *)
(* socket these are the kernel's blocks, and there is one, although the request *)
(* is cut to 32 bits and next_packet() is not.  A request that was cut may be  *)
(* accepted, but not be mapped.                                                *)
WalkInRing ==
  at = "open" =>
    LET r == RingRequest(options)
    IN  r.block_nr > 0 /\ r.block_size = BlockSize(options) /\ r.block_nr = options.block_nr

(* However opening fails, and after a socket is dropped, no descriptor, mapping *)
(* or packet is left behind.                                                   *)
NothingLeftBehind ==
  at \in {"failed", "dropped"} =>
    /\ fd # "open"
    /\ ~mapped
    /\ inflight \cup queue \cup ring = {}

(* The ring asked for is never one the kernel refuses whatever memory there is. *)
RingAcceptable == at = "ring" => ValidRing(RingRequest(options))

--------------------------------------------------------------------------------
(* The inductive invariant behind them: what has been done to the socket by    *)
(* the time a step comes next.                                                 *)

AfterRing == {"mmap", "open"}
AfterAttach == {"ring"} \cup AfterRing
AfterBind == {"attach"} \cup AfterAttach
HasSocket == {"nonblock", "buffer", "getflags", "setflags", "version", "bind"} \cup AfterBind
NoSocket == {"list", "walk", "lookup", "socket"}
Over == {"failed", "dropped"}

(* The descriptor is open from socket() on until opening fails or the socket   *)
(* is dropped, and packets are held only for an open descriptor.               *)
Descriptor ==
  /\ at \in NoSocket \cup HasSocket \cup Over
  /\ at \in HasSocket <=> fd = "open"
  /\ fd # "open" => inflight = {} /\ queue = {} /\ ring = {}
  /\ mapped => at = "open"

(* bind() and SO_ATTACH_FILTER have been passed and have done their work.      *)
Prepared ==
  /\ late \subseteq Programs
  /\ at = "attach" => options.filtered
  /\ at \in AfterBind => bound = Wanted(options)
  /\ at \in AfterAttach /\ options.filtered =>
       filter \in {"opening"} \cup late /\ kernel_filter_attached
  /\ kernel_filter_attached => at \notin NoSocket /\ options.filtered

(* The hook is moved while nothing is in flight, so what is in flight has been  *)
(* judged by what was in force when the hook was where it is now.              *)
Judged ==
  /\ hook = "ring" => at \in AfterRing \cup Over
  /\ at = "mmap" => hook = "ring" \/ RingRequest(options).block_nr = 0
  /\ at = "open" => hook = "ring"
  /\ \A p \in inflight : p.hook = hook /\ (hook = "ring" => AskedFor(p))
  /\ \A p \in ring : AskedFor(p)

OpenInv == Descriptor /\ Prepared /\ Judged
================================================================================
