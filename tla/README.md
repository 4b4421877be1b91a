# netdump: a verification project

netdump is a tcpdump-like packet capture program for Linux, written in Rust: a
command line program, a capture library over an AF_PACKET socket with a memory-mapped
TPACKET_V3 ring, a pcap-filter parser and compiler, and a classic BPF machine.
This directory holds TLA+ models of the parts that decide *which packets come
out*, TLC configurations that check them on small instances, and TLAPS proofs of
the central results for every size. Paths below are relative to `src/`; `afpacket`,
`filter`, `cbpf`, `cli` and `core` stand for `crates/netdump-*/src`.

    tlc -workers 2 -config MCFrameRing.cfg MCFrameRing       # a run
    tlapm FrameRingProofs.tla                                # the proofs of a module

The proof modules are `PacketRingProofs`, `FrameRingProofs`, `SocketOpenProofs`,
`CaptureProofs`, `CbpfProofs`, `CompilerProofs`, `LineProofs` and the lemmas of
`InductionLemmas`; from nothing each takes between a few seconds and a few minutes.

`PROJECT.json` lists the runs, the source lines every definition translates, the
hazards and the properties that watch them, and for every property a plausible
slip in the code (an operator of its own beside the real one) that breaks it.

## 1. The system

| component | state | operations | correct when |
|---|---|---|---|
| **Ring reader** `AfPacketSocket::next_packet` (`afpacket/lib.rs:259-337`) | the block status words, headers, frames and bytes it shares with the kernel; `current_block`, `cursor` | return the next frame, give a block back, wait for one (`poll`, 100 ms) | every recorded packet is returned once, in order and with its own bytes; a block is never in two hands; a packet is lost only if all blocks are held; nothing waits for ever |
| **Opening** `open_with_options`, `attach_filter`, `Drop` (`afpacket/lib.rs:92-250, 365-498`) | descriptor, binding, attached filter, ring, mapping; flags of the interface | some ten system calls in a fixed order, each may fail; a filter attached later | the ring never holds a packet from another interface or one the filter refuses; `kernel_filter_attached` says whether it was opened with a filter; nothing is leaked; the ring asked for is one the kernel can give, and the one that is walked |
| **Filter parser** `parse` (`filter/lib.rs`, `filter.pest`) | none | text to `FilterAst`; network masks | a text is refused or read as the one tree the grammar derives for all of it |
| **Compiler, assembler** `compile`, `Assembler::resolve` (`filter/compiler.rs`, `assembler.rs`) | instructions, pending jumps, labels | tree to BPF program | the program's verdict is the meaning of the tree; the kernel takes it unless it is too long; no panic |
| **BPF machine** `Vm::exec` (`cbpf/vm.rs`) | pc, A, X, 16 words of memory | one instruction after another | always ends; arithmetic wraps; same verdict as the kernel |
| **Capture and read loops** `run` (`cli/main.rs:159-369`) | `captured`, `PktCtx` (num, first_ts, prev_ts), the output file | early returns, create, open, filter, direction, count, write, print | output is the wanted packets in order; `-c` is exact; numbers and times are consistent; a refused command line touches no file |
| **Lines** `print_packet`, `parse_packet` (`cli/main.rs:383-545`, `core/lib.rs:101-141`) | `PktCtx` | details of a packet from its bytes | no index past the end; a detail is the field it is named after; dates are on the calendar |
| pcap files | the `pcap-file` crate's | read and write a packet | only as a source and a sink that may fail |
| **Default interface** `list_interfaces`, `default_interface` (`afpacket/lib.rs:548-595`) | a list while it is built | snapshot, walk, sort, choose | the lowest-numbered interface that is up is chosen while the host changes |
| `statistics` | none | one `getsockopt` | not modelled; the program never calls it |

**Interaction.** `run()` parses and compiles the filter once, creates the output file and opens
the source. For a live capture it takes the interface named, or the one `default_interface()`
chooses, and hands the program to `open_with_options()`, which attaches it in the kernel and sets
`kernel_filter_attached`; with `--userspace-filter`, and for a file, it calls `Vm::exec()` per
packet instead. It then calls `next_packet()` in a loop. The kernel and the reader share the ring
without any lock: the status word of a block says who owns it.

**What is hard here.** The kernel runs between any two steps of the reader; packets
arrive while the socket is being set up; a 100 ms `poll` timeout races a block's
arrival; the retire timer closes blocks that are not full; every block may be held,
and the queue freezes; system calls fail half way; the filter runs in one of two
machines that must agree; labels and 8-bit jumps are threaded through nested
negations; packets are cut off in the middle of a header field; interfaces come and go
while one is chosen; the process may be killed at any point. Nothing is persisted but
the output file, and there is one thread: no crash recovery, no lock order.

## 2. The modules

    CaptureQueue                 what a capture socket promises: an abstract FIFO
      ^ implemented by           ^ composed into
    PacketRing                   Capture              run(), its loops
      FrameRing                    CaptureProofs
        FrameRingProofs          SocketOpen           open_with_options()
      WeakPacketRing               DefaultInterface   the name it is given
        PacketRingProofs             SocketOpenProofs (of both)

    MachineWord <- Instructions
                     ^        ^
                   Cbpf      Assembler                the machine, the assembler
                     ^              ^
                   CbpfRun    FilterCompiler          on any program, on any tree
                     CbpfProofs     CompilerProofs    (CbpfProofs is of Assembler too)

    FilterRun                                         a text, its tree, its program, a packet
      Cbpf
      FilterGrammar <- FilterParser <- FilterCompiler <- Assembler, Protocols
      PacketLine <- Protocols                         and the line printed for it
        LineProofs

    InductionLemmas                                   for the proof modules

`MC*` modules hold the values TLC uses; each `.cfg` is one run. Indentation under a
module reads "extends it".

### CaptureQueue, PacketRing, FrameRing, WeakPacketRing

`CaptureQueue` is the promise: packets are recorded, dropped only while more than
`Slack` recorded packets have not been delivered, and delivered in order of recording.

`PacketRing` has the shared memory (`status`, `frames`, `numPkts`), the kernel's
side (`kactive`, `queue`, `recorded`, `dropped`) and the reader (`current_block`,
`cursor`, the point `rpc` inside `next_packet()`). Packets are stamps: the k-th one
recorded carries k, so "in order, once each" is a statement about numbers.

| code | action |
|---|---|
| entering `next_packet` | `Call` |
| a frame copied out, `seen` and `next_offset` advanced | `Deliver` |
| status written back, `cursor = None`, `current_block` advanced | `ReleaseBlock` |
| `wait_for_block` reads the status word | `CheckStatus` |
| `poll` returns ready or after its timeout / fails | `PollReturn` / `PollFail` |
| the header of the new block copied into a cursor | `LoadHeader` |
| kernel, external: a packet fits / reopens a thawed block / closes a block and opens the next / is lost with the block closed / is lost while frozen | `Record`, `ThawRecord`, `RetireRecord`, `RetireDrop`, `FrozenDrop` |
| kernel, external: retire timer | `TimerRetire`, `TimerThaw` |

Each action is one access to shared memory or one system call, so all interleavings
of reader and kernel are there. `Deliver` reads several words of the frame in one
step: the block is the reader's then, which is what `BlockOwnership` shows.
`PollFail` returns to the caller, who may call again: the program exits instead, but
the library's `Result` invites a retry. The kernel's actions state the TPACKET_V3
contract the reader is written against and are marked external.

`FrameRing` conjoins the bytes to every one of these actions: `memory` is the cells of
all blocks, the kernel writes frames of different lengths with the offset of the next
(`FrameRecord` and the others, external), and the reader finds a frame at
`cursor.next_offset`, copies the bytes `tp_mac` points at and adds `tp_next_offset`
(`FrameDeliver`, `CopyOut`). `PacketIntact` says that what is returned is the packet
recorded, cell by cell; `OffsetOnFrame` that the offset, which the code never checks,
is always the beginning of a frame. The run of the ring is the one of `FrameRing`, so
the properties of `PacketRing` are checked on it with their bytes.

`WeakPacketRing` adds one effect of a weakly ordered machine: `num_pkts` may be
loaded while the load of the status word is outstanding, for only a branch separates
the two and a volatile read orders nothing (`LoadEarly`; a count loaded so is used by
`WeakLoadHeader`, and thrown away on the way to `poll`). Other loads of the header and of
frames stay behind the status: the module says what becomes of the count. `HeaderUnshared` is
what the code's comment takes for granted and what breaks; `BlockHeld` is what remains true.

### MachineWord, Instructions, Cbpf, CbpfRun

`Cbpf` is `Vm::exec()`, one action per instruction class, one instruction per step.
An instruction is (class, operation, operand size, k, jt, jf); the class and operation
fields of the code word stand for its bits, and `"other"` for any value the machine
does not know. Words have `WordBits` bits and arithmetic wraps there; `MachineWord`
defines and, or and exclusive or over the set of a word's bits, so that the proofs can
expand them. A packet is
its captured length and the values of its fields by offset; a read past the captured
length gives 0 and sets the auxiliary variable `missed`. The operand of ALU and
compare instructions is always the constant, as in the code. Of what the kernel's checker
demands (external), `Lands` is the part about control, that the program ends in a return and that
no jump leaves it, and `Allowed` the part about operands; its limit of 4096 instructions is in
neither. `CbpfRun` starts the machine on any program of a set.

### FilterParser, FilterGrammar, FilterCompiler, Assembler, PacketLine, FilterRun

`FilterParser` is `parse()`: the rules of `filter.pest` tried in order and without
going back, as pest does, together with the `build_*` functions. A text is a sequence
of tokens: words, numbers, addresses. A match carries how far it got and a tree or
`Bad`, for an error may turn up (a port of 65536, a prefix of 33) in a text the
grammar takes. White space is gone but for the blank `greater ` and `less ` are
recognised by. `PrefixMask`, `DefaultPrefix` and `ParseNet` are the arithmetic of
networks, including the shift count that wraps around.

`FilterGrammar` says what a text means without parsing it: `Spellings` lists how a
predicate may be written, masks by their bits and classes by their leading ones, and
`Derivations` the set of all trees the rules derive for a whole text, taken as a
grammar. `ReadAsWritten` compares the two.

`FilterCompiler` translates `compile()` predicate by predicate, with the instruction
order, the shape of the jumps and the byte offsets of the code, into a list of
calls of the assembler. The handwritten variants of the code per direction are folded
into `InDirection`, those per IP version into `EitherVersion` and `WithPorts`. `CompileNode`, the
walk of `compile_node()`, is a recursive function of the tree. Its domain is the constant
`Tree`, any set of `FilterAst` values that has the parts of each, with their `Height`
(`TreeAssumption`); a node of it is a predicate with operands as wide as in the code, or has
its parts lower down. `CompilerSpec` hands the calls for any tree to the assembler. In the runs
`Tree` holds every tree a text of the run may be read as, and its parts: `MCFilter` lists them
without parsing, and TLC stops with an error on a parsed tree that is not among them.

`Assembler` makes these calls one after the other: `EmitInst` is `emit()`, `EmitJumpInst`
`emit_jump()`, which notes both arms as pending, and `BindLabel` `place_label()` at
`next_index()`. `Patch` is one turn of the loop of `resolve()`, which fills in one arm or
panics: on a label never placed, on a jump backwards, on an offset above `MaxOffset`. A label
is the place in the tree that asked for it and a name, which is as fresh as the counter of
`new_label()`. `NextInst` stands for the many labels placed right behind the jump that uses
them. `origin`, an auxiliary variable, remembers the call each instruction is from.
`ArmsReachLabels` says of the finished program what the calls asked for: each arm leads to the
first instruction emitted behind the call that placed its label last, whatever was emitted in
between, and nothing but arms was changed. `OnlyLongPanics` says when the process ends instead:
only if the program has more than `MaxOffset + 2` instructions. `Loadable`, in `FilterCompiler`,
says what the kernel may count on in the programs that are handed out: `Lands` and `Allowed`.

`PacketLine` is the line `print_packet()` writes with `-e -v -tttt`. `StartLine` splits the time
stamp, `NextYear`, `YearFound` and `NextMonth` are the turns of the two loops of
`epoch_days_to_date()`, with `date` and `days_left` for its `y`, `m` and `d`, and `FinishLine` is
the rest: the day, `parse_packet()` and the details, as offsets of the bytes read and the checks
in front of them. An index past the end of the packet sets `printing` to `"panic"`. etherparse is
external, and strict. `Sliced` says when `from_ethernet()` returns a packet and not an error: the
IP header is well formed (`valid` stands for the version, the checks of extension headers and the
like), its datagram, by the length in the header, was captured to the last byte (`DatagramEnd`; an
IPv6 length of 0 stands for what is there), and the TCP, UDP or ICMP header fits into it
(`TransportSliced`), unless the packet is a fragment (`frag`), which is not looked into. So a
packet cut by the snap length has no details at all, `NoInfo`. A packet has the lengths it claims
(`total`, `tsize`), IPv4 options (`ihl`), IPv6 extension headers (`ext` bytes, with `upper` the
protocol behind them) and at most one VLAN tag (`inner`). `LineTruthful` compares what
`print_packet()` shows, which looks at lengths and not at these, with `TcpWhole`.

`FilterRun` composes them: `ParseFilter`, `CompileFilter`, the steps of the assembler
(`AssembleFilter`), `ProgramReady`, `NextPacket`, the steps of the machine, and `PrintPacket`, the
steps of `PacketLine`, for a packet that is accepted. `VerdictCorrect` compares the verdict with
`Matches`, the meaning of the derived tree read off the packet's header fields.

### SocketOpen, DefaultInterface

`Order` lists the system calls of `open_with_options()`; `Step(name)` performs one and goes to the
one that `Follows`, past the calls the options leave out. `at` is where the function stands. The
kernel (external) judges a packet by the binding and filter of the moment it arrives (`Arrive`)
and stores it later (`Store`) where the hook of that moment points, the receive queue or the ring.
`Bind` to another interface and `SetRing` wait for packets in flight, and `SetRing` empties the
receive queue, as the kernel does. `Fail` may happen at any step; `Drop` is the `Drop` of the
socket. `AttachLate` is `attach_filter()` on the open socket: any program (`Programs`: the one the
socket was opened with, or another) takes the place of the one attached, if any, while packets
judged before are in flight and in the ring; an empty one, or an error, changes nothing; the flag
stays as it is in any case. `late`, an auxiliary variable, remembers these programs, and a packet
carries the programs it passes (`passes`): the ring may hold what passed the opening filter or one
attached in its place since (`Passed`), and nothing else. `set_promiscuous` reads and writes the
interface's flags in two steps (`GetFlags`, `SetFlags`), while `OtherFlags` changes them.
`RingSize` and `RingRequest` are the arithmetic of the ring's geometry: the request is cut to a
`c_uint` (`UintSize`), the size for `mmap()` and the numbers `next_packet()` goes by are not.
`ValidRing` (external) is the kernel's test of the request, and `MapRing` succeeds only for the
size of the ring the kernel has, or `WalkInRing` would fail (`MapRequested`).

`DefaultInterface` goes before it when no name is given: `Snapshot` is `getifaddrs()`, which
lists the links and behind them entries for addresses, each in any order, `Walk` one turn of the
loop, which asks for the index anew, and `Choose` the sort and the choice. `Change`
(external) takes interfaces away, brings them back under another index, and switches
them, between any two of these steps and until `LookupInterface` has the name.

### Capture

`run()`: `Start` is everything that can end it before a file is touched (`-D`, `-d`, a
filter that is not accepted), `Create` truncates the output file, which may be the
input file too, `Open` opens the source and `GetIfaceMac` asks for the address `-Q`
needs. Then both loops, told apart by `options.source`. `phase` is the position:
`top` (the `-c` test), `next` (`next_packet()`), `judge` (filter, direction, counting),
`write`, `print`. Every step that can fail has its failure, and `Killed` ends the
process anywhere, which is how a capture without `-c` ends. The socket is the queue
of `CaptureQueue`, taken in with `INSTANCE`: its `Record`, `Drop` and `Deliver` are
conjuncts of the loop's actions. So the loop is checked against the promise and
`PacketRing` is shown to keep it. A packet is whether the filter matches, whether it
leaves the host, whether it is too short to say, and its time. `Shown` is the
formatting of a time difference: quotient and remainder apart.

## 3. The runs

Bounds are chosen so that each hard case happens more than once.

| run | checks | size | shows |
|---|---|---|---|
| `ring` | `TypeOK InOrder BlockOwnership IInv FrameInv PacketIntact OffsetOnFrame DropOnlyWhenAllHeld EventuallyDelivered EventuallyThawed`, refinements `ImplementsQueue ImplementsFairQueue` | 3 blocks of up to 3 frames, two lengths, 6 packets: 106 000 states | in-order delivery of the right bytes, ownership, the drop rule, a packet reaches the caller even if nothing follows it, a frozen queue thaws |
| `machine` | `TypeOK EndsInReturn OnlyForward Terminates` | all programs of up to 2 instructions, many of 3, 6-bit words: 64 000 states | unknown instructions, division by 0, shifts and sums that wrap, jumps past the end |
| `filter_verdicts` | `ReadAsWritten VerdictCorrect Loadable OnlyLongPanics ArmsReachLabels AssemblerInv ReadsCaptured LineTruthful DateOnCalendar LineInv` | every spelling of 52 predicates and 11 trees on packets cut in every field; all 4680 texts of up to four tokens and 17 ill-formed ones; two texts with jumps of 255 and 256; 90 time stamps; packets with odd headers: 204 000 states | the text is read as written, the verdict is its meaning, every jump leads where the compiler meant it to, assembling fails for length only, what is assembled the kernel can only find too long, the line is the packet's and read within it |
| `socket_open` | `NoPrefilterLeak Settled WalkInRing NothingLeftBehind OpenInv ListInv DefaultIsLowest` | 3 interfaces, 4 hosts, 2 changes, 2 packets, 13 option sets: 3 160 000 states | packets, changes of the host and failures at every point of opening, other filters after it, rings cut to 22 bits |
| `capture_loop` | `TypeOK OutputFaithful FilesKept CountExact LinesConsistent CaptureInv CountReached` | every command line, 3 packets of 4 kinds: 1 040 000 states | the run from its command line to its end, live and from a file |

Runs that end in a counterexample, because the code does not do what it or its
documentation says:

| run | finding |
|---|---|
| `ring_weak_loads` | `wait_for_block()` has no acquire: on aarch64, which the Makefile builds for, `num_pkts` may be read before the block is the reader's; packets of the block are then skipped. With the loads in program order (`PacketRing`) this cannot happen. |
| `snap_length` | `-s` sizes the frames of the ring and nothing else: a longer packet is returned whole, for the kernel keeps what the filter accepts. |
| `filter_portrange` | `portrange 80-81` without a direction misses port 79 to port 80: a source port below the range rejects at once, above the range it goes on to the destination. |
| `filter_net6` | an IPv6 network written with host bits (`2001:db8:101::1/32`) matches nothing; IPv4 ones are masked. |
| `filter_short_packets` | on a cut packet `not tcp` accepts in user space where the kernel, at its first load past the end, refuses. |
| `filter_long_or` | a long chain of `or` needs a jump over more than 255 instructions and `resolve()` panics. |
| `ring_geometry` | block sizes that are no multiple of the frame size, such as `--block-size 200`, ask for a ring the kernel refuses. |

Why the bounds are enough. In the ring only the distance between `kactive` and `current_block`
matters, not the number of blocks; three blocks give an empty, a part held and a fully held ring
with a middle block that is neither end (and the proofs are for any number). Six packets fill two
blocks with short frames or all three with long ones, freeze the ring, thaw it and wrap around;
two lengths, one of them cut by `AcceptLen` and both padded, so that frame size, captured length
and place of the bytes all differ. A packet always fits an empty block, as with the default
geometry. Filters look at a packet through fixed fields and compare them for equality or order, so
one value equal, one neighbour and one far value per field cover the comparisons; the lengths cut
the packet before, inside and behind each field. In the filter runs a machine word has 16 bits, so
an IPv4 address is one 16-bit word and an IPv6 address four; ports and ethertypes keep their
width, jumps their 8 bits: of two long chains of `or` one needs a jump of 255, which is the last
that fits, and one a jump of 256. Prefixes cover a whole word, part of a word, a word boundary and
the class default. Only filters with a port in them are tried on every pair of ports, and only
those without on every pair of addresses. One packet is printed with header lengths, datagram
lengths and TCP, UDP and ICMP sizes one short, right and one too long, with extension headers, and
as a fragment. Texts of four tokens hold every pair of neighbouring operators, juxtaposition and a
parenthesis; deeper nesting is in the trees. In the machine run words have 6 bits so that sums and
shifts wrap. `MaxPackets` bounds the packets that arrive, `MaxArrivals` those during opening and
after it, which pass the opening filter, another, or neither (`Traffic`; one that passes both
could be refused nowhere). `UintSize` is 2^22 there and not 2^32, TLC's integers being too short:
two option sets ask for blocks of 64 KiB more than that, and with 256 of them the kernel takes the
request that is left. `MaxChanges` bounds the changes of the host: one for the interface in hand
and one for another, `MaxIndex` their indexes. The times of `capture_loop` go back by less and by
more than a `Second` of two ticks.

Deadlock is checked for the ring (the reader always polls) and switched off where the
system stops: a program ends, a socket is opened or dropped, a capture is done.

**Fairness.** `PacketRing` and `FrameRing`: weak fairness of the reader, one thread in a loop
whose `poll` returns after at most 100 ms, and of the retire timer, which the kernel re-arms for
as long as the ring exists. None for arriving packets, which is the point of
`EventuallyDelivered`. `poll` is allowed to fail arbitrarily often. `CbpfRun`: the machine's loop
goes on. `Capture`: weak fairness of the loop's steps; `NextPacket` waits for the queue, and that
the socket hands out what was recorded is what `ImplementsFairQueue` establishes. Nothing is
assumed of failures, kills and arriving packets.

## 4. What is proved

Every theorem holds for every value of the constants that satisfies the assumptions, all of them
named and evaluated by TLC in the runs: `RingAssumption` (at least one block, at least one frame
per block), `FrameAssumption` (positive sizes), `OpenAssumption` (option sets of the type of the
program's options, packets told apart by programs), `ListAssumption` (finitely many interfaces),
`CaptureAssumption` (options and packets of their types), `ProgramsAssumption` and
`PacketsAssumption` (programs are sequences of instructions with unsigned fields, fields of a
packet fit a word), `WordAssumption` (words of at least 6 bits, enough for the header length `4 *
ihl`), `OffsetAssumption` (the largest offset is a natural number), `WidthAssumption` (for the
compiler, words of at least 16 bits, which hold an ethertype and a port) and `TreeAssumption` (the
trees are those of `FilterAst`, and finite in height). All invariants used below are invariants of
a run as well.

`PacketRingProofs`:

| theorem | statement |
|---|---|
| `Inductive` | `Spec => []IInv` |
| `TypeCorrect` | `Spec => []TypeOK`: no index or count leaves its range |
| `DeliveryInOrder` | `Spec => []InOrder` |
| `Ownership` | `Spec => []BlockOwnership` |
| `DropsOnlyWhenAllHeld` | `Spec => DropOnlyWhenAllHeld` |
| `RingImplementsQueue` | `Spec => ImplementsQueue`, with `Slack = BlockNr - 1` |
| `WeakInductive` | `WeakSpec => []WeakInv`: the ring whose count may be loaded early |
| `HeldThroughout` | `WeakSpec => []BlockHeld` |
| `WeakDropsOnlyWhenAllHeld` | `WeakSpec => DropOnlyWhenAllHeld` |
| `InOrderIsRing` | `WeakSpec /\ [](early = NoLoad) => Spec`: without early loads it is the ring |
| `InOrderUnshared` | `WeakSpec /\ [](early = NoLoad) => []HeaderUnshared` |

`InOrder` is not inductive: it does not say where the packets not yet delivered lie.
`IInv` adds that. `Window`: user space owns exactly the `Lag` blocks from
`current_block` on, all non-empty. `Contents`: the stamps inside a block are
consecutive. `Chain`: each owned block starts where the one before it ends, the last
one ends where the active block begins. `ReaderAt`: the first packet not delivered
is where the cursor stands. `CursorInv`: the cursor agrees with its block's header,
and where the reader may be without one. The proof has a lemma per kind of step, kernel
filling (`FillStep`), retiring (`RetireStep`), delivering (`DeliverStep`) and
releasing (`ReleaseStep`), over lemmas about `Dist`, the distance round the ring:
arithmetic of `%` is kept in those and cited by name elsewhere. The drop rule follows from
`Window`: when the kernel finds the next block in use, the window spans the ring.
The refinement's drop step needs one packet per held block, which is the second part of `Chain`
(`Backlog`).

The last five say what the finding of `ring_weak_loads` costs and what cures it. `WeakInv` is
`IInv` less everything about counts and contents: the window of blocks does not depend on what
the reader took for the number of packets, for a reader that gives a block back too early, or
too late, still gives back its own. So ownership and the drop rule survive, and only what is
delivered from a block does not. With the loads in order, as an acquire on the status would
have them, the machine is the ring, and the comment in the code is right.

`FrameRingProofs`:

| theorem | statement |
|---|---|
| `FrameImplementsRing` | `FrameSpec => Spec`: forgetting the bytes leaves a run of `PacketRing` |
| `FrameRingKeepsOrder` | so order, ownership, the drop rule and the queue hold of it too |
| `FrameInductive` | `FrameSpec => []FrameInv` |
| `PacketsAreIntact` | `FrameSpec => []PacketIntact`: the bytes returned are the packet's |
| `OffsetsAreOnFrames` | `FrameSpec => []OffsetOnFrame`: each offset followed is a frame's, inside the block |

`FrameInv` says how frames lie in memory. `Laid`: in a block handed over, and in the one being
filled, the first frame is where the header ends, each is whole and ends inside the block, and
the next one begins where its `tp_next_offset` points; closing the block clears that of the
last (`CloseBlock`). `LastAt` finds the last frame of the block being filled, so that a new one
is written behind it and disturbs none (`WriteFrame`). That the kernel never writes into a
block the reader holds (`KernelSpares`) comes from `IInv`, as does that the reader asks for a
next frame only where there is one.

`SocketOpenProofs`:

| theorem | statement |
|---|---|
| `OpenInductive`, `DefaultInductive` | `OpenInv`, with the name given and with the name chosen |
| `RingHoldsOnlyWanted` | `DefaultSpec => []NoPrefilterLeak` |
| `OpenIsSettled` | `DefaultSpec => []Settled` |
| `WalkStaysInRing` | `DefaultSpec => []WalkInRing`, if every option set is `Moderate`: frames of no more than a gigabyte, beyond which `NextPowerOfTwo` is not defined here |
| `NothingIsLeft` | `DefaultSpec => []NothingLeftBehind` |
| `ListInductive` | `DefaultSpec => []ListInv` |
| `ChoosesLowest` | `DefaultSpec => DefaultIsLowest` |
| `GeometryAccepted` | `open_with_options()` asks for a valid ring exactly if what frames leave over in all blocks does not add up to one more frame: the condition behind the finding of `ring_geometry`. For options that are `Uncut`: no number of the request exceeds a `c_uint` |
| `DefaultBlockAccepted` | with the default blocks of a megabyte the ring is valid whatever `-s` and `--block-nr` are, as long as a frame fits in a block and the options are `Uncut` |

Neither `NoPrefilterLeak`, `Settled` nor `NothingLeftBehind` is inductive: what may be in the ring
depends on what was in flight when the ring was made, and that on how far opening had come.
`OpenInv` says it per system call. `Prepared`: behind `bind` (`AfterBind`) the socket is bound to
the interface asked for, behind `attach` (`AfterAttach`) it carries the program. `Judged`: the
hook points to the ring only behind `SetRing` (`AfterRing`), packets in flight were judged while
the hook was where it is, so those bound for the ring, and those in it, were asked for; a filter
attached later only adds to what may have passed (`AttachLateKeeps`). `Descriptor` is the
bookkeeping of what is to be given back. `ListInv` is the list of interfaces half way: every entry
is true to the snapshot and the only one of its interface (`InfosTrue`), and each interface of the
snapshot is listed or still to come (`NoneLost`). `ChoosesLowest` needs that a finite set of
indexes has a least element. `WalkStaysInRing` rests on `CutProduct`: a product of two positive
numbers that were cut is that of the numbers themselves only if neither was.

`CaptureProofs`: `CaptureInductive` (`CaptureInv`), `CaptureTypeOK`, `OutputIsFaithful`,
`FilesAreKept`, `CountIsExact` and `LinesAreConsistent`, each `Spec => []` of the run's
invariant of the like name. `CaptureInv` ties the counters to the packets delivered by their
`Rank`, the number of wanted packets among the first n: `captured` is the rank of what was
delivered, short of the packet still in hand, and so are the lengths of what was written and
printed (`Count`); `Limit` keeps `captured` below `-c` wherever another packet is asked for;
`Reference` says which line the two reference times are of. `Rank` is the
cardinality of a set, so that its lemmas are about adding one element.

`CbpfProofs`:

| theorem | statement |
|---|---|
| `ControlInvariant` | the program counter is a natural number and the program stays one |
| `MovesForward` | `Spec => OnlyForward`: a step moves forward or ends the run, so `exec()` cannot loop |
| `AlwaysReturns` | `Spec => []EndsInReturn`: a program that `Lands` never runs off its end |
| `WordsStayWords` | `Spec => []TypeOK`: registers and memory stay words of `WordBits` bits |

`WordsStayWords` is about every operation of `MachineWord`, the bitwise ones included: a word
put together from a set of bits is below the modulus, by induction from the highest bit on
(`BitsAreWords`).

Of the assembler, in the same module:

| theorem | statement |
|---|---|
| `AssemblerInductive` | `AssemblerSpec => []AssemblerInv` |
| `ArmsAreRight` | `AssemblerSpec => []ArmsReachLabels` |
| `OnlyLongProgramsPanic` | `AssemblerSpec => []OnlyLongPanics`: below 258 instructions no filter runs into `filter_long_or` |
| `AssembledLands` | `AssemblerSpec => [](assembling = "done" => Lands(insts))`: with `AlwaysReturns`, a compiled filter always ends in one of its returns |

`AssemblerSpec` makes any list of calls that `IsProgram`: conditional jumps only, whose labels are
placed behind them (`PlacedBehind`), perhaps more than once, and a return behind everything else.
`AssemblerInv` has `IsProgram` in it and is an invariant of `filter_verdicts`, so that run shows
of its filters that what `compile()` calls is of this kind, and `CompilesToProgram` of all
filters. `ArmsReachLabels` speaks of finished programs only and is not inductive. `AssemblerInv`
is the assembler's book: `InstsTrue`, the instructions are those of the calls made, in their
order, up to the arms; `PendingTrue`, each arm of each jump is pending exactly once and with its
label (`ArmTrue`, `ArmPends`), which is why filling in one arm spoils no other; `LabelsTrue`, a
label stands for the first instruction behind its place, also while that instruction is still to
come; `PatchedTrue`, arms already filled in are right. That every jump lands then follows from the
return behind all labels (`LastIsReturn`, `ArmLands`), and so does the bound on what may panic:
the last label is in front of the last instruction (`PanicsWhenLong`).

`CompilerProofs`:

| theorem | statement |
|---|---|
| `CompilesToProgram` | for every tree, `IsProgram(Items(f))`: what `compile()` calls is a program |
| `CompilerUsesAssembler` | `CompilerSpec => AssemblerSpec` |
| `CompiledArmsRight` | `CompilerSpec => []ArmsReachLabels` |
| `CompilerPanicsWhenLong` | `CompilerSpec => []OnlyLongPanics` |
| `CompiledLoads` | `CompilerSpec => []Loadable`: a program handed out `Lands`, and each instruction of it is `Allowed`, all the kernel checks but the length |

They are about every filter: every nesting, address, mask, port and length, where the runs have
some. A `Fragment` is a piece of code whose jumps go forward to labels it places, or leave by
given exits. Each predicate's code is a fragment with the exits accept and reject (`HostCode`,
`PortCode` and the others), fragments behind each other are one (`Followed`), and placing a
label behind a fragment takes it off the exits (`Placed`); so `and`, `or` and `not` of
fragments are fragments (`NodeInOrder`), and the two returns at the end close the last two
exits (`ClosedIsProgram`). The induction is on `Height` (`AllInOrder`), and so is the proof
that the recursive `CompileNode` is what its definition says (`CodeIs`: partial tables agree,
and together they are a function). A fragment says nothing of what the program computes; that
its verdict is the filter's meaning is checked by TLC.

`LineProofs`:

| theorem | statement |
|---|---|
| `LineInductive` | `LineSpec => []LineInv` |
| `DatesAreRight` | `LineSpec => []DateOnCalendar`: the date printed is that of the time stamp |
| `LinesAreTruthful` | `LineSpec => []LineTruthful`: the hop limit is that of the packet's own IP header; without a tag, and in one piece, a packet has TCP details exactly if its TCP header and all of its datagram were captured, and they are that header's |
| `NothingPastTheEnd` | `LineSpec => []ReadsCaptured`: no index is past the end of the packet |

`LineSpec` prints one packet, any of `IsPacket`: any length, any lengths in its headers, right or
wrong, tagged or not, a fragment or not, any time stamp from 1970 on. What is asked of tagged
packets and fragments is in section 5. The proof of `LinesAreTruthful` has the places of the
headers (`Places`) and what `Sliced` says of a TCP packet (`SlicedWhole`), after which the lengths
the code checks are all implied. `FilterRun` takes the same steps, and `LineInv` has `IsPacket` in
it, so its run shows that the packets there are of this kind. `DateOnCalendar` compares the date
with `DayNumber`, which counts days in years that begin in March and knows nothing of months'
lengths. `Counting` is the loops' invariant: the days left lead from the first day of the month
reached to the day of the time stamp (`YearAdds` and `MonthAdds` are one turn each), and end
within the year once it is found, which is why the second loop never runs out of months. TLC's
integers end in 2038, the theorem's do not.

`InductionLemmas` has what the library states with operator parameters, which the provers
cannot instantiate, in the form of sets: a set with 0 and with each number the next one holds
all (`SetInduction`), a set of numbers has a least one (`LeastElement`), and a function defined
by recursion over the numbers exists and satisfies its definition (`RecursionExists`).

**Only model-checked.** Liveness (`EventuallyDelivered`, `EventuallyThawed`, `ImplementsFairQueue`,
`Terminates`, `CountReached`), which the prover does not reach. `ReadAsWritten`: parser and
grammar recurse over texts, with RECURSIVE operators. `VerdictCorrect`: what a whole program
computes on every packet is an induction along the program for every shape of tree at once.
The findings' runs are counterexamples.

That a program has at most 4096 instructions is neither checked nor proved, for it is not so. A
chain of `or` alone panics in `resolve()` long before; but where `and` and `or` alternate, as in
`(((a and b) or c) and d) or e` and so on, every jump leads to the next term but one at most, and
the program may grow past 4096. The kernel then refuses it, and opening fails; of one with 65536
or more `len as u16` (`afpacket/lib.rs:163`) would hand over a part.

## 5. What is not modelled, and known deviations no run checks

Not modelled:

* The layout of a line, `-x`/`-X` dumps and terminal width (`cli/main.rs:547-784`): pure
  formatting. In a dump the characters of a last row of half a row or more stand too far right:
  `format_hex_ascii` pads three columns too many, or one. The pcap file format, hence `orig_len`
  (taken from the captured data, `afpacket/lib.rs:415`) and the unit of a file's time stamps.
* `statistics()`: one `getsockopt` copying two of the kernel's counters.
* Fragments in filters: for any but the first one a port filter reads payload, where libpcap looks
  at the fragment offset (`compiler.rs:213-239`). The lines printed of them are modelled, see below.
* A prefix of 0: the shift count equals the width (`filter/lib.rs:472`), a panic with
  overflow checks, otherwise an all-ones mask, so `net 0.0.0.0/0` matches one host.
  `PrefixMask` models the wrap; no run has such a filter.
* A direction in front of `ether`, of a protocol or of `len`, which is accepted and
  dropped (`filter/lib.rs:231-242`): no text of a run has one.
* The characters of a token: that `tcpport80` reads as `tcp port 80`, for instance.

Modelled, and allowed by the properties because the code promises nothing else:

* Juxtaposition is an `and`, so `not tcp port 80` reads as `(not tcp) and port 80`, and `greater`
  and `less` are strict, unlike libpcap's. Both are what `filter.pest` and `FilterAst` say.
* `-r X -w X` empties its input and reports no packets; the output file is emptied before
  the source is opened, also when that fails (`Truncate`, `OpenFails`).
* With `-r`, the reference of `-ttttt` is set for every packet and the difference is always
  0 (`cli/main.rs:261`). `FirstTs` models it; `LinesConsistent` speaks of live captures.
* A time difference between -1 s and 0 is printed without its sign (`cli/main.rs:396`);
  `Tells` asks for the sign from one second on.
* `-Q` is ignored with `-r`, and for any word but `in` and `out`.
* The TCP details of a packet with a VLAN tag are read at byte 54 whatever the packet in it is
  (`cli/main.rs:506-512`): four bytes before its TCP header over IPv6, 16 bytes behind its
  beginning over IPv4 without options. `LineTruthful` says nothing of them; `ReadsCaptured` does,
  that they were captured.
* Of a fragment of a TCP datagram `parse_packet()` returns the protocol and no ports, and
  `cli/main.rs:505` prints flags, numbers and window from what follows the IP header: right for
  the first fragment, payload for the others. `Details` has it so, and `LineTruthful` excludes
  fragments.
* A packet of which one byte of the datagram was not captured is printed without addresses
  (`NoInfo`), although its headers are there; so are packets with a header etherparse refuses.
* A filter attached to an open socket leaves `kernel_filter_attached` as it was: up, if the socket
  was opened with another one, although packets are judged by the new one from then on. `main.rs`
  attaches none.
* A request for a ring that was cut to 32 bits may be one the kernel accepts; then `mmap()` fails
  and opening with it.
* An interface that vanishes while the interfaces are listed gets index 0 and sorts first;
  if it is chosen opening fails. `DefaultIsLowest` compares those that stayed.
* `IFF_PROMISC` is set on the interface and never cleared; a change of the flags by
  somebody else between the read and the write is undone.
* ALU and compare instructions with operand X use k (`vm.rs:65`); the compiler emits none.
* `docs/architecture.md` gives another order of opening than the code, the filter last.
  That order leaks: it is the slip `DocumentedOrder`, which breaks `OpenInv` and `Settled`.

Beyond the model: `poll`'s `POLLERR` is not looked at, so an interface that goes down makes the
reader spin.

## 6. Plan

Done, in the order of importance: the ring with its abstract specification, its proofs
and its bytes; the machine and the compiler; the parser and its grammar; opening, with the
choice of the interface; `run()` from its command line on; the details of a line. The
safety invariants of the ring, its memory, opening, the choice of the interface, `run()`, the
machine, the assembler, the compiler's calls and the lines are proved, and so is what remains
true of the ring on a weakly ordered machine. What is left:

1. Predicates of the compiler one by one, as straight-line programs of the machine: that the
   verdict of each is the predicate's meaning, from which `VerdictCorrect` would follow by the
   induction `AllInOrder` makes.
2. Early loads of frames, beside those of the count, in `WeakPacketRing`.
