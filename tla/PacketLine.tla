------------------------------ MODULE PacketLine ------------------------------
(* The line print_packet() writes for a packet with -e, -v and -tttt: the date *)
(* of its time stamp, which epoch_days_to_date() counts off year by year and   *)
(* month by month, what parse_packet() finds in the packet, and the details    *)
(* read from its bytes.  Kept of a detail is the offset it is read at; the     *)
(* text is left out.                                                           *)
(*                                                                             *)
(* A packet with an 802.1Q tag has the ethertype 0x8100, and `inner` is that   *)
(* of the packet in it; without a tag the two are the same.                    *)
EXTENDS Integers, Protocols

VARIABLES pkt,       \* the packet: length, header fields, time stamp in seconds
          line,      \* what is printed of it
          printing,  \* "no", "years", "months", "done" or "panic"
          date,      \* the first day of the year or month reached
          days_left  \* days from there to the day of the time stamp

lineVars == <<pkt, line, printing, date, days_left>>

--------------------------------------------------------------------------------
(* What etherparse finds.  It is strict: a packet with a header that is not    *)
(* well formed, or of whose IP datagram a byte was not captured, is an error,  *)
(* and then nothing is found at all.                                           *)

IsIp(type) == type \in {ETHERTYPE.ip, ETHERTYPE.ip6}

(* `total` is the length of the datagram by its own header; IPv6 writes the    *)
(* length behind that header, and 0 there stands for all that was captured.    *)
(* Extension headers (`ext` bytes) lie between it and the `upper` protocol.    *)
IpStart(p) == IF p.ethertype = p.inner THEN 14 ELSE 18
HeaderEnd(p) == IpStart(p) + (IF p.inner = ETHERTYPE.ip THEN 4 * p.ihl ELSE 40)
TransportStart(p) == HeaderEnd(p) + p.ext
DatagramEnd(p) ==
  IF p.inner = ETHERTYPE.ip6 /\ p.total = 40 THEN p.len ELSE IpStart(p) + p.total

(* `tsize` is the length of the TCP header or of the UDP datagram, by their    *)
(* own words.  A fragment is not looked into.                                  *)
TransportSliced(p) ==
  LET room == DatagramEnd(p) - TransportStart(p)
  IN  \/ p.frag \/ p.upper \notin {IPPROTO.tcp, IPPROTO.udp, IPPROTO.icmp, IPPROTO.icmp6}
      \/ p.upper = IPPROTO.tcp /\ p.tsize \in 20 .. room
      \/ p.upper = IPPROTO.udp /\ room >= 8 /\ p.tsize \in {0} \cup 8 .. room
      \/ p.upper \in {IPPROTO.icmp, IPPROTO.icmp6} /\ room >= 8

(* `valid`: what else it checks, such as versions and extension headers.       *)
Sliced(p) ==
  /\ IsIp(p.inner) /\ p.valid
  /\ p.inner = ETHERTYPE.ip => p.ihl >= 5
  /\ TransportStart(p) <= DatagramEnd(p) /\ DatagramEnd(p) <= p.len
  /\ TransportSliced(p)

NoInfo == [protocol |-> 0]

(* The protocol is the one the IP header names, the ports are those found.     *)
ParsePacket(p) ==
  IF ~Sliced(p) THEN NoInfo
  ELSE [ethertype |-> p.ethertype, protocol |-> p.proto, src_ip |-> p.src, dst_ip |-> p.dst,
        ports |-> IF ~p.frag /\ p.upper \in {IPPROTO.tcp, IPPROTO.udp}
                  THEN <<p.sport, p.dport>> ELSE <<>>]

--------------------------------------------------------------------------------
(* Details, by their offset; 0 for none.                                       *)

TtlAt(p, info) ==
  IF info.ethertype = ETHERTYPE.ip /\ p.len >= 14 + 20 /\ p.len >= 14 + 4 * p.ihl THEN 14 + 8
  ELSE IF info.ethertype = ETHERTYPE.ip6 /\ p.len >= 14 + 40 THEN 14 + 7
  ELSE 0

(* A slip: all IPv4 headers are taken to be 20 bytes long.                     *)
IpHeaderLenFixed(p, info) == IF info.ethertype = ETHERTYPE.ip THEN 20 ELSE 40

IpHeaderLen(p, info) == IF info.ethertype = ETHERTYPE.ip THEN 4 * p.ihl ELSE 40

(* A slip: the details are read without looking at the length.                 *)
TcpAtUnchecked(p, info) ==
  IF info.protocol = IPPROTO.tcp THEN 14 + IpHeaderLen(p, info) ELSE 0

TcpAt(p, info) ==
  LET tcp_start == 14 + IpHeaderLen(p, info)
  IN  IF info.protocol = IPPROTO.tcp /\ p.len >= 14 + 20 /\ p.len >= tcp_start + 20
      THEN tcp_start ELSE 0

Details(p) ==
  LET info == ParsePacket(p)
  IN  IF info = NoInfo THEN [info |-> info, ttl |-> 0, tcp |-> 0]
      ELSE [info |-> info, ttl |-> TtlAt(p, info), tcp |-> TcpAt(p, info)]

(* The bytes the line is read from: the Ethernet header, the IPv4 id and       *)
(* fragment offset, the time to live, and numbers, flags and window of TCP.    *)
Reads(p) ==
  LET details == Details(p)
  IN  (IF p.len >= 14 THEN 0 .. 13 ELSE {})
        \cup (IF details.ttl = 0 THEN {} ELSE {14, details.ttl} \cup 18 .. 21)
        \cup (IF details.tcp = 0 THEN {} ELSE {14} \cup details.tcp + 4 .. details.tcp + 15)

--------------------------------------------------------------------------------
(* The calendar.                                                               *)

(* A slip: years divisible by 400 are forgotten.                               *)
IsLeapNever400(year) == (year % 4) = 0 /\ (year % 100) # 0

IsLeap(year) == ((year % 4) = 0 /\ (year % 100) # 0) \/ (year % 400) = 0

YearLength(year) == IF IsLeap(year) THEN 366 ELSE 365

(* A slip: February never has 29 days.                                         *)
MonthLengthCommon(year, month) ==
  IF month = 2 THEN 28 ELSE IF month \in {4, 6, 9, 11} THEN 30 ELSE 31

MonthLength(year, month) ==
  IF month = 2 THEN IF IsLeap(year) THEN 29 ELSE 28
  ELSE IF month \in {4, 6, 9, 11} THEN 30 ELSE 31

TimeOfDay(secs) ==
  LET rem == secs % 86400
  IN  [h |-> rem \div 3600, m |-> (rem \div 60) % 60, s |-> rem % 60]

--------------------------------------------------------------------------------
(* Steps of print_packet().                                                    *)

StartOf(year, month) == [year |-> year, month |-> month, day |-> 1]

Unprinted ==
  /\ line = <<>>
  /\ printing = "no"
  /\ date = StartOf(1970, 1)
  /\ days_left = 0

StartLine ==
  /\ printing = "no"
  /\ printing' = "years"
  /\ days_left' = pkt.ts \div 86400
  /\ UNCHANGED <<pkt, line, date>>

NextYear ==
  /\ printing = "years"
  /\ days_left >= YearLength(date.year)
  /\ days_left' = days_left - YearLength(date.year)
  /\ date' = StartOf(date.year + 1, 1)
  /\ UNCHANGED <<pkt, line, printing>>

YearFound ==
  /\ printing = "years"
  /\ days_left < YearLength(date.year)
  /\ printing' = "months"
  /\ UNCHANGED <<pkt, line, date, days_left>>

NextMonth ==
  /\ printing = "months"
  /\ date.month <= 12
  /\ days_left >= MonthLength(date.year, date.month)
  /\ days_left' = days_left - MonthLength(date.year, date.month)
  /\ date' = StartOf(date.year, date.month + 1)
  /\ UNCHANGED <<pkt, line, printing>>

(* With the day, the rest of the line; an index past the end of the packet     *)
(* ends the process.                                                           *)
FinishLine ==
  /\ printing = "months"
  /\ date.month > 12 \/ days_left < MonthLength(date.year, date.month)
  /\ line' = [date |-> [date EXCEPT !.day = days_left + 1], time |-> TimeOfDay(pkt.ts),
              details |-> Details(pkt)]
  /\ printing' = IF \E i \in Reads(pkt) : i >= pkt.len THEN "panic" ELSE "done"
  /\ UNCHANGED <<pkt, date, days_left>>

PrintStep == NextYear \/ YearFound \/ NextMonth \/ FinishLine

(* What a packet handed to print_packet() may be.                              *)
IsPacket(p) ==
  /\ p.len \in Nat
  /\ p.ts \in Nat
  /\ p.ihl \in 0 .. 15
  /\ p.ethertype = p.inner \/ ~IsIp(p.ethertype)
  /\ p.total \in Nat /\ p.ext \in Nat /\ p.tsize \in Nat
  /\ p.frag \in BOOLEAN /\ p.valid \in BOOLEAN
  /\ IF p.ext = 0 THEN p.upper = p.proto /\ (p.frag => p.inner # ETHERTYPE.ip6)
     ELSE p.proto \notin {IPPROTO.tcp, IPPROTO.udp}

LineSpec == (IsPacket(pkt) /\ Unprinted) /\ [][StartLine \/ PrintStep]_lineVars

--------------------------------------------------------------------------------
Holds(p, off, size) == off + size <= p.len

(* No byte past the end of a packet is read for its line, cut short, tagged or *)
(* with a long header as it may be.                                            *)
ReadsCaptured == printing # "panic"

(* A TCP header, whole in an IP datagram that is whole in what was captured.   *)
TcpWhole(p) ==
  /\ IsIp(p.inner) /\ p.valid /\ p.proto = IPPROTO.tcp
  /\ p.inner = ETHERTYPE.ip => p.ihl >= 5
  /\ p.tsize >= 20
  /\ HeaderEnd(p) + p.tsize <= DatagramEnd(p)
  /\ DatagramEnd(p) <= p.len

(* A line shows the hop limit of the packet's own IP header, and of a packet   *)
(* that is neither tagged nor a fragment it shows sequence numbers, flags and  *)
(* window exactly if a TCP header was captured whole with all of its datagram, *)
(* and then that header's, never padding or payload.  Of tagged packets and of *)
(* fragments nothing is said: print_packet() counts from byte 14 whatever the  *)
(* tag, and takes what follows the IP header of any fragment for a TCP header. *)
LineTruthful ==
  printing = "done" =>
    LET ttl == line.details.ttl
        tcp == line.details.tcp
    IN  /\ ttl # 0 => /\ ttl = IpStart(pkt) + (IF pkt.inner = ETHERTYPE.ip THEN 8 ELSE 7)
                      /\ ttl < DatagramEnd(pkt) /\ Holds(pkt, ttl, 1)
        /\ pkt.ethertype = pkt.inner /\ ~pkt.frag =>
             /\ tcp = IF TcpWhole(pkt) THEN HeaderEnd(pkt) ELSE 0
             /\ tcp # 0 => ttl # 0

(* The day a date names, counted from 1970 over a calendar in which the year   *)
(* begins in March and the leap day comes last.                                *)
Epoch == 719469
DayNumber(d) ==
  LET y == IF d.month > 2 THEN d.year ELSE d.year - 1
      m == (d.month + 9) % 12
  IN  365 * y + y \div 4 - y \div 100 + y \div 400 + (153 * m + 2) \div 5 + d.day - Epoch

FollowingMonth(d) ==
  IF d.month = 12 THEN StartOf(d.year + 1, 1) ELSE StartOf(d.year, d.month + 1)

(* The date and time of day printed are those of the packet's time stamp:      *)
(* there is such a day, also around leap days, and no two stamps look alike.   *)
DateOnCalendar ==
  printing = "done" =>
    LET d == line.date
        t == line.time
    IN  /\ d.month \in 1 .. 12 /\ d.day >= 1 /\ DayNumber(d) < DayNumber(FollowingMonth(d))
        /\ DayNumber(d) * 86400 + t.h * 3600 + t.m * 60 + t.s = pkt.ts
        /\ t.h < 24 /\ t.m < 60 /\ t.s < 60

(* The inductive invariant behind the dates: the days left are those from the  *)
(* day reached to the one of the time stamp, and once the year is known they   *)
(* end before the next one begins.                                             *)
Counting ==
  /\ days_left \in Nat
  /\ date \in [year : Nat, month : 1 .. 12, day : {1}]
  /\ date.year >= 1970
  /\ DayNumber(date) + days_left = pkt.ts \div 86400
  /\ printing = "years" => date.month = 1
  /\ printing = "months" => DayNumber(date) + days_left < DayNumber(StartOf(date.year + 1, 1))

LineInv ==
  /\ printing \in {"no", "years", "months", "done", "panic"}
  /\ printing = "no" => date = StartOf(1970, 1)
  /\ printing # "no" => IsPacket(pkt)
  /\ printing \in {"years", "months"} => Counting
================================================================================
