------------------------------ MODULE LineProofs ------------------------------
(* Proofs about PacketLine: for every packet, however cut off, and every time  *)
(* stamp, also those far beyond what a model checker can count to.             *)
EXTENDS PacketLine, TLAPS

--------------------------------------------------------------------------------
(* The calendar.                                                               *)

LeapDays(y) == y \div 4 - y \div 100 + y \div 400

(* A leap year has one day more, and no other year has.                        *)
LEMMA LeapDay ==
  ASSUME NEW y \in Nat, y >= 1
  PROVE  LeapDays(y) = LeapDays(y - 1) + (IF IsLeap(y) THEN 1 ELSE 0)
<1> DEFINE step(n) == y \div n = (y - 1) \div n + (IF (y % n) = 0 THEN 1 ELSE 0)
<1>1. step(4) /\ step(100) /\ step(400)
  OBVIOUS
<1>2. ((y % 100) = 0 => (y % 4) = 0) /\ ((y % 400) = 0 => (y % 100) = 0)
  OBVIOUS
<1>3. /\ y \div 4 \in Int /\ y \div 100 \in Int /\ y \div 400 \in Int
      /\ (y - 1) \div 4 \in Int /\ (y - 1) \div 100 \in Int /\ (y - 1) \div 400 \in Int
  OBVIOUS
<1> QED
  BY <1>1, <1>2, <1>3 DEF LeapDays, IsLeap

(* The day before a month's first, counted from the last one of February.      *)
Before(month) == <<306, 337, 0, 31, 61, 92, 122, 153, 184, 214, 245, 275>>[month]

LEMMA MonthStart ==
  ASSUME NEW month \in 1 .. 12
  PROVE  Before(month) = (153 * ((month + 9) % 12) + 2) \div 5
<1>1. \/ month = 1 \/ month = 2 \/ month = 3 \/ month = 4 \/ month = 5 \/ month = 6
      \/ month = 7 \/ month = 8 \/ month = 9 \/ month = 10 \/ month = 11 \/ month = 12
  OBVIOUS
<1> QED
  BY <1>1 DEF Before

LEMMA EpochType == Epoch \in Nat
  BY SMT DEF Epoch

(* The days before a month, in a calendar whose years begin with March.        *)
DaysBefore(year, month) ==
  IF month > 2 THEN 365 * year + LeapDays(year) + Before(month)
  ELSE 365 * (year - 1) + LeapDays(year - 1) + Before(month)

LEMMA NumberOf ==
  ASSUME NEW y \in Nat, y >= 1, NEW m \in 1 .. 12, NEW k \in Nat
  PROVE  DayNumber([year |-> y, month |-> m, day |-> k + 1]) = DaysBefore(y, m) + k + 1 - Epoch
<1> DEFINE d == [year |-> y, month |-> m, day |-> k + 1]
           n == IF m > 2 THEN y ELSE y - 1
<1>1. DayNumber(d) = 365 * n + n \div 4 - n \div 100 + n \div 400
                       + (153 * ((m + 9) % 12) + 2) \div 5 + (k + 1) - Epoch
  BY DEF DayNumber
<1>2. Before(m) = (153 * ((m + 9) % 12) + 2) \div 5 /\ Before(m) \in Int
  BY MonthStart
<1>3. n \in Nat
  OBVIOUS
<1> HIDE DEF n
<1>4. n \div 4 \in Int /\ n \div 100 \in Int /\ n \div 400 \in Int
  BY <1>3
<1>5. DayNumber(d) = 365 * n + LeapDays(n) + Before(m) + k + 1 - Epoch
  BY EpochType, <1>1, <1>2, <1>3, <1>4 DEF LeapDays
<1>6. DaysBefore(y, m) = 365 * n + LeapDays(n) + Before(m)
  BY DEF DaysBefore, n
<1> QED
  BY <1>5, <1>6

LEMMA FirstOf ==
  ASSUME NEW y \in Nat, y >= 1, NEW m \in 1 .. 12
  PROVE  /\ DayNumber(StartOf(y, m)) = DaysBefore(y, m) + 1 - Epoch
         /\ DaysBefore(y, m) \in Int
<1>1. StartOf(y, m) = [year |-> y, month |-> m, day |-> 0 + 1]
  BY DEF StartOf
<1>2. DaysBefore(y, m) \in Int
  <2>1. LeapDays(y) \in Int /\ LeapDays(y - 1) \in Int /\ Before(m) \in Int
    BY DEF LeapDays, Before
  <2> QED
    BY <2>1 DEF DaysBefore
<1>3. DayNumber([year |-> y, month |-> m, day |-> 0 + 1]) = DaysBefore(y, m) + 0 + 1 - Epoch
  <2>1. 0 \in Nat
    OBVIOUS
  <2> QED
    BY <2>1, NumberOf
<1> QED
  BY EpochType, <1>1, <1>2, <1>3

(* From the first day of a year to that of the next, and from month to month.  *)
LEMMA JanuaryAfter ==
  ASSUME NEW y \in Nat
  PROVE  DayNumber(StartOf(y + 1, 1)) = 365 * y + LeapDays(y) + 306 + 1 - Epoch
<1>1. y + 1 \in Nat /\ y + 1 >= 1 /\ y + 1 - 1 = y
  OBVIOUS
<1>2. DayNumber(StartOf(y + 1, 1)) = DaysBefore(y + 1, 1) + 1 - Epoch
  BY <1>1, FirstOf
<1>3. DaysBefore(y + 1, 1) = 365 * y + LeapDays(y) + 306
  BY <1>1 DEF DaysBefore, Before
<1> QED
  BY <1>2, <1>3

LEMMA YearAdds ==
  ASSUME NEW y \in Nat, y >= 1
  PROVE  /\ DayNumber(StartOf(y, 1)) \in Int
         /\ DayNumber(StartOf(y + 1, 1)) = DayNumber(StartOf(y, 1)) + YearLength(y)
<1>1. LeapDays(y) \in Int /\ LeapDays(y - 1) \in Int
  BY DEF LeapDays
<1>2. DayNumber(StartOf(y, 1)) = 365 * (y - 1) + LeapDays(y - 1) + 306 + 1 - Epoch
  BY FirstOf DEF DaysBefore, Before
<1>3. DayNumber(StartOf(y + 1, 1)) = 365 * y + LeapDays(y) + 306 + 1 - Epoch
  BY JanuaryAfter
<1> QED
  BY EpochType, <1>1, <1>2, <1>3, LeapDay DEF YearLength

LEMMA MonthAdds ==
  ASSUME NEW y \in Nat, y >= 1, NEW m \in 1 .. 12
  PROVE  /\ DayNumber(StartOf(y, m)) \in Int
         /\ DayNumber(FollowingMonth(StartOf(y, m))) = DayNumber(StartOf(y, m)) + MonthLength(y, m)
<1>1. LeapDays(y) \in Int /\ LeapDays(y - 1) \in Int
  BY DEF LeapDays
<1>2. DayNumber(StartOf(y, m)) = DaysBefore(y, m) + 1 - Epoch /\ DaysBefore(y, m) \in Int
  BY FirstOf
<1>3. m < 12 => DayNumber(StartOf(y, m + 1)) = DaysBefore(y, m + 1) + 1 - Epoch
  <2> SUFFICES ASSUME m < 12
               PROVE  DayNumber(StartOf(y, m + 1)) = DaysBefore(y, m + 1) + 1 - Epoch
    OBVIOUS
  <2>1. m + 1 \in 1 .. 12
    OBVIOUS
  <2> QED
    BY <2>1, FirstOf
<1>4. DayNumber(StartOf(y + 1, 1)) = 365 * y + LeapDays(y) + 306 + 1 - Epoch
  BY JanuaryAfter
<1>5. FollowingMonth(StartOf(y, m)) = IF m = 12 THEN StartOf(y + 1, 1) ELSE StartOf(y, m + 1)
  BY DEF FollowingMonth, StartOf
<1>6. LeapDays(y) = LeapDays(y - 1) + (IF IsLeap(y) THEN 1 ELSE 0)
  BY LeapDay
<1>7. \/ m = 1 \/ m = 2 \/ m = 3 \/ m = 4 \/ m = 5 \/ m = 6
      \/ m = 7 \/ m = 8 \/ m = 9 \/ m = 10 \/ m = 11 \/ m = 12
  OBVIOUS
<1>8. DayNumber(StartOf(y, m)) \in Int
  BY EpochType, <1>2
<1>9. CASE m = 12
  BY EpochType, <1>1, <1>2, <1>4, <1>5, <1>9 DEF DaysBefore, Before, MonthLength
<1>10. CASE m = 2
  BY EpochType, <1>1, <1>2, <1>3, <1>5, <1>6, <1>10 DEF DaysBefore, Before, MonthLength
<1>11. CASE m # 2 /\ m # 12
  <2>1. DaysBefore(y, m + 1) = DaysBefore(y, m) + MonthLength(y, m)
    BY <1>1, <1>7, <1>11 DEF DaysBefore, Before, MonthLength
  <2>2. MonthLength(y, m) \in Int
    BY <1>7 DEF MonthLength
  <2> QED
    BY EpochType, <1>2, <1>3, <1>5, <1>11, <2>1, <2>2
<1> QED
  BY <1>8, <1>9, <1>10, <1>11


LEMMA EpochBegins == DayNumber(StartOf(1970, 1)) = 0
<1>1. DayNumber(StartOf(1970, 1)) = 365 * 1969 + LeapDays(1969) + 306 + 1 - Epoch
  <2>1. 1969 \in Nat /\ 1969 + 1 = 1970
    OBVIOUS
  <2> QED
    BY <2>1, JanuaryAfter
<1>2. LeapDays(1969) = 477
  BY DEF LeapDays
<1> QED
  BY SMT, <1>1, <1>2 DEF Epoch

(* A day of a month comes as many days after the first as its number says.     *)
LEMMA DayAdds ==
  ASSUME NEW y \in Nat, y >= 1, NEW m \in 1 .. 12, NEW k \in Nat
  PROVE  DayNumber([year |-> y, month |-> m, day |-> k + 1]) = DayNumber(StartOf(y, m)) + k
<1>1. DayNumber([year |-> y, month |-> m, day |-> k + 1]) = DaysBefore(y, m) + k + 1 - Epoch
  BY NumberOf
<1>2. DayNumber(StartOf(y, m)) = DaysBefore(y, m) + 1 - Epoch /\ DaysBefore(y, m) \in Int
  BY FirstOf
<1> QED
  BY EpochType, <1>1, <1>2

(* The time of day and the day make up the time stamp.                         *)
LEMMA TimeAdds ==
  ASSUME NEW secs \in Nat
  PROVE  LET t == TimeOfDay(secs)
         IN  /\ (secs \div 86400) * 86400 + t.h * 3600 + t.m * 60 + t.s = secs
             /\ t.h < 24 /\ t.m < 60 /\ t.s < 60
<1> DEFINE rem == secs % 86400
<1>1. rem \in Nat /\ rem < 86400 /\ (secs \div 86400) * 86400 + rem = secs
  BY SMT
<1>2. TimeOfDay(secs) = [h |-> rem \div 3600, m |-> (rem \div 60) % 60, s |-> rem % 60]
  BY DEF TimeOfDay
<1> HIDE DEF rem
<1>3. rem \div 3600 < 24 /\ (rem \div 60) % 60 < 60 /\ rem % 60 < 60
  BY SMT, <1>1
<1>4. (rem \div 3600) * 3600 + ((rem \div 60) % 60) * 60 + (rem % 60) = rem
  BY SMT, <1>1
<1>5. /\ rem \div 3600 \in Int /\ (rem \div 60) % 60 \in Int /\ rem % 60 \in Int
      /\ (secs \div 86400) * 86400 \in Int
  BY SMT, <1>1
<1> QED
  BY SMT, <1>1, <1>2, <1>3, <1>4, <1>5

--------------------------------------------------------------------------------
(* Counting off the days.                                                      *)

(* The date reached is the first of a month.                                   *)
LEMMA DateIs ==
  ASSUME Counting
  PROVE  /\ date.year \in Nat /\ date.year >= 1970 /\ date.year >= 1
         /\ date.month \in 1 .. 12
         /\ date = StartOf(date.year, date.month)
         /\ days_left \in Nat
         /\ DayNumber(date) \in Int
<1>1. /\ date.year \in Nat /\ date.year >= 1970 /\ date.month \in 1 .. 12
      /\ date = StartOf(date.year, date.month) /\ days_left \in Nat
  BY DEF Counting, StartOf
<1>2. DayNumber(StartOf(date.year, date.month)) \in Int
  BY <1>1, MonthAdds
<1> QED
  BY <1>1, <1>2

LEMMA StartKeeps == LineInv /\ IsPacket(pkt) /\ StartLine => LineInv'
<1> SUFFICES ASSUME LineInv, IsPacket(pkt), StartLine PROVE LineInv'
  OBVIOUS
<1>1. printing' = "years" /\ pkt' = pkt /\ date' = StartOf(1970, 1) /\ days_left' = pkt.ts \div 86400
  BY DEF StartLine, LineInv
<1>2. days_left' \in Nat
  BY SMT, <1>1 DEF IsPacket
<1>3. DayNumber(date') = 0
  BY <1>1, EpochBegins
<1>4. date' \in [year : Nat, month : 1 .. 12, day : {1}] /\ date'.year >= 1970 /\ date'.month = 1
  BY <1>1 DEF StartOf
<1>5. Counting'
  BY SMT, <1>1, <1>2, <1>3, <1>4 DEF Counting
<1> QED
  BY <1>1, <1>5 DEF LineInv

LEMMA NextYearKeeps == LineInv /\ NextYear => LineInv'
<1> SUFFICES ASSUME LineInv, NextYear PROVE LineInv'
  OBVIOUS
<1> DEFINE y == date.year
           k == YearLength(y)
<1>1. Counting /\ printing = "years" /\ printing' = printing /\ pkt' = pkt
      /\ days_left >= k /\ days_left' = days_left - k /\ date' = StartOf(y + 1, 1)
  BY DEF LineInv, NextYear
<1>2. y \in Nat /\ y >= 1970 /\ y >= 1 /\ days_left \in Nat /\ date.month = 1 /\ date = StartOf(y, 1)
      /\ DayNumber(date) \in Int
  BY <1>1, DateIs DEF Counting
<1>3. k \in Nat
  BY DEF YearLength
<1>4. DayNumber(StartOf(y + 1, 1)) = DayNumber(StartOf(y, 1)) + k
  BY <1>2, YearAdds
<1>5. DayNumber(date) + days_left = pkt.ts \div 86400
  BY <1>1 DEF Counting
<1> HIDE DEF k
<1>6. days_left' \in Nat /\ DayNumber(date') = DayNumber(date) + k
  BY <1>1, <1>2, <1>3, <1>4
<1>7. DayNumber(date') + days_left' = pkt'.ts \div 86400
  <2>1. DayNumber(date') + days_left' = DayNumber(date) + days_left
    BY <1>1, <1>2, <1>3, <1>6
  <2> QED
    BY <1>1, <1>5, <2>1
<1>8. date' \in [year : Nat, month : 1 .. 12, day : {1}] /\ date'.year >= 1970 /\ date'.month = 1
  BY <1>1, <1>2 DEF StartOf
<1>9. Counting'
  BY <1>1, <1>6, <1>7, <1>8 DEF Counting
<1> QED
  BY <1>1, <1>9 DEF LineInv

LEMMA YearFoundKeeps == LineInv /\ YearFound => LineInv'
<1> SUFFICES ASSUME LineInv, YearFound PROVE LineInv'
  OBVIOUS
<1> DEFINE y == date.year
<1>1. Counting /\ printing = "years" /\ printing' = "months"
      /\ pkt' = pkt /\ days_left < YearLength(y) /\ days_left' = days_left /\ date' = date
  BY DEF LineInv, YearFound
<1>2. y \in Nat /\ y >= 1 /\ days_left \in Nat /\ date = StartOf(y, 1) /\ DayNumber(date) \in Int
  BY <1>1, DateIs DEF Counting
<1>3. DayNumber(StartOf(y + 1, 1)) = DayNumber(date) + YearLength(y) /\ YearLength(y) \in Nat
  BY <1>2, YearAdds DEF YearLength
<1>4. DayNumber(date) + days_left < DayNumber(StartOf(y + 1, 1))
  BY <1>1, <1>2, <1>3
<1>5. Counting'
  BY <1>1, <1>4 DEF Counting
<1> QED
  BY <1>1, <1>5 DEF LineInv

(* In December the days left end before the year does, so the loop over the    *)
(* months never runs out of them.                                              *)
LEMMA NextMonthKeeps == LineInv /\ NextMonth => LineInv'
<1> SUFFICES ASSUME LineInv, NextMonth PROVE LineInv'
  OBVIOUS
<1> DEFINE y == date.year
           m == date.month
           k == MonthLength(y, m)
<1>1. Counting /\ printing = "months" /\ printing' = printing /\ pkt' = pkt
      /\ days_left >= k /\ days_left' = days_left - k /\ date' = StartOf(y, m + 1)
  BY DEF LineInv, NextMonth
<1>2. y \in Nat /\ y >= 1970 /\ y >= 1 /\ m \in 1 .. 12 /\ days_left \in Nat /\ date = StartOf(y, m)
      /\ DayNumber(date) \in Int
  BY <1>1, DateIs
<1>3. k \in Nat
  BY DEF MonthLength
<1>4. DayNumber(FollowingMonth(date)) = DayNumber(date) + k
  BY <1>2, MonthAdds
<1>5. DayNumber(date) + days_left = pkt.ts \div 86400
      /\ DayNumber(date) + days_left < DayNumber(StartOf(y + 1, 1))
  BY <1>1 DEF Counting
<1>6. FollowingMonth(date) = IF m = 12 THEN StartOf(y + 1, 1) ELSE StartOf(y, m + 1)
  BY DEF FollowingMonth
<1> HIDE DEF k
<1>7. m # 12
  BY <1>1, <1>2, <1>3, <1>4, <1>5, <1>6
<1>8. days_left' \in Nat /\ DayNumber(date') = DayNumber(date) + k
  BY <1>1, <1>2, <1>3, <1>4, <1>6, <1>7
<1>9. DayNumber(date') + days_left' = DayNumber(date) + days_left
  BY <1>1, <1>2, <1>3, <1>8
<1>10. date' \in [year : Nat, month : 1 .. 12, day : {1}] /\ date'.year = y
  BY <1>1, <1>2, <1>7 DEF StartOf
<1>11. Counting'
  BY <1>1, <1>2, <1>5, <1>8, <1>9, <1>10 DEF Counting
<1> QED
  BY <1>1, <1>11 DEF LineInv

LEMMA LineStep == LineInv /\ IsPacket(pkt) /\ [StartLine \/ PrintStep]_lineVars => LineInv'
<1> SUFFICES ASSUME LineInv, IsPacket(pkt), [StartLine \/ PrintStep]_lineVars PROVE LineInv'
  OBVIOUS
<1>1. CASE FinishLine
  BY <1>1 DEF FinishLine, LineInv
<1>2. CASE UNCHANGED lineVars
  BY <1>2 DEF lineVars, LineInv, Counting
<1> QED
  BY <1>1, <1>2, StartKeeps, NextYearKeeps, YearFoundKeeps, NextMonthKeeps DEF PrintStep


(* A line is finished within the year found, so also within the month.         *)
LEMMA DateFound ==
  ASSUME LineInv, IsPacket(pkt), FinishLine
  PROVE  /\ date.month \in 1 .. 12
         /\ DayNumber(line'.date) = pkt.ts \div 86400
         /\ line'.date.month = date.month /\ line'.date.day >= 1
         /\ DayNumber(line'.date) < DayNumber(FollowingMonth(line'.date))
         /\ line'.time = TimeOfDay(pkt.ts)
<1> DEFINE y == date.year
           m == date.month
           d == line'.date
<1>1. Counting
  BY DEF LineInv, FinishLine
<1>2. y \in Nat /\ y >= 1 /\ m \in 1 .. 12 /\ days_left \in Nat /\ date = StartOf(y, m)
  BY <1>1, DateIs
<1>3. days_left < MonthLength(y, m) /\ MonthLength(y, m) \in Nat
  BY <1>2 DEF FinishLine, MonthLength
<1>4. line' = [date |-> [date EXCEPT !.day = days_left + 1], time |-> TimeOfDay(pkt.ts),
               details |-> Details(pkt)]
  BY DEF FinishLine
<1>5. d = [year |-> y, month |-> m, day |-> days_left + 1] /\ line'.time = TimeOfDay(pkt.ts)
  BY <1>2, <1>4 DEF StartOf
<1>6. DayNumber(d) = DayNumber(date) + days_left
  BY <1>2, <1>5, DayAdds
<1>7. DayNumber(StartOf(y, m)) \in Int
      /\ DayNumber(FollowingMonth(StartOf(y, m))) = DayNumber(StartOf(y, m)) + MonthLength(y, m)
  BY <1>2, MonthAdds
<1>8. FollowingMonth(d) = FollowingMonth(date)
  BY <1>2, <1>5 DEF FollowingMonth, StartOf
<1>9. DayNumber(d) < DayNumber(FollowingMonth(d))
  BY <1>2, <1>3, <1>6, <1>7, <1>8
<1>10. DayNumber(date) + days_left = pkt.ts \div 86400
  BY <1>1 DEF Counting
<1>11. d.month = m /\ d.day >= 1
  BY <1>2, <1>5
<1> QED
  BY <1>2, <1>5, <1>6, <1>9, <1>10, <1>11

LEMMA DateFinished == LineInv /\ IsPacket(pkt) /\ FinishLine => DateOnCalendar'
<1> SUFFICES ASSUME LineInv, IsPacket(pkt), FinishLine PROVE DateOnCalendar'
  OBVIOUS
<1> DEFINE d == line'.date
           t == line'.time
<1>1. pkt' = pkt /\ pkt.ts \in Nat
  BY DEF FinishLine, IsPacket
<1>2. d.month \in 1 .. 12 /\ d.day >= 1 /\ DayNumber(d) < DayNumber(FollowingMonth(d))
  BY DateFound
<1>3. t = TimeOfDay(pkt.ts) /\ DayNumber(d) = pkt.ts \div 86400
  BY DateFound
<1>4. /\ (pkt.ts \div 86400) * 86400 + t.h * 3600 + t.m * 60 + t.s = pkt.ts
      /\ t.h < 24 /\ t.m < 60 /\ t.s < 60
  BY <1>1, <1>3, TimeAdds
<1>5. DayNumber(d) * 86400 + t.h * 3600 + t.m * 60 + t.s = pkt'.ts
  BY <1>1, <1>3, <1>4
<1> HIDE DEF d, t
<1> QED
  BY <1>2, <1>4, <1>5 DEF DateOnCalendar, d, t

--------------------------------------------------------------------------------
(* The details.                                                                *)

LEMMA Types ==
  /\ ETHERTYPE.ip \in Nat /\ ETHERTYPE.ip6 \in Nat /\ ETHERTYPE.ip # ETHERTYPE.ip6
  /\ IPPROTO.tcp \in Nat
  BY DEF ETHERTYPE, IPPROTO

(* A packet that shows details is one that etherparse takes.                   *)
LEMMA DetailsOf ==
  ASSUME NEW p, IsPacket(p)
  PROVE  LET info == ParsePacket(p)
         IN  /\ info # NoInfo => Sliced(p) /\ info.ethertype = p.ethertype /\ info.protocol = p.proto
             /\ info # NoInfo => /\ Details(p).ttl = TtlAt(p, info)
                                 /\ Details(p).tcp = TcpAt(p, info)
             /\ info = NoInfo => ~Sliced(p) /\ Details(p).ttl = 0 /\ Details(p).tcp = 0
<1> DEFINE info == ParsePacket(p)
           ports == IF ~p.frag /\ p.upper \in {IPPROTO.tcp, IPPROTO.udp}
                    THEN <<p.sport, p.dport>> ELSE <<>>
           found == [ethertype |-> p.ethertype, protocol |-> p.proto,
                     src_ip |-> p.src, dst_ip |-> p.dst, ports |-> ports]
<1>1. info = IF ~Sliced(p) THEN NoInfo ELSE found
  BY DEF ParsePacket
<1>2. found.ethertype = p.ethertype /\ found.protocol = p.proto
  OBVIOUS
<1>3. found # NoInfo
  <2>1. "ethertype" \in DOMAIN found /\ "ethertype" \notin DOMAIN NoInfo
    BY DEF NoInfo
  <2> QED
    BY <2>1
<1>4. Details(p) = IF info = NoInfo THEN [info |-> info, ttl |-> 0, tcp |-> 0]
                   ELSE [info |-> info, ttl |-> TtlAt(p, info), tcp |-> TcpAt(p, info)]
  BY DEF Details
<1> HIDE DEF found, info
<1>5. info # NoInfo => Details(p).ttl = TtlAt(p, info) /\ Details(p).tcp = TcpAt(p, info)
  BY <1>4
<1>6. info = NoInfo => Details(p).ttl = 0 /\ Details(p).tcp = 0
  BY <1>4
<1> QED
  BY <1>1, <1>2, <1>3, <1>5, <1>6 DEF info

(* Where the headers of a packet lie that etherparse takes.                    *)
LEMMA Places ==
  ASSUME NEW p, IsPacket(p)
  PROVE  /\ p.len \in Nat /\ p.ihl \in 0 .. 15
         /\ IpStart(p) \in {14, 18} /\ (p.ethertype = p.inner => IpStart(p) = 14)
         /\ HeaderEnd(p) \in Nat /\ DatagramEnd(p) \in Nat /\ TransportStart(p) \in Nat
         /\ HeaderEnd(p) = IpStart(p) + (IF p.inner = ETHERTYPE.ip THEN 4 * p.ihl ELSE 40)
         /\ TransportStart(p) = HeaderEnd(p) + p.ext
         /\ Sliced(p) => /\ HeaderEnd(p) <= DatagramEnd(p) /\ DatagramEnd(p) <= p.len
                         /\ p.inner = ETHERTYPE.ip => HeaderEnd(p) >= IpStart(p) + 20
<1>1. /\ p.len \in Nat /\ p.ihl \in 0 .. 15 /\ p.total \in Nat /\ p.ext \in Nat
  BY DEF IsPacket
<1>2. IpStart(p) \in {14, 18} /\ (p.ethertype = p.inner => IpStart(p) = 14)
  BY DEF IpStart
<1>3. /\ HeaderEnd(p) = IpStart(p) + (IF p.inner = ETHERTYPE.ip THEN 4 * p.ihl ELSE 40)
      /\ TransportStart(p) = HeaderEnd(p) + p.ext
  BY DEF HeaderEnd, TransportStart
<1>4. HeaderEnd(p) \in Nat /\ TransportStart(p) \in Nat
  BY <1>1, <1>2, <1>3
<1>5. DatagramEnd(p) \in Nat
  BY <1>1, <1>2 DEF DatagramEnd
<1>6. Sliced(p) => /\ TransportStart(p) <= DatagramEnd(p) /\ DatagramEnd(p) <= p.len
                   /\ p.inner = ETHERTYPE.ip => p.ihl >= 5
  BY DEF Sliced
<1>7. ASSUME Sliced(p)
      PROVE  /\ HeaderEnd(p) <= DatagramEnd(p)
             /\ p.inner = ETHERTYPE.ip => HeaderEnd(p) >= IpStart(p) + 20
  <2>1. HeaderEnd(p) <= DatagramEnd(p)
    BY <1>1, <1>3, <1>4, <1>5, <1>6, <1>7
  <2>2. p.inner = ETHERTYPE.ip => HeaderEnd(p) = IpStart(p) + 4 * p.ihl /\ p.ihl >= 5
    BY <1>3, <1>6, <1>7
  <2>3. p.inner = ETHERTYPE.ip => HeaderEnd(p) >= IpStart(p) + 20
    BY <1>1, <1>2, <2>2
  <2> QED
    BY <2>1, <2>3
<1> QED
  BY <1>1, <1>2, <1>3, <1>4, <1>5, <1>6, <1>7

LEMMA TtlIs ==
  ASSUME NEW p, IsPacket(p), Details(p).ttl # 0
  PROVE  /\ p.ethertype = p.inner
         /\ p.inner = ETHERTYPE.ip => Details(p).ttl = 22 /\ p.len >= 34
         /\ p.inner # ETHERTYPE.ip => Details(p).ttl = 21 /\ p.len >= 54
         /\ Details(p).ttl < DatagramEnd(p)
<1> DEFINE info == ParsePacket(p)
<1>1. info # NoInfo /\ Sliced(p)
  BY DetailsOf
<1>2. Details(p).ttl = TtlAt(p, info) /\ info.ethertype = p.ethertype
  BY <1>1, DetailsOf
<1>3. IsIp(p.ethertype)
  BY <1>2 DEF TtlAt, IsIp
<1>4. p.ethertype = p.inner
  BY <1>3 DEF IsPacket
<1>5. p.len \in Nat /\ p.ihl \in 0 .. 15
  BY DEF IsPacket
<1>6. /\ p.inner = ETHERTYPE.ip => Details(p).ttl = 22 /\ p.len >= 34
      /\ p.inner # ETHERTYPE.ip => Details(p).ttl = 21 /\ p.len >= 54
  BY <1>2, <1>3, <1>4, <1>5, Types DEF TtlAt, IsIp
<1>7. DatagramEnd(p) \in Nat /\ DatagramEnd(p) >= 34
  BY <1>1, <1>4, <1>5, Places
<1> QED
  BY <1>4, <1>6, <1>7

LEMMA TcpIs ==
  ASSUME NEW p, IsPacket(p), Details(p).tcp # 0
  PROVE  /\ Sliced(p) /\ p.proto = IPPROTO.tcp
         /\ Details(p).tcp \in Nat
         /\ p.len >= 34 /\ p.len >= Details(p).tcp + 20
         /\ p.ethertype = p.inner => Details(p).tcp = HeaderEnd(p)
<1> DEFINE info == ParsePacket(p)
           start == 14 + IpHeaderLen(p, info)
<1>1. info # NoInfo /\ Sliced(p)
  BY DetailsOf
<1>2. Details(p).tcp = TcpAt(p, info) /\ info.ethertype = p.ethertype /\ info.protocol = p.proto
  BY <1>1, DetailsOf
<1>3. p.len \in Nat /\ p.ihl \in 0 .. 15
  BY DEF IsPacket
<1>4. start \in Nat
  BY <1>3 DEF IpHeaderLen
<1>5. Details(p).tcp = start /\ p.proto = IPPROTO.tcp /\ p.len >= 34 /\ p.len >= start + 20
  BY <1>2, <1>3, <1>4 DEF TcpAt
<1>6. p.ethertype = p.inner => start = HeaderEnd(p)
  BY <1>2, <1>3 DEF IpHeaderLen, HeaderEnd, IpStart
<1> HIDE DEF start
<1> QED
  BY <1>1, <1>4, <1>5, <1>6

(* Of a packet that is no fragment, etherparse takes the TCP header only whole. *)
LEMMA SlicedWhole ==
  ASSUME NEW p, IsPacket(p), ~p.frag, p.proto = IPPROTO.tcp
  PROVE  Sliced(p) <=> TcpWhole(p)
<1>1. p.ext \in Nat /\ p.tsize \in Nat /\ p.ext = 0 /\ p.upper = IPPROTO.tcp
  BY DEF IsPacket
<1>2. /\ HeaderEnd(p) \in Nat /\ DatagramEnd(p) \in Nat
      /\ TransportStart(p) = HeaderEnd(p)
  BY <1>1, Places
<1>3. IPPROTO.tcp # IPPROTO.udp /\ IPPROTO.tcp # IPPROTO.icmp /\ IPPROTO.tcp # IPPROTO.icmp6
  BY DEF IPPROTO
<1>4. TransportSliced(p) <=> p.tsize >= 20 /\ HeaderEnd(p) + p.tsize <= DatagramEnd(p)
  BY <1>1, <1>2, <1>3 DEF TransportSliced
<1> QED
  BY <1>1, <1>2, <1>4 DEF Sliced, TcpWhole

LEMMA TcpShown ==
  ASSUME NEW p, IsPacket(p), p.ethertype = p.inner, TcpWhole(p), Sliced(p)
  PROVE  Details(p).tcp # 0 /\ Details(p).ttl # 0
<1> DEFINE info == ParsePacket(p)
           start == 14 + IpHeaderLen(p, info)
<1>1. /\ Details(p).tcp = TcpAt(p, info) /\ Details(p).ttl = TtlAt(p, info)
      /\ info.ethertype = p.ethertype /\ info.protocol = p.proto
  BY DetailsOf
<1>2. p.len \in Nat /\ p.ihl \in 0 .. 15
  BY DEF IsPacket
<1>3. start = HeaderEnd(p) /\ start \in Nat /\ start >= 14
  BY <1>1, <1>2 DEF IpHeaderLen, HeaderEnd, IpStart
<1>4. /\ p.len >= start + 20 /\ p.proto = IPPROTO.tcp /\ IsIp(p.inner)
      /\ p.inner = ETHERTYPE.ip => start = 14 + 4 * p.ihl /\ start >= 34
      /\ p.inner # ETHERTYPE.ip => start = 54
  <2>1. p.tsize \in Nat /\ DatagramEnd(p) \in Nat /\ IpStart(p) = 14
    BY Places DEF IsPacket
  <2> QED
    BY <1>1, <1>2, <1>3, <2>1 DEF TcpWhole, IpHeaderLen, IsIp
<1>5. TcpAt(p, info) = start
  BY <1>1, <1>2, <1>3, <1>4, Types DEF TcpAt, IsIp
<1>6. TtlAt(p, info) # 0
  BY <1>1, <1>2, <1>4, Types DEF TtlAt, IsIp
<1> QED
  BY <1>1, <1>3, <1>5, <1>6


LEMMA ReadsBounded ==
  ASSUME NEW p, IsPacket(p), NEW i \in Reads(p)
  PROVE  i < p.len
<1> DEFINE ttl == Details(p).ttl
           tcp == Details(p).tcp
<1>1. p.len \in Nat
  BY DEF IsPacket
<1>2. \/ p.len >= 14 /\ i \in 0 .. 13
      \/ ttl # 0 /\ (i = 14 \/ i = ttl \/ i \in 18 .. 21)
      \/ tcp # 0 /\ (i = 14 \/ i \in tcp + 4 .. tcp + 15)
  BY DEF Reads
<1>3. CASE p.len >= 14 /\ i \in 0 .. 13
  BY <1>1, <1>3
<1>4. CASE ttl # 0 /\ (i = 14 \/ i = ttl \/ i \in 18 .. 21)
  <2>1. ttl \in {21, 22} /\ p.len >= 34
    BY <1>1, <1>4, TtlIs
  <2> QED
    BY <1>1, <1>4, <2>1
<1>5. CASE tcp # 0 /\ (i = 14 \/ i \in tcp + 4 .. tcp + 15)
  <2>1. tcp \in Nat /\ p.len >= 34 /\ p.len >= tcp + 20
    BY <1>5, TcpIs
  <2> QED
    BY <1>1, <1>5, <2>1
<1> QED
  BY <1>2, <1>3, <1>4, <1>5

LEMMA ReadsFinished == IsPacket(pkt) /\ FinishLine => printing' = "done"
<1>1. IsPacket(pkt) => \A i \in Reads(pkt) : i < pkt.len
  BY ReadsBounded
<1>2. IsPacket(pkt) => \A i \in Reads(pkt) : ~(i >= pkt.len)
  <2> SUFFICES ASSUME IsPacket(pkt), NEW i \in Reads(pkt) PROVE ~(i >= pkt.len)
    OBVIOUS
  <2>1. i < pkt.len /\ pkt.len \in Nat
    BY <1>1 DEF IsPacket
  <2>2. i \in Int
    <3>1. Details(pkt).ttl # 0 => Details(pkt).ttl \in Int
      BY TtlIs
    <3>2. Details(pkt).tcp # 0 => Details(pkt).tcp \in Int
      BY TcpIs
    <3> QED
      BY <3>1, <3>2 DEF Reads
  <2> QED
    BY <2>1, <2>2
<1> QED
  BY <1>2 DEF FinishLine

LEMMA DetailsFinished == IsPacket(pkt) /\ FinishLine => LineTruthful'
<1> SUFFICES ASSUME IsPacket(pkt), FinishLine PROVE LineTruthful'
  OBVIOUS
<1> DEFINE ttl == Details(pkt).ttl
           tcp == Details(pkt).tcp
<1>1. pkt' = pkt /\ line'.details = Details(pkt)
  BY DEF FinishLine
<1>2. ttl # 0 => /\ ttl = IpStart(pkt) + (IF pkt.inner = ETHERTYPE.ip THEN 8 ELSE 7)
                 /\ ttl < DatagramEnd(pkt) /\ Holds(pkt, ttl, 1)
  <2>1. pkt.len \in Nat
    BY DEF IsPacket
  <2> QED
    BY <2>1, TtlIs DEF IpStart, Holds
<1>3. ASSUME pkt.ethertype = pkt.inner, ~pkt.frag
      PROVE  tcp = (IF TcpWhole(pkt) THEN HeaderEnd(pkt) ELSE 0) /\ (tcp # 0 => ttl # 0)
  <2>1. tcp # 0 => /\ Sliced(pkt) /\ pkt.proto = IPPROTO.tcp
                   /\ tcp = HeaderEnd(pkt)
    BY <1>3, TcpIs
  <2>2. TcpWhole(pkt) => pkt.proto = IPPROTO.tcp
    BY DEF TcpWhole
  <2>3. tcp # 0 => TcpWhole(pkt)
    BY <1>3, <2>1, SlicedWhole
  <2>4. TcpWhole(pkt) => Sliced(pkt) /\ tcp # 0 /\ ttl # 0
    BY <1>3, <2>2, SlicedWhole, TcpShown
  <2> HIDE DEF tcp, ttl
  <2> QED
    BY <2>1, <2>3, <2>4
<1> HIDE DEF ttl, tcp
<1>5. line'.details.ttl = ttl /\ line'.details.tcp = tcp
  BY <1>1 DEF ttl, tcp
<1> QED
  BY <1>1, <1>2, <1>3, <1>5 DEF LineTruthful

--------------------------------------------------------------------------------
(* The packet stays as it is, and a line that is done stays done.              *)
LEMMA PacketStays == LineSpec => []IsPacket(pkt)
<1>1. IsPacket(pkt) /\ [StartLine \/ PrintStep]_lineVars => IsPacket(pkt)'
  BY DEF lineVars, StartLine, PrintStep, NextYear, YearFound, NextMonth, FinishLine, IsPacket
<1> QED
  BY <1>1, PTL DEF LineSpec

LEMMA OnlyFinished ==
  ASSUME [StartLine \/ PrintStep]_lineVars, ~FinishLine
  PROVE  \/ printing' \in {"years", "months"}
         \/ UNCHANGED lineVars
  BY DEF StartLine, PrintStep, NextYear, YearFound, NextMonth, lineVars

(* While the days are counted off, those that are left lead from the day       *)
(* reached to the one of the time stamp, and end within the year once it is    *)
(* found: for every time stamp.                                                *)
THEOREM LineInductive == LineSpec => []LineInv
<1>1. Unprinted => LineInv
  BY DEF Unprinted, LineInv
<1>2. LineInv /\ IsPacket(pkt) /\ [StartLine \/ PrintStep]_lineVars => LineInv'
  BY LineStep
<1> QED
  BY <1>1, <1>2, PacketStays, PTL DEF LineSpec

(* epoch_days_to_date() finds the one date of the time stamp, and print_packet *)
(* the time of day, whatever the year: leap days, centuries and ends of years  *)
(* included.                                                                   *)
THEOREM DatesAreRight == LineSpec => []DateOnCalendar
<1>1. Unprinted => DateOnCalendar
  BY DEF Unprinted, DateOnCalendar
<1>2. DateOnCalendar /\ LineInv /\ IsPacket(pkt) /\ [StartLine \/ PrintStep]_lineVars
        => DateOnCalendar'
  <2> SUFFICES ASSUME DateOnCalendar, LineInv, IsPacket(pkt), [StartLine \/ PrintStep]_lineVars
               PROVE  DateOnCalendar'
    OBVIOUS
  <2>1. CASE FinishLine
    BY <2>1, DateFinished
  <2>2. CASE printing' \in {"years", "months"}
    BY <2>2 DEF DateOnCalendar
  <2>3. CASE UNCHANGED lineVars
    BY <2>3 DEF lineVars, DateOnCalendar
  <2> QED
    BY <2>1, <2>2, <2>3, OnlyFinished
<1> QED
  BY <1>1, <1>2, PacketStays, LineInductive, PTL DEF LineSpec

(* print_packet() shows the time to live of the packet's own IP header and, of *)
(* a packet neither tagged nor a fragment, sequence numbers, flags and window  *)
(* exactly if a TCP header was captured whole with its datagram, and then that *)
(* header's: for any lengths, written in the packet or captured.               *)
THEOREM LinesAreTruthful == LineSpec => []LineTruthful
<1>1. Unprinted => LineTruthful
  BY DEF Unprinted, LineTruthful
<1>2. LineTruthful /\ IsPacket(pkt) /\ [StartLine \/ PrintStep]_lineVars => LineTruthful'
  <2> SUFFICES ASSUME LineTruthful, IsPacket(pkt), [StartLine \/ PrintStep]_lineVars
               PROVE  LineTruthful'
    OBVIOUS
  <2>1. CASE FinishLine
    BY <2>1, DetailsFinished
  <2>2. CASE printing' \in {"years", "months"}
    BY <2>2 DEF LineTruthful
  <2>3. CASE UNCHANGED lineVars
    BY <2>3 DEF lineVars, LineTruthful
  <2> QED
    BY <2>1, <2>2, <2>3, OnlyFinished
<1> QED
  BY <1>1, <1>2, PacketStays, PTL DEF LineSpec

(* print_packet() indexes into the packet behind length checks only: no index  *)
(* is past its end, for a packet cut off anywhere.                             *)
THEOREM NothingPastTheEnd == LineSpec => []ReadsCaptured
<1>1. Unprinted => ReadsCaptured
  BY DEF Unprinted, ReadsCaptured
<1>2. ReadsCaptured /\ IsPacket(pkt) /\ [StartLine \/ PrintStep]_lineVars => ReadsCaptured'
  <2> SUFFICES ASSUME ReadsCaptured, IsPacket(pkt), [StartLine \/ PrintStep]_lineVars
               PROVE  ReadsCaptured'
    OBVIOUS
  <2>1. CASE FinishLine
    BY <2>1, ReadsFinished DEF ReadsCaptured
  <2>2. CASE printing' \in {"years", "months"}
    BY <2>2 DEF ReadsCaptured
  <2>3. CASE UNCHANGED lineVars
    BY <2>3 DEF lineVars, ReadsCaptured
  <2> QED
    BY <2>1, <2>2, <2>3, OnlyFinished
<1> QED
  BY <1>1, <1>2, PacketStays, PTL DEF LineSpec
================================================================================
