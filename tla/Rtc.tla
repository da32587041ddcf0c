-------------------------------- MODULE Rtc --------------------------------
(***************************************************************************)
(* cmostime of lapic.c against a clock that goes on while it is read.  The *)
(* clock shows that an update is in progress from before it changes the    *)
(* first field until after the last; it changes one field at a time.       *)
(***************************************************************************)
EXTENDS Integers, Sequences

CONSTANTS
  StartTimes,   \* what the clock shows first: second, minute, hour, day, month, year
  MaxTicks      \* bound: seconds that pass

Fields == 1..6
(* Each field with its first and last value; months have 31 days here. *)
Radix == <<<<0, 59>>, <<0, 59>>, <<0, 23>>, <<1, 31>>, <<1, 12>>, <<0, 99>>>>

(* A call of cmostime takes less than a minute.  In a longer one the       *)
(* second that is read first and the second that is read again may be of   *)
(* different minutes.                                                      *)
ASSUME RtcAssumption ==
  /\ MaxTicks \in 0..59
  /\ StartTimes \subseteq {t \in [Fields -> 0..99] : \A j \in Fields : t[j] \in Radix[j][1]..Radix[j][2]}

VARIABLES
  rtc,      \* what the registers show, the update in progress, binary or BCD
  next,     \* what they will show
  ticks,    \* seconds that have passed
  cm,       \* cmostime: where it is, t1, t2
  shown     \* times that the clock showed since the call

rvars == <<rtc, next, ticks, cm, shown>>

Later(t) ==
  LET Wraps(j) == \A i \in 1..j - 1 : t[i] = Radix[i][2]
  IN  [j \in Fields |-> IF ~Wraps(j) THEN t[j] ELSE IF t[j] = Radix[j][2] THEN Radix[j][1] ELSE t[j] + 1]

Bcd(n) == (n \div 10) * 16 + (n % 10)
Shows(b, n) == IF b THEN Bcd(n) ELSE n

UpdateBegins ==
  /\ ~rtc.uip /\ ticks < MaxTicks
  /\ rtc' = [rtc EXCEPT !.uip = TRUE] /\ next' = Later(next) /\ ticks' = ticks + 1
  /\ UNCHANGED <<cm, shown>>
UpdateField(j) ==
  /\ rtc.uip /\ rtc.t[j] # next[j]
  /\ rtc' = [rtc EXCEPT !.t[j] = next[j]]
  /\ shown' = IF rtc'.t = next THEN shown \cup {next} ELSE shown
  /\ UNCHANGED <<next, ticks, cm>>
UpdateEnds ==
  /\ rtc.uip /\ rtc.t = next
  /\ rtc' = [rtc EXCEPT !.uip = FALSE]
  /\ UNCHANGED <<next, ticks, cm, shown>>
-----------------------------------------------------------------------------
cmos_read(j) == Shows(rtc.bcd, rtc.t[j])

(* fill_rtcdate, register by register. *)
Fill1 ==
  /\ cm.pc = "t1"
  /\ cm' = IF Len(cm.t1) = 5 THEN [cm EXCEPT !.t1 = Append(@, cmos_read(6)), !.pc = "uip"]
           ELSE [cm EXCEPT !.t1 = Append(@, cmos_read(Len(@) + 1))]
  /\ UNCHANGED <<rtc, next, ticks, shown>>
GoesOnAnyway(uip) == TRUE
GoesOn(uip) == ~uip
TestUip ==
  /\ cm.pc = "uip"
  /\ cm' = IF GoesOn(rtc.uip) THEN [cm EXCEPT !.pc = "t2"] ELSE [cm EXCEPT !.pc = "t1", !.t1 = <<>>]
  /\ UNCHANGED <<rtc, next, ticks, shown>>
Fill2 ==
  /\ cm.pc = "t2"
  /\ cm' = IF Len(cm.t2) = 5 THEN [cm EXCEPT !.t2 = Append(@, cmos_read(6)), !.pc = "compare"]
           ELSE [cm EXCEPT !.t2 = Append(@, cmos_read(Len(@) + 1))]
  /\ UNCHANGED <<rtc, next, ticks, shown>>
CONV(n) == IF rtc.bcd THEN (n \div 16) * 10 + (n % 16) ELSE n
Compare ==
  /\ cm.pc = "compare"
  /\ cm' = IF cm.t1 = cm.t2 THEN [cm EXCEPT !.pc = "done", !.t1 = [j \in Fields |-> CONV(@[j])]]
           ELSE [pc |-> "t1", t1 |-> <<>>, t2 |-> <<>>]
  /\ UNCHANGED <<rtc, next, ticks, shown>>

RtcInit ==
  /\ \E t \in StartTimes, b \in BOOLEAN :
       rtc = [t |-> t, uip |-> FALSE, bcd |-> b] /\ next = t /\ shown = {t}
  /\ ticks = 0 /\ cm = [pc |-> "t1", t1 |-> <<>>, t2 |-> <<>>]

CmStep == Fill1 \/ TestUip \/ Fill2 \/ Compare
RtcUpdate == UpdateEnds \/ \E j \in Fields : UpdateField(j)
RtcNext == UpdateBegins \/ RtcUpdate \/ CmStep
RtcSpec == RtcInit /\ [][RtcNext]_rvars
-----------------------------------------------------------------------------
(* cmostime returns a time that the clock has shown since it was called,   *)
(* never fields of two times, although the clock goes on while the fields  *)
(* are read (the test of CMOS_UIP and the second reading).                 *)
TimeTrue == cm.pc = "done" => cm.t1 \in shown

(* It returns, if the clock does not change all the time. *)
TimeReturns == <>(cm.pc = "done")
=============================================================================
