-------------------------------- MODULE Dates --------------------------------
(***************************************************************************)
(* A moment packed into one number (time.cpp), by which the aggregators    *)
(* keep their events and the reports their time: two decimal digits for    *)
(* each of year, month, day, hour, minute and second, six for the          *)
(* microseconds.  The bases are parameters because TLC has small numbers   *)
(* only; InputProofs has the results for those of the code.                *)
(***************************************************************************)
EXTENDS Integers

CONSTANTS Base,  \* 100
          Micro  \* 1000000

ASSUME BaseAssumption == Base \in Nat \ {0} /\ Micro \in Nat \ {0}

SecondUnit == Micro
MinuteUnit == Base * SecondUnit
HourUnit == Base * MinuteUnit
DayUnit == Base * HourUnit
MonthUnit == Base * DayUnit
YearUnit == Base * MonthUnit

\* Of the year, the century is left out.
ToUint64(year, mon, day, hour, min, sec, mseconds) ==
    (year % Base) * YearUnit + mon * MonthUnit + day * DayUnit
    + hour * HourUnit + min * MinuteUnit + sec * SecondUnit + mseconds

\* RoundMinute of a number.
RoundMinute(date) == (date \div MinuteUnit) * MinuteUnit

Microseconds(date) == date % Micro

\* The parts that ToDateFormatString writes.
ToDateFormatString(date) ==
    LET year == date \div YearUnit
        inYear == date - year * YearUnit
        month == inYear \div MonthUnit
        inMonth == inYear - month * MonthUnit
        day == inMonth \div DayUnit
        inDay == inMonth - day * DayUnit
        hour == inDay \div HourUnit
        inHour == inDay - hour * HourUnit
        minute == inHour \div MinuteUnit
        inMinute == inHour - minute * MinuteUnit
    IN <<year, month, day, hour, minute, inMinute \div SecondUnit, inMinute % SecondUnit>>
=============================================================================
