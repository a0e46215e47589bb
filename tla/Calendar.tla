------------------------------ MODULE Calendar ------------------------------
(***************************************************************************)
(* The dates of crates/teams-core/src/util.rs, over the days, the seconds  *)
(* of the day and the rest that format_epoch_ms takes from the             *)
(* milliseconds, and the calendar they should agree with.                  *)
(***************************************************************************)
EXTENDS Naturals, Sequences

\* A wrong CivilFromDays: the last day of the 400 years is not taken back.
CivilWithoutEraEnd(days) ==
  LET doe == (days + 719468) % 146097
      yoe == (doe - doe \div 1460 + doe \div 36524) \div 365
      doy == doe - (365 * yoe + yoe \div 4 - yoe \div 100)
      mp == (5 * doy + 2) \div 153
      m == IF mp < 10 THEN mp + 3 ELSE mp - 9
      y == yoe + 400 * ((days + 719468) \div 146097)
  IN <<IF m <= 2 THEN y + 1 ELSE y, m, doy - (153 * mp + 2) \div 5 + 1>>

\* civil_from_days: years begin in March, in eras of 400.
CivilFromDays(days) ==
  LET z == days + 719468
      era == z \div 146097
      doe == z - 146097 * era
      yoe == (doe - doe \div 1460 + doe \div 36524 - doe \div 146096) \div 365
      doy == doe - (365 * yoe + yoe \div 4 - yoe \div 100)
      mp == (5 * doy + 2) \div 153
      m == IF mp < 10 THEN mp + 3 ELSE mp - 9
      y == yoe + 400 * era
  IN <<IF m <= 2 THEN y + 1 ELSE y, m, doy - (153 * mp + 2) \div 5 + 1>>

\* format_epoch_ms, its six numbers, or none unless the time is after the epoch
FormatEpoch(days, seconds, millis) ==
  IF days < 0 \/ (days = 0 /\ seconds = 0 /\ millis = 0) THEN <<>>
  ELSE CivilFromDays(days) \o
         <<seconds \div 3600, (seconds % 3600) \div 60, seconds % 60>>

-----------------------------------------------------------------------------
(* The calendar itself, a day and a second at a time. *)

IsLeap(y) == y % 4 = 0 /\ (y % 100 # 0 \/ y % 400 = 0)
DaysIn(y, m) == IF m = 2 THEN IF IsLeap(y) THEN 29 ELSE 28
                ELSE IF m \in {4, 6, 9, 11} THEN 30 ELSE 31

NextDate(d) == IF d[3] < DaysIn(d[1], d[2]) THEN <<d[1], d[2], d[3] + 1>>
               ELSE IF d[2] < 12 THEN <<d[1], d[2] + 1, 1>> ELSE <<d[1] + 1, 1, 1>>
=============================================================================
