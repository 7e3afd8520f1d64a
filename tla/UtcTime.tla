------------------------------- MODULE UtcTime -------------------------------
(***************************************************************************)
(* resolve_utc_timestamp (parsers/gps103_parser.py): a GPS103 report gives  *)
(* the date and time of the device's local clock and the UTC time of day;   *)
(* the UTC date is worked out from the two.  An instant is a number of      *)
(* minutes, the calendar is left out; the seconds are copied.               *)
(***************************************************************************)
EXTENDS Integers

Day == 1440

\* hour * 60 + minute
TimeOfDay(t) == t % Day

\* The two loops that bring the offset into (-12 h, 12 h].  Two times of day are
\* less than a day apart, so each runs at most once.
Wrapped(offset) ==
    CASE offset > 720 -> offset - Day
      [] offset <= -720 -> offset + Day
      [] OTHER -> offset

\* local: an instant of the local clock; utc: a time of day.
resolve_utc_timestamp(local, utc) == local - Wrapped(TimeOfDay(local) - utc)
=============================================================================
