---------------------------- MODULE PointInTime ----------------------------
(***************************************************************************)
(* The shared point-in-time policy: which temporal metadata may be used by *)
(* a research run with a given cutoff, and the calendars instants are      *)
(* projected on.  An instant is a natural number, three to a UTC day:      *)
(*   3d      midnight UTC: New York and Chicago still have the day before, *)
(*           whose session has closed;                                     *)
(*   3d + 1  the session of day d is open;                                 *)
(*   3d + 2  the session has closed; also the last instant of day d.       *)
(* A time that is absent (None in the code) is Unknown.                    *)
(***************************************************************************)
EXTENDS Integers

Unknown == -1

Day(t) == t \div 3
Midnight(d) == 3 * d
Close(d) == 3 * d + 2
EndOfDay(d) == 3 * d + 2

(* The latest session that has closed, in the New York calendar.           *)
SessionDay(t) == IF t % 3 = 2 THEN Day(t) ELSE Day(t) - 1

(* The date in America/Chicago, by which FRED dates its vintages.          *)
ProviderDay(t) == IF t % 3 = 0 THEN Day(t) - 1 ELSE Day(t)

---------------------------------------------------------------------------
(* Temporal metadata: when the source made the object available, when this *)
(* system acquired it, the cutoff of the snapshot it belongs to, and the   *)
(* half-open interval in which it is effective.                            *)
Known(t) == t # Unknown
After(t, cutoff) == Known(t) /\ t > cutoff
Reached(t, cutoff) == Known(t) /\ t <= cutoff

Visibility(m, mode) ==
    {t \in {m.available, m.asOf}
           \union (IF mode = "replay" THEN {m.ingested} ELSE {}) : Known(t)}

AccessReason(m, cutoff, mode) ==
    IF After(m.available, cutoff)
    THEN "future_available"
    ELSE IF mode = "replay" /\ After(m.ingested, cutoff)
    THEN "future_ingestion"
    ELSE IF After(m.asOf, cutoff)
    THEN "future_snapshot"
    ELSE IF After(m.from, cutoff)
    THEN "not_yet_effective"
    ELSE IF Reached(m.to, cutoff)
    THEN "no_longer_effective"
    ELSE IF Visibility(m, mode) = {} /\ ~Known(m.from)
    THEN "unknown_availability"
    ELSE "usable"

UsableAt(m, cutoff, mode) == AccessReason(m, cutoff, mode) = "usable"
=============================================================================
