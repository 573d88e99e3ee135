----------------------------- MODULE MCIso8601 ------------------------------
(* Every day of the first 400 years, in which the calendar repeats itself, and *)
(* of the last ones before and the first after the clamp; moments around which *)
(* a number of the time of day carries over.                                  *)
EXTENDS Iso8601

MCYears == 1970..2370 \cup 9996..10000
MCMoments == {0, 999, 59999, 3600000, 86399999}
============================================================================
