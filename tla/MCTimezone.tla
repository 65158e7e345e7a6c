----------------------------- MODULE MCTimezone -----------------------------
(* Two callers; zone files at three depths of /usr/share/zoneinfo/, two  *)
(* of them in the same directory.                                          *)
EXTENDS Timezone, TLC

MCZoneFiles ==
  {<<"UTC">>, <<"US", "Central">>, <<"US", "Eastern">>,
   <<"posix", "America", "Chicago">>}

\* The callers run the same code and are interchangeable.
MCSymmetry == Permutations(Callers)
=============================================================================
