--------------------------- MODULE MCDailyRefresh ---------------------------
(***************************************************************************)
(* Three dates of which the second is closed, one command, two children,   *)
(* two profiles.                                                           *)
(***************************************************************************)
EXTENDS DailyRefresh

CONSTANTS m1, c1, c2, p1, p2

MCManual == {m1}
MCChildren == {c1, c2}
MCProfiles == {p1, p2}
MCStamping == {p1}
MCMarketDays == {1, 3}

=============================================================================
