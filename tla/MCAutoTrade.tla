---------------------------- MODULE MCAutoTrade ----------------------------
(***************************************************************************)
(* The auto-trade cycle on two symbols.                                    *)
(***************************************************************************)
EXTENDS AutoTrade

CONSTANTS a, b, t1

MCSymbols == {a, b}
MCTrader == {t1}

=============================================================================
