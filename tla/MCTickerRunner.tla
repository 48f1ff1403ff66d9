--------------------------- MODULE MCTickerRunner ---------------------------
(* TickerRunner on a default source and an opted-in extra.                 *)
EXTENDS TickerRunner

CONSTANTS def, extra
=============================================================================
