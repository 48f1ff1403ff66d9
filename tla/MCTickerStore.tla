--------------------------- MODULE MCTickerStore ---------------------------
(* TickerStore on one check, two endpoints and a two-valued metric.        *)
EXTENDS TickerStore

CONSTANTS c1, e1, e2, none, empty, tool_error, credentials, quiet, unbound
=============================================================================
