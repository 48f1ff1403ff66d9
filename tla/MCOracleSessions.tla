-------------------------- MODULE MCOracleSessions --------------------------
(* OracleSessions with threads and pools as model values.                  *)
EXTENDS OracleSessions

CONSTANTS t1, t2, a, b, c, nobody, none
=============================================================================
