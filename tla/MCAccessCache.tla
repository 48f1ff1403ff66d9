--------------------------- MODULE MCAccessCache ---------------------------
\* AccessCache with named users and callers.
EXTENDS AccessCache

CONSTANTS ann, bob, c1, c2
=============================================================================
