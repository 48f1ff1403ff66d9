--------------------------- MODULE MCScopeCatalog ---------------------------
\* ScopeCatalog with two requests.
EXTENDS ScopeCatalog

CONSTANTS r1, r2
=============================================================================
