--------------------------- MODULE MCBatchExports ---------------------------
\* BatchExports with two jobs, one request at a time beside the janitor, and
\* one worker.
EXTENDS BatchExports

CONSTANTS j1, j2, c1, jan
=============================================================================
