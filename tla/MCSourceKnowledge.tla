-------------------------- MODULE MCSourceKnowledge --------------------------
\* SourceKnowledge with a veto and a pointer, two writers and an
\* asker.
EXTENDS SourceKnowledge

CONSTANTS veto, pointer, w1, w2, a1, a2
=============================================================================
