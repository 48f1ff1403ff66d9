--------------------------- MODULE MCWorkflowStore ---------------------------
(* The store on small instances: interchangeable processes, and scopes.    *)
EXTENDS WorkflowStore, TLC

Interchangeable == Permutations(Proc) \cup Permutations(Scope)
=============================================================================
