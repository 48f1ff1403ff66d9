---------------------------- MODULE MCAgentTurn ----------------------------
\* AgentTurn over the questions that differ in how they are gated.
EXTENDS AgentTurn

Kind(intent, needs, scoped, silo) ==
  [intent |-> intent, needs |-> needs, scoped |-> scoped, silo |-> silo]

MCKinds ==
  {Kind("data", {"netting"}, TRUE, FALSE), Kind("data", {}, FALSE, FALSE),
   Kind("mixed", {"netting"}, TRUE, FALSE), Kind("mixed", {}, TRUE, TRUE),
   Kind("policy", {}, TRUE, FALSE), Kind("general", {}, TRUE, FALSE)}

\* Each tool alone, and the pairs whose order or phase matters.
MCBatches ==
  {<<>>} \cup {<<t>> : t \in Tools}
    \cup {<<"control", "wiki_lookup">>, <<"run_sql", "run_sql">>,
          <<"ask_user", "ask_user">>, <<"control", "ask_user">>}
=============================================================================
