-------------------------- MODULE MCConversations ---------------------------
(* Conversations with questions as model values: two people and somebody   *)
(* whom row security does not name in one browser session, another session. *)
EXTENDS Conversations

CONSTANTS t1, t2, c, none, open

AskedInstance ==
  {[session |-> "tab", scope |-> "gl", user |-> "ann"],
   [session |-> "tab", scope |-> "gl", user |-> "bob"],
   [session |-> "tab", scope |-> "gl", user |-> open],
   [session |-> "other", scope |-> "gl", user |-> "ann"]}
=============================================================================
