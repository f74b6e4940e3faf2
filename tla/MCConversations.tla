-------------------------- MODULE MCConversations --------------------------
(* Small instances of Conversations for TLC. *)
EXTENDS Conversations

Budget(old, makes, texts, asked, kills) ==
  [old |-> old, makes |-> makes, messages |-> texts, fetches |-> asked, kills |-> kills]

\* A first conversation, made at the list or elsewhere; a second one, with the app
\* ended between its writes; two conversations, with a message and both visited; and
\* two messages, with the app ended between them.
MCBudgets ==
  {Budget({}, 1, 0, 3, 0), Budget({2}, 1, 0, 2, 1),
   Budget({1, 2}, 0, 1, 3, 0), Budget({1, 2}, 0, 2, 2, 1)}
=============================================================================
