------------------------------- MODULE MCMailbox -------------------------------
(***************************************************************************)
(* Mailbox for TLC: one account with an inbox and a trash, no archive, and *)
(* one with an inbox; a conversation of two messages and one of one.       *)
(***************************************************************************)
EXTENDS Mailbox

MCFoldersOf == [a |-> <<"inbox", "trash">>, b |-> <<"inbox2">>]
MCInbox == [a |-> "inbox", b |-> "inbox2"]
MCTrash == [a |-> "trash", b |-> None]
MCArchive == [a |-> None, b |-> None]
MCThreadOf == <<1, 1, 3>>
World(turns, at) == [turns |-> turns, at |-> at]

MCWorlds == {
  World({"write"}, <<"inbox", "inbox", "inbox2">>),
  World({"write"}, <<"inbox", "inbox2", "inbox">>),
  World({"write", "fail"}, <<"inbox", "inbox", None>>),
  World({"write", "late"}, <<"inbox", "inbox2", "inbox2">>),
  World({"write", "mail"}, <<"inbox", "inbox2", None>>),
  World({"fail"}, <<"inbox", "inbox", "inbox">>),
  World({"others"}, <<"inbox", None, None>>),
  World({"approvals", "fail", "late"}, <<"inbox", None, None>>),
  World({"approvals", "accounts"}, <<"inbox", None, None>>),
  World({"accounts", "mail"}, <<"inbox", None, "inbox2">>),
  World({"accounts", "fail"}, <<"inbox", "trash", "inbox2">>),
  World({"accounts", "search"}, <<"inbox", "inbox", "inbox2">>)}

\* The user searches and opens hits; nothing fails and nobody else writes.
MCSearchWorlds == {World({"search"}, <<"inbox", "inbox", "trash">>)}
=============================================================================
