----------------------------- MODULE MCReconciler -----------------------------
(* Small instances of Reconciler: the messages and dates of the runs.      *)
EXTENDS Reconciler

\* "archiver" reconciles the archive folder, every other process the inbox.
MCFolderOf == [p \in Procs |-> IF p = "archiver" THEN "archive" ELSE "inbox"]

\* Dates 1..3; Cutoff = 1, so that a message of date 1 is older than 7 days.
MCCutoff == 1
MCNow == 3

Msg(id, anc, subj, date, kind) ==
  [id |-> id, anc |-> anc, subj |-> subj, date |-> date, kind |-> kind]

\* A fresh root and a reply to it.
Pair == {Msg("a", <<>>, "s", 2, "ok"), Msg("b", <<"a">>, "s", 3, "ok")}

\* ... and a message the parser refuses.
Fresh == Pair \cup {Msg("j", <<>>, "s", 2, "junk")}

\* A root older than seven days.
Old == {Msg("a", <<>>, "s", 1, "ok")}

\* An old conversation whose replies name only their direct parent.
Chain == {Msg("a", <<>>, "s", 1, "ok"), Msg("b", <<"a">>, "s", 1, "ok"),
          Msg("c", <<"b">>, "s", 1, "ok")}
\* One worker, whose server expunges and renumbers and whose disk may be full; one
\* whose messages are moved meanwhile; a worker and an account.sync_folder of the same
\* folder, with a renumbering, with a full disk and a run cut short, and with several
\* windows; the workers of two folders between which messages are moved.
Envs ==
  {[procs |-> {"worker"}, faults |-> {"disk", "expunge"}, epochs |-> 2, mails |-> 2, aborts |-> 1],
   [procs |-> {"worker"}, faults |-> {"move", "expunge"}, epochs |-> 2, mails |-> 2, aborts |-> 0],
   [procs |-> {"worker", "manual"}, faults |-> {"expunge"}, epochs |-> 2, mails |-> 1, aborts |-> 0],
   [procs |-> {"worker", "manual"}, faults |-> {"disk"}, epochs |-> 1, mails |-> 1, aborts |-> 1],
   [procs |-> {"worker", "manual"}, faults |-> {}, epochs |-> 1, mails |-> 2, aborts |-> 0],
   [procs |-> {"worker", "archiver"}, faults |-> {"move"}, epochs |-> 1, mails |-> 1, aborts |-> 0]}

LiveEnvs ==
  {[procs |-> {"worker"}, faults |-> {"expunge"}, epochs |-> 2, mails |-> 2, aborts |-> 1]}

TwoFolderEnvs ==
  {[procs |-> {"worker", "archiver"}, faults |-> {}, epochs |-> 1, mails |-> 1, aborts |-> 0]}
=============================================================================
