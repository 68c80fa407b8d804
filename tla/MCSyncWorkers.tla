----------------------------- MODULE MCSyncWorkers ----------------------------
(* Small instances of SyncWorkers: folders of one account.                 *)
EXTENDS SyncWorkers

MCAccountOf == [k \in Keys |-> "me"]

\* Two tasks with a silent server, whose account may go (its cycles then fail), and
\* with one that gets mail; one task whose cycles fail and whose account may go.
MCServers ==
  {[silent |-> TRUE, failures |-> 0, mails |-> 0, tasks |-> 2, deleted |-> {"me"}],
   [silent |-> FALSE, failures |-> 0, mails |-> 1, tasks |-> 2, deleted |-> {}],
   [silent |-> FALSE, failures |-> 2, mails |-> 2, tasks |-> 1, deleted |-> {"me"}]}
TwoServers == {[silent |-> FALSE, failures |-> 0, mails |-> 0, tasks |-> 2, deleted |-> {}]}
=============================================================================
