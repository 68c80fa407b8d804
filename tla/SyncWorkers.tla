----------------------------- MODULE SyncWorkers ------------------------------
(***************************************************************************)
(* The sync workers (src/sync/worker.rs) and the manager that starts and   *)
(* stops them (src/sync/manager.rs), under the requests account.start_sync,*)
(* account.stop_sync, account.sync_folder and account.delete and under the *)
(* daemon's shutdown.                                                      *)
(*                                                                         *)
(* A task is one spawned run_sync_worker, or one account.sync_folder       *)
(* request (mode "manual"): both call reconcile_folder, which is the two   *)
(* steps FetchMail and StoreMail here and has a module of its own.  The    *)
(* manager's map is only touched under its lock, so start and stop are one *)
(* step up to the join.  Time is abstracted: a sleep or a timeout may end  *)
(* at any moment.                                                          *)
(***************************************************************************)
EXTENDS Integers, FiniteSets

CONSTANTS
  Accounts, Keys, AccountOf,     \* a key is an (account, folder) pair
  HasIdle,                       \* the manager was built with an IDLE backend
  InitialBackoff, MaxBackoff,    \* WorkerConfig
  MaxTasks,                      \* bound: tasks, 1 at least
  Servers                        \* the mail servers considered

Tasks == 1..MaxTasks

\* A silent server may leave DONE or LOGOUT unanswered.  Bounds: how many cycles
\* fail, how much mail arrives, how many tasks are spawned, which accounts are deleted.
Server == [silent : BOOLEAN, failures : Nat, mails : Nat, tasks : Tasks,
           deleted : SUBSET Accounts]

ASSUME ConstantsAssumption ==
  /\ Keys # {} /\ AccountOf \in [Keys -> Accounts]
  /\ HasIdle \in BOOLEAN
  /\ InitialBackoff \in Nat \ {0} /\ MaxBackoff \in Nat /\ InitialBackoff <= MaxBackoff
  /\ MaxTasks \in Nat \ {0} /\ Servers \subseteq Server

VARIABLES
  workers,      \* the manager's map: key -> registered task, 0 for none
  task,         \* the state of each task
  spawned,      \* tasks 1..spawned exist
  joining,      \* tasks that a stop call is waiting for
  mine,         \* the ones among them that stop_all cancelled
  main,         \* the daemon's main function
  exists,       \* accounts with a row in the table
  pub,          \* the last sync.state published for each account
  dirty,        \* keys with mail on the server that is not stored
  server,       \* the mail server, fixed at the start
  failures, mails

daemon == <<workers, spawned, joining, mine, main, exists>>
counters == <<failures, mails, server>>
vars == <<daemon, task, pub, dirty, counters>>

Pcs == {"unborn", "boot", "top", "cred", "reconcile", "store", "sleep", "backoff",
        "lookup", "connect", "wait", "finish", "done", "aborted"}
Task == [key : Keys, mode : {"idle", "poll", "manual"}, pc : Pcs, told : BOOLEAN,
         cancel : BOOLEAN, backoff : InitialBackoff..MaxBackoff, news : BOOLEAN]
Ended == {"done", "aborted"}
Running(i) == task[i].pc \notin Ended \cup {"unborn"}
Worker(i) == task[i].mode # "manual"
Account(i) == AccountOf[task[i].key]

\* What publish_sync_state says; "calm" is Idle or Polling.
States == {"calm", "syncing", "error"}

-----------------------------------------------------------------------------
(* Steps of a task.                                                        *)

Goto(i, l) ==
  task' = [task EXCEPT ![i] = [@ EXCEPT !.pc = l, !.news = FALSE]] /\ UNCHANGED pub

\* StateReporter::transition, then on to l; told: the last one was an error.
Report(i, l, s) ==
  /\ task' = [task EXCEPT ![i] = [@ EXCEPT !.pc = l, !.news = FALSE, !.told = (s = "error")]]
  /\ pub' = [pub EXCEPT ![Account(i)] = s]

\* An error other than an authentication error: report it and back off; a
\* manual sync returns it.
Retry(i) == Report(i, IF Worker(i) THEN "backoff" ELSE "done", "error")

\* Failures are bounded, except those of a deleted account.
MayFail(i) ==
  IF Account(i) \in exists
    THEN failures < server.failures /\ failures' = failures + 1
    ELSE UNCHANGED failures

\* The loop is entered: run_sync_worker, or run_polling_worker as its fallback.
Boot(i) ==
  /\ task[i].pc = "boot"
  /\ task' = [task EXCEPT ![i] = [@ EXCEPT !.pc = "top", !.told = FALSE,
                                           !.backoff = InitialBackoff]]
  /\ pub' = [pub EXCEPT ![Account(i)] = "calm"]
  /\ UNCHANGED <<daemon, dirty, counters>>

\* cancel.is_cancelled() at the top of the loop.
Top(i) ==
  /\ task[i].pc = "top"
  /\ Goto(i, IF task[i].cancel THEN "done" ELSE "cred")
  /\ UNCHANGED <<daemon, dirty, counters>>

\* The select! branches on the cancel token: credential_for_cycle, the
\* reconcile, sleep_or_cancel.
Cancelled(i) ==
  /\ task[i].pc \in {"cred", "reconcile", "store", "sleep", "backoff"} /\ task[i].cancel
  /\ Goto(i, "done")
  /\ UNCHANGED <<daemon, dirty, counters>>

\* credential_for_cycle: resolved, then transition(Syncing).
Resolve(i) ==
  /\ task[i].pc = "cred"
  /\ Report(i, "reconcile", "syncing")
  /\ UNCHANGED <<daemon, dirty, counters>>

\* reconcile_folder until it has seen the whole mailbox.
FetchMail(i) ==
  /\ task[i].pc = "reconcile" /\ Account(i) \in exists
  /\ Goto(i, "store")
  /\ UNCHANGED <<daemon, dirty, counters>>

\* ... and until it returns Ok: what arrived after the fetch is not stored.
StoreMail(i) ==
  /\ task[i].pc = "store"
  /\ dirty' = IF task[i].news THEN dirty ELSE dirty \ {task[i].key}
  /\ \/ /\ task[i].mode = "idle"
        /\ task' = [task EXCEPT ![i] = [@ EXCEPT !.pc = "lookup", !.news = FALSE,
                                                 !.backoff = InitialBackoff]]
        /\ UNCHANGED pub
     \/ /\ task[i].mode = "poll"
        /\ task' = [task EXCEPT ![i] = [@ EXCEPT !.pc = "sleep", !.news = FALSE,
                                          !.told = FALSE, !.backoff = InitialBackoff]]
        /\ pub' = [pub EXCEPT ![Account(i)] = "calm"]
     \/ task[i].mode = "manual" /\ Report(i, "done", "calm")
  /\ UNCHANGED <<daemon, counters>>

\* The credential, the reconcile, the account lookup or the IDLE session fails.
StepFails(i) ==
  /\ \/ task[i].pc \in {"cred", "reconcile", "store", "connect", "finish"}
     \/ task[i].pc = "lookup" /\ Account(i) \in exists
  /\ MayFail(i)
  /\ Retry(i)
  /\ UNCHANGED <<daemon, dirty, mails, server>>

\* is_auth_error: the worker ends.
Mutant_AuthFails(i) ==
  /\ task[i].pc \in {"cred", "reconcile", "store", "connect"}
  /\ Goto(i, "done")
  /\ UNCHANGED <<daemon, dirty, counters>>
AuthFails(i) ==
  /\ task[i].pc \in {"cred", "reconcile", "store", "connect"}
  /\ Report(i, "done", "error")
  /\ UNCHANGED <<daemon, dirty, counters>>

PollAgain(i) ==
  /\ task[i].pc = "sleep"
  /\ Goto(i, "top")
  /\ UNCHANGED <<daemon, dirty, counters>>

\* After the sleep the backoff doubles, up to its maximum.
next_backoff(b) == IF 2 * b < MaxBackoff THEN 2 * b ELSE MaxBackoff

RetryAgain(i) ==
  /\ task[i].pc = "backoff"
  /\ task' = [task EXCEPT ![i] = [@ EXCEPT !.pc = "top",
                                           !.backoff = next_backoff(task[i].backoff)]]
  /\ UNCHANGED <<daemon, pub, dirty, counters>>

\* accounts::get after a reconcile; a deleted account ends the worker.
LookupAccount(i) ==
  /\ task[i].pc = "lookup"
  /\ IF Account(i) \in exists THEN Report(i, "connect", "calm") ELSE Goto(i, "done")
  /\ UNCHANGED <<daemon, dirty, counters>>

\* idle_once: connect, SELECT, IDLE.  Only mail that arrives from now on is
\* announced.  None of these awaits looks at the cancel token.
IdleConnect(i) ==
  /\ task[i].pc = "connect"
  /\ Goto(i, "wait")
  /\ UNCHANGED <<daemon, dirty, counters>>

\* The server does not advertise IDLE.
IdleUnsupported(i) ==
  /\ task[i].pc = "connect"
  /\ task' = [task EXCEPT ![i] = [@ EXCEPT !.pc = "boot", !.mode = "poll"]]
  /\ UNCHANGED <<daemon, pub, dirty, counters>>

\* The wait ends: new data or the cancel token, or idle_timeout.
IdleNotified(i) ==
  /\ task[i].pc = "wait" /\ (task[i].news \/ task[i].cancel)
  /\ Goto(i, "finish")
  /\ UNCHANGED <<daemon, dirty, counters>>

Mutant_IdleTimeout(i) == FALSE /\ UNCHANGED vars
IdleTimeout(i) ==
  /\ task[i].pc = "wait"
  /\ Goto(i, "finish")
  /\ UNCHANGED <<daemon, dirty, counters>>

\* idle.done() and logout(): without a deadline.
IdleDone(i) ==
  /\ task[i].pc = "finish"
  /\ task' = [task EXCEPT ![i] = [@ EXCEPT !.pc = IF task[i].cancel THEN "done" ELSE "top",
                                           !.backoff = InitialBackoff]]
  /\ UNCHANGED <<daemon, pub, dirty, counters>>

TaskStep(i) ==
  \/ Boot(i) \/ Top(i) \/ Cancelled(i) \/ Resolve(i) \/ FetchMail(i) \/ StoreMail(i)
  \/ StepFails(i) \/ AuthFails(i) \/ PollAgain(i) \/ RetryAgain(i) \/ LookupAccount(i)
  \/ IdleConnect(i) \/ IdleUnsupported(i) \/ IdleNotified(i) \/ IdleTimeout(i)

-----------------------------------------------------------------------------
(* Requests and the manager.                                               *)

NewTask(k, mode, pc) ==
  [key |-> k, mode |-> mode, pc |-> pc, told |-> FALSE, cancel |-> FALSE,
   backoff |-> InitialBackoff, news |-> FALSE]

Spawn(k, mode, pc, s) ==
  /\ spawned < server.tasks /\ spawned' = spawned + 1
  /\ task' = [task EXCEPT ![spawned'] = NewTask(k, mode, pc)]
  /\ pub' = [pub EXCEPT ![AccountOf[k]] = s]

\* WorkerManager::start.  The account was looked up before, and may be gone.
Mutant_StartSync(k) ==
  /\ main # "down"
  /\ Spawn(k, IF HasIdle THEN "idle" ELSE "poll", "boot", "calm")
  /\ workers' = [workers EXCEPT ![k] = spawned']
  /\ UNCHANGED <<joining, mine, main, exists, dirty, counters>>
StartSync(k) ==
  /\ main # "down"
  /\ workers[k] # 0 => ~Running(workers[k])
  /\ Spawn(k, IF HasIdle THEN "idle" ELSE "poll", "boot", "calm")
  /\ workers' = [workers EXCEPT ![k] = spawned']
  /\ UNCHANGED <<joining, mine, main, exists, dirty, counters>>

\* WorkerManager::stop up to its join.
StopSync(k) ==
  /\ main # "down" /\ workers[k] # 0
  /\ task' = [task EXCEPT ![workers[k]] = [@ EXCEPT !.cancel = TRUE]]
  /\ workers' = [workers EXCEPT ![k] = 0]
  /\ joining' = joining \cup {workers[k]}
  /\ UNCHANGED <<spawned, mine, main, exists, pub, dirty, counters>>

\* await_worker: the task has ended, or WORKER_JOIN_TIMEOUT and abort().
JoinReturns(i) ==
  /\ i \in joining /\ ~Running(i)
  /\ joining' = joining \ {i}
  /\ UNCHANGED <<workers, task, spawned, mine, main, exists, pub, dirty, counters>>

Mutant_JoinNoDeadline(i) == FALSE /\ UNCHANGED vars
JoinTimeout(i) ==
  /\ i \in joining /\ Running(i)
  /\ joining' = joining \ {i}
  /\ task' = [task EXCEPT ![i] = [@ EXCEPT !.pc = "aborted"]]
  /\ UNCHANGED <<workers, spawned, mine, main, exists, pub, dirty, counters>>

\* The connection of the request closes and its handler is aborted: of a stop
\* while it joins, of a manual sync anywhere.
StopAborted(i) ==
  /\ i \in joining \ mine
  /\ joining' = joining \ {i}
  /\ UNCHANGED <<workers, task, spawned, mine, main, exists, pub, dirty, counters>>
ManualAborted(i) ==
  /\ Running(i) /\ ~Worker(i)
  /\ Goto(i, "aborted")
  /\ UNCHANGED <<daemon, dirty, counters>>

\* account.sync_folder, from its transition to Syncing.
ManualSync(k) ==
  /\ main # "down" /\ AccountOf[k] \in exists
  /\ Spawn(k, "manual", "reconcile", "syncing")
  /\ UNCHANGED <<workers, joining, mine, main, exists, dirty, counters>>

\* account.delete does not stop the account's workers.
DeleteAccount(a) ==
  /\ main # "down" /\ a \in exists \cap server.deleted
  /\ exists' = exists \ {a}
  /\ UNCHANGED <<workers, task, spawned, joining, mine, main, pub, dirty, counters>>

\* WorkerManager::stop_all: drain the map, cancel everyone, join one by one.
Registered == {workers[k] : k \in Keys} \ {0}
StopAll ==
  /\ main = "running"
  /\ main' = "joining"
  /\ task' = [i \in Tasks |-> IF i \in Registered THEN [task[i] EXCEPT !.cancel = TRUE]
                                                  ELSE task[i]]
  /\ workers' = [k \in Keys |-> 0]
  /\ mine' = Registered /\ joining' = joining \cup Registered
  /\ UNCHANGED <<spawned, exists, pub, dirty, counters>>

StopAllReturns ==
  /\ main = "joining" /\ mine \cap joining = {}
  /\ main' = "stopped"
  /\ UNCHANGED <<workers, task, spawned, joining, mine, exists, pub, dirty, counters>>

\* server.shutdown() aborts the handlers, and main returns: no task survives.
Exit ==
  /\ main = "stopped"
  /\ main' = "down" /\ joining' = {}
  /\ task' = [i \in Tasks |-> IF Running(i) THEN [task[i] EXCEPT !.pc = "aborted"] ELSE task[i]]
  /\ UNCHANGED <<workers, spawned, mine, exists, pub, dirty, counters>>

\* Mail arrives in the folder of k.
MailArrives(k) ==
  /\ mails < server.mails /\ mails' = mails + 1
  /\ dirty' = dirty \cup {k}
  /\ task' = [i \in Tasks |-> IF task[i].key = k /\ task[i].pc \in {"store", "wait"}
                                 THEN [task[i] EXCEPT !.news = TRUE] ELSE task[i]]
  /\ UNCHANGED <<daemon, pub, failures, server>>

-----------------------------------------------------------------------------
Init ==
  /\ workers = [k \in Keys |-> 0] /\ spawned = 0
  /\ task = [i \in Tasks |-> NewTask(CHOOSE k \in Keys : TRUE, "manual", "unborn")]
  /\ joining = {} /\ mine = {} /\ main = "running"
  /\ exists = Accounts /\ pub = [a \in Accounts |-> "calm"]
  /\ dirty = {} /\ failures = 0 /\ mails = 0 /\ server \in Servers

Next ==
  \/ \E i \in Tasks : \/ TaskStep(i) \/ IdleDone(i)
                      \/ JoinReturns(i) \/ JoinTimeout(i)
                      \/ StopAborted(i) \/ ManualAborted(i)
  \/ \E k \in Keys : StartSync(k) \/ StopSync(k) \/ ManualSync(k) \/ MailArrives(k)
  \/ \E a \in Accounts : DeleteAccount(a)
  \/ StopAll \/ StopAllReturns \/ Exit

Spec == Init /\ [][Next]_vars

\* Tasks are scheduled, sleeps and timeouts end, and network phases end or time
\* out.  A silent server need not answer DONE and LOGOUT.
FairSpec ==
  /\ Spec
  /\ \A i \in Tasks : /\ WF_vars(TaskStep(i))
                      /\ WF_vars(~server.silent /\ IdleDone(i))
                      /\ WF_vars(JoinReturns(i) \/ JoinTimeout(i))
  /\ WF_vars(StopAllReturns) /\ WF_vars(Exit)

-----------------------------------------------------------------------------
(* Properties.                                                             *)

\* Types; the backoff of a worker stays within its configuration.
TypeOK ==
  /\ workers \in [Keys -> 0..spawned] /\ spawned \in 0..MaxTasks
  /\ task \in [Tasks -> Task]
  /\ joining \subseteq 1..spawned /\ mine \subseteq 1..spawned
  /\ main \in {"running", "joining", "stopped", "down"}
  /\ exists \subseteq Accounts /\ pub \in [Accounts -> States] /\ dirty \subseteq Keys
  /\ failures \in 0..server.failures /\ mails \in 0..server.mails /\ server \in Servers

\* The manager loses no worker: one that runs and was not told to stop is the
\* one registered for its key, so that stop and stop_all reach it and at most
\* one per key is active.
NoOrphan ==
  \A i \in Tasks : Running(i) /\ Worker(i) /\ ~task[i].cancel => workers[task[i].key] = i

\* A worker that gives up by itself has said so: its last sync.state is an
\* error, unless its account was deleted.
NoSilentDeath ==
  \A i \in Tasks : task[i].pc = "done" /\ Worker(i) /\ ~task[i].cancel =>
                     task[i].told \/ Account(i) \notin exists

\* New mail is stored as long as the folder's worker and account live, also mail
\* that arrives between the last fetch and the start of IDLE.  (A server that
\* never answers the DONE of an IDLE can hold its worker up.)
Active(k) == workers[k] # 0 /\ Running(workers[k])
NewMailSynced ==
  \A k \in Keys : (k \in dirty /\ Active(k))
                     ~> (k \notin dirty \/ ~Active(k) \/ AccountOf[k] \notin exists \/ server.silent)

\* Shutdown terminates, also if a server is silent.
ShutdownCompletes == (main = "joining") ~> (main = "down")

\* No two workers run for the same key.
OneRunning ==
  \A i, j \in Tasks : Running(i) /\ Running(j) /\ Worker(i) /\ Worker(j)
                        /\ task[i].key = task[j].key => i = j

\* When stop_all has returned, the manager is empty.
ManagerEmptied == main = "stopped" => \A k \in Keys : workers[k] = 0

\* An account that is shown as syncing is being reconciled.
SyncingIsTrue ==
  \A a \in Accounts : pub[a] = "syncing" =>
    \E i \in Tasks : Account(i) = a /\ task[i].pc \in {"reconcile", "store"}
=============================================================================
