--------------------------- MODULE SyncWorkersProofs ---------------------------
(* Proofs about SyncWorkers, for every set of accounts and folders, every   *)
(* number of tasks and every kind of server.                                *)
EXTENDS SyncWorkers, TLAPS

\* A manual sync only reconciles: it has no loop and never waits.
ManualPcs == {"unborn", "reconcile", "store", "done", "aborted"}
ManualPath == \A i \in Tasks : ~Worker(i) => task[i].pc \in ManualPcs

\* The inductive invariant.  NoOrphan and NoSilentDeath speak of workers: they
\* need that no step makes a worker of a manual sync.
IInv == TypeOK /\ ManualPath /\ NoOrphan /\ NoSilentDeath

\* What every step of a task itself keeps: r is the task's next record.
Follows(i, r) ==
  /\ r \in Task /\ r.key = task[i].key /\ r.cancel = task[i].cancel
  /\ (r.mode = "manual") <=> (task[i].mode = "manual")
  /\ Running(i)
  /\ r.mode = "manual" => r.pc \in ManualPcs
  /\ r.mode # "manual" /\ r.pc = "done" /\ ~r.cancel => r.told \/ Account(i) \notin exists

USE DEF Pcs, Ended, States, ManualPcs

-----------------------------------------------------------------------------
(* Lemmas.                                                                 *)

\* The initial state satisfies the invariant.
LEMMA InitIInv == Init => IInv
<1> SUFFICES ASSUME Init PROVE IInv
  OBVIOUS
<1>1. (CHOOSE k \in Keys : TRUE) \in Keys
  BY ConstantsAssumption
<1>2. task \in [Tasks -> Task]
  BY <1>1, ConstantsAssumption DEF Init, NewTask, Task
<1>3. server \in Servers /\ server.failures \in Nat /\ server.mails \in Nat
  BY ConstantsAssumption DEF Init, Server
<1>4. TypeOK
  BY <1>2, <1>3, ConstantsAssumption DEF Init, TypeOK
<1>5. \A i \in Tasks : task[i].pc = "unborn"
  BY DEF Init, NewTask
<1> QED
  BY <1>4, <1>5 DEF IInv, ManualPath, NoOrphan, NoSilentDeath, Running

\* Every record that a step of a task may assign is a task's record.
LEMMA RecordTypes ==
  ASSUME NEW t \in Task, NEW l \in Pcs
  PROVE  /\ [t EXCEPT !.pc = l] \in Task
         /\ [t EXCEPT !.pc = l, !.news = FALSE] \in Task
         /\ \A b \in BOOLEAN : [t EXCEPT !.pc = l, !.news = FALSE, !.told = b] \in Task
         /\ [t EXCEPT !.pc = l, !.told = FALSE, !.backoff = InitialBackoff] \in Task
         /\ [t EXCEPT !.pc = l, !.news = FALSE, !.backoff = InitialBackoff] \in Task
         /\ [t EXCEPT !.pc = l, !.news = FALSE, !.told = FALSE,
                      !.backoff = InitialBackoff] \in Task
         /\ [t EXCEPT !.pc = l, !.backoff = InitialBackoff] \in Task
         /\ [t EXCEPT !.pc = l, !.backoff = next_backoff(t.backoff)] \in Task
         /\ [t EXCEPT !.pc = l, !.mode = "poll"] \in Task
         /\ [t EXCEPT !.cancel = TRUE] \in Task
         /\ [t EXCEPT !.news = TRUE] \in Task
<1>1. InitialBackoff \in InitialBackoff..MaxBackoff
  BY ConstantsAssumption
<1>2. next_backoff(t.backoff) \in InitialBackoff..MaxBackoff
  BY ConstantsAssumption DEF next_backoff, Task
<1>3. [t EXCEPT !.pc = l] \in Task
  BY <1>1, <1>2 DEF Task
<1>4. [t EXCEPT !.pc = l, !.news = FALSE] \in Task
  BY <1>1, <1>2 DEF Task
<1>5. \A b \in BOOLEAN : [t EXCEPT !.pc = l, !.news = FALSE, !.told = b] \in Task
  BY <1>1, <1>2 DEF Task
<1>6. [t EXCEPT !.pc = l, !.told = FALSE, !.backoff = InitialBackoff] \in Task
  BY <1>1, <1>2 DEF Task
<1>7. [t EXCEPT !.pc = l, !.news = FALSE, !.backoff = InitialBackoff] \in Task
  BY <1>1, <1>2 DEF Task
<1>8. [t EXCEPT !.pc = l, !.news = FALSE, !.told = FALSE, !.backoff = InitialBackoff] \in Task
  BY <1>1, <1>2 DEF Task
<1>9. [t EXCEPT !.pc = l, !.backoff = InitialBackoff] \in Task
  BY <1>1, <1>2 DEF Task
<1>10. [t EXCEPT !.pc = l, !.backoff = next_backoff(t.backoff)] \in Task
  BY <1>1, <1>2 DEF Task
<1>11. [t EXCEPT !.pc = l, !.mode = "poll"] \in Task
  BY <1>1, <1>2 DEF Task
<1>12. [t EXCEPT !.cancel = TRUE] \in Task
  BY <1>1, <1>2 DEF Task
<1>13. [t EXCEPT !.news = TRUE] \in Task
  BY <1>1, <1>2 DEF Task
<1> QED
  BY <1>3, <1>4, <1>5, <1>6, <1>7, <1>8, <1>9, <1>10, <1>11, <1>12, <1>13

\* A step that gives one task a record that follows its own keeps the invariant.
LEMMA StepKeeps ==
  ASSUME IInv, NEW i \in Tasks, NEW r, Follows(i, r),
         task' = [task EXCEPT ![i] = r], UNCHANGED <<workers, exists>>
  PROVE  task' \in [Tasks -> Task] /\ ManualPath' /\ NoOrphan' /\ NoSilentDeath'
<1>1. task' \in [Tasks -> Task] /\ task'[i] = r /\ \A j \in Tasks \ {i} : task'[j] = task[j]
  BY DEF IInv, TypeOK, Follows
<1>2. ManualPath'
  BY <1>1 DEF IInv, ManualPath, Follows, Worker
<1>3. NoOrphan'
  BY <1>1 DEF IInv, NoOrphan, Follows, Worker, Running
<1>4. NoSilentDeath'
  BY <1>1 DEF IInv, NoSilentDeath, Follows, Worker, Account
<1> QED
  BY <1>1, <1>2, <1>3, <1>4

\* Every step of a task gives it a record that follows the one it had.
LEMMA TaskStepFollows ==
  ASSUME IInv, NEW i \in Tasks, TaskStep(i) \/ IdleDone(i)
  PROVE  \E r : Follows(i, r) /\ task' = [task EXCEPT ![i] = r]
<1> DEFINE t == task[i]
<1>1. /\ t \in Task /\ t.pc \in Pcs /\ t.mode \in {"idle", "poll", "manual"}
      /\ t.mode = "manual" => t.pc \in ManualPcs
  BY DEF IInv, TypeOK, ManualPath, Worker, Task
<1>2. ASSUME NEW l \in Pcs, Goto(i, l), Running(i), t.mode = "manual" => l \in ManualPcs,
             l = "done" => t.cancel \/ Account(i) \notin exists
      PROVE  \E r : Follows(i, r) /\ task' = [task EXCEPT ![i] = r]
  <2> DEFINE r == [t EXCEPT !.pc = l, !.news = FALSE]
  <2>1. r \in Task
    BY ZenonT(60), <1>1, RecordTypes
  <2>2. r.key = t.key /\ r.cancel = t.cancel /\ r.mode = t.mode /\ r.pc = l
    BY <1>1 DEF Task
  <2>3. Follows(i, r)
    BY <1>2, <2>1, <2>2 DEF Follows
  <2> QED
    BY <1>2, <2>3 DEF Goto
<1>3. ASSUME NEW l \in Pcs, NEW s \in States, Report(i, l, s), Running(i),
             t.mode = "manual" => l \in ManualPcs,
             l = "done" /\ t.mode # "manual" => s = "error"
      PROVE  \E r : Follows(i, r) /\ task' = [task EXCEPT ![i] = r]
  <2> DEFINE b == s = "error"
             r == [t EXCEPT !.pc = l, !.news = FALSE, !.told = b]
  <2>1. r \in Task
    <3>1. b \in BOOLEAN
      OBVIOUS
    <3> HIDE DEF b
    <3> QED BY ZenonT(60), <1>1, <3>1, RecordTypes
  <2>2. /\ r.key = t.key /\ r.cancel = t.cancel /\ r.mode = t.mode /\ r.pc = l
        /\ s = "error" => r.told
    BY <1>1 DEF Task
  <2>3. Follows(i, r)
    BY <1>3, <2>1, <2>2 DEF Follows
  <2> QED
    BY <1>3, <2>3 DEF Report
<1>4. CASE Boot(i)
  <2> DEFINE r == [t EXCEPT !.pc = "top", !.told = FALSE, !.backoff = InitialBackoff]
  <2>1. r \in Task
    BY <1>1, RecordTypes
  <2>2. r.key = t.key /\ r.cancel = t.cancel /\ r.mode = t.mode /\ r.pc = "top"
    BY <1>1 DEF Task
  <2> QED
    BY <1>1, <1>4, <2>1, <2>2 DEF Boot, Follows, Running
<1>5. CASE Top(i) \/ Cancelled(i) \/ FetchMail(i) \/ PollAgain(i) \/ IdleConnect(i)
           \/ IdleNotified(i) \/ IdleTimeout(i)
  BY <1>1, <1>2, <1>5 DEF Top, Cancelled, FetchMail, PollAgain, IdleConnect, IdleNotified,
                          IdleTimeout, Running
<1>6. CASE Resolve(i) \/ StepFails(i) \/ AuthFails(i)
  BY <1>1, <1>3, <1>6 DEF Resolve, StepFails, AuthFails, Retry, Running, Worker
<1>7. CASE LookupAccount(i)
  BY <1>1, <1>2, <1>3, <1>7 DEF LookupAccount, Running
<1>8. CASE StoreMail(i)
  <2>1. CASE t.mode = "idle"
    <3> DEFINE r == [t EXCEPT !.pc = "lookup", !.news = FALSE, !.backoff = InitialBackoff]
    <3>1. r \in Task
      BY <1>1, RecordTypes
    <3>2. r.key = t.key /\ r.cancel = t.cancel /\ r.mode = t.mode /\ r.pc = "lookup"
      BY <1>1 DEF Task
    <3> QED
      BY <1>8, <2>1, <3>1, <3>2 DEF StoreMail, Follows, Running
  <2>2. CASE t.mode = "poll"
    <3> DEFINE r == [t EXCEPT !.pc = "sleep", !.news = FALSE, !.told = FALSE,
                              !.backoff = InitialBackoff]
    <3>1. r \in Task
      BY <1>1, RecordTypes
    <3>2. r.key = t.key /\ r.cancel = t.cancel /\ r.mode = t.mode /\ r.pc = "sleep"
      BY <1>1 DEF Task
    <3> QED
      BY <1>8, <2>2, <3>1, <3>2 DEF StoreMail, Follows, Running
  <2>3. CASE t.mode = "manual"
    BY <1>3, <1>8, <2>3 DEF StoreMail, Running
  <2> QED
    BY <1>1, <2>1, <2>2, <2>3
<1>9. CASE RetryAgain(i)
  <2> DEFINE r == [t EXCEPT !.pc = "top", !.backoff = next_backoff(t.backoff)]
  <2>1. r \in Task
    BY <1>1, RecordTypes
  <2>2. r.key = t.key /\ r.cancel = t.cancel /\ r.mode = t.mode /\ r.pc = "top"
    BY <1>1 DEF Task
  <2>3. Follows(i, r)
    BY <1>1, <1>9, <2>1, <2>2 DEF RetryAgain, Follows, Running
  <2>4. task' = [task EXCEPT ![i] = r]
    BY <1>9, Zenon DEF RetryAgain
  <2> QED
    BY <2>3, <2>4
<1>10. CASE IdleUnsupported(i)
  <2> DEFINE r == [t EXCEPT !.pc = "boot", !.mode = "poll"]
  <2>1. r \in Task
    BY <1>1, RecordTypes
  <2>2. r.key = t.key /\ r.cancel = t.cancel /\ r.mode = "poll" /\ r.pc = "boot"
    BY <1>1 DEF Task
  <2> QED
    BY <1>1, <1>10, <2>1, <2>2 DEF IdleUnsupported, Follows, Running
<1>11. CASE IdleDone(i)
  <2> DEFINE l == IF t.cancel THEN "done" ELSE "top"
             r == [t EXCEPT !.pc = l, !.backoff = InitialBackoff]
  <2>1. r \in Task
    BY <1>1, RecordTypes
  <2>2. r.key = t.key /\ r.cancel = t.cancel /\ r.mode = t.mode /\ r.pc = l
    BY <1>1 DEF Task
  <2>3. Follows(i, r)
    BY <1>1, <1>11, <2>1, <2>2 DEF IdleDone, Follows, Running
  <2>4. task' = [task EXCEPT ![i] = r]
    BY <1>11, Zenon DEF IdleDone
  <2> QED
    BY <2>3, <2>4
<1> QED
  BY <1>4, <1>5, <1>6, <1>7, <1>8, <1>9, <1>10, <1>11 DEF TaskStep

\* A step of a task keeps the invariant.
LEMMA TaskStepKeeps ==
  ASSUME IInv, NEW i \in Tasks, TaskStep(i) \/ IdleDone(i)
  PROVE  IInv'
<1> USE DEF TaskStep, Boot, Top, Cancelled, Resolve, FetchMail, StoreMail, StepFails, AuthFails,
            PollAgain, RetryAgain, LookupAccount, IdleConnect, IdleUnsupported, IdleNotified,
            IdleTimeout, IdleDone
<1>1. UNCHANGED <<daemon, mails, server>>
  BY DEF counters
<1>2. dirty' \subseteq Keys
  BY DEF IInv, TypeOK
<1>3. failures' \in 0..server.failures
  <2>1. server.failures \in Nat
    BY ConstantsAssumption DEF IInv, TypeOK, Server
  <2> QED BY <2>1 DEF IInv, TypeOK, counters, MayFail
<1>4. pub' \in [Accounts -> States]
  <2>1. pub \in [Accounts -> States] /\ AccountOf[task[i].key] \in Accounts
    BY ConstantsAssumption DEF IInv, TypeOK, Task
  <2>2. pub' = pub \/ \E s \in States : pub' = [pub EXCEPT ![AccountOf[task[i].key]] = s]
    BY DEF Goto, Report, Retry, Account
  <2> QED BY <2>1, <2>2
<1> USE DEF daemon
<1>5. task' \in [Tasks -> Task] /\ ManualPath' /\ NoOrphan' /\ NoSilentDeath'
  <2> PICK r : Follows(i, r) /\ task' = [task EXCEPT ![i] = r]
    BY TaskStepFollows
  <2> QED BY <1>1, StepKeeps
<1> QED
  BY <1>1, <1>2, <1>3, <1>4, <1>5 DEF IInv, TypeOK

\* A new task: what an action that spawns one does.
LEMMA SpawnKeeps ==
  ASSUME IInv, NEW k \in Keys, NEW mode \in {"idle", "poll", "manual"}, NEW pc \in Pcs,
         NEW s \in States, Spawn(k, mode, pc, s)
  PROVE  /\ spawned' = spawned + 1 /\ spawned' \in Tasks
         /\ task' \in [Tasks -> Task] /\ pub' \in [Accounts -> States]
         /\ task'[spawned'] = NewTask(k, mode, pc)
         /\ \A j \in Tasks \ {spawned'} : task'[j] = task[j]
<1>1. server.tasks \in 1..MaxTasks
  BY ConstantsAssumption DEF IInv, TypeOK, Server, Tasks
<1>2. spawned' = spawned + 1 /\ spawned' \in Tasks
  BY <1>1, ConstantsAssumption DEF Spawn, IInv, TypeOK, Tasks
<1>3. NewTask(k, mode, pc) \in Task
  BY ConstantsAssumption DEF NewTask, Task
<1> QED
  BY <1>2, <1>3, ConstantsAssumption DEF Spawn, IInv, TypeOK

\* The invariant is inductive.
LEMMA NextIInv == IInv /\ [Next]_vars => IInv'
<1> SUFFICES ASSUME IInv, [Next]_vars PROVE IInv'
  OBVIOUS
<1>t. \A j \in Tasks : task[j] \in Task
  BY DEF IInv, TypeOK
<1>w. \A k \in Keys : workers[k] # 0 => workers[k] \in Tasks
  BY ConstantsAssumption DEF IInv, TypeOK, Tasks
<1>1. ASSUME NEW i \in Tasks, TaskStep(i) \/ IdleDone(i) PROVE IInv'
  BY <1>1, TaskStepKeeps
<1>2. ASSUME NEW i \in Tasks, JoinReturns(i) \/ StopAborted(i) PROVE IInv'
  BY <1>2 DEF IInv, TypeOK, ManualPath, NoOrphan, NoSilentDeath, Running, Worker, Account,
              JoinReturns, StopAborted, counters
<1>3. ASSUME NEW i \in Tasks, JoinTimeout(i) \/ ManualAborted(i) PROVE IInv'
  <2> DEFINE ended(r) == /\ Follows(i, r) /\ task' = [task EXCEPT ![i] = r]
  <2>1. task[i] \in Task
    BY <1>t
  <2>2. \E r : ended(r)
    <3>1. CASE JoinTimeout(i)
      <4> DEFINE r == [task[i] EXCEPT !.pc = "aborted"]
      <4>1. r \in Task
        BY <2>1, RecordTypes
      <4>2. /\ r.key = task[i].key /\ r.cancel = task[i].cancel
            /\ r.mode = task[i].mode /\ r.pc = "aborted"
        BY <2>1 DEF Task
      <4> QED BY <3>1, <4>1, <4>2 DEF JoinTimeout, Follows
    <3>2. CASE ManualAborted(i)
      <4> DEFINE r == [task[i] EXCEPT !.pc = "aborted", !.news = FALSE]
      <4>1. r \in Task
        BY <2>1, RecordTypes
      <4>2. /\ r.key = task[i].key /\ r.cancel = task[i].cancel
            /\ r.mode = task[i].mode /\ r.pc = "aborted"
        BY <2>1 DEF Task
      <4> QED BY <3>2, <4>1, <4>2 DEF ManualAborted, Goto, Follows
    <3> QED BY <1>3, <3>1, <3>2
  <2>3. /\ UNCHANGED <<workers, spawned, mine, main, exists, pub, dirty, failures, mails, server>>
        /\ joining' \subseteq joining
    BY <1>3 DEF JoinTimeout, ManualAborted, Goto, daemon, counters
  <2>4. task' \in [Tasks -> Task] /\ ManualPath' /\ NoOrphan' /\ NoSilentDeath'
    BY <2>2, <2>3, StepKeeps
  <2> QED BY <2>3, <2>4 DEF IInv, TypeOK
<1>4. ASSUME NEW k \in Keys, StartSync(k) PROVE IInv'
  <2> DEFINE mode == IF HasIdle THEN "idle" ELSE "poll"
  <2>1. mode \in {"idle", "poll", "manual"} /\ mode # "manual" /\ Spawn(k, mode, "boot", "calm")
    BY <1>4 DEF StartSync
  <2> HIDE DEF mode
  <2>2. /\ spawned' = spawned + 1 /\ spawned' \in Tasks
        /\ task' \in [Tasks -> Task] /\ pub' \in [Accounts -> States]
        /\ task'[spawned'] = NewTask(k, mode, "boot")
        /\ \A j \in Tasks \ {spawned'} : task'[j] = task[j]
    BY <2>1, SpawnKeeps
  <2>3. TypeOK'
    BY <1>4, <2>2, ConstantsAssumption DEF StartSync, IInv, TypeOK, Tasks, counters
  <2>4. ManualPath' /\ NoSilentDeath'
    BY <1>4, <2>1, <2>2 DEF StartSync, IInv, ManualPath, NoSilentDeath, NewTask, Worker, Account
  <2>5. NoOrphan'
    <3>1. /\ workers[k] # 0 => ~Running(workers[k])
          /\ workers' = [workers EXCEPT ![k] = spawned'] /\ workers \in [Keys -> 0..spawned]
      BY <1>4 DEF StartSync, IInv, TypeOK
    <3>2. SUFFICES ASSUME NEW j \in Tasks, (Running(j) /\ Worker(j) /\ ~task[j].cancel)'
                   PROVE  workers'[task'[j].key] = j
      BY DEF NoOrphan
    <3>3. CASE j = spawned'
      BY <2>2, <3>1, <3>3 DEF NewTask
    <3>4. CASE j # spawned'
      <4>1. task'[j] = task[j] /\ j # 0 /\ task[j].key \in Keys
        BY <1>t, <2>2, <3>4 DEF Tasks, Task
      <4>2. Running(j) /\ workers[task[j].key] = j
        BY <3>2, <4>1 DEF IInv, NoOrphan, Running, Worker
      <4> QED BY <3>1, <4>1, <4>2
    <3> QED BY <3>3, <3>4
  <2> QED BY <2>3, <2>4, <2>5 DEF IInv
<1>5. ASSUME NEW k \in Keys, ManualSync(k) PROVE IInv'
  <2>1. /\ spawned' = spawned + 1 /\ spawned' \in Tasks
        /\ task' \in [Tasks -> Task] /\ pub' \in [Accounts -> States]
        /\ task'[spawned'] = NewTask(k, "manual", "reconcile")
        /\ \A j \in Tasks \ {spawned'} : task'[j] = task[j]
    BY <1>5, SpawnKeeps DEF ManualSync
  <2>2. TypeOK'
    BY <1>5, <2>1, ConstantsAssumption DEF ManualSync, IInv, TypeOK, Tasks, counters
  <2>3. ManualPath' /\ NoSilentDeath' /\ NoOrphan'
    BY <1>5, <2>1 DEF ManualSync, IInv, ManualPath, NoSilentDeath, NoOrphan, NewTask, Worker,
                      Account, Running
  <2> QED BY <2>2, <2>3 DEF IInv
<1>6. ASSUME NEW C \in SUBSET Tasks,
             \A j \in Tasks : task'[j] = IF j \in C THEN [task[j] EXCEPT !.cancel = TRUE]
                                                     ELSE task[j],
             task' = [j \in Tasks |-> task'[j]],
             \A k \in Keys : workers'[k] = workers[k] \/ workers[k] \in C,
             UNCHANGED exists
      PROVE  task' \in [Tasks -> Task] /\ ManualPath' /\ NoOrphan' /\ NoSilentDeath'
  <2>1. \A j \in Tasks : /\ task'[j] \in Task /\ task'[j].key = task[j].key
                         /\ task'[j].mode = task[j].mode /\ task'[j].pc = task[j].pc
                         /\ task'[j].told = task[j].told
                         /\ task'[j].cancel <=> (task[j].cancel \/ j \in C)
    <3> TAKE j \in Tasks
    <3>1. task[j] \in Task
      BY <1>t
    <3>2. CASE j \in C
      <4>1. task'[j] = [task[j] EXCEPT !.cancel = TRUE]
        BY <1>6, <3>2
      <4>2. task'[j] \in Task
        BY <3>1, <4>1, RecordTypes
      <4> QED BY <3>1, <3>2, <4>1, <4>2 DEF Task
    <3>3. CASE j \notin C
      BY <1>6, <3>1, <3>3
    <3> QED BY <3>2, <3>3
  <2> QED BY <1>6, <2>1 DEF IInv, ManualPath, NoOrphan, NoSilentDeath, Running, Worker, Account, Task
<1>7. ASSUME NEW k \in Keys, StopSync(k) PROVE IInv'
  <2> DEFINE C == {workers[k]}
  <2>1. C \in SUBSET Tasks /\ workers[k] \in 1..spawned
    BY <1>7, <1>w DEF StopSync, IInv, TypeOK
  <2>2. /\ \A j \in Tasks : task'[j] = IF j \in C THEN [task[j] EXCEPT !.cancel = TRUE] ELSE task[j]
        /\ task' = [j \in Tasks |-> task'[j]]
    BY <1>7, <2>1 DEF StopSync, IInv, TypeOK
  <2>3. \A l \in Keys : workers'[l] = workers[l] \/ workers[l] \in C
    BY <1>7 DEF StopSync, IInv, TypeOK
  <2>4. task' \in [Tasks -> Task] /\ ManualPath' /\ NoOrphan' /\ NoSilentDeath'
    <3> HIDE DEF C
    <3> QED BY <1>6, <1>7, <2>1, <2>2, <2>3 DEF StopSync
  <2> QED BY <1>7, <2>1, <2>4 DEF StopSync, IInv, TypeOK, counters
<1>8. CASE StopAll
  <2>1. Registered \in SUBSET Tasks /\ Registered \subseteq 1..spawned
    BY <1>w DEF Registered, IInv, TypeOK
  <2>2. /\ \A j \in Tasks : task'[j] = IF j \in Registered THEN [task[j] EXCEPT !.cancel = TRUE]
                                                           ELSE task[j]
        /\ task' = [j \in Tasks |-> task'[j]]
    BY <1>8 DEF StopAll
  <2>3. \A l \in Keys : workers'[l] = workers[l] \/ workers[l] \in Registered
    BY <1>8 DEF StopAll, Registered
  <2>4. task' \in [Tasks -> Task] /\ ManualPath' /\ NoOrphan' /\ NoSilentDeath'
    BY <1>6, <1>8, <2>1, <2>2, <2>3 DEF StopAll
  <2> QED BY <1>8, <2>1, <2>4 DEF StopAll, IInv, TypeOK, counters
<1>9. ASSUME NEW k \in Keys, MailArrives(k) PROVE IInv'
  <2>1. \A j \in Tasks : /\ task'[j] \in Task /\ task'[j].key = task[j].key
                         /\ task'[j].mode = task[j].mode /\ task'[j].pc = task[j].pc
                         /\ task'[j].told = task[j].told /\ task'[j].cancel = task[j].cancel
    <3> TAKE j \in Tasks
    <3>1. task[j] \in Task
      BY <1>t
    <3>2. CASE task'[j] = task[j]
      BY <3>1, <3>2
    <3>3. CASE task'[j] = [task[j] EXCEPT !.news = TRUE]
      <4>1. task'[j] \in Task
        BY <3>1, <3>3, RecordTypes
      <4> QED BY <3>1, <3>3, <4>1 DEF Task
    <3> QED BY <1>9, <3>2, <3>3 DEF MailArrives
  <2>2. task' \in [Tasks -> Task]
    BY <1>9, <2>1 DEF MailArrives
  <2>3. ManualPath' /\ NoOrphan' /\ NoSilentDeath'
    BY <1>9, <2>1 DEF MailArrives, daemon, IInv, ManualPath, NoOrphan, NoSilentDeath, Running,
                      Worker, Account
  <2>4. server.mails \in Nat
    BY ConstantsAssumption DEF IInv, TypeOK, Server
  <2> QED BY <1>9, <2>2, <2>3, <2>4 DEF MailArrives, daemon, IInv, TypeOK
<1>10. CASE StopAllReturns \/ \E a \in Accounts : DeleteAccount(a)
  BY <1>10 DEF IInv, TypeOK, ManualPath, NoOrphan, NoSilentDeath, Running, Worker, Account,
               StopAllReturns, DeleteAccount, counters
<1>11. CASE Exit
  <2>1. \A j \in Tasks : /\ task'[j] \in Task /\ task'[j].key = task[j].key
                         /\ task'[j].mode = task[j].mode /\ ~Running(j)'
                         /\ task'[j].told = task[j].told /\ task'[j].cancel = task[j].cancel
                         /\ task'[j].pc = task[j].pc \/ task'[j].pc = "aborted"
    <3> TAKE j \in Tasks
    <3>1. task[j] \in Task
      BY <1>t
    <3>2. CASE ~Running(j)
      BY <1>11, <3>1, <3>2 DEF Exit, Running
    <3>3. CASE Running(j)
      <4>1. task'[j] = [task[j] EXCEPT !.pc = "aborted"]
        BY <1>11, <3>3 DEF Exit
      <4>2. task'[j] \in Task
        BY <3>1, <4>1, RecordTypes
      <4> QED BY <3>1, <4>1, <4>2 DEF Task, Running
    <3> QED BY <3>2, <3>3
  <2>2. task' \in [Tasks -> Task]
    BY <1>11, <2>1 DEF Exit
  <2>3. ManualPath' /\ NoOrphan' /\ NoSilentDeath'
    BY <1>11, <2>1 DEF Exit, IInv, ManualPath, NoOrphan, NoSilentDeath, Running, Worker,
                  Account
  <2> QED BY <1>11, <2>2, <2>3 DEF Exit, IInv, TypeOK, counters
<1>12. CASE UNCHANGED vars
  BY <1>12 DEF IInv, TypeOK, ManualPath, NoOrphan, NoSilentDeath, Running, Worker, Account,
               vars, daemon, counters
<1> QED
  BY <1>1, <1>2, <1>3, <1>4, <1>5, <1>7, <1>8, <1>9, <1>10, <1>11, <1>12 DEF Next

-----------------------------------------------------------------------------
(* Theorems.                                                               *)

\* The inductive invariant holds in every reachable state.
LEMMA Inductive == Spec => []IInv
BY InitIInv, NextIInv, PTL DEF Spec

\* Type correctness; the backoff of a worker never leaves its configured range,
\* however often it doubles (next_backoff).
THEOREM TypeCorrect == Spec => []TypeOK
BY Inductive, PTL DEF IInv

\* The manager loses no worker (WorkerManager::start, stop, stop_all): one that
\* runs and was not told to stop is the one registered for its key.
THEOREM NoWorkerLost == Spec => []NoOrphan
BY Inductive, PTL DEF IInv

\* A worker that gives up by itself has said so, unless its account is gone
\* (run_sync_worker, run_polling_worker).
THEOREM DeathsAnnounced == Spec => []NoSilentDeath
BY Inductive, PTL DEF IInv

=============================================================================
