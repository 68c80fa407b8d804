------------------------------ MODULE Reconciler ------------------------------
(***************************************************************************)
(* reconcile_folder (src/sync/reconciler.rs): bring the local SQLite       *)
(* tables of a folder up to date with its IMAP mailbox.                    *)
(*                                                                         *)
(* A process p is one caller of reconcile_folder: the sync worker of the   *)
(* folder FolderOf[p], or an account.sync_folder request for it.  Every    *)
(* await of the function is a step of its own, so that processes, the mail *)
(* server and a cancellation or crash can interleave at each of them.      *)
(*                                                                         *)
(* UIDs are positions of the sequence box[f]; Gone marks an expunged one.  *)
(* NULL in an integer column is 0: the code reads it with unwrap_or(0) and *)
(* IMAP assigns neither UID 0 nor UIDVALIDITY 0.                           *)
(***************************************************************************)
EXTENDS Integers, Sequences, FiniteSets

CONSTANTS
  Folders, Procs, FolderOf,   \* which process reconciles which folder
  Mail,                       \* the messages that exist, as records
  Gone,                       \* the place of an expunged message
  NoId, NoSubj,               \* a missing Message-ID / Subject header
  Window,                     \* FETCH_WINDOW
  UidMax,                     \* u32::MAX
  RecentLimit,                \* threads::list_recent's LIMIT
  Cutoff, Now,                \* dates: seven days ago, and the clock
  Scenarios                   \* which callers and faults come together

FaultKinds ==
  { "no_uidnext",             \* SELECT answers without UIDNEXT
    "stream_error",           \* the stream of a UID FETCH breaks off
    "reset_mid_drain",        \* UIDVALIDITY changes between two windows
    "reset_first_sync",       \* ... before the first one was recorded
    "disk",                   \* writing an attachment file fails
    "move",                   \* message.move / archive / delete requests
    "expunge" }               \* messages are expunged on the server

\* The callers of reconcile_folder and what else may happen; and bounds on the
\* UIDVALIDITY values, the messages of a mailbox and the runs cut short.
Scenario == [procs : SUBSET Procs, faults : SUBSET FaultKinds,
             epochs : Nat \ {0}, mails : Nat, aborts : Nat]

MailFields(m) ==
  /\ m.id \in STRING \cup {NoId}
  /\ m.anc \in Seq(STRING)    \* In-Reply-To, then References newest first
  /\ m.date \in 1..Now        \* INTERNALDATE
  /\ m.kind \in {"ok", "junk", "big"}   \* junk: no body, or unparseable
                                        \* big: an attachment over the limit

ASSUME ConstantsAssumption ==
  /\ FolderOf \in [Procs -> Folders]
  /\ \A m \in Mail : MailFields(m)
  /\ Gone \notin Mail
  /\ Window \in Nat \ {0} /\ UidMax \in Nat \ {0}
  /\ RecentLimit \in Nat \ {0}
  /\ Cutoff \in Nat /\ Now \in Nat /\ Cutoff < Now
  /\ Scenarios \subseteq Scenario

VARIABLES
  box,        \* server: [Folders -> Seq(Mail \cup {Gone})]
  epoch,      \* server: UIDVALIDITY of each folder
  rows,       \* table messages (and attachments): a set of records
  fold,       \* table folders: uid_validity and last_seen_uid
  threads,    \* table threads
  status,     \* accounts.sync_status
  run,        \* the local variables of each process
  aborts,     \* number of runs cut short so far
  env,        \* the scenario, fixed at the start
  disturbed   \* history: the UIDs of folders that no run can answer for

server == <<box, epoch>>
tables == <<rows, fold, threads, status>>
rest == <<aborts, env, disturbed>>
vars == <<server, tables, run, rest>>
Fault(k) == k \in env.faults

-----------------------------------------------------------------------------
(* The server's side of a fetch.                                           *)

Min2(a, b) == IF a <= b THEN a ELSE b
Highest(S) == CHOOSE u \in S : \A v \in S : v <= u
SatSucc(uid) == Min2(uid + 1, UidMax)

Live(f) == {u \in DOMAIN box[f] : box[f][u] # Gone}

\* fetch_uid_range: SELECT, then UID FETCH of one bounded window, when the
\* whole stream arrives.
FolderSync(f, from) ==
  LET known == ~Fault("no_uidnext")
      serverHi == Len(box[f])
      nothing == Live(f) = {} \/ (known /\ from > serverHi)
      top == Min2(from + Window - 1, UidMax)
      hi == IF nothing
              THEN IF known THEN serverHi ELSE from - 1
              ELSE IF known THEN Min2(top, serverHi) ELSE top
  IN [ validity |-> epoch[f],
       msgs |-> IF nothing THEN {}
                ELSE {[uid |-> u, mail |-> box[f][u]] :
                        u \in {v \in Live(f) : from <= v /\ v <= hi}},
       hi |-> hi,
       more |-> ~nothing /\ known /\ top < serverHi ]

\* Items of the stream that are errors are dropped (r.ok()), so that a stream
\* which breaks off answers with some of the messages.
Replies(f, from) ==
  LET all == FolderSync(f, from)
  IN IF Fault("stream_error")
       THEN {[all EXCEPT !.msgs = got] : got \in SUBSET all.msgs}
       ELSE {all}

NoReply == [validity |-> 0, msgs |-> {}, hi |-> 0, more |-> FALSE]

-----------------------------------------------------------------------------
(* Thread matching.                                                        *)

\* ORDER BY last_message_at DESC NULLS LAST, created_at DESC
Newer(t, u) == t.last > u.last \/ (t.last = u.last /\ t.tid > u.tid)

\* list_recent and message_ids_by_threads: the matcher's view of the tables.
ThreadRefs ==
  {[ tid |-> t.tid,
     ids |-> {r.mail.id : r \in {q \in rows : q.tid = t.tid}} \ {NoId},
     subj |-> t.subj,
     last |-> IF t.last = 0 THEN Now ELSE t.last ] :
       t \in {u \in threads :
                Cardinality({v \in threads : Newer(v, u)}) < RecentLimit}}

\* assign_thread: the threads it may return for m; none means ThreadMatch::New.
\* Which of several threads that know the same id comes first is left open.
AssignThread(m, R) ==
  LET knows(i) == {t \in R : m.anc[i] \in t.ids}
      hits == {i \in DOMAIN m.anc : knows(i) # {}}
      same == {t \in R : t.last > Cutoff /\ m.subj # NoSubj /\ t.subj = m.subj}
  IN IF hits # {}
       THEN knows(CHOOSE i \in hits : \A j \in hits : i <= j)
       ELSE {t \in same : \A u \in same : u.last <= t.last}

-----------------------------------------------------------------------------
(* reconcile_folder, one action per await.                                 *)

\* Outside reconcile_folder.
Idle == [ pc |-> "idle",
          snap |-> [validity |-> 0, lastSeen |-> 0],    \* folder
          resync |-> FALSE,                             \* needs_full_resync
          reply |-> NoReply,                            \* server
          todo |-> {},                                  \* left of the window
          cur |-> [uid |-> 0, tid |-> 0, mail |-> Gone],
          refs |-> {},                                  \* thread_refs
          seen |-> 0 ]                                  \* last_seen_uid

Goto(p, l) == run' = [run EXCEPT ![p].pc = l]

\* Err(_) leaves the function; a worker then records the error, best-effort.
Return(p, error) ==
  /\ run' = [run EXCEPT ![p] = Idle]
  /\ IF error THEN status' \in {"error", status} ELSE status' = "idle"

RowsOf(f) == {r \in rows : r.folder = f}
InFlight(f) == {p \in Procs : FolderOf[p] = f /\ run[p].pc # "idle"}

\* What the runs cannot answer for.  Worker and account.sync_folder share no lock, so
\* that one may delete rows of the folder, or record a UIDVALIDITY it has not compared,
\* under the other: all UIDs of the folder are disturbed.
Disturb(uids) == disturbed' = disturbed \cup uids /\ UNCHANGED <<aborts, env>>
Undercut(p) == {FolderOf[p]} \X (0..UidMax)
Overlapped(p) == InFlight(FolderOf[p]) # {p} \/ fold[FolderOf[p]] # run[p].snap

\* Look up the account and the folder row.
Start(p) ==
  /\ run[p].pc = "idle" /\ p \in env.procs
  /\ run' = [run EXCEPT ![p].pc = "fetch", ![p].snap = fold[FolderOf[p]]]
  /\ UNCHANGED <<server, tables, rest>>

Mutant_NeverResync(local, remote) == FALSE
NeedsFullResync(local, remote) == local # 0 /\ remote # 0 /\ local # remote

\* First sync_folder call, from last_seen_uid + 1.
Fetch(p) ==
  LET old == run[p].snap
      full == NeedsFullResync(old.validity, epoch[FolderOf[p]])
  IN /\ run[p].pc = "fetch"
     /\ \E ans \in Replies(FolderOf[p], SatSucc(Min2(old.lastSeen, UidMax))) :
          run' = [run EXCEPT ![p].pc = IF full THEN "wipe" ELSE "refs",
                             ![p].reply = IF full THEN NoReply ELSE ans,
                             ![p].resync = full]
     /\ UNCHANGED <<server, tables, rest>>

\* delete_all_in_folder; the rows' threads stay.  Messages moved here are lost with it.
Wipe(p) ==
  LET guests == {r \in RowsOf(FolderOf[p]) : r.home # r.folder}
  IN /\ run[p].pc = "wipe"
     /\ rows' = rows \ RowsOf(FolderOf[p])
     /\ Goto(p, "refetch")
     /\ Disturb({<<r.home, r.uid>> : r \in guests} \cup IF Overlapped(p) THEN Undercut(p) ELSE {})
     /\ UNCHANGED <<server, fold, threads, status>>

\* Second sync_folder call, from UID 1.
Refetch(p) ==
  /\ run[p].pc = "refetch"
  /\ \E ans \in Replies(FolderOf[p], 1) :
       run' = [run EXCEPT ![p].pc = "refs", ![p].reply = ans]
  /\ UNCHANGED <<server, tables, rest>>

Mutant_KeepBaseline(p) ==
  /\ run[p].pc = "refs"
  /\ run' = [run EXCEPT ![p].pc = "window", ![p].refs = ThreadRefs,
                        ![p].seen = run[p].snap.lastSeen]
  /\ UNCHANGED <<server, tables, rest>>

\* Read the recent threads once; choose the baseline of last_seen_uid.
LoadRefs(p) ==
  /\ run[p].pc = "refs"
  /\ run' = [run EXCEPT ![p].pc = "window",
                        ![p].refs = ThreadRefs,
                        ![p].seen = IF run[p].resync THEN 0 ELSE run[p].snap.lastSeen]
  /\ UNCHANGED <<server, tables, rest>>

\* existing_uids, and the messages the loop skips.
ScanWindow(p) ==
  LET have == {r.uid : r \in RowsOf(FolderOf[p])}
  IN /\ run[p].pc = "window"
     /\ run' = [run EXCEPT ![p].pc = "loop",
                           ![p].todo = {m \in run[p].reply.msgs :
                                          m.uid \notin have /\ m.mail.kind # "junk"}]
     /\ UNCHANGED <<server, tables, rest>>

\* The order in which a server lists the messages of a window is its own.
\* No match creates a thread, unless UNIQUE (account_id, external_id) is hit.
FileInThread(p) ==
  /\ run[p].pc = "loop"
  /\ \E m \in run[p].todo :
       LET match == AssignThread(m.mail, run[p].refs)
           taken == m.mail.id # NoId /\ \E t \in threads : t.ext = m.mail.id
           new == [tid |-> Cardinality(threads) + 1, ext |-> m.mail.id,
                   subj |-> m.mail.subj, last |-> 0]
           ref == [tid |-> new.tid, ids |-> {m.mail.id} \ {NoId},
                   subj |-> m.mail.subj, last |-> m.mail.date]
           Filed(tid, known) ==
             run' = [run EXCEPT ![p].pc = "insert",
                                ![p].todo = @ \ {m},
                                ![p].cur = [uid |-> m.uid, tid |-> tid, mail |-> m.mail],
                                ![p].refs = known]
       IN \/ \E t \in match : /\ Filed(t.tid, run[p].refs)
                              /\ UNCHANGED <<threads, status>>
          \/ /\ match = {} /\ ~taken
             /\ Filed(new.tid, run[p].refs \cup {ref})
             /\ threads' = threads \cup {new}
             /\ UNCHANGED status
          \/ match = {} /\ taken /\ Return(p, TRUE) /\ UNCHANGED threads
  /\ UNCHANGED <<server, rows, fold, rest>>

\* The row this run inserted last: by = {p} stands for p knowing its row id.
CurRow(p) == {r \in rows : p \in r.by}
Release(p, R) == {[r EXCEPT !.by = @ \ {p}] : r \in R}

\* messages::create, under UNIQUE (folder_id, uid).
InsertRow(p) ==
  LET held == {r \in RowsOf(FolderOf[p]) : r.uid = run[p].cur.uid}
  IN /\ run[p].pc = "insert"
     /\ \/ /\ held = {}
           /\ rows' = rows \cup {[folder |-> FolderOf[p], home |-> FolderOf[p],
                                  uid |-> run[p].cur.uid, mail |-> run[p].cur.mail,
                                  tid |-> run[p].cur.tid, stage |-> "bare", by |-> {p}]}
           /\ Goto(p, "attach") /\ UNCHANGED status
        \/ held # {} /\ Return(p, TRUE) /\ UNCHANGED rows
     /\ UNCHANGED <<server, fold, threads, rest>>

SetStage(p, s) ==
  rows' = (rows \ CurRow(p)) \cup {[r EXCEPT !.stage = s] : r \in CurRow(p)}

\* persist_parsed_for_message: every message that is not junk carries an
\* attachment.  Storing it fails when it is too big, when the disk refuses it,
\* and (foreign key) when the message row is gone.
StoreAttachments(p) ==
  /\ run[p].pc = "attach"
  /\ \/ /\ run[p].cur.mail.kind # "big" /\ CurRow(p) # {}
        /\ SetStage(p, "full") /\ Goto(p, "refresh")
     \/ /\ run[p].cur.mail.kind = "big" \/ CurRow(p) = {} \/ Fault("disk")
        /\ Goto(p, "rollback") /\ UNCHANGED rows
  /\ UNCHANGED <<server, fold, threads, status, rest>>

Mutant_NoRollback(p) ==
  /\ run[p].pc = "rollback"
  /\ rows' = (rows \ CurRow(p)) \cup Release(p, CurRow(p))
  /\ Return(p, TRUE)
  /\ UNCHANGED <<server, fold, threads, rest>>

\* messages::delete of the half-inserted row, then Err.
RollbackRow(p) ==
  /\ run[p].pc = "rollback"
  /\ rows' = rows \ CurRow(p)
  /\ Return(p, TRUE)
  /\ Disturb(IF Overlapped(p) THEN Undercut(p) ELSE {})
  /\ UNCHANGED <<server, fold, threads>>

\* touch_last_message_at, then refresh_aggregates, which has the last word.
RefreshThread(p) ==
  LET dates == {r.mail.date : r \in {q \in rows : q.tid = run[p].cur.tid}}
      newest == Highest(dates \cup {0})
  IN /\ run[p].pc = "refresh"
     /\ threads' = {IF t.tid = run[p].cur.tid THEN [t EXCEPT !.last = newest] ELSE t :
                      t \in threads}
     /\ Goto(p, "announce")
     /\ UNCHANGED <<server, rows, fold, status, rest>>

\* Publish mail.new.
AnnounceRow(p) ==
  /\ run[p].pc = "announce"
  /\ rows' = (rows \ CurRow(p)) \cup
             Release(p, {[r EXCEPT !.stage = "announced"] : r \in CurRow(p)})
  /\ Goto(p, "loop")
  /\ UNCHANGED <<server, fold, threads, status, rest>>

AdvanceTo(p, seen) ==
  /\ run' = [run EXCEPT ![p].pc = IF run[p].reply.more THEN "more" ELSE "commit",
                        ![p].seen = seen]
  /\ UNCHANGED <<server, tables, rest>>

\* The window is drained: advance last_seen_uid past it.
Advance(p) ==
  /\ run[p].pc = "loop" /\ run[p].todo = {}
  /\ AdvanceTo(p, Highest({m.uid : m \in run[p].reply.msgs} \cup {run[p].seen, run[p].reply.hi}))

\* Next window; its UIDVALIDITY is not compared with anything.
FetchMore(p) ==
  /\ run[p].pc = "more"
  /\ \E ans \in Replies(FolderOf[p], SatSucc(run[p].reply.hi)) :
       run' = [run EXCEPT ![p].pc = "window", ![p].reply = ans]
  /\ UNCHANGED <<server, tables, rest>>

Mutant_KeepValidity(p) ==
  /\ run[p].pc = "commit"
  /\ fold' = [fold EXCEPT ![FolderOf[p]].lastSeen = run[p].seen]
  /\ Goto(p, "stamp")
  /\ UNCHANGED <<server, rows, threads, status, rest>>

\* folders::update_uid_state.
Commit(p) ==
  LET compared == {run[p].snap.validity, run[p].reply.validity}
  IN /\ run[p].pc = "commit"
     /\ fold' = [fold EXCEPT ![FolderOf[p]] =
                    [validity |-> run[p].reply.validity, lastSeen |-> run[p].seen]]
     /\ Goto(p, "stamp")
     /\ Disturb(IF fold[FolderOf[p]].validity \in compared THEN {} ELSE Undercut(p))
     /\ UNCHANGED <<server, rows, threads, status>>

\* accounts::update_sync(Idle), publish account.synced, Ok.
Stamp(p) ==
  /\ run[p].pc = "stamp"
  /\ Return(p, FALSE)
  /\ UNCHANGED <<server, rows, fold, threads, rest>>

\* The run ends at an await: the select! of its worker saw the cancel token,
\* the request handler was aborted, a network or database call failed, or the
\* daemon died.  Statements already executed stay executed.
Abort(p) ==
  /\ run[p].pc # "idle" /\ aborts < env.aborts
  /\ aborts' = aborts + 1
  /\ run' = [run EXCEPT ![p] = Idle]
  /\ rows' = (rows \ CurRow(p)) \cup Release(p, CurRow(p))
  /\ status' \in {"error", status}
  /\ UNCHANGED <<server, fold, threads, env, disturbed>>

-----------------------------------------------------------------------------
(* The mail server, and the requests that move messages locally.  Mailboxes *)
(* that nobody reconciles are left out.                                     *)

Synced == {FolderOf[p] : p \in env.procs}

Deliver(f) ==
  /\ Len(box[f]) + 1 < UidMax /\ Len(box[f]) < env.mails
  /\ \E m \in Mail : box' = [box EXCEPT ![f] = Append(@, m)]
  /\ UNCHANGED <<epoch, tables, run, rest>>

Expunge(f) ==
  /\ Fault("expunge")
  /\ \E u \in Live(f) : box' = [box EXCEPT ![f][u] = Gone]
  /\ UNCHANGED <<epoch, tables, run, rest>>

MidDrain(f) == \E p \in InFlight(f) : run[p].reply.more
FirstSync(f) == fold[f].validity = 0 /\ (RowsOf(f) # {} \/ InFlight(f) # {})

\* The ways to list the surviving messages, each of them once.
Listings(f) ==
  {order \in UNION {[1..n -> Live(f)] : n \in 0..Len(box[f])} :
     /\ \A i, j \in DOMAIN order : order[i] = order[j] => i = j
     /\ \A u \in Live(f) : \E i \in DOMAIN order : order[i] = u}

\* The server renumbers the surviving messages, in an order of its own, under a
\* new UIDVALIDITY.
Renumber(f) ==
  /\ epoch[f] < env.epochs
  /\ MidDrain(f) => Fault("reset_mid_drain")
  /\ FirstSync(f) => Fault("reset_first_sync")
  /\ \E order \in Listings(f) :
       box' = [box EXCEPT ![f] = [i \in DOMAIN order |-> @[order[i]]]]
  /\ epoch' = [epoch EXCEPT ![f] = @ + 1]
  /\ UNCHANGED <<tables, run, rest>>

\* messages::set_folder: the row keeps its uid; UNIQUE (folder_id, uid) may
\* refuse it, and then nothing changes.  It hides the message of its new folder with
\* that UID, or comes back to a folder renumbered since.
MoveRow ==
  /\ Fault("move")
  /\ \E r \in rows, f \in Folders :
       /\ f # r.folder
       /\ \A q \in RowsOf(f) : q.uid # r.uid
       /\ rows' = (rows \ {r}) \cup {[r EXCEPT !.folder = f]}
       /\ Disturb({<<f, r.uid>>})
  /\ UNCHANGED <<server, fold, threads, status, run>>

-----------------------------------------------------------------------------
Init ==
  /\ box = [f \in Folders |-> <<>>]
  /\ epoch = [f \in Folders |-> 1]
  /\ rows = {} /\ threads = {} /\ status = "idle"
  /\ fold = [f \in Folders |-> [validity |-> 0, lastSeen |-> 0]]
  /\ run = [p \in Procs |-> Idle]
  /\ aborts = 0 /\ env \in Scenarios /\ disturbed = {}

Step(p) ==
  \/ Start(p) \/ Fetch(p) \/ Wipe(p) \/ Refetch(p) \/ LoadRefs(p)
  \/ ScanWindow(p) \/ FileInThread(p) \/ InsertRow(p) \/ StoreAttachments(p)
  \/ RollbackRow(p) \/ RefreshThread(p) \/ AnnounceRow(p)
  \/ Advance(p) \/ FetchMore(p) \/ Commit(p) \/ Stamp(p)

Next ==
  \/ \E p \in Procs : Step(p) \/ Abort(p)
  \/ \E f \in Synced : Deliver(f) \/ Expunge(f) \/ Renumber(f)
  \/ MoveRow

Spec == Init /\ [][Next]_vars

\* A worker starts a new cycle after every poll interval, IDLE wake-up or
\* backoff, and every await of a cycle returns: network phases time out, which
\* is an Abort, and env.aborts bounds those.
FairSpec == Spec /\ \A p \in Procs : WF_vars(Step(p))

-----------------------------------------------------------------------------
(* Properties.                                                             *)

Uids == 0..UidMax
Fetched == [uid : Uids, mail : Mail]
PCs == {"idle", "fetch", "wipe", "refetch", "refs", "window", "loop", "insert",
        "attach", "rollback", "refresh", "announce", "more", "commit", "stamp"}
FolderRow == [validity : Nat, lastSeen : Uids]
ReplyType == [validity : Nat, msgs : SUBSET Fetched, hi : Uids, more : BOOLEAN]

RowOK(r) == /\ r.folder \in Folders /\ r.home \in Folders /\ r.uid \in Uids /\ r.mail \in Mail
            /\ r.tid \in Nat /\ r.stage \in {"bare", "full", "announced"}
            /\ r.by \subseteq Procs
RunOK(v) == /\ v.pc \in PCs /\ v.snap \in FolderRow /\ v.resync \in BOOLEAN
            /\ v.reply \in ReplyType /\ v.todo \subseteq Fetched
            /\ v.seen \in Uids
            /\ v.cur.uid \in Uids /\ v.cur.mail \in Mail \cup {Gone}

\* Every table and local variable keeps its type; UIDs stay within u32.
TypeOK ==
  /\ box \in [Folders -> Seq(Mail \cup {Gone})]
  /\ epoch \in [Folders -> 1..env.epochs] /\ env \in Scenarios
  /\ \A r \in rows : RowOK(r)
  /\ fold \in [Folders -> FolderRow]
  /\ \A p \in Procs : RunOK(run[p])
  /\ status \in {"idle", "error"} /\ aborts \in 0..env.aborts

\* home is the folder a row was synced from: message.move changes folder only.
Mirrored(f, u) == \E r \in rows : r.home = f /\ r.uid = u /\ r.mail = box[f][u]

\* No mail is lost: once last_seen_uid has moved past a UID, under the
\* UIDVALIDITY recorded with it, the readable message with that UID is in the
\* messages table, in that folder or where message.move put it.  (Nothing below
\* last_seen_uid is ever fetched again.)  UIDs that an overlapping run of the same
\* folder disturbed are left out: the code makes no promise for them.
NothingSkipped ==
  \A f \in Folders : fold[f].validity = epoch[f] =>
    \A u \in Live(f) :
      u <= fold[f].lastSeen /\ box[f][u].kind # "junk" /\ <<f, u>> \notin disturbed => Mirrored(f, u)

\* No row shows a message under a UID that the server gives to another one
\* (the uid column is the message's UID inside its folder), moved rows and the UIDs
\* that an overlapping run disturbed apart.
NoStaleRow ==
  \A f \in Folders : fold[f].validity = epoch[f] =>
    \A r \in RowsOf(f) :
      r.home = f /\ r.uid \in Live(f) /\ <<f, r.uid>> \notin disturbed => box[f][r.uid] = r.mail

\* A message row without its attachments is one that a run is still working
\* on, unless some run was cut short: an error rolls the row back.
NoHalfRow ==
  aborts = 0 => \A r \in rows : r.stage = "bare" =>
                  \E p \in r.by : run[p].pc \in {"attach", "rollback"}

\* A message whose In-Reply-To or References name a message that is already
\* stored is filed in the thread of one of those messages.
RepliesJoinThreads ==
  [][\A r \in rows' : (\A q \in rows : q.uid # r.uid \/ q.folder # r.folder) =>
       LET parents == {q \in rows : \E i \in DOMAIN r.mail.anc : q.mail.id = r.mail.anc[i]}
       IN parents = {} \/ \E q \in parents : q.tid = r.tid]_vars

AllMirrored(f) ==
  \A u \in Live(f) : box[f][u].kind # "junk" => Mirrored(f, u)

\* Every readable message of the mailbox reaches the messages table for good
\* once deliveries stop, whatever was cut short or renumbered before.
EventuallyMirrored == \A f \in Folders : <>[]AllMirrored(f)

\* A UIDVALIDITY change is always followed by a completed refetch.
ResyncCompletes ==
  \A f \in Folders : []<>(f \in Synced => fold[f].validity = epoch[f])

\* Messages expunged on the server leave the local table.
MirrorsExpunges ==
  \A f \in Folders :
    <>[](\A r \in RowsOf(f) : r.uid \in Live(f))
=============================================================================
