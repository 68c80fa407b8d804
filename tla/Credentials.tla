------------------------------ MODULE Credentials ------------------------------
(***************************************************************************)
(* Accounts and their credentials: the account, secret and OAuth handlers  *)
(* of the daemon (daemon/dispatcher.rs), the encrypted file and the OS     *)
(* keyring behind SecretStore (secrets/), the Google token client          *)
(* (oauth/google.rs), and the configuration that chooses between the two   *)
(* stores (config.rs, bin/postbloxd.rs).                                   *)
(*                                                                         *)
(* A secret is a password (a number: which one) or an OAuth bundle: the    *)
(* consent it comes from (its client and refresh token) and its access     *)
(* token.  Consents and tokens are numbered as Google issues them.  A file *)
(* is an inode; encryption is "whole" or not.                              *)
(***************************************************************************)
EXTENDS Naturals, FiniteSets

CONSTANTS
  Accounts, KindOf,     \* the account ids, and the auth_kind each is created with
  Clients,              \* whoever has a request in progress: connections, sync workers
  None,
  MaxCalls, MaxTokens,  \* requests and access tokens there may be
  CredentialScenarios   \* what may happen (see Hazards), which requests are made, and
                        \* the configuration file

\* Requests are cut off; the daemon is killed; the disk is full or the keyring refuses;
\* tokens grow old;
\* Google cannot be reached; consents are withdrawn; accounts come and go.
Hazards == {"cut", "crash", "disk", "age", "google", "revoke", "accounts"}
Ops == {"account.set_secret", "account.delete_secret", "oauth.google.complete", "credential"}
RawConfigs ==
  [secrets : BOOLEAN, backend : {"unset", "keyring", "file"},
   passphrase : {"unset", "empty", "set"}, path : BOOLEAN]

ASSUME CredentialsAssumption ==
  /\ CredentialScenarios \subseteq
       [hazards : SUBSET Hazards, ops : SUBSET (Ops \X Accounts), config : RawConfigs]
  /\ KindOf \in [Accounts -> {"password", "oauth2_google"}]
  /\ MaxCalls \in Nat \ {0} /\ MaxTokens \in Nat
  /\ None \notin Clients \cup Nat

VARIABLES
  rows,     \* the accounts table: [ref |-> secret_ref is set], or None
  file, tmp,   \* the inodes of secrets file and temporary file, or None
  inode,    \* the contents of each inode
  orphans,  \* file operations whose request was cut off; they go on all the same
  lock,     \* FileSecretStore::write_lock and KeyringSecretStore::write_lock
  req,      \* the request each client has in progress
  google,   \* [token: the token endpoint's last access token, consent: the last consent,
            \*  revoked: consents that are, age: of each token]
  calls,    \* requests made
  newest,   \* of each account, the consent stored last and not deleted since, or 0
  scenario

disk == <<file, tmp, inode>>
store == <<disk, orphans, lock>>
credvars == <<rows, store, req, google, calls, newest, scenario>>

Password(n) == [kind |-> "password", n |-> n]
Bundle(consent, token) == [kind |-> "oauth", consent |-> consent, token |-> token]
Passwords == {Password(n) : n \in 1..MaxCalls}
Bundles == {Bundle(g, t) : g, t \in 1..MaxTokens}
Secrets == Passwords \cup Bundles
NoSecrets == [a \in Accounts |-> None]

-----------------------------------------------------------------------------
(* The configuration.                                                      *)

\* config::normalize.
Normalize(raw) ==
  LET backend == IF raw.backend # "unset" THEN raw.backend
                 ELSE IF raw.passphrase # "unset" THEN "file" ELSE "keyring"
  IN IF ~raw.secrets THEN "keyring"
     ELSE IF backend = "keyring" /\ raw.path THEN "invalid"
     ELSE IF backend = "file" /\ raw.passphrase # "set" THEN "invalid"
     ELSE backend
\* build_secret_store.
Backend == Normalize(scenario.config)

-----------------------------------------------------------------------------
(* Requests.                                                               *)

\* val: what put writes, or None for delete; map: what read_map returned; ino: the
\* inode the request's write goes to; then: what follows the put or delete; res: the
\* last answer.
Request(op, a, pc, val, then) ==
  [op |-> op, pc |-> pc, a |-> a, val |-> val, map |-> NoSecrets, ino |-> None,
   then |-> then, res |-> "none"]
NoReq == Request("none", None, "idle", None, "none")
At(c, pc) == req[c].pc = pc
Step(c, pc) == req' = [req EXCEPT ![c] = [@ EXCEPT !.pc = pc]]
Put(c, val, then) ==
  req' = [req EXCEPT ![c] = [@ EXCEPT !.pc = "lock", !.val = val, !.then = then]]
Done(c, res) == req' = [req EXCEPT ![c] = [NoReq EXCEPT !.res = res]]

Call(c, op, a, pc) ==
  /\ At(c, "idle") /\ <<op, a>> \in scenario.ops /\ calls < MaxCalls /\ calls' = calls + 1
  /\ req' = [req EXCEPT ![c] =
               Request(op, a, pc, IF op = "account.set_secret" THEN Password(calls') ELSE None,
                       IF op = "account.delete_secret" THEN "ref" ELSE "none")]
  /\ UNCHANGED <<rows, store, google, newest, scenario>>

AccountSetSecret(c, a) == Call(c, "account.set_secret", a, "check")
AccountDeleteSecret(c, a) == Call(c, "account.delete_secret", a, "lock")
OauthGoogleComplete(c, a) == Call(c, "oauth.google.complete", a, "check")
\* Sending, syncing, a login test, a refetched attachment, the worker's resolver.
CredentialForAccount(c, a) == Call(c, "credential", a, "check")

\* accounts::get and what the handler demands of the row.
Check(c) ==
  LET r == req[c] IN
  /\ At(c, "check")
  /\ IF rows[r.a] = None THEN Done(c, "bad_args")
     ELSE CASE r.op = "account.set_secret" ->
                 IF KindOf[r.a] = "password" THEN Put(c, r.val, "ref") ELSE Done(c, "bad_args")
            [] r.op = "oauth.google.complete" ->
                 IF KindOf[r.a] = "oauth2_google" THEN Step(c, "exchange") ELSE Done(c, "bad_args")
            [] OTHER -> Step(c, "get")
  /\ UNCHANGED <<rows, store, google, calls, newest, scenario>>

-----------------------------------------------------------------------------
(* Google, and the calls on it.                                            *)

\* What the token endpoint answers: a token, an error status, or nothing in time.
\* map_oauth_error: 400, 401 and 403 ask the user to consent again.
Unreachable == "google" \in scenario.hazards \/ google.token = MaxTokens
NewToken == google.token < MaxTokens
Issue(consent) == google' = [google EXCEPT !.token = @ + 1, !.consent = consent]

\* exchange_code: a new consent.
Exchange(c) ==
  /\ At(c, "exchange")
  /\ \/ /\ NewToken /\ Issue(google.consent + 1)
        /\ Put(c, Bundle(google.consent + 1, google.token + 1), "ref")
     \/ Unreachable /\ Done(c, "oauth_failed") /\ UNCHANGED google
  /\ UNCHANGED <<rows, store, calls, newest, scenario>>

\* map_keyring_error: a locked or failing keyring.
KeyringRefuses == Backend = "keyring" /\ "disk" \in scenario.hazards
\* SecretStore::get, load_stored_oauth, and needs_refresh with its 60 seconds of skew.
Readable == file = None \/ inode[file].st # "part"
Stored == IF file = None \/ inode[file].st = "empty" THEN NoSecrets ELSE inode[file].map
Get(c) ==
  LET s == Stored[req[c].a] IN
  /\ At(c, "get")
  /\ \/ KeyringRefuses /\ Done(c, "internal")
     \/ IF ~Readable THEN Done(c, "internal")
        ELSE IF s = None THEN Done(c, "missing_secret")
        ELSE IF s.kind = "password" \/ google.age[s.token] = "fresh" THEN Done(c, "credential")
        ELSE req' = [req EXCEPT ![c] = [@ EXCEPT !.pc = "refresh", !.val = s]]
  /\ UNCHANGED <<rows, store, google, calls, newest, scenario>>

\* refresh_token: the bundle that was read goes back with its token replaced.  A
\* rejected refresh fails; one that got no answer falls back on a token that is
\* still good.
Refresh(c) ==
  LET s == req[c].val IN
  /\ At(c, "refresh")
  /\ \/ /\ s.consent \notin google.revoked /\ NewToken /\ Issue(google.consent)
        /\ Put(c, [s EXCEPT !.token = google'.token], "none")
     \/ /\ s.consent \in google.revoked /\ Done(c, "oauth_reauth_required")
        /\ UNCHANGED google
     \/ /\ Unreachable /\ UNCHANGED google
        /\ Done(c, IF google.age[s.token] # "expired" THEN "credential" ELSE "oauth_failed")
  /\ UNCHANGED <<rows, store, calls, newest, scenario>>

-----------------------------------------------------------------------------
(* The store.                                                              *)

\* Mutant: writers do not wait for each other.
Mutant_Lock(c) ==
  /\ At(c, "lock")
  /\ lock' = c /\ Step(c, IF Backend = "file" THEN "read" ELSE "entry")
  /\ UNCHANGED <<rows, disk, orphans, google, calls, newest, scenario>>

Lock(c) ==
  /\ At(c, "lock") /\ lock = None
  /\ lock' = c /\ Step(c, IF Backend = "file" THEN "read" ELSE "entry")
  /\ UNCHANGED <<rows, disk, orphans, google, calls, newest, scenario>>

\* Mutant: an error path that keeps the guard.
Mutant_Fail(c) == UNCHANGED lock /\ Done(c, "internal")

Fail(c) == lock' = None /\ Done(c, "internal")

\* read_map, and the change of the map; a delete that finds nothing writes nothing.
Read(c) ==
  LET r == req[c] IN
  /\ At(c, "read")
  /\ IF ~Readable THEN Fail(c)
     ELSE /\ req' = [req EXCEPT ![c] =
                      [@ EXCEPT !.map = [Stored EXCEPT ![r.a] = r.val],
                                !.pc = IF r.val = None /\ Stored[r.a] = None THEN "unlock" ELSE "open"]]
          /\ UNCHANGED lock
  /\ UNCHANGED <<rows, disk, orphans, google, calls, newest, scenario>>

\* write_map: the temporary file is created or truncated, then written, then renamed.
Inodes == 1..(MaxCalls + 2)
FreeInode == CHOOSE i \in Inodes : i # file /\ i # tmp /\ \A o \in orphans : o.ino # i
TmpInode == IF tmp # None THEN tmp ELSE FreeInode
Empty == [st |-> "empty", map |-> NoSecrets]
Part == [st |-> "part", map |-> NoSecrets]
Whole(map) == [st |-> "whole", map |-> map]
Fill(i, content) == inode' = [inode EXCEPT ![i] = content]

Open(c) ==
  /\ At(c, "open")
  /\ tmp' = TmpInode /\ Fill(TmpInode, Empty)
  /\ req' = [req EXCEPT ![c] = [@ EXCEPT !.ino = TmpInode, !.pc = "write"]]
  /\ UNCHANGED <<rows, file, orphans, lock, google, calls, newest, scenario>>

Write(c) ==
  LET r == req[c] IN
  /\ At(c, "write")
  /\ \/ /\ inode[r.ino].st = "empty"
        /\ Fill(r.ino, Part) /\ UNCHANGED <<req, lock>>
     \/ /\ inode[r.ino].st # "empty" /\ Step(c, "rename") /\ UNCHANGED lock
        /\ \/ Fill(r.ino, Whole(r.map))
           \/ (\E o \in orphans : o.ino = r.ino) /\ Fill(r.ino, Part)
     \/ /\ "disk" \in scenario.hazards /\ Fail(c) /\ UNCHANGED inode
  /\ UNCHANGED <<rows, file, tmp, orphans, google, calls, newest, scenario>>

\* What a call that takes effect says of the newest consent.
Effect(r) ==
  newest' = CASE r.val = None -> [newest EXCEPT ![r.a] = 0]
              [] r.op = "oauth.google.complete" -> [newest EXCEPT ![r.a] = r.val.consent]
              [] OTHER -> newest
Rename(c) ==
  /\ At(c, "rename")
  /\ IF tmp = None THEN Fail(c) /\ UNCHANGED <<file, tmp, newest>>
     ELSE file' = tmp /\ tmp' = None /\ Effect(req[c]) /\ Step(c, "unlock") /\ UNCHANGED lock
  /\ UNCHANGED <<rows, inode, orphans, google, calls, scenario>>

\* KeyringSecretStore: set_password or delete_credential of one entry.
SetEntry(a, val) ==
  /\ file' = IF file = None THEN FreeInode ELSE file
  /\ Fill(file', Whole([Stored EXCEPT ![a] = val])) /\ UNCHANGED tmp
Entry(c) ==
  /\ At(c, "entry")
  /\ \/ SetEntry(req[c].a, req[c].val) /\ Step(c, "unlock") /\ Effect(req[c]) /\ UNCHANGED lock
     \/ KeyringRefuses /\ Fail(c) /\ UNCHANGED <<disk, newest>>
  /\ UNCHANGED <<rows, orphans, google, calls, scenario>>

\* The guard goes; a refresh is answered with the new token.
Unlock(c) ==
  /\ At(c, "unlock") /\ lock' = None
  /\ IF req[c].then = "ref" THEN Step(c, "ref") ELSE Done(c, "credential")
  /\ UNCHANGED <<rows, disk, orphans, google, calls, newest, scenario>>

\* accounts::set_secret_ref: no row, no effect.
Ref(c) ==
  LET r == req[c] IN
  /\ At(c, "ref") /\ Done(c, "ok")
  /\ rows' = IF rows[r.a] = None THEN rows ELSE [rows EXCEPT ![r.a] = [ref |-> r.val # None]]
  /\ UNCHANGED <<store, google, calls, newest, scenario>>

-----------------------------------------------------------------------------
(* Faults and the world outside.                                           *)

\* The connection closes or the worker is stopped: the handler is dropped where it
\* waits.  The guard is released with it, but a file or keyring operation that was
\* handed to the blocking pool is carried out.
Cut(c) ==
  /\ "cut" \in scenario.hazards /\ ~At(c, "idle") /\ Done(c, "none")
  /\ lock' = IF lock = c THEN None ELSE lock
  /\ orphans' = IF req[c].pc \in {"open", "write", "rename", "entry"}
                THEN orphans \cup {[req[c] EXCEPT !.op = "none", !.then = "none"]} ELSE orphans
  /\ UNCHANGED <<rows, disk, google, calls, newest, scenario>>

\* The rest of one blocking operation: no rename follows an orphaned write.
Orphan ==
  \E o \in orphans :
    /\ \/ /\ o.pc = "open" /\ tmp' = TmpInode /\ Fill(TmpInode, Empty) /\ UNCHANGED file
          /\ orphans' = (orphans \ {o}) \cup {[o EXCEPT !.ino = TmpInode, !.pc = "write"]}
       \/ /\ o.pc = "write" /\ orphans' = orphans \ {o} /\ UNCHANGED <<file, tmp>>
          /\ Fill(o.ino, Whole(o.map)) \/ Fill(o.ino, Part)
       \/ /\ o.pc = "rename" /\ orphans' = orphans \ {o} /\ UNCHANGED inode
          /\ IF tmp = None THEN UNCHANGED <<file, tmp>> ELSE file' = tmp /\ tmp' = None
       \/ /\ o.pc = "entry" /\ orphans' = orphans \ {o}
          /\ SetEntry(o.a, o.val) \/ (KeyringRefuses /\ UNCHANGED disk)
    /\ UNCHANGED <<rows, lock, req, google, calls, newest, scenario>>

\* The daemon is killed and started again.
Crash ==
  /\ "crash" \in scenario.hazards /\ \E c \in Clients : ~At(c, "idle")
  /\ req' = [c \in Clients |-> NoReq] /\ lock' = None /\ orphans' = {}
  /\ UNCHANGED <<rows, disk, google, calls, newest, scenario>>

\* Tokens grow old: within the skew of their end, then past it.
Tick ==
  /\ "age" \in scenario.hazards
  /\ \E t \in 1..google.token :
       \/ google.age[t] = "fresh" /\ google' = [google EXCEPT !.age = [@ EXCEPT ![t] = "skew"]]
       \/ google.age[t] = "skew" /\ google' = [google EXCEPT !.age = [@ EXCEPT ![t] = "expired"]]
  /\ UNCHANGED <<rows, store, req, calls, newest, scenario>>

\* The user withdraws a consent at Google.
Revoke ==
  /\ "revoke" \in scenario.hazards
  /\ \E g \in (1..google.consent) \ google.revoked :
       google' = [google EXCEPT !.revoked = @ \cup {g}]
  /\ UNCHANGED <<rows, store, req, calls, newest, scenario>>

\* account.create inserts a row; account.delete removes it, and not its secret.
AccountCreate(a) ==
  /\ "accounts" \in scenario.hazards /\ rows[a] = None /\ calls < MaxCalls /\ calls' = calls + 1
  /\ rows' = [rows EXCEPT ![a] = [ref |-> FALSE]]
  /\ UNCHANGED <<store, req, google, newest, scenario>>
AccountDelete(a) ==
  /\ "accounts" \in scenario.hazards /\ rows[a] # None /\ calls < MaxCalls /\ calls' = calls + 1
  /\ rows' = [rows EXCEPT ![a] = None]
  /\ UNCHANGED <<store, req, google, newest, scenario>>

-----------------------------------------------------------------------------
CredentialsInit ==
  /\ scenario \in {s \in CredentialScenarios : Normalize(s.config) # "invalid"}
  /\ rows = [a \in Accounts |-> [ref |-> FALSE]]
  /\ file = None /\ tmp = None /\ inode = [i \in Inodes |-> Empty]
  /\ orphans = {} /\ lock = None
  /\ req = [c \in Clients |-> NoReq]
  /\ google = [token |-> 0, consent |-> 0, revoked |-> {}, age |-> [t \in 1..MaxTokens |-> "fresh"]]
  /\ calls = 0 /\ newest = [a \in Accounts |-> 0]

Progress(c) ==
  \/ Check(c) \/ Exchange(c) \/ Get(c) \/ Refresh(c)
  \/ Lock(c) \/ Read(c) \/ Open(c) \/ Write(c) \/ Rename(c) \/ Entry(c) \/ Unlock(c) \/ Ref(c)

CredentialsNext ==
  \/ \E c \in Clients, a \in Accounts :
       \/ AccountSetSecret(c, a) \/ AccountDeleteSecret(c, a)
       \/ OauthGoogleComplete(c, a) \/ CredentialForAccount(c, a)
  \/ \E c \in Clients : Progress(c) \/ Cut(c)
  \/ \E a \in Accounts : AccountCreate(a) \/ AccountDelete(a)
  \/ Orphan \/ Crash \/ Tick \/ Revoke

\* The runtime runs every ready task; the lock is handed out in turn; the token
\* endpoint answers or the client's ten seconds run out.
CredentialsFairness ==
  /\ WF_credvars(Orphan)
  /\ \A c \in Clients : WF_credvars(Progress(c)) /\ SF_credvars(Lock(c))

CredentialsSpec == CredentialsInit /\ [][CredentialsNext]_credvars /\ CredentialsFairness

-----------------------------------------------------------------------------
(* Properties.                                                             *)

\* A write that was cut off and goes on in the blocking pool races the next holder of
\* the lock for the temporary file; the promise below does not extend to it.
Exempt == Backend = "file" /\ "cut" \in scenario.hazards
Calling == {"lock", "read", "open", "write", "rename", "entry", "unlock"}
CallOf(r) ==
  IF r.pc \notin Calling THEN [st |-> "none", a |-> None, val |-> None]
  ELSE [st |-> IF r.pc = "unlock" THEN "done" ELSE "called", a |-> r.a, val |-> r.val]

MapSecrets == IF Exempt THEN NoSecrets ELSE IF Readable THEN Stored ELSE None
MapCalls == [c \in Clients |-> CallOf(IF Exempt THEN NoReq ELSE req[c])]
MapLate == IF Exempt THEN {} ELSE {[a |-> o.a, val |-> o.val] : o \in orphans}
Map == INSTANCE SecretMap WITH Callers <- Clients, Values <- Secrets,
                               secrets <- MapSecrets, calls <- MapCalls, late <- MapLate

\* The file and the keyring keep SecretStore's promise (secrets/file.rs, lines 13 and
\* 71): a put or delete takes effect at one moment, for its account alone, whatever
\* other puts run, wherever the daemon is killed and whichever write fails.
StoreImplemented == Map!Spec

\* No request is left waiting: the lock is released on every path, and a token
\* endpoint that does not answer ends the refresh.
RequestsAnswered == \A c \in Clients : ~At(c, "idle") ~> At(c, "idle")

\* The stored bundle is that of the last consent: oauth/google.rs, line 163, calls it
\* "Most recently obtained access/refresh token pair."
NewestConsentKept ==
  \A a \in Accounts : newest[a] # 0 /\ Readable => Stored[a] # None /\ Stored[a].consent >= newest[a]
================================================================================
