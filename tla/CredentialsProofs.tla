--------------------------- MODULE CredentialsProofs ---------------------------
(* Credentials implements SecretMap, for every set of clients and accounts,  *)
(* every number of requests and tokens, and every scenario.                  *)
EXTENDS Credentials, TLAPS

PCs == {"idle", "check", "exchange", "get", "refresh", "ref"} \cup Calling
Values == Secrets \cup {None}
SecretMaps == [Accounts -> Values]
Contents == [st : {"empty", "part", "whole"}, map : SecretMaps]
Req == [op : Ops \cup {"none"}, pc : PCs, a : Accounts \cup {None}, val : Values,
        map : SecretMaps, ino : Inodes \cup {None}, then : {"none", "ref"},
        res : {"none", "bad_args", "oauth_failed", "internal", "missing_secret", "credential",
               "oauth_reauth_required", "ok"}]
Google == [token : 0..MaxTokens, consent : 0..MaxTokens, revoked : SUBSET Nat,
           age : [1..MaxTokens -> {"fresh", "skew", "expired"}]]

StoreTypes ==
  /\ file \in Inodes \cup {None} /\ tmp \in Inodes \cup {None}
  /\ inode \in [Inodes -> Contents] /\ orphans \subseteq Req /\ lock \in Clients \cup {None}
Types ==
  /\ scenario \in CredentialScenarios /\ StoreTypes /\ req \in [Clients -> Req]
  /\ google \in Google /\ google.consent <= google.token /\ calls \in 0..MaxCalls

\* The guard is with whoever is in the store, on the path of its backend, and says
\* what it is about.
InStore == Calling \ {"lock"}
OnPath ==
  \A c \in Clients :
    /\ req[c].pc # "idle" => req[c].a \in Accounts
    /\ req[c].pc = "refresh" => req[c].val \in Bundles
    /\ req[c].pc \in InStore => lock = c
    /\ Backend = "file" => req[c].pc # "entry"
    /\ Backend # "file" => req[c].pc \notin {"read", "open", "write", "rename"}
                           /\ req[c].ino = None

\* What is stored is whole, and not what the temporary file is.
FileWhole == file # None => inode[file].st = "whole" /\ file # tmp

\* Only the keyring has operations that go on without their request.
OrphansAreEntries ==
  /\ Backend = "file" => orphans = {}
  /\ \A o \in orphans : o.pc = "entry" /\ o.a \in Accounts /\ o.ino = None

\* A write in progress replaces what is stored now, and goes to the temporary file.
WriteCurrent ==
  \A c \in Clients :
    /\ req[c].pc \in {"open", "write", "rename"} =>
         req[c].map = [Stored EXCEPT ![req[c].a] = req[c].val]
    /\ req[c].pc = "write" => tmp # None /\ req[c].ino = tmp
    /\ req[c].pc = "rename" => tmp # None /\ inode[tmp] = Whole(req[c].map)

\* The inductive invariant: that a put takes effect at one moment needs that nobody
\* changed the map since it was read, and that what is renamed is whole.
IInv == ~Exempt => Types /\ OnPath /\ FileWhole /\ OrphansAreEntries /\ WriteCurrent

USE DEF Calling, InStore, Ops

-----------------------------------------------------------------------------
(* Lemmas.                                                                 *)

\* The scenario, and with it the backend and the promise, is fixed.
LEMMA ScenarioFixed ==
  ASSUME [CredentialsNext]_credvars
  PROVE  scenario' = scenario /\ Exempt' = Exempt /\ Backend' = Backend
<1>1. scenario' = scenario
  <2>1. ASSUME NEW c \in Clients, NEW a \in Accounts,
               \/ AccountSetSecret(c, a) \/ AccountDeleteSecret(c, a)
               \/ OauthGoogleComplete(c, a) \/ CredentialForAccount(c, a)
        PROVE  scenario' = scenario
    BY <2>1 DEF AccountSetSecret, AccountDeleteSecret, OauthGoogleComplete,
                CredentialForAccount, Call
  <2>2. ASSUME NEW c \in Clients, Check(c) \/ Exchange(c) \/ Get(c) \/ Refresh(c) \/ Ref(c)
        PROVE  scenario' = scenario
    BY <2>2 DEF Check, Exchange, Get, Refresh, Ref
  <2>3. ASSUME NEW c \in Clients,
               Lock(c) \/ Read(c) \/ Open(c) \/ Write(c) \/ Rename(c) \/ Entry(c) \/ Unlock(c) \/ Cut(c)
        PROVE  scenario' = scenario
    BY <2>3 DEF Lock, Read, Open, Write, Rename, Entry, Unlock, Cut
  <2>4. CASE \/ Orphan \/ Crash \/ Tick \/ Revoke \/ UNCHANGED credvars
             \/ \E a \in Accounts : AccountCreate(a) \/ AccountDelete(a)
    BY <2>4 DEF AccountCreate, AccountDelete, Orphan, Crash, Tick, Revoke, credvars
  <2> QED BY <2>1, <2>2, <2>3, <2>4 DEF CredentialsNext, Progress
<1> QED
  BY <1>1 DEF Exempt, Backend, Normalize

\* Without secrets is a map; nothing, and what is read, is a map.
LEMMA MapTypes ==
  /\ NoSecrets \in SecretMaps /\ Empty \in Contents /\ Part \in Contents
  /\ \A m \in SecretMaps : Whole(m) \in Contents
  /\ NoReq \in Req
<1>1. NoSecrets \in SecretMaps
  BY DEF NoSecrets, SecretMaps, Values
<1>2. Empty \in Contents /\ Part \in Contents /\ \A m \in SecretMaps : Whole(m) \in Contents
  BY <1>1 DEF Empty, Part, Whole, Contents
<1>3. NoReq \in Req
  BY <1>1 DEF NoReq, Request, Req, PCs, Values
<1> QED
  BY <1>1, <1>2, <1>3

\* The initial state satisfies the invariant.
LEMMA InitIInv == CredentialsInit => IInv
<1> SUFFICES ASSUME CredentialsInit, ~Exempt
             PROVE  Types /\ OnPath /\ FileWhole /\ OrphansAreEntries /\ WriteCurrent
  BY DEF IInv
<1>1. Types
  <2>1. google \in Google /\ google.consent <= google.token
    BY CredentialsAssumption DEF CredentialsInit, Google
  <2>2. StoreTypes
    BY MapTypes DEF CredentialsInit, StoreTypes
  <2> QED BY <2>1, <2>2, MapTypes, CredentialsAssumption DEF CredentialsInit, Types
<1>2. \A c \in Clients : req[c].pc = "idle" /\ req[c].ino = None
  BY DEF CredentialsInit, NoReq, Request
<1> QED
  BY <1>1, <1>2 DEF CredentialsInit, OnPath, FileWhole, OrphansAreEntries, WriteCurrent

\* Every record a step of a request may assign is a request's record.
LEMMA RecordTypes ==
  ASSUME NEW r \in Req, NEW p \in PCs
  PROVE  /\ [r EXCEPT !.pc = p] \in Req
         /\ \A v \in Values : [r EXCEPT !.pc = p, !.val = v] \in Req
         /\ \A v \in Values, t \in {"none", "ref"} :
              [r EXCEPT !.pc = p, !.val = v, !.then = t] \in Req
         /\ \A m \in SecretMaps : [r EXCEPT !.map = m, !.pc = p] \in Req
         /\ \A i \in Inodes : [r EXCEPT !.ino = i, !.pc = p] \in Req
         /\ [r EXCEPT !.op = "none", !.then = "none"] \in Req
<1>1. [r EXCEPT !.pc = p] \in Req
  BY DEF Req
<1>2. \A v \in Values : [r EXCEPT !.pc = p, !.val = v] \in Req
  BY DEF Req
<1>3. \A v \in Values, t \in {"none", "ref"} :
        [r EXCEPT !.pc = p, !.val = v, !.then = t] \in Req
  BY DEF Req
<1>4. \A m \in SecretMaps : [r EXCEPT !.map = m, !.pc = p] \in Req
  BY DEF Req
<1>5. \A i \in Inodes : [r EXCEPT !.ino = i, !.pc = p] \in Req
  BY DEF Req
<1>6. [r EXCEPT !.op = "none", !.then = "none"] \in Req
  BY DEF Req
<1> QED
  BY <1>1, <1>2, <1>3, <1>4, <1>5, <1>6

\* There is a free inode, and it is neither file.
LEMMA FreeInodeExists ==
  ASSUME IInv, ~Exempt
  PROVE  /\ FreeInode \in Inodes /\ FreeInode # file /\ FreeInode # tmp
<1> DEFINE Free(i) == i # file /\ i # tmp /\ \A o \in orphans : o.ino # i
<1>1. \A o \in orphans : o.ino = None
  BY DEF IInv, OrphansAreEntries
<1>2. 1 \in Inodes /\ 2 \in Inodes /\ 3 \in Inodes /\ None \notin Inodes
  BY CredentialsAssumption DEF Inodes
<1>3. \E i \in Inodes : Free(i)
  BY <1>1, <1>2
<1> QED
  BY <1>3 DEF FreeInode

\* What is stored is a readable map.
LEMMA StoredReadable ==
  ASSUME IInv, ~Exempt
  PROVE  Readable /\ Stored \in SecretMaps
<1>1. file \in Inodes \cup {None} /\ inode \in [Inodes -> Contents] /\ FileWhole
  BY DEF IInv, Types, StoreTypes
<1>2. file # None => inode[file].st = "whole" /\ inode[file].map \in SecretMaps
  BY <1>1 DEF FileWhole, Contents
<1> QED
  BY <1>2, MapTypes DEF Readable, Stored

\* Whoever has the guard is alone in the store.
LEMMA AloneInStore ==
  ASSUME IInv, ~Exempt, NEW c \in Clients, req[c].pc \in InStore
  PROVE  lock = c /\ \A d \in Clients \ {c} : req[d].pc \notin InStore
BY DEF IInv, OnPath

\* A step of one request to the record r keeps what is said of requests.
LEMMA RequestKeeps ==
  ASSUME IInv, ~Exempt, NEW c \in Clients, NEW r \in Req, req' = [req EXCEPT ![c] = r],
         scenario' = scenario, Backend' = Backend, Exempt' = Exempt,
         r.pc # "idle" => r.a \in Accounts, r.pc = "refresh" => r.val \in Bundles,
         r.pc \in InStore => lock' = c, lock' = lock \/ lock = c \/ lock = None,
         Backend = "file" => r.pc # "entry",
         Backend # "file" => r.pc \notin {"read", "open", "write", "rename"} /\ r.ino = None,
         r.pc \in {"open", "write", "rename"} => r.map = [Stored' EXCEPT ![r.a] = r.val],
         r.pc = "write" => tmp' # None /\ r.ino = tmp',
         r.pc = "rename" => tmp' # None /\ inode'[tmp'] = Whole(r.map),
         UNCHANGED disk \/ req[c].pc \in InStore
  PROVE  req' \in [Clients -> Req] /\ OnPath' /\ WriteCurrent'
<1>1. /\ req \in [Clients -> Req] /\ req' \in [Clients -> Req] /\ req'[c] = r
      /\ \A d \in Clients \ {c} : req'[d] = req[d]
  BY DEF IInv, Types
<1>2. OnPath'
  <2> SUFFICES ASSUME NEW d \in Clients
               PROVE  /\ req'[d].pc # "idle" => req'[d].a \in Accounts
                      /\ req'[d].pc = "refresh" => req'[d].val \in Bundles
                      /\ req'[d].pc \in InStore => lock' = d
                      /\ Backend = "file" => req'[d].pc # "entry"
                      /\ Backend # "file" => req'[d].pc \notin {"read", "open", "write", "rename"}
                                             /\ req'[d].ino = None
    BY DEF OnPath
  <2>1. CASE d = c
    BY <1>1, <2>1
  <2>2. CASE d # c
    BY <1>1, <2>2, CredentialsAssumption DEF IInv, OnPath
  <2> QED BY <2>1, <2>2
<1>3. WriteCurrent'
  <2> SUFFICES ASSUME NEW d \in Clients
               PROVE  /\ req'[d].pc \in {"open", "write", "rename"} =>
                           req'[d].map = [Stored' EXCEPT ![req'[d].a] = req'[d].val]
                      /\ req'[d].pc = "write" => tmp' # None /\ req'[d].ino = tmp'
                      /\ req'[d].pc = "rename" => tmp' # None /\ inode'[tmp'] = Whole(req'[d].map)
    BY DEF WriteCurrent, Whole
  <2>1. CASE d = c
    BY <1>1, <2>1
  <2>2. CASE d # c /\ UNCHANGED disk
    <3>1. Stored' = Stored
      BY <2>2 DEF disk, Stored, NoSecrets
    <3> QED BY <1>1, <2>2, <3>1 DEF disk, IInv, WriteCurrent
  <2>3. CASE d # c /\ req[c].pc \in InStore
    BY <1>1, <2>3, AloneInStore
  <2> QED BY <2>1, <2>2, <2>3
<1> QED
  BY <1>1, <1>2, <1>3

\* The same for a step that leaves the files alone.
LEMMA QuietStep ==
  ASSUME IInv, ~Exempt, NEW c \in Clients, NEW r \in Req, req' = [req EXCEPT ![c] = r],
         UNCHANGED <<scenario, disk, orphans>>, Backend' = Backend, Exempt' = Exempt,
         google' \in Google, google'.consent <= google'.token, calls' \in 0..MaxCalls,
         r.pc # "idle" => r.a \in Accounts, r.pc = "refresh" => r.val \in Bundles,
         r.pc \in InStore => lock' = c, lock' \in {lock, c, None},
         lock' = lock \/ lock = c \/ lock = None,
         Backend = "file" => r.pc # "entry",
         Backend # "file" => r.pc \notin {"read", "open", "write", "rename"} /\ r.ino = None,
         r.pc \in {"open", "write", "rename"} => r.map = [Stored EXCEPT ![r.a] = r.val],
         r.pc \notin {"write", "rename"}
  PROVE  IInv'
<1>1. Stored' = Stored
  BY DEF disk, Stored, NoSecrets
<1>2. req' \in [Clients -> Req] /\ OnPath' /\ WriteCurrent'
  BY <1>1, RequestKeeps
<1>3. FileWhole' /\ OrphansAreEntries' /\ StoreTypes'
  BY DEF IInv, Types, StoreTypes, FileWhole, OrphansAreEntries, disk
<1> QED
  BY <1>2, <1>3 DEF IInv, Types

\* A request that is answered.
LEMMA DoneKeeps ==
  ASSUME IInv, ~Exempt, NEW c \in Clients,
         NEW res \in {"none", "bad_args", "oauth_failed", "internal", "missing_secret", "credential",
                      "oauth_reauth_required", "ok"},
         Done(c, res), UNCHANGED <<scenario, disk, orphans, google, calls>>,
         Backend' = Backend, Exempt' = Exempt,
         lock' = lock \/ (lock = c /\ lock' = None)
  PROVE  IInv'
<1> DEFINE r == [NoReq EXCEPT !.res = res]
<1>1. r \in Req /\ r.pc = "idle" /\ r.ino = None
  BY MapTypes DEF NoReq, Request, Req
<1>2. google' \in Google /\ google'.consent <= google'.token /\ calls' \in 0..MaxCalls
  BY DEF IInv, Types
<1>3. req' = [req EXCEPT ![c] = r]
  BY DEF Done
<1> HIDE DEF r
<1> QED
  BY <1>1, <1>2, <1>3, QuietStep

\* A request that goes on outside of the files, with another value and sequel.
LEMMA MoveKeeps ==
  ASSUME IInv, ~Exempt, NEW c \in Clients, req[c].pc # "idle",
         NEW p \in {"exchange", "get", "refresh", "lock"}, NEW v \in Values, NEW t \in {"none", "ref"},
         req' = [req EXCEPT ![c] = [@ EXCEPT !.pc = p, !.val = v, !.then = t]],
         p = "refresh" => v \in Bundles,
         UNCHANGED <<scenario, disk, orphans, lock, calls>>, Backend' = Backend, Exempt' = Exempt,
         google' \in Google, google'.consent <= google'.token
  PROVE  IInv'
<1> DEFINE r == [req[c] EXCEPT !.pc = p, !.val = v, !.then = t]
<1>1. req[c] \in Req /\ calls \in 0..MaxCalls /\ p \in PCs
  BY DEF IInv, Types, PCs
<1>2. r \in Req
  BY <1>1, RecordTypes
<1>3. r.pc = p /\ r.val = v /\ r.a = req[c].a /\ r.ino = req[c].ino
  BY <1>1 DEF Req
<1>4. r.a \in Accounts /\ (Backend # "file" => r.ino = None)
  BY <1>3 DEF IInv, OnPath
<1>5. req' = [req EXCEPT ![c] = r]
  OBVIOUS
<1> HIDE DEF r
<1> QED
  BY <1>1, <1>2, <1>3, <1>4, <1>5, QuietStep

\* A request begins.
LEMMA CallKeeps ==
  ASSUME IInv, ~Exempt, NEW c \in Clients, NEW a \in Accounts, NEW op \in Ops,
         NEW pc \in {"check", "lock"}, Call(c, op, a, pc), Backend' = Backend, Exempt' = Exempt
  PROVE  IInv'
<1> DEFINE val == IF op = "account.set_secret" THEN Password(calls') ELSE None
           then == IF op = "account.delete_secret" THEN "ref" ELSE "none"
           r == Request(op, a, pc, val, then)
<1>1. calls' \in 1..MaxCalls /\ calls' \in 0..MaxCalls
  BY CredentialsAssumption DEF IInv, Types, Call
<1>2. val \in Values
  BY <1>1 DEF Values, Secrets, Passwords
<1>3. r \in Req /\ r.pc = pc /\ r.a = a /\ r.ino = None
  <2> HIDE DEF val
  <2> QED BY <1>2, MapTypes DEF Request, Req, PCs
<1>4. req' = [req EXCEPT ![c] = r]
  BY DEF Call
<1>5. google' \in Google /\ google'.consent <= google'.token /\ UNCHANGED <<scenario, disk, orphans, lock>>
  BY DEF Call, IInv, Types, store
<1> HIDE DEF r
<1> QED
  BY <1>1, <1>3, <1>4, <1>5, QuietStep

\* Putting back what a record holds changes nothing.
LEMMA SameRecord ==
  ASSUME NEW r \in Req, NEW p \in PCs
  PROVE  /\ [r EXCEPT !.pc = p] = [r EXCEPT !.pc = p, !.val = r.val, !.then = r.then]
         /\ \A v \in Values :
              [r EXCEPT !.pc = p, !.val = v] = [r EXCEPT !.pc = p, !.val = v, !.then = r.then]
BY DEF Req

\* A token more, and perhaps a consent.
LEMMA IssueTypes ==
  ASSUME NEW g \in Google, NEW k \in 0..MaxTokens, g.token < MaxTokens, k <= g.token + 1
  PROVE  LET h == [g EXCEPT !.token = @ + 1, !.consent = k]
         IN h \in Google /\ h.consent <= h.token /\ h.token = g.token + 1
<1>1. MaxTokens \in Nat /\ g.token + 1 \in 0..MaxTokens
  BY CredentialsAssumption DEF Google
<1>2. [g EXCEPT !.token = g.token + 1, !.consent = k] \in Google
  BY <1>1 DEF Google
<1>3. /\ [g EXCEPT !.token = g.token + 1, !.consent = k].token = g.token + 1
      /\ [g EXCEPT !.token = g.token + 1, !.consent = k].consent = k
  BY DEF Google
<1> QED BY <1>2, <1>3

\* Requests before they reach the store: the account's row, Google, the token.
LEMMA BeforeStoreKeeps ==
  ASSUME IInv, ~Exempt, NEW c \in Clients, Check(c) \/ Exchange(c) \/ Get(c) \/ Refresh(c),
         Backend' = Backend, Exempt' = Exempt
  PROVE  IInv'
<1> DEFINE q == req[c]
<1>1. /\ q \in Req /\ q.val \in Values /\ q.then \in {"none", "ref"} /\ q.pc # "idle"
      /\ google \in Google /\ google.consent <= google.token
      /\ q.pc = "refresh" => q.val \in Bundles
  <2>1. /\ q \in Req /\ q.pc # "idle" /\ google \in Google /\ google.consent <= google.token
        /\ q.pc = "refresh" => q.val \in Bundles
    BY DEF IInv, Types, OnPath, Check, Exchange, Get, Refresh, At
  <2> QED BY <2>1 DEF Req
<1>2. /\ "exchange" \in PCs /\ "get" \in PCs /\ "refresh" \in PCs /\ "lock" \in PCs
      /\ Bundles \subseteq Values
  BY DEF PCs, Values, Secrets
<1>3. ASSUME Check(c) PROVE IInv'
  <2>1. UNCHANGED <<scenario, disk, orphans, lock, google, calls>>
    BY <1>3 DEF Check, store
  <2>2. CASE Done(c, "bad_args")
    BY <2>1, <2>2, DoneKeeps
  <2>3. CASE Put(c, q.val, "ref")
    BY <1>1, <2>1, <2>3, MoveKeeps DEF Put
  <2>4. ASSUME NEW l \in {"exchange", "get"}, Step(c, l) PROVE IInv'
    <3>1. l \in PCs
      BY <1>2
    <3>2. req' = [req EXCEPT ![c] = [@ EXCEPT !.pc = l, !.val = q.val, !.then = q.then]]
      BY <1>1, <2>4, <3>1, SameRecord DEF Step
    <3> QED BY <1>1, <2>1, <3>2, MoveKeeps
  <2> QED BY <1>3, <2>2, <2>3, <2>4, Zenon DEF Check
<1>4. ASSUME Exchange(c) PROVE IInv'
  <2>1. UNCHANGED <<scenario, disk, orphans, lock, calls>>
    BY <1>4 DEF Exchange, store
  <2>2. CASE /\ NewToken /\ Issue(google.consent + 1)
             /\ Put(c, Bundle(google.consent + 1, google.token + 1), "ref")
    <3>1. /\ google.consent + 1 \in 1..MaxTokens /\ google.token + 1 \in 1..MaxTokens
      BY <1>1, <2>2, CredentialsAssumption DEF NewToken, Google
    <3>2. Bundle(google.consent + 1, google.token + 1) \in Values
      BY <3>1, <1>2 DEF Bundles
    <3>3. google' \in Google /\ google'.consent <= google'.token
      <4>1. google.consent + 1 \in 0..MaxTokens /\ google.consent + 1 <= google.token + 1
        BY <1>1, <3>1 DEF Google
      <4> QED BY <1>1, <2>2, <4>1, IssueTypes DEF Issue, NewToken
    <3> QED BY <1>1, <2>1, <2>2, <3>2, <3>3, MoveKeeps DEF Put
  <2>3. CASE Done(c, "oauth_failed") /\ UNCHANGED google
    BY <2>1, <2>3, DoneKeeps
  <2> QED BY <1>4, <2>2, <2>3 DEF Exchange
<1>5. ASSUME Get(c) PROVE IInv'
  <2>1. UNCHANGED <<scenario, disk, orphans, lock, google, calls>>
    BY <1>5 DEF Get, store
  <2>2. ASSUME NEW res \in {"internal", "missing_secret", "credential"}, Done(c, res) PROVE IInv'
    BY <2>1, <2>2, DoneKeeps
  <2>3. CASE /\ Stored[q.a] # None /\ Stored[q.a].kind # "password"
             /\ req' = [req EXCEPT ![c] = [@ EXCEPT !.pc = "refresh", !.val = Stored[q.a]]]
    <3>1. Stored[q.a] \in Bundles
      <4>1. Stored[q.a] \in Values
        BY <1>1, StoredReadable DEF SecretMaps, IInv, OnPath
      <4>2. \A s \in Passwords : s.kind = "password"
        BY DEF Passwords, Password
      <4> QED BY <4>1, <4>2, <2>3 DEF Values, Secrets
    <3>2. req' = [req EXCEPT ![c] = [@ EXCEPT !.pc = "refresh", !.val = Stored[q.a],
                                                 !.then = q.then]]
      BY <1>1, <1>2, <2>3, <3>1, SameRecord
    <3> QED BY <1>1, <1>2, <2>1, <3>1, <3>2, MoveKeeps
  <2> QED BY <1>5, <2>2, <2>3, Zenon DEF Get
<1>6. ASSUME Refresh(c) PROVE IInv'
  <2>1. UNCHANGED <<scenario, disk, orphans, lock, calls>> /\ q.val \in Bundles
    BY <1>1, <1>6 DEF Refresh, store, At
  <2>2. CASE /\ NewToken /\ Issue(google.consent)
             /\ Put(c, [q.val EXCEPT !.token = google'.token], "none")
    <3>1. google.token + 1 \in 1..MaxTokens
      BY <1>1, <2>2, CredentialsAssumption DEF NewToken, Google
    <3>2. google' \in Google /\ google'.consent <= google'.token /\ google'.token = google.token + 1
      <4>1. google.consent \in 0..MaxTokens /\ google.consent <= google.token + 1
        BY <1>1 DEF Google
      <4> QED BY <1>1, <2>2, <4>1, IssueTypes DEF Issue, NewToken
    <3>3. PICK g \in 1..MaxTokens, k \in 1..MaxTokens : q.val = Bundle(g, k)
      BY <2>1 DEF Bundles
    <3>4. [q.val EXCEPT !.token = google'.token] = Bundle(g, google.token + 1)
      BY <3>2, <3>3 DEF Bundle
    <3>5. [q.val EXCEPT !.token = google'.token] \in Values
      BY <1>2, <3>1, <3>4 DEF Bundles
    <3> QED BY <1>1, <2>1, <2>2, <3>2, <3>5, MoveKeeps DEF Put
  <2>3. ASSUME NEW res \in {"oauth_reauth_required", "credential", "oauth_failed"},
               Done(c, res), UNCHANGED google
        PROVE  IInv'
    BY <2>1, <2>3, DoneKeeps
  <2> QED BY <1>6, <2>2, <2>3, Zenon DEF Refresh
<1> QED
  BY <1>3, <1>4, <1>5, <1>6

\* What a request in the store can rely on.
LEMMA InStoreFacts ==
  ASSUME IInv, ~Exempt, NEW c \in Clients, req[c].pc \in InStore
  PROVE  /\ req[c] \in Req /\ req[c].a \in Accounts /\ req[c].val \in Values /\ lock = c
         /\ req[c].map \in SecretMaps /\ req[c].ino \in Inodes \cup {None}
         /\ req[c].pc = "entry" => Backend # "file"
         /\ Backend # "file" => req[c].pc \notin {"read", "open", "write", "rename"} /\ req[c].ino = None
         /\ google \in Google /\ google.consent <= google.token /\ calls \in 0..MaxCalls
         /\ file \in Inodes \cup {None} /\ tmp \in Inodes \cup {None} /\ None \notin Inodes
         /\ inode \in [Inodes -> Contents] /\ orphans \subseteq Req
<1>1. /\ req[c] \in Req /\ req[c].a \in Accounts /\ lock = c
      /\ req[c].pc = "entry" => Backend # "file"
      /\ Backend # "file" => req[c].pc \notin {"read", "open", "write", "rename"} /\ req[c].ino = None
      /\ google \in Google /\ google.consent <= google.token /\ calls \in 0..MaxCalls
  BY DEF IInv, Types, OnPath
<1>2. req[c].val \in Values /\ req[c].map \in SecretMaps /\ req[c].ino \in Inodes \cup {None}
  BY <1>1 DEF Req
<1>3. /\ file \in Inodes \cup {None} /\ tmp \in Inodes \cup {None} /\ None \notin Inodes
      /\ inode \in [Inodes -> Contents] /\ orphans \subseteq Req
  BY CredentialsAssumption DEF IInv, Types, StoreTypes, Inodes
<1> QED
  BY <1>1, <1>2, <1>3

\* The guard is taken, the map is read, the guard goes: nothing is written.
LEMMA GuardKeeps ==
  ASSUME IInv, ~Exempt, NEW c \in Clients, Lock(c) \/ Read(c) \/ Unlock(c) \/ Ref(c),
         Backend' = Backend, Exempt' = Exempt
  PROVE  IInv'
<1> DEFINE q == req[c]
<1>1. /\ q \in Req /\ google \in Google /\ google.consent <= google.token /\ calls \in 0..MaxCalls
      /\ q.pc # "idle" => q.a \in Accounts
      /\ Backend # "file" => q.ino = None
      /\ q.pc \in InStore => lock = c
  BY DEF IInv, Types, OnPath
<1>2. ASSUME Lock(c) PROVE IInv'
  <2> DEFINE l == IF Backend = "file" THEN "read" ELSE "entry"
             r == [q EXCEPT !.pc = l]
  <2>1. l \in PCs /\ r \in Req
    BY <1>1, RecordTypes DEF PCs
  <2>2. r.pc = l /\ r.a = q.a /\ r.ino = q.ino
    BY <1>1 DEF Req
  <2>3. /\ req' = [req EXCEPT ![c] = r] /\ lock = None /\ lock' = c /\ q.pc = "lock"
        /\ UNCHANGED <<scenario, disk, orphans, google, calls>>
    BY <1>2 DEF Lock, Step, At
  <2> HIDE DEF r
  <2> QED BY <1>1, <2>1, <2>2, <2>3, QuietStep
<1>3. ASSUME Read(c) PROVE IInv'
  <2> DEFINE m == [Stored EXCEPT ![q.a] = q.val]
             l == IF q.val = None /\ Stored[q.a] = None THEN "unlock" ELSE "open"
             r == [q EXCEPT !.map = m, !.pc = l]
  <2>1. q.pc = "read" /\ UNCHANGED <<scenario, disk, orphans, google, calls>>
    BY <1>3 DEF Read, At
  <2>2. q.pc \in InStore
    BY <2>1
  <2>3. CASE ~Readable
    BY <2>2, StoredReadable, <2>3
  <2>4. CASE req' = [req EXCEPT ![c] = r] /\ lock' = lock
    <3>1. m \in SecretMaps /\ l \in PCs
      BY <2>2, StoredReadable, InStoreFacts DEF SecretMaps, PCs
    <3>2. r \in Req
      BY <1>1, <3>1, RecordTypes
    <3>3. r.pc = l /\ r.a = q.a /\ r.val = q.val /\ r.map = m /\ r.ino = q.ino
      BY <1>1 DEF Req
    <3>4. Backend = "file"
      BY <2>1, <2>2, InStoreFacts
    <3> HIDE DEF r
    <3> QED BY <1>1, <2>1, <2>2, <2>4, <3>1, <3>2, <3>3, <3>4, QuietStep
  <2> QED BY <1>3, <2>3, <2>4, Zenon DEF Read
<1>4. ASSUME Unlock(c) PROVE IInv'
  <2> DEFINE r == [q EXCEPT !.pc = "ref"]
  <2>1. /\ q.pc = "unlock" /\ lock' = None /\ lock = c
        /\ UNCHANGED <<scenario, disk, orphans, google, calls>>
    BY <1>1, <1>4 DEF Unlock, At
  <2>2. CASE Done(c, "credential")
    BY <2>1, <2>2, DoneKeeps
  <2>3. CASE Step(c, "ref")
    <3>1. "ref" \in PCs
      BY DEF PCs
    <3>2. r \in Req
      BY <1>1, <3>1, RecordTypes
    <3>3. r.pc = "ref" /\ r.a = q.a /\ r.ino = q.ino
      BY <1>1 DEF Req
    <3>4. req' = [req EXCEPT ![c] = r]
      BY <2>3 DEF Step
    <3> HIDE DEF r
    <3> QED BY <1>1, <2>1, <3>2, <3>3, <3>4, QuietStep
  <2> QED BY <1>4, <2>2, <2>3 DEF Unlock
<1>5. ASSUME Ref(c) PROVE IInv'
  <2>1. Done(c, "ok") /\ UNCHANGED <<scenario, disk, orphans, lock, google, calls>>
    BY <1>5 DEF Ref, store
  <2> QED BY <2>1, DoneKeeps
<1> QED
  BY <1>2, <1>3, <1>4, <1>5

\* A step of whoever has the guard that changes the files.
LEMMA DiskStep ==
  ASSUME IInv, ~Exempt, NEW c \in Clients, req[c].pc \in InStore, NEW r \in Req,
         req' = [req EXCEPT ![c] = r],
         UNCHANGED <<scenario, orphans, lock, google, calls>>, Backend' = Backend, Exempt' = Exempt,
         file' \in Inodes \cup {None}, tmp' \in Inodes \cup {None}, inode' \in [Inodes -> Contents],
         FileWhole', r.a \in Accounts, r.pc \in InStore,
         Backend = "file" => r.pc # "entry",
         Backend # "file" => r.pc \notin {"read", "open", "write", "rename"} /\ r.ino = None,
         r.pc \in {"open", "write", "rename"} => r.map = [Stored' EXCEPT ![r.a] = r.val],
         r.pc = "write" => tmp' # None /\ r.ino = tmp',
         r.pc = "rename" => tmp' # None /\ inode'[tmp'] = Whole(r.map)
  PROVE  IInv'
<1>1. req' \in [Clients -> Req] /\ OnPath' /\ WriteCurrent'
  <2>1. lock = c
    BY InStoreFacts
  <2> QED BY <2>1, RequestKeeps
<1>2. OrphansAreEntries' /\ StoreTypes'
  BY DEF IInv, Types, StoreTypes, OrphansAreEntries
<1> QED
  BY <1>1, <1>2 DEF IInv, Types

\* A temporary file is created, truncated or filled: what is stored is not touched.
LEMMA TmpFilled ==
  ASSUME IInv, ~Exempt, NEW c \in Clients, req[c].pc \in InStore,
         NEW i \in Inodes, i # file, NEW content \in Contents, Fill(i, content), file' = file,
         tmp' = i
  PROVE  /\ inode' \in [Inodes -> Contents] /\ inode'[i] = content
         /\ FileWhole' /\ Stored' = Stored
<1>1. /\ file \in Inodes \cup {None} /\ inode \in [Inodes -> Contents]
      /\ FileWhole
  BY DEF IInv, Types, StoreTypes
<1>2. inode' \in [Inodes -> Contents] /\ inode'[i] = content
  BY <1>1 DEF Fill
<1>3. file # None => inode'[file] = inode[file]
  BY <1>1 DEF Fill
<1> QED
  BY <1>1, <1>2, <1>3 DEF FileWhole, Stored, NoSecrets

\* The file's write: temporary file, content, rename.
LEMMA WriteKeeps ==
  ASSUME IInv, ~Exempt, NEW c \in Clients, Open(c) \/ Write(c) \/ Rename(c),
         Backend' = Backend, Exempt' = Exempt
  PROVE  IInv'
<1> DEFINE q == req[c]
<1>1. q.pc \in {"open", "write", "rename"} /\ q.pc \in InStore
  BY DEF Open, Write, Rename, At
<1>2. /\ q \in Req /\ q.a \in Accounts /\ Backend = "file" /\ None \notin Inodes /\ lock = c
      /\ q.map \in SecretMaps /\ orphans = {}
      /\ file \in Inodes \cup {None} /\ tmp \in Inodes \cup {None} /\ inode \in [Inodes -> Contents]
  BY <1>1, InStoreFacts DEF IInv, OrphansAreEntries
<1>3. /\ q.map = [Stored EXCEPT ![q.a] = q.val]
      /\ q.pc = "write" => tmp # None /\ q.ino = tmp
      /\ q.pc = "rename" => tmp # None /\ inode[tmp] = Whole(q.map)
      /\ file # None => file # tmp
  BY <1>1 DEF IInv, WriteCurrent, FileWhole
<1>4. ASSUME Open(c) PROVE IInv'
  <2> DEFINE i == TmpInode
             r == [q EXCEPT !.ino = i, !.pc = "write"]
  <2>1. i \in Inodes /\ i # file /\ i # None
    BY <1>2, <1>3, FreeInodeExists DEF TmpInode
  <2>2. /\ tmp' = i /\ Fill(i, Empty) /\ req' = [req EXCEPT ![c] = r]
        /\ UNCHANGED <<scenario, file, orphans, lock, google, calls>>
    BY <1>4 DEF Open
  <2> HIDE DEF i
  <2>3. r \in Req
    BY <1>2, <2>1, RecordTypes DEF PCs
  <2>4. r.pc = "write" /\ r.a = q.a /\ r.val = q.val /\ r.map = q.map /\ r.ino = i
    BY <1>2 DEF Req
  <2>5. /\ inode' \in [Inodes -> Contents] /\ FileWhole' /\ Stored' = Stored
    BY <1>1, <2>1, <2>2, MapTypes, TmpFilled
  <2>6. file' \in Inodes \cup {None} /\ tmp' \in Inodes \cup {None}
    BY <1>2, <2>1, <2>2
  <2> HIDE DEF r
  <2> QED BY <1>1, <1>2, <1>3, <2>1, <2>2, <2>3, <2>4, <2>5, <2>6, DiskStep
<1>5. ASSUME Write(c) PROVE IInv'
  <2>1. q.pc = "write" /\ q.ino = tmp /\ tmp # None /\ tmp \in Inodes /\ tmp # file
    BY <1>2, <1>3, <1>5 DEF Write, At
  <2>2. UNCHANGED <<scenario, file, tmp, orphans, google, calls>>
    BY <1>5 DEF Write
  <2>3. CASE Fill(tmp, Part) /\ UNCHANGED <<req, lock>>
    <3>1. req' = [req EXCEPT ![c] = q]
      BY <2>3 DEF IInv, Types
    <3>2. inode' \in [Inodes -> Contents] /\ FileWhole' /\ Stored' = Stored
      BY <1>1, <2>1, <2>2, <2>3, MapTypes, TmpFilled
    <3>3. file' \in Inodes \cup {None} /\ tmp' \in Inodes \cup {None}
      BY <1>2, <2>2
    <3> HIDE DEF q
    <3> QED BY <1>1, <1>2, <1>3, <2>1, <2>2, <2>3, <3>1, <3>2, <3>3, DiskStep DEF q
  <2>4. CASE Step(c, "rename") /\ UNCHANGED lock /\ Fill(tmp, Whole(q.map))
    <3> DEFINE r == [q EXCEPT !.pc = "rename"]
    <3>1. req' = [req EXCEPT ![c] = r]
      BY <2>4 DEF Step
    <3>2. Whole(q.map) \in Contents
      BY <1>2, MapTypes
    <3>3. /\ inode' \in [Inodes -> Contents] /\ FileWhole' /\ Stored' = Stored
          /\ inode'[tmp] = Whole(q.map)
      BY <1>1, <2>1, <2>2, <2>4, <3>2, TmpFilled
    <3>4. r \in Req
      BY <1>2, RecordTypes DEF PCs
    <3>5. r.pc = "rename" /\ r.a = q.a /\ r.val = q.val /\ r.map = q.map
      BY <1>2 DEF Req
    <3>6. /\ file' \in Inodes \cup {None} /\ tmp' \in Inodes \cup {None}
          /\ tmp' # None /\ inode'[tmp'] = Whole(r.map)
      BY <1>2, <2>1, <2>2, <3>3, <3>5
    <3> HIDE DEF r
    <3> QED BY <1>1, <1>2, <1>3, <2>1, <2>2, <2>4, <3>1, <3>3, <3>4, <3>5, <3>6, DiskStep
  <2>5. CASE Fail(c) /\ UNCHANGED inode
    <3>1. Done(c, "internal") /\ lock' = None /\ UNCHANGED disk
      BY <2>2, <2>5 DEF Fail, disk
    <3> QED BY <1>2, <2>2, <3>1, DoneKeeps
  <2> QED BY <1>2, <1>5, <2>1, <2>3, <2>4, <2>5 DEF Write
<1>6. ASSUME Rename(c) PROVE IInv'
  <2> DEFINE r == [q EXCEPT !.pc = "unlock"]
  <2>1. q.pc = "rename" /\ tmp # None /\ tmp \in Inodes /\ inode[tmp] = Whole(q.map)
    BY <1>2, <1>3, <1>6 DEF Rename, At
  <2>2. /\ file' = tmp /\ tmp' = None /\ Step(c, "unlock") /\ UNCHANGED lock
        /\ UNCHANGED <<scenario, inode, orphans, google, calls>>
    BY <1>6, <2>1 DEF Rename
  <2>3. req' = [req EXCEPT ![c] = r]
    BY <2>2 DEF Step
  <2>4. r \in Req
    BY <1>2, RecordTypes DEF PCs
  <2>5. r.pc = "unlock" /\ r.a = q.a /\ r.ino = q.ino
    BY <1>2 DEF Req
  <2>6. /\ file' \in Inodes \cup {None} /\ tmp' \in Inodes \cup {None}
        /\ inode' \in [Inodes -> Contents]
    BY <1>2, <2>1, <2>2
  <2>7. FileWhole'
    BY <1>2, <2>1, <2>2 DEF FileWhole, Whole
  <2> HIDE DEF r
  <2> QED BY <1>1, <1>2, <2>2, <2>3, <2>4, <2>5, <2>6, <2>7, DiskStep
<1> QED
  BY <1>4, <1>5, <1>6

\* One entry of the keyring is set: what is stored changes for its account alone.
LEMMA EntrySet ==
  ASSUME IInv, ~Exempt, Backend # "file", NEW a \in Accounts, NEW v \in Values, SetEntry(a, v)
  PROVE  /\ file' \in Inodes /\ tmp' = tmp /\ inode' \in [Inodes -> Contents] /\ FileWhole'
         /\ Readable' /\ Stored' = [Stored EXCEPT ![a] = v]
<1> DEFINE i == IF file = None THEN FreeInode ELSE file
           m == [Stored EXCEPT ![a] = v]
<1>1. /\ file \in Inodes \cup {None} /\ inode \in [Inodes -> Contents] /\ FileWhole
      /\ None \notin Inodes
  BY CredentialsAssumption DEF IInv, Types, StoreTypes, Inodes
<1>2. i \in Inodes /\ i # tmp
  BY <1>1, FreeInodeExists DEF FileWhole
<1>3. m \in SecretMaps
  BY StoredReadable DEF SecretMaps
<1>4. Whole(m) \in Contents
  BY <1>3, MapTypes
<1>5. file' = i /\ tmp' = tmp /\ inode' = [inode EXCEPT ![i] = Whole(m)]
  BY DEF SetEntry, Fill
<1> HIDE DEF i, m
<1>6. inode' \in [Inodes -> Contents] /\ inode'[file'] = Whole(m) /\ file' # None
  BY <1>1, <1>2, <1>4, <1>5
<1>7. FileWhole'
  BY <1>2, <1>5, <1>6 DEF FileWhole, Whole
<1>8. Readable' /\ Stored' = m
  BY <1>6 DEF Readable, Stored, Whole
<1> QED
  BY <1>2, <1>5, <1>6, <1>7, <1>8 DEF m

\* A keyring operation of a request, and one that goes on without its request.
LEMMA EntryKeeps ==
  ASSUME IInv, ~Exempt, NEW c \in Clients, Entry(c), Backend' = Backend, Exempt' = Exempt
  PROVE  IInv'
<1> DEFINE q == req[c]
           r == [q EXCEPT !.pc = "unlock"]
<1>1. q.pc = "entry" /\ q.pc \in InStore
  BY DEF Entry, At
<1>2. /\ q \in Req /\ q.a \in Accounts /\ q.val \in Values /\ Backend # "file" /\ lock = c
      /\ q.ino = None /\ tmp \in Inodes \cup {None}
  BY <1>1, InStoreFacts
<1>3. UNCHANGED <<scenario, orphans, google, calls>>
  BY DEF Entry
<1>4. CASE SetEntry(q.a, q.val) /\ Step(c, "unlock") /\ UNCHANGED lock
  <2>1. /\ file' \in Inodes \cup {None} /\ tmp' \in Inodes \cup {None}
        /\ inode' \in [Inodes -> Contents] /\ FileWhole'
    BY <1>2, <1>4, EntrySet
  <2>2. req' = [req EXCEPT ![c] = r]
    BY <1>4 DEF Step
  <2>3. r \in Req
    BY <1>2, RecordTypes DEF PCs
  <2>4. r.pc = "unlock" /\ r.a = q.a /\ r.ino = q.ino
    BY <1>2 DEF Req
  <2> HIDE DEF r
  <2> QED BY <1>1, <1>2, <1>3, <1>4, <2>1, <2>2, <2>3, <2>4, DiskStep
<1>5. CASE Fail(c) /\ UNCHANGED disk
  <2>1. Done(c, "internal") /\ lock' = None
    BY <1>5 DEF Fail
  <2> QED BY <1>2, <1>3, <1>5, <2>1, DoneKeeps
<1> QED
  BY <1>4, <1>5 DEF Entry

LEMMA OrphanKeeps ==
  ASSUME IInv, ~Exempt, Orphan, Backend' = Backend, Exempt' = Exempt
  PROVE  IInv'
<1>1. PICK o \in orphans :
        /\ orphans' = orphans \ {o} /\ o.a \in Accounts
        /\ SetEntry(o.a, o.val) \/ UNCHANGED disk
        /\ UNCHANGED <<lock, req, google, calls, scenario>>
  BY DEF Orphan, IInv, OrphansAreEntries
<1>2. o.val \in Values /\ Backend # "file"
  <2>1. o \in Req /\ Backend # "file"
    BY DEF IInv, Types, StoreTypes, OrphansAreEntries
  <2> QED BY <2>1 DEF Req
<1>3. file' \in Inodes \cup {None} /\ tmp' = tmp /\ inode' \in [Inodes -> Contents] /\ FileWhole'
  <2>1. CASE SetEntry(o.a, o.val)
    BY <1>1, <1>2, <2>1, EntrySet
  <2>2. CASE UNCHANGED disk
    BY <2>2 DEF IInv, Types, StoreTypes, FileWhole, disk
  <2> QED BY <1>1, <2>1, <2>2
<1>4. Types'
  BY <1>1, <1>3 DEF IInv, Types, StoreTypes
<1>5. OnPath' /\ WriteCurrent'
  BY <1>1, <1>2 DEF IInv, OnPath, WriteCurrent
<1>6. OrphansAreEntries'
  BY <1>1 DEF IInv, OrphansAreEntries
<1> QED
  BY <1>3, <1>4, <1>5, <1>6 DEF IInv

\* A request cut off leaves its keyring operation behind, or nothing.
LEMMA CutKeeps ==
  ASSUME IInv, ~Exempt, NEW c \in Clients, Cut(c), Backend' = Backend, Exempt' = Exempt
  PROVE  IInv'
<1> DEFINE q == req[c]
           o == [q EXCEPT !.op = "none", !.then = "none"]
           r == [NoReq EXCEPT !.res = "none"]
<1>1. /\ q \in Req /\ q.pc # "idle" /\ q.a \in Accounts /\ Backend # "file" /\ q.ino = None
      /\ q.pc \notin {"open", "write", "rename"}
  BY DEF Cut, Exempt, IInv, Types, OnPath, At
<1>2. /\ req' = [req EXCEPT ![c] = r] /\ lock' = (IF lock = c THEN None ELSE lock)
      /\ UNCHANGED <<disk, google, calls, scenario>>
      /\ orphans' = orphans \/ (q.pc = "entry" /\ orphans' = orphans \cup {o})
  BY <1>1 DEF Cut, Done
<1>3. r \in Req /\ r.pc = "idle" /\ r.ino = None
  BY MapTypes DEF NoReq, Request, Req
<1>4. o \in Req
  BY <1>1, RecordTypes DEF PCs
<1>5. o.pc = q.pc /\ o.a = q.a /\ o.ino = q.ino
  BY <1>1 DEF Req
<1> HIDE DEF o, r
<1>6. req' \in [Clients -> Req] /\ OnPath' /\ WriteCurrent'
  BY <1>1, <1>2, <1>3, RequestKeeps
<1>7. OrphansAreEntries'
  BY <1>1, <1>2, <1>5 DEF IInv, OrphansAreEntries
<1>8. StoreTypes' /\ FileWhole'
  BY <1>2, <1>4 DEF IInv, Types, StoreTypes, FileWhole, disk
<1> QED
  BY <1>2, <1>6, <1>7, <1>8 DEF IInv, Types

\* The daemon is killed: no request, no guard, no operation is left.
LEMMA CrashKeeps ==
  ASSUME IInv, ~Exempt, Crash, Backend' = Backend, Exempt' = Exempt
  PROVE  IInv'
<1>1. \A c \in Clients : req'[c].pc = "idle" /\ req'[c].ino = None
  BY DEF Crash, NoReq, Request
<1>2. Types'
  BY MapTypes DEF Crash, IInv, Types, StoreTypes, disk
<1>3. FileWhole' /\ OrphansAreEntries'
  BY DEF Crash, IInv, FileWhole, OrphansAreEntries, disk
<1> QED
  BY <1>1, <1>2, <1>3 DEF IInv, OnPath, WriteCurrent

\* Google and the accounts table.
LEMMA OutsideKeeps ==
  ASSUME IInv, ~Exempt, Backend' = Backend, Exempt' = Exempt,
         Tick \/ Revoke \/ \E a \in Accounts : AccountCreate(a) \/ AccountDelete(a)
  PROVE  IInv'
<1>1. google \in Google /\ google.consent <= google.token /\ calls \in 0..MaxCalls
  BY DEF IInv, Types
<1>2. google' \in Google /\ google'.consent <= google'.token
  <2>1. CASE Tick
    <3>1. PICK t \in 1..google.token, s \in {"skew", "expired"} :
            google' = [google EXCEPT !.age = [@ EXCEPT ![t] = s]]
      BY <2>1 DEF Tick
    <3>2. [google.age EXCEPT ![t] = s] \in [1..MaxTokens -> {"fresh", "skew", "expired"}]
      BY <1>1 DEF Google
    <3> QED BY <1>1, <3>1, <3>2 DEF Google
  <2>2. CASE Revoke
    <3>1. PICK g \in 1..google.consent : google' = [google EXCEPT !.revoked = @ \cup {g}]
      BY <2>2 DEF Revoke
    <3>2. google.revoked \cup {g} \in SUBSET Nat
      BY <1>1 DEF Google
    <3> QED BY <1>1, <3>1, <3>2 DEF Google
  <2>3. CASE \E a \in Accounts : AccountCreate(a) \/ AccountDelete(a)
    BY <1>1, <2>3 DEF AccountCreate, AccountDelete
  <2> QED BY <2>1, <2>2, <2>3
<1>3. calls' \in 0..MaxCalls
  BY <1>1, CredentialsAssumption DEF Tick, Revoke, AccountCreate, AccountDelete
<1>4. UNCHANGED <<disk, orphans, lock, req, scenario>>
  BY DEF Tick, Revoke, AccountCreate, AccountDelete, store
<1>5. Types' /\ FileWhole' /\ OrphansAreEntries' /\ OnPath'
  BY <1>2, <1>3, <1>4 DEF IInv, Types, StoreTypes, FileWhole, OrphansAreEntries, OnPath, disk
<1>6. Stored' = Stored
  BY <1>4 DEF disk, Stored, NoSecrets
<1>7. WriteCurrent'
  BY <1>4, <1>6 DEF IInv, WriteCurrent, disk
<1> QED
  BY <1>5, <1>7 DEF IInv

\* Every step keeps the invariant.
LEMMA NextIInv == IInv /\ [CredentialsNext]_credvars => IInv'
<1> SUFFICES ASSUME IInv, [CredentialsNext]_credvars PROVE IInv'
  OBVIOUS
<1>1. Backend' = Backend /\ Exempt' = Exempt
  BY ScenarioFixed
<1>2. CASE Exempt
  BY <1>1, <1>2 DEF IInv
<1>3. CASE ~Exempt
  <2>1. ASSUME NEW c \in Clients, NEW a \in Accounts,
               \/ AccountSetSecret(c, a) \/ AccountDeleteSecret(c, a)
               \/ OauthGoogleComplete(c, a) \/ CredentialForAccount(c, a)
        PROVE  IInv'
    BY <1>1, <1>3, <2>1, CallKeeps DEF AccountSetSecret, AccountDeleteSecret,
       OauthGoogleComplete, CredentialForAccount
  <2>2. ASSUME NEW c \in Clients, Progress(c) PROVE IInv'
    BY <1>1, <1>3, <2>2, BeforeStoreKeeps, GuardKeeps, WriteKeeps, EntryKeeps DEF Progress
  <2>3. ASSUME NEW c \in Clients, Cut(c) PROVE IInv'
    BY <1>1, <1>3, <2>3, CutKeeps
  <2>4. CASE Tick \/ Revoke \/ \E a \in Accounts : AccountCreate(a) \/ AccountDelete(a)
    BY <1>1, <1>3, <2>4, OutsideKeeps
  <2>5. CASE Orphan \/ Crash
    BY <1>1, <1>3, <2>5, OrphanKeeps, CrashKeeps
  <2>6. CASE UNCHANGED credvars
    BY <1>1, <1>3, <2>6 DEF credvars, store, disk, IInv, Types, StoreTypes, FileWhole,
       OrphansAreEntries, OnPath, WriteCurrent, Stored, NoSecrets, Whole
  <2> QED BY <2>1, <2>2, <2>3, <2>4, <2>5, <2>6 DEF CredentialsNext
<1> QED
  BY <1>2, <1>3

-----------------------------------------------------------------------------
(* The refinement, one kind of step of SecretMap after the other.          *)

\* Where the promise holds, what is stored is SecretMap's map and the requests are its
\* calls.
LEMMA MapIs ==
  ASSUME IInv, ~Exempt
  PROVE  /\ MapSecrets = Stored /\ MapLate = {[a |-> o.a, val |-> o.val] : o \in orphans}
         /\ MapCalls = [c \in Clients |-> CallOf(req[c])]
BY StoredReadable DEF MapSecrets, MapLate, MapCalls

\* A step of one request is a step of one call.
LEMMA OneCall ==
  ASSUME IInv, IInv', ~Exempt, Exempt' = Exempt, NEW c \in Clients, NEW r,
         req' = [req EXCEPT ![c] = r]
  PROVE  /\ MapCalls' = [MapCalls EXCEPT ![c] = CallOf(r)] /\ MapCalls[c] = CallOf(req[c])
         /\ req'[c] = r /\ r \in Req /\ r.val \in Values
         /\ r.pc # "idle" => r.a \in Accounts
<1>1. req \in [Clients -> Req] /\ req' \in [Clients -> Req] /\ req'[c] = r
  BY DEF IInv, Types
<1>2. MapCalls = [d \in Clients |-> CallOf(req[d])]
  BY MapIs
<1>3. MapCalls' = [d \in Clients |-> CallOf(req'[d])]
  BY DEF MapCalls, CallOf
<1>4. MapCalls' = [MapCalls EXCEPT ![c] = CallOf(r)]
  BY <1>1, <1>2, <1>3
<1>5. r.val \in Values
  BY <1>1 DEF Req
<1> QED
  BY <1>1, <1>2, <1>4, <1>5 DEF IInv, OnPath

\* The files are untouched: the map is the same.
LEMMA SameSecrets ==
  ASSUME Exempt' = Exempt, UNCHANGED disk
  PROVE  MapSecrets' = MapSecrets
BY DEF MapSecrets, Readable, Stored, NoSecrets, disk

LEMMA SameLate ==
  ASSUME Exempt' = Exempt, UNCHANGED orphans
  PROVE  MapLate' = MapLate
BY DEF MapLate

\* A request outside of the store goes on outside of it, or calls put or delete.
LEMMA OutsideRefines ==
  ASSUME IInv, IInv', ~Exempt, Exempt' = Exempt, NEW c \in Clients, NEW r,
         req' = [req EXCEPT ![c] = r], UNCHANGED <<disk, orphans>>,
         req[c].pc \notin Calling, r.pc \notin Calling \ {"lock"}
  PROVE  Map!Begin(c) \/ UNCHANGED Map!vars
<1>1. /\ MapCalls' = [MapCalls EXCEPT ![c] = CallOf(r)] /\ MapCalls[c] = CallOf(req[c])
      /\ r.val \in Values /\ (r.pc # "idle" => r.a \in Accounts)
  BY OneCall
<1>2. UNCHANGED <<MapSecrets, MapLate>>
  BY SameSecrets, SameLate
<1>3. MapCalls[c] = Map!Idle
  BY <1>1 DEF CallOf, Map!Idle
<1>4. CASE r.pc = "lock"
  <2>1. CallOf(r) = [st |-> "called", a |-> r.a, val |-> r.val]
    BY <1>4 DEF CallOf
  <2>2. r.a \in Accounts /\ r.val \in Secrets \cup {None}
    BY <1>1, <1>4 DEF Values
  <2> QED BY <1>1, <1>2, <1>3, <2>1, <2>2 DEF Map!Begin
<1>5. CASE r.pc \notin Calling
  <2>1. CallOf(r) = MapCalls[c]
    BY <1>1, <1>5 DEF CallOf
  <2>2. MapCalls' = MapCalls
    BY <1>1, <2>1 DEF MapCalls
  <2> QED BY <1>2, <2>2 DEF Map!vars
<1> QED BY <1>4, <1>5

\* A request in the store goes on towards its effect.
LEMMA TowardsRefines ==
  ASSUME IInv, IInv', ~Exempt, Exempt' = Exempt, NEW c \in Clients, NEW r,
         req' = [req EXCEPT ![c] = r], MapSecrets' = MapSecrets, UNCHANGED orphans,
         req[c].pc \in Calling \ {"unlock"}, r.pc \in Calling \ {"unlock"},
         r.a = req[c].a, r.val = req[c].val
  PROVE  UNCHANGED Map!vars
<1>1. MapCalls' = [MapCalls EXCEPT ![c] = CallOf(r)] /\ MapCalls[c] = CallOf(req[c])
  BY OneCall
<1>2. CallOf(r) = CallOf(req[c])
  BY DEF CallOf
<1>3. MapCalls' = MapCalls
  BY <1>1, <1>2 DEF MapCalls
<1> QED
  BY <1>3, SameLate DEF Map!vars

\* Its effect: what is stored changes for its account alone.
LEMMA EffectRefines ==
  ASSUME IInv, IInv', ~Exempt, Exempt' = Exempt, NEW c \in Clients, NEW r,
         req' = [req EXCEPT ![c] = r], UNCHANGED orphans,
         Stored' = [Stored EXCEPT ![req[c].a] = req[c].val],
         req[c].pc \in Calling \ {"unlock"}, r.pc = "unlock", r.a = req[c].a, r.val = req[c].val
  PROVE  Map!TakeEffect(c)
<1>1. MapCalls' = [MapCalls EXCEPT ![c] = CallOf(r)] /\ MapCalls[c] = CallOf(req[c])
  BY OneCall
<1>2. /\ CallOf(req[c]) = [st |-> "called", a |-> req[c].a, val |-> req[c].val]
      /\ CallOf(r) = [st |-> "done", a |-> req[c].a, val |-> req[c].val]
  BY DEF CallOf
<1>3. MapSecrets = Stored /\ MapSecrets' = Stored'
  <2>1. Readable'
    <3>1. ~Exempt'
      OBVIOUS
    <3> QED BY <3>1 DEF IInv, FileWhole, Readable
  <2> QED BY <2>1, MapIs DEF MapSecrets
<1>4. [MapCalls[c] EXCEPT !.st = "done"] = CallOf(r)
  BY <1>1, <1>2
<1>5. /\ MapCalls[c].st = "called"
      /\ MapSecrets' = [MapSecrets EXCEPT ![MapCalls[c].a] = MapCalls[c].val]
  BY <1>1, <1>2, <1>3
<1>6. MapCalls' = [MapCalls EXCEPT ![c] = [@ EXCEPT !.st = "done"]]
  BY <1>1, <1>4, Zenon
<1> QED
  BY <1>5, <1>6, SameLate, Zenon DEF Map!TakeEffect

\* The call ends; a keyring operation it leaves behind is late.
LEMMA ReturnRefines ==
  ASSUME IInv, IInv', ~Exempt, Exempt' = Exempt, NEW c \in Clients, NEW r,
         req' = [req EXCEPT ![c] = r], UNCHANGED disk,
         req[c].pc \in Calling, r.pc \notin Calling,
         NEW o, o.a = req[c].a, o.val = req[c].val, orphans' \in {orphans, orphans \cup {o}}
  PROVE  Map!Return(c)
<1>1. MapCalls' = [MapCalls EXCEPT ![c] = CallOf(r)] /\ MapCalls[c] = CallOf(req[c])
  BY OneCall
<1>2. /\ CallOf(r) = Map!Idle /\ CallOf(req[c]).st \in {"called", "done"}
      /\ CallOf(req[c]).a = req[c].a /\ CallOf(req[c]).val = req[c].val
  BY DEF CallOf, Map!Idle
<1>3. CallOf(req[c]) # Map!Idle
  BY <1>2 DEF Map!Idle
<1>4. MapLate' \in {MapLate, MapLate \cup {[a |-> req[c].a, val |-> req[c].val]}}
  <2>1. /\ MapLate = {[a |-> p.a, val |-> p.val] : p \in orphans}
        /\ MapLate' = {[a |-> p.a, val |-> p.val] : p \in orphans'}
    BY DEF MapLate
  <2> QED BY <2>1
<1> QED
  BY <1>1, <1>2, <1>3, <1>4, SameSecrets DEF Map!Return

\* A request that begins, and one that is before or after the store.
LEMMA BeforeRefines ==
  ASSUME IInv, IInv', ~Exempt, Exempt' = Exempt, NEW c \in Clients,
         \/ \E a \in Accounts, op \in Ops, pc \in {"check", "lock"} : Call(c, op, a, pc)
         \/ Check(c) \/ Exchange(c) \/ Get(c) \/ Refresh(c) \/ Ref(c)
  PROVE  Map!Begin(c) \/ UNCHANGED Map!vars
<1>1. req[c].pc \notin Calling /\ UNCHANGED <<disk, orphans>> /\ req[c] \in Req
  BY DEF Call, Check, Exchange, Get, Refresh, Ref, At, store, IInv, Types
<1>2. ASSUME NEW l \in PCs \ (Calling \ {"lock"}), Step(c, l)
      PROVE  Map!Begin(c) \/ UNCHANGED Map!vars
  <2> DEFINE r == [req[c] EXCEPT !.pc = l]
  <2>1. req' = [req EXCEPT ![c] = r] /\ r.pc = l
    BY <1>1, <1>2 DEF Step, Req
  <2> HIDE DEF r
  <2> QED BY <1>1, <1>2, <2>1, OutsideRefines
<1>3. ASSUME NEW v, NEW t, Put(c, v, t) PROVE Map!Begin(c) \/ UNCHANGED Map!vars
  <2> DEFINE r == [req[c] EXCEPT !.pc = "lock", !.val = v, !.then = t]
  <2>1. req' = [req EXCEPT ![c] = r] /\ r.pc = "lock"
    BY <1>1, <1>3 DEF Put, Req
  <2> HIDE DEF r
  <2> QED BY <1>1, <2>1, OutsideRefines
<1>4. ASSUME NEW res, Done(c, res) PROVE Map!Begin(c) \/ UNCHANGED Map!vars
  <2> DEFINE r == [NoReq EXCEPT !.res = res]
  <2>1. req' = [req EXCEPT ![c] = r] /\ r.pc = "idle"
    BY <1>4 DEF Done, NoReq, Request
  <2> HIDE DEF r
  <2> QED BY <1>1, <2>1, OutsideRefines
<1>5. ASSUME NEW a \in Accounts, NEW op \in Ops, NEW pc \in {"check", "lock"}, Call(c, op, a, pc)
      PROVE  Map!Begin(c) \/ UNCHANGED Map!vars
  <2> DEFINE r == Request(op, a, pc, IF op = "account.set_secret" THEN Password(calls') ELSE None,
                          IF op = "account.delete_secret" THEN "ref" ELSE "none")
  <2>1. req' = [req EXCEPT ![c] = r] /\ r.pc = pc
    BY <1>5 DEF Call, Request
  <2> HIDE DEF r
  <2> QED BY <1>1, <2>1, OutsideRefines
<1>6. ASSUME Get(c) PROVE Map!Begin(c) \/ UNCHANGED Map!vars
  <2>1. ASSUME NEW v, req' = [req EXCEPT ![c] = [@ EXCEPT !.pc = "refresh", !.val = v]]
        PROVE  Map!Begin(c) \/ UNCHANGED Map!vars
    <3> DEFINE r == [req[c] EXCEPT !.pc = "refresh", !.val = v]
    <3>1. req' = [req EXCEPT ![c] = r] /\ r.pc = "refresh"
      BY <1>1, <2>1 DEF Req
    <3> HIDE DEF r
    <3> QED BY <1>1, <3>1, OutsideRefines
  <2> QED BY <1>4, <1>6, <2>1, Zenon DEF Get
<1>7. "exchange" \in PCs \ (Calling \ {"lock"}) /\ "get" \in PCs \ (Calling \ {"lock"})
  BY DEF PCs
<1>8. ASSUME Check(c) PROVE Map!Begin(c) \/ UNCHANGED Map!vars
  BY <1>2, <1>3, <1>4, <1>7, <1>8, Zenon DEF Check
<1>9. ASSUME Exchange(c) \/ Refresh(c) \/ Ref(c) PROVE Map!Begin(c) \/ UNCHANGED Map!vars
  BY <1>3, <1>4, <1>9, Zenon DEF Exchange, Refresh, Ref
<1> QED
  BY <1>5, <1>6, <1>8, <1>9

\* Requests in the store.
LEMMA StoreRefines ==
  ASSUME IInv, IInv', ~Exempt, Exempt' = Exempt, Backend' = Backend, NEW c \in Clients,
         Lock(c) \/ Read(c) \/ Open(c) \/ Write(c) \/ Rename(c) \/ Entry(c) \/ Unlock(c)
  PROVE  Map!TakeEffect(c) \/ Map!Return(c) \/ UNCHANGED Map!vars
<1> DEFINE q == req[c]
           Goal == Map!TakeEffect(c) \/ Map!Return(c) \/ UNCHANGED Map!vars
<1>1. q \in Req /\ q.val \in Values /\ q.pc \in Calling /\ UNCHANGED orphans
  <2>1. q \in Req /\ q.pc \in Calling /\ UNCHANGED orphans
    BY DEF IInv, Types, Lock, Read, Open, Write, Rename, Entry, Unlock, At
  <2> QED BY <2>1 DEF Req
<1>2. ASSUME NEW l \in PCs, Step(c, l), q.pc # "unlock", l \in Calling \ {"unlock"},
             MapSecrets' = MapSecrets
      PROVE  UNCHANGED Map!vars
  <2> DEFINE r == [q EXCEPT !.pc = l]
  <2>1. req' = [req EXCEPT ![c] = r] /\ r.pc = l /\ r.a = q.a /\ r.val = q.val
    BY <1>1, <1>2 DEF Step, Req
  <2> HIDE DEF r
  <2> QED BY <1>1, <1>2, <2>1, TowardsRefines
<1>3. ASSUME NEW res, Done(c, res), UNCHANGED disk PROVE Map!Return(c)
  <2> DEFINE r == [NoReq EXCEPT !.res = res]
  <2>1. req' = [req EXCEPT ![c] = r] /\ r.pc = "idle"
    BY <1>3 DEF Done, NoReq, Request
  <2> HIDE DEF r
  <2> QED BY <1>1, <1>3, <2>1, ReturnRefines
<1>4. ASSUME Step(c, "unlock"), q.pc # "unlock", Stored' = [Stored EXCEPT ![q.a] = q.val]
      PROVE  Map!TakeEffect(c)
  <2> DEFINE r == [q EXCEPT !.pc = "unlock"]
  <2>1. req' = [req EXCEPT ![c] = r] /\ r.pc = "unlock" /\ r.a = q.a /\ r.val = q.val
    BY <1>1, <1>4 DEF Step, Req
  <2> HIDE DEF r
  <2> QED BY <1>1, <1>4, <2>1, EffectRefines
<1>5. Stored \in SecretMaps /\ Readable /\ Readable'
  <2>1. ~Exempt'
    OBVIOUS
  <2>2. Readable'
    BY <2>1 DEF IInv, FileWhole, Readable
  <2> QED BY <2>2, StoredReadable
<1>6. Stored' = Stored => MapSecrets' = MapSecrets
  BY <1>5 DEF MapSecrets
<1>7. ASSUME Lock(c) PROVE Goal
  <2>1. "read" \in PCs /\ "entry" \in PCs
    BY DEF PCs
  <2>2. MapSecrets' = MapSecrets
    BY <1>7, SameSecrets DEF Lock
  <2> QED BY <1>2, <1>7, <2>1, <2>2 DEF Lock, At
<1>8. ASSUME Read(c) PROVE Goal
  <2> DEFINE m == [Stored EXCEPT ![q.a] = q.val]
             l == IF q.val = None /\ Stored[q.a] = None THEN "unlock" ELSE "open"
             r == [q EXCEPT !.map = m, !.pc = l]
  <2>1. q.pc = "read" /\ UNCHANGED <<disk, orphans>> /\ req' = [req EXCEPT ![c] = r]
    BY <1>5, <1>8, Zenon DEF Read, At
  <2>2. r.pc = l /\ r.a = q.a /\ r.val = q.val
    BY <1>1 DEF Req
  <2>3. Stored' = Stored
    BY <2>1 DEF Stored, disk, NoSecrets
  <2>4. l = "unlock" => m = Stored
    BY <1>5 DEF SecretMaps
  <2> HIDE DEF r
  <2>5. CASE l = "unlock"
    <3>1. Stored' = [Stored EXCEPT ![q.a] = q.val]
      BY <2>3, <2>4, <2>5
    <3> QED BY <2>1, <2>2, <2>5, <3>1, EffectRefines
  <2>6. CASE l = "open"
    BY <1>6, <2>1, <2>2, <2>3, <2>6, TowardsRefines
  <2> QED BY <2>5, <2>6
<1>9. ASSUME Open(c) PROVE Goal
  <2> DEFINE i == TmpInode
             r == [q EXCEPT !.ino = i, !.pc = "write"]
  <2>1. /\ q.pc = "open" /\ q.pc \in InStore /\ tmp' = i /\ Fill(i, Empty)
        /\ req' = [req EXCEPT ![c] = r] /\ UNCHANGED file
    BY <1>9 DEF Open, At
  <2>2. i \in Inodes /\ i # file
    BY <2>1, InStoreFacts, FreeInodeExists DEF TmpInode, IInv, FileWhole
  <2> HIDE DEF i
  <2>3. r.pc = "write" /\ r.a = q.a /\ r.val = q.val
    BY <1>1 DEF Req
  <2>4. Stored' = Stored
    BY <2>1, <2>2, MapTypes, TmpFilled
  <2> HIDE DEF r
  <2> QED BY <1>1, <1>6, <2>1, <2>3, <2>4, TowardsRefines
<1>10. ASSUME Write(c) PROVE Goal
  <2>1. q.pc = "write" /\ q.pc \in InStore /\ UNCHANGED <<file, tmp>>
    BY <1>10 DEF Write, At
  <2>2. /\ q.ino = tmp /\ tmp \in Inodes /\ tmp # file /\ orphans = {} /\ q.map \in SecretMaps
        /\ None \notin Inodes
    BY <2>1, InStoreFacts DEF IInv, WriteCurrent, FileWhole, OrphansAreEntries
  <2>3. Whole(q.map) \in Contents /\ "rename" \in PCs
    BY <2>2, MapTypes DEF PCs
  <2>4. CASE Fill(tmp, Part) /\ UNCHANGED <<req, lock>>
    <3>1. Stored' = Stored
      BY <2>1, <2>2, <2>4, MapTypes, TmpFilled
    <3>2. MapCalls' = MapCalls
      BY <2>4 DEF MapCalls, CallOf, NoReq
    <3> QED BY <1>1, <1>6, <3>1, <3>2, SameLate DEF Map!vars
  <2>5. CASE Step(c, "rename") /\ Fill(tmp, Whole(q.map))
    <3>1. Stored' = Stored
      BY <2>1, <2>2, <2>3, <2>5, TmpFilled
    <3> QED BY <1>2, <1>6, <2>1, <2>3, <2>5, <3>1
  <2>6. CASE Fail(c) /\ UNCHANGED inode
    <3>1. Done(c, "internal") /\ UNCHANGED disk
      BY <2>1, <2>6 DEF Fail, disk
    <3> QED BY <1>3, <3>1
  <2> QED BY <1>10, <2>2, <2>4, <2>5, <2>6 DEF Write
<1>11. ASSUME Rename(c) PROVE Goal
  <2>1. q.pc = "rename" /\ q.pc \in InStore
    BY <1>11 DEF Rename, At
  <2>2. /\ tmp # None /\ inode[tmp] = Whole(q.map) /\ q.map = [Stored EXCEPT ![q.a] = q.val]
    BY <2>1 DEF IInv, WriteCurrent
  <2>3. file' = tmp /\ inode' = inode /\ Step(c, "unlock")
    BY <1>11, <2>2 DEF Rename
  <2>4. Stored' = q.map
    BY <2>2, <2>3 DEF Stored, Whole
  <2> QED BY <1>4, <2>1, <2>2, <2>3, <2>4
<1>12. ASSUME Entry(c) PROVE Goal
  <2>1. q.pc = "entry" /\ q.pc \in InStore
    BY <1>12 DEF Entry, At
  <2>2. q.a \in Accounts /\ Backend # "file"
    BY <2>1, InStoreFacts
  <2>3. CASE SetEntry(q.a, q.val) /\ Step(c, "unlock")
    <3>1. Stored' = [Stored EXCEPT ![q.a] = q.val]
      BY <1>1, <2>2, <2>3, EntrySet
    <3> QED BY <1>4, <2>1, <2>3, <3>1
  <2>4. CASE Fail(c) /\ UNCHANGED disk
    BY <1>3, <2>4 DEF Fail
  <2> QED BY <1>12, <2>3, <2>4 DEF Entry
<1>13. ASSUME Unlock(c) PROVE Goal
  <2>1. UNCHANGED disk
    BY <1>13 DEF Unlock
  <2>2. CASE Step(c, "ref")
    <3> DEFINE r == [q EXCEPT !.pc = "ref"]
    <3>1. req' = [req EXCEPT ![c] = r] /\ r.pc = "ref"
      BY <1>1, <2>2 DEF Step, Req
    <3> HIDE DEF r
    <3> QED BY <1>1, <2>1, <3>1, ReturnRefines
  <2>3. CASE Done(c, "credential")
    BY <1>3, <2>1, <2>3
  <2> QED BY <1>13, <2>2, <2>3 DEF Unlock
<1> QED
  BY <1>7, <1>8, <1>9, <1>10, <1>11, <1>12, <1>13

\* Requests cut off, operations that go on without them, and a kill.
LEMMA FaultsRefine ==
  ASSUME IInv, IInv', ~Exempt, Exempt' = Exempt, Backend' = Backend,
         Orphan \/ Crash \/ \E c \in Clients : Cut(c)
  PROVE  Map!Next \/ UNCHANGED Map!vars
<1>1. CASE Orphan
  <2>1. PICK o \in orphans :
          /\ orphans' = orphans \ {o} /\ o.a \in Accounts /\ UNCHANGED req
          /\ SetEntry(o.a, o.val) \/ UNCHANGED disk
    BY <1>1 DEF Orphan, IInv, OrphansAreEntries
  <2>2. o.val \in Values /\ Backend # "file"
    <3>1. o \in Req /\ Backend # "file"
      BY DEF IInv, Types, StoreTypes, OrphansAreEntries
    <3> QED BY <3>1 DEF Req
  <2> DEFINE l == [a |-> o.a, val |-> o.val]
  <2>3. MapCalls' = MapCalls
    BY <2>1 DEF MapCalls, CallOf, NoReq
  <2>4. l \in MapLate /\ MapLate' \in {MapLate, MapLate \ {l}}
    <3>1. /\ MapLate = {[a |-> p.a, val |-> p.val] : p \in orphans}
          /\ MapLate' = {[a |-> p.a, val |-> p.val] : p \in orphans'}
      BY DEF MapLate
    <3>2. CASE \E p \in orphans' : [a |-> p.a, val |-> p.val] = l
      BY <2>1, <3>1, <3>2
    <3>3. CASE ~\E p \in orphans' : [a |-> p.a, val |-> p.val] = l
      <4> HIDE DEF l
      <4>1. MapLate' = MapLate \ {l}
        BY <2>1, <3>1, <3>3 DEF l
      <4> QED BY <4>1, <2>1, <3>1 DEF l
    <3> QED BY <3>2, <3>3
  <2>5. CASE SetEntry(o.a, o.val)
    <3>1. Readable' /\ Stored' = [Stored EXCEPT ![o.a] = o.val]
      BY <2>1, <2>2, <2>5, EntrySet
    <3>2. MapSecrets' = [MapSecrets EXCEPT ![l.a] = l.val]
      BY <3>1, MapIs DEF MapSecrets
    <3> HIDE DEF l
    <3>3. Map!TakeEffectLate
      BY <2>3, <2>4, <3>2 DEF Map!TakeEffectLate
    <3> QED BY <3>3 DEF Map!Next
  <2>6. CASE UNCHANGED disk
    <3> HIDE DEF l
    <3>1. MapSecrets' = MapSecrets
      BY <2>6, SameSecrets
    <3>2. Map!LateFails \/ UNCHANGED Map!vars
      BY <2>3, <2>4, <3>1 DEF Map!LateFails, Map!vars
    <3> QED BY <3>2 DEF Map!Next
  <2> QED BY <2>1, <2>5, <2>6
<1>2. CASE Crash
  <2>1. UNCHANGED disk /\ req' = [c \in Clients |-> NoReq] /\ orphans' = {}
    BY <1>2 DEF Crash
  <2>2. MapCalls' = [c \in Clients |-> Map!Idle] /\ MapLate' = {}
    BY <2>1 DEF MapCalls, MapLate, CallOf, NoReq, Request, Map!Idle
  <2>3. Map!Crash
    BY <2>1, <2>2, SameSecrets DEF Map!Crash
  <2> QED BY <2>3 DEF Map!Next
<1>3. ASSUME NEW c \in Clients, Cut(c) PROVE Map!Next \/ UNCHANGED Map!vars
  <2> DEFINE q == req[c]
             r == [NoReq EXCEPT !.res = "none"]
             o == [q EXCEPT !.op = "none", !.then = "none"]
  <2>1. q \in Req /\ Backend # "file" /\ q.pc \notin {"open", "write", "rename"}
    BY <1>3 DEF Cut, Exempt, IInv, Types, OnPath, At
  <2>2. /\ req' = [req EXCEPT ![c] = r] /\ UNCHANGED disk
        /\ orphans' = orphans \/ (q.pc = "entry" /\ orphans' = orphans \cup {o})
    BY <1>3, <2>1 DEF Cut, Done
  <2>3. r.pc = "idle" /\ o.a = q.a /\ o.val = q.val
    BY <2>1 DEF NoReq, Request, Req
  <2> HIDE DEF r, o
  <2>4. CASE q.pc \in Calling
    <3>1. Map!Return(c)
      BY <2>2, <2>3, <2>4, ReturnRefines
    <3> QED BY <3>1 DEF Map!Next
  <2>5. CASE q.pc \notin Calling
    <3>1. Map!Begin(c) \/ UNCHANGED Map!vars
      BY <2>2, <2>3, <2>5, OutsideRefines
    <3> QED BY <3>1 DEF Map!Next
  <2> QED BY <2>4, <2>5
<1> QED
  BY <1>1, <1>2, <1>3

\* Every step is a step of SecretMap, or none.
LEMMA NextRefines == IInv /\ IInv' /\ [CredentialsNext]_credvars => [Map!Next]_(Map!vars)
<1> SUFFICES ASSUME IInv, IInv', [CredentialsNext]_credvars
             PROVE  Map!Next \/ UNCHANGED Map!vars
  OBVIOUS
<1>1. Backend' = Backend /\ Exempt' = Exempt
  BY ScenarioFixed
<1>2. CASE Exempt
  BY <1>1, <1>2 DEF Map!vars, MapSecrets, MapCalls, MapLate, CallOf, NoReq, Request, NoSecrets
<1>3. CASE ~Exempt
  <2>1. ASSUME NEW c \in Clients, NEW a \in Accounts,
               \/ AccountSetSecret(c, a) \/ AccountDeleteSecret(c, a)
               \/ OauthGoogleComplete(c, a) \/ CredentialForAccount(c, a)
        PROVE  Map!Next \/ UNCHANGED Map!vars
    <3>1. Map!Begin(c) \/ UNCHANGED Map!vars
      BY <1>1, <1>3, <2>1, BeforeRefines DEF AccountSetSecret, AccountDeleteSecret,
         OauthGoogleComplete, CredentialForAccount
    <3> QED BY <3>1 DEF Map!Next
  <2>2. ASSUME NEW c \in Clients, Progress(c) PROVE Map!Next \/ UNCHANGED Map!vars
    <3>1. Map!Begin(c) \/ Map!TakeEffect(c) \/ Map!Return(c) \/ UNCHANGED Map!vars
      BY <1>1, <1>3, <2>2, BeforeRefines, StoreRefines DEF Progress
    <3> QED BY <3>1 DEF Map!Next
  <2>3. CASE Orphan \/ Crash \/ \E c \in Clients : Cut(c)
    BY <1>1, <1>3, <2>3, FaultsRefine
  <2>4. CASE \/ Tick \/ Revoke \/ UNCHANGED credvars
             \/ \E a \in Accounts : AccountCreate(a) \/ AccountDelete(a)
    <3>1. UNCHANGED <<disk, orphans, req>>
      BY <2>4 DEF Tick, Revoke, AccountCreate, AccountDelete, credvars, store
    <3>2. MapCalls' = MapCalls
      BY <1>1, <3>1 DEF MapCalls, CallOf, NoReq
    <3> QED BY <1>1, <3>1, <3>2, SameSecrets, SameLate DEF Map!vars
  <2> QED BY <2>1, <2>2, <2>3, <2>4 DEF CredentialsNext
<1> QED
  BY <1>2, <1>3

\* The initial state is SecretMap's.
LEMMA InitRefines == CredentialsInit => Map!Init
<1> SUFFICES ASSUME CredentialsInit PROVE Map!Init
  OBVIOUS
<1>1. MapSecrets = [a \in Accounts |-> None] /\ MapLate = {}
  BY DEF CredentialsInit, MapSecrets, MapLate, NoSecrets, Readable, Stored
<1>2. CallOf(NoReq) = Map!Idle
  BY DEF CallOf, NoReq, Request, Map!Idle
<1>3. MapCalls = [c \in Clients |-> Map!Idle]
  BY <1>2 DEF CredentialsInit, MapCalls
<1> QED
  BY <1>1, <1>3 DEF Map!Init

-----------------------------------------------------------------------------
\* The file and the keyring keep SecretStore's promise: whatever requests run at once,
\* wherever the daemon is killed and whichever write fails, each put or delete takes
\* effect at one moment and for its account alone.
THEOREM StoreRefined == CredentialsSpec => StoreImplemented
<1>1. CredentialsInit => IInv /\ Map!Init
  BY InitIInv, InitRefines
<1>2. IInv /\ [CredentialsNext]_credvars => IInv'
  BY NextIInv
<1>3. IInv /\ IInv' /\ [CredentialsNext]_credvars => [Map!Next]_(Map!vars)
  BY NextRefines
<1> QED
  BY <1>1, <1>2, <1>3, PTL DEF CredentialsSpec, StoreImplemented, Map!Spec

=============================================================================
