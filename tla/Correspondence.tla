--------------------------- MODULE Correspondence ---------------------------
(***************************************************************************)
(* Letters between people who use this client: reply, reply-all and        *)
(* forward drafts (reply.rs), the wire form they are given (builder.rs),   *)
(* its parsing at the other end (parser.rs), the thread each is filed      *)
(* under (threading.rs) and the part of a body its author typed            *)
(* (reply_extract.rs), all in crates/postblox-mail/src.  Delivery loses    *)
(* and reorders letters; the synchroniser (src/sync/reconciler.rs) stores  *)
(* them in runs, one at a time per person, and each run matches letters    *)
(* against the threads it read when it began.                              *)
(*                                                                         *)
(* An address is a person and the case it is spelt in.  A subject is its   *)
(* leading marks and the rest.  A line of a body is the class the          *)
(* extraction tells apart: "text", "quote" (starts with >), "opening"      *)
(* (starts with On), "wrote" (ends with wrote:), "attribution" (both, and  *)
(* has an address), "unsigned" (both, and has none), "address" (any other  *)
(* line with an address), "rule" (a signature separator), "headers" (an    *)
(* Outlook block).                                                         *)
(***************************************************************************)
EXTENDS Integers, Sequences, FiniteSets, SequencesExt

CONSTANTS People, Me,       \* the users whose boxes are followed
          FirstLetters,     \* the letters a correspondence may start with
          Typings,          \* the bodies a person may type: sequences of lines
          ReferencesCap,    \* REFERENCES_MESSAGE_ID_CAP, scaled
          RecentThreads,    \* the 200 threads a run reads, scaled
          MaxLetters        \* bound: letters written

VARIABLES post,   \* letters sent, in order; a letter's id is its position
                  \* (ids of letters sent before are negative, 0 is none)
          box,    \* person -> rows stored, in order
          aged,   \* person -> threads with no message in the last seven days
          run,    \* person -> the run in progress: the rows there were when it
                  \* began and its thread_refs
          bare    \* does the MIME library keep ids written without brackets

letterVars == <<post, box, aged, run, bare>>

NoRun == [since |-> -1, refs |-> {}]

Who(addrs) == {a.who : a \in Range(addrs)}

-----------------------------------------------------------------------------
(* Subjects *)

RePrefix(subject) ==
    IF subject.marks # <<>> /\ Head(subject.marks) = "re" THEN subject
    ELSE [subject EXCEPT !.marks = <<"re">> \o @]

FwdPrefix(subject) ==
    IF subject.marks # <<>> /\ Head(subject.marks) = "fwd" THEN subject
    ELSE [subject EXCEPT !.marks = <<"fwd">> \o @]

(* normalize_subject: every leading mark goes, and case.                   *)
NormalizeSubject(subject) == subject.rest

-----------------------------------------------------------------------------
(* build_references: the stored chain, whose ids were stored without       *)
(* brackets, and the id of the letter replied to, in brackets.  A long     *)
(* chain keeps its root and its end.                                       *)
BuildReferences(row) ==
    LET ids == [i \in DOMAIN row.refs |-> [id |-> row.refs[i], wrapped |-> FALSE]]
               \o <<[id |-> row.id, wrapped |-> TRUE]>>
    IN  IF Len(ids) <= ReferencesCap THEN ids
        ELSE <<ids[1]>> \o SubSeq(ids, Len(ids) - ReferencesCap + 2, Len(ids))

(* reply_draft's recipients: the author; and for reply-all everyone else   *)
(* the letter went to, once, whatever the spelling, but not the one        *)
(* replying.  A letter without an author is answered to the first of them. *)
ReplyRecipients(row, own, all) ==
    LET to == row.from
        Add(cc, a) == IF a.who \in {own} \cup Who(to) \cup Who(cc) THEN cc ELSE Append(cc, a)
        cc == IF all THEN FoldLeft(Add, <<>>, row.to \o row.cc) ELSE <<>>
    IN  IF to = <<>> /\ cc # <<>> THEN [to |-> <<cc[1]>>, cc |-> Tail(cc)]
        ELSE [to |-> to, cc |-> cc]

(* quote_body and prefix_each_line: an attribution and the quoted lines.   *)
QuoteBody(row) ==
    <<IF row.from = <<>> THEN "unsigned" ELSE "attribution">>
    \o (IF row.body = <<>> THEN <<"quote">> ELSE [i \in DOMAIN row.body |-> "quote"])

(* forward_body: a banner, four header lines and an empty one, which the   *)
(* extraction takes for text, and the body as it is.                       *)
ForwardBody(row) == <<"text">> \o row.body

-----------------------------------------------------------------------------
(* The wire and back                                                       *)

(* build_mime_full: a letter as it leaves, with In-Reply-To and References *)
(* for a reply.                                                            *)
Wire(p, recipients, subject, replyTo, refs, body, typed, all) ==
    [from |-> <<[who |-> p, spelt |-> "lower"]>>, to |-> recipients.to, cc |-> recipients.cc,
     subject |-> subject, replyTo |-> replyTo, refs |-> refs, body |-> body,
     typed |-> typed, all |-> all]

(* parse_with_options and build_message_row: ids lose their brackets; the  *)
(* library may or may not see ids that had none.                           *)
StoredRow(id) ==
    LET l == post[id]
        seen == SelectSeq(l.refs, LAMBDA r : r.wrapped \/ bare)
    IN  [id |-> id, from |-> l.from, to |-> l.to, cc |-> l.cc, subject |-> l.subject,
         replyTo |-> l.replyTo, refs |-> [i \in DOMAIN seen |-> seen[i].id], body |-> l.body]

(* threads::list_recent: the threads with the latest messages.             *)
Latest(rows, t) == Max({r.at : r \in {r \in Range(rows) : r.thread = t}})
Recent(rows) ==
    LET threads == {r.thread : r \in Range(rows)}
    IN  {t \in threads : Cardinality({u \in threads : Latest(rows, u) > Latest(rows, t)}) < RecentThreads}

(* The first message of a thread gives it its number and its subject.      *)
Opens(r) == r.thread = r.at

(* thread_refs as a run builds it: what it will know of each thread.       *)
ThreadRefs(p) ==
    {[thread |-> t, subject |-> box[p][t].subject, last |-> Latest(box[p], t), fresh |-> t \notin aged[p],
      ids |-> {r.id : r \in {r \in Range(box[p]) : r.thread = t}}] : t \in Recent(box[p])}

SameSubject(a, b) == NormalizeSubject(a.subject) = NormalizeSubject(b.subject) /\ NormalizeSubject(a.subject) # ""

Mutant_AssignThread(refs, p, m) ==
    LET same == {r \in refs : SameSubject(r, m) /\ r.fresh}
    IN  IF same # {} THEN (CHOOSE r \in same : \A s \in same : r.last >= s.last).thread
        ELSE Len(box[p]) + 1

(* assign_thread: In-Reply-To, then References from the end, then a        *)
(* subject seen in the last seven days (the latest such thread), or a new  *)
(* thread.                                                                 *)
AssignThread(refs, p, m) ==
    LET With(id) == {r \in refs : id \in r.ids}
        found == SelectSeq(<<m.replyTo>> \o Reverse(m.refs), LAMBDA id : With(id) # {})
        same == {r \in refs : SameSubject(r, m) /\ r.fresh}
    IN  IF found # <<>> THEN (CHOOSE r \in With(found[1]) : TRUE).thread
        ELSE IF same # {} THEN (CHOOSE r \in same : \A s \in same : r.last >= s.last).thread
        ELSE Len(box[p]) + 1

-----------------------------------------------------------------------------
(* reply_extract.rs                                                        *)

(* find_cutoff: a line that ends what was typed.  An attribution may be    *)
(* broken over four lines; the address may be in any of them.              *)
Cuts(lines, i) ==
    LET block == {lines[j] : j \in DOMAIN lines \cap (i .. i + 3)}
    IN  \/ lines[i] \in {"rule", "attribution", "unsigned", "headers"}
        \/ /\ lines[i] = "opening"
           /\ block \cap {"wrote", "attribution", "unsigned"} # {}
           /\ block \cap {"address", "attribution"} # {}

(* extract_reply: the lines above the first cut, less the quoted ones.     *)
ExtractReply(lines) ==
    LET cuts   == {i \in DOMAIN lines : Cuts(lines, i)}
        cutoff == IF cuts = {} THEN Len(lines)
                  ELSE (CHOOSE i \in cuts : \A j \in cuts : i <= j) - 1
    IN  SelectSeq(SubSeq(lines, 1, cutoff), LAMBDA l : l # "quote")

-----------------------------------------------------------------------------
LetterStart(posts, libraries) ==
    /\ post \in posts /\ bare \in libraries
    /\ box = [p \in People |-> <<>>]
    /\ aged = [p \in People |-> {}]
    /\ run = [p \in People |-> NoRun]

LetterInit == LetterStart({<<l>> : l \in FirstLetters}, BOOLEAN)

(* reconcile_folder has its reply and reads the recent threads, once.      *)
NewRun(p) == [since |-> Len(box[p]), refs |-> ThreadRefs(p)]

(* A run, a new one or the last, stores a letter for someone it went to,   *)
(* or for its author (the copy the server keeps).  A new thread joins the  *)
(* run's thread_refs; the id of a letter filed under an old one does not.  *)
(* Two bounds: the runs of Me store one letter each, and a week passes in  *)
(* the box of Me alone.                                                    *)
Deliver(p, id) ==
    /\ p \in Who(post[id].from) \cup Who(post[id].to) \cup Who(post[id].cc)
    /\ \A r \in Range(box[p]) : r.id # id
    /\ \E by \in {run[p], NewRun(p)} \ {NoRun} :
           LET m == StoredRow(id)
               t == AssignThread(by.refs, p, m)
               row == [at |-> Len(box[p]) + 1, thread |-> t, since |-> by.since] @@ m
               new == [thread |-> t, subject |-> m.subject, last |-> t, fresh |-> TRUE, ids |-> {id}]
           IN  /\ box' = [box EXCEPT ![p] = Append(@, row)]
               /\ run' = [run EXCEPT ![p] = IF p = Me THEN NoRun
                             ELSE [by EXCEPT !.refs = IF Opens(row) THEN @ \cup {new} ELSE @]]
               /\ aged' = [aged EXCEPT ![p] = @ \ {t}]
    /\ UNCHANGED <<post, bare>>

(* op_message_prepare_reply, the composer and op_message_send.             *)
Reply(p, r, all, typed) ==
    /\ Len(post) < MaxLetters
    /\ LET row == box[p][r]
           recipients == ReplyRecipients(row, p, all)
       IN  /\ recipients.to # <<>>        \* all_recipients
           /\ post' = Append(post, Wire(p, recipients, RePrefix(row.subject), row.id,
                                        BuildReferences(row), typed \o QuoteBody(row),
                                        typed, all))
    /\ UNCHANGED <<box, aged, run, bare>>

(* op_message_prepare_forward: a new letter to someone, with no headers    *)
(* that tie it to the old one.                                             *)
ForwardTo(p, r, q) ==
    /\ Len(post) < MaxLetters
    /\ LET row == box[p][r]
       IN  post' = Append(post, Wire(p, [to |-> <<[who |-> q, spelt |-> "lower"]>>, cc |-> <<>>],
                                     FwdPrefix(row.subject), 0, <<>>, ForwardBody(row), <<>>, FALSE))
    /\ UNCHANGED <<box, aged, run, bare>>

(* Seven days without mail.                                                *)
Age(p) ==
    /\ box[p] # <<>> /\ aged[p] = {}
    /\ aged' = [aged EXCEPT ![p] = {r.thread : r \in Range(box[p])}]
    /\ UNCHANGED <<post, box, run, bare>>

LetterNext ==
    \/ \E p \in People, id \in DOMAIN post : Deliver(p, id)
    \/ \E p \in People : \E r \in DOMAIN box[p] :
           \/ \E all \in BOOLEAN, typed \in Typings : Reply(p, r, all, typed)
           \/ \E q \in People \ {p} : ForwardTo(p, r, q)
    \/ Age(Me)

-----------------------------------------------------------------------------
(* Properties                                                              *)

(* The rows whose threads and ids the run that stored b had read: those of *)
(* the most recent threads when it began, and the ones that opened a       *)
(* thread in it.                                                           *)
Offered(p, b) ==
    LET before == SubSeq(box[p], 1, b.since)
    IN  {a \in Range(before) : a.thread \in Recent(before)}
        \cup {a \in Range(SubSeq(box[p], b.since + 1, b.at - 1)) : Opens(a)}

(* Letters of one conversation are filed together as far as a run knows    *)
(* it: a reply is in the thread of the letter it answers, however old,     *)
(* when the run that stores it was offered that letter; and in a box where *)
(* no week has passed, no thread is opened for a subject that an offered   *)
(* thread has (assign_thread, normalize_subject).  The code promises no    *)
(* more: the answer to a letter of an older thread, or to one that joined  *)
(* a thread in the same run, may be filed apart.                           *)
RepliesThreaded ==
    \A p \in People : \A b \in Range(box[p]) : \A a \in Offered(p, b) :
        /\ b.replyTo = a.id => b.thread = a.thread
        /\ p # Me /\ Opens(a) /\ SameSubject(a, b) => ~Opens(b)

(* A reply-all reaches everyone the letter was from, to or copied to,      *)
(* except its own sender, each of them once; a reply carries the chain's   *)
(* root and its parent within the cap; and what the author typed is told   *)
(* from what was quoted: no quoted line is taken for a typed one, and no   *)
(* typed line is lost unless one of them reads as the start of a quotation *)
(* or of a signature (reply_draft, build_references, extract_reply).       *)
RepliesReach ==
    \A id \in DOMAIN post :
        LET l == post[id]
            parent == post[l.replyTo]
            sent == l.to \o l.cc
        IN  l.replyTo > 0 =>
            /\ Cardinality(Who(sent)) = Len(sent)
            /\ l.all => /\ Who(parent.from) \subseteq Who(sent)
                        /\ Who(sent) \ Who(parent.from)
                           = (Who(parent.to) \cup Who(parent.cc)) \ (Who(parent.from) \cup Who(l.from))
            /\ Len(l.refs) \in 1 .. ReferencesCap
            /\ l.refs[Len(l.refs)] = [id |-> l.replyTo, wrapped |-> TRUE]
            /\ bare /\ parent.refs # <<>> => l.refs[1].id = parent.refs[1].id
            /\ LET typed == SelectSeq(l.typed, LAMBDA t : t # "quote")
               IN  /\ IsPrefix(ExtractReply(l.body), typed)
                   /\ Range(typed) \subseteq {"text", "address"} => ExtractReply(l.body) = typed

(* A reply gets where it should: to the people of the letter it answers    *)
(* and into its thread (reply_draft, build_references, assign_thread).     *)
RepliesArrive == RepliesThreaded /\ RepliesReach

=============================================================================
