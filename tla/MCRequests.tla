----------------------------- MODULE MCRequests -----------------------------
EXTENDS Requests

(***************************************************************************)
(* Calls: every tool with well-formed arguments and with one of them       *)
(* replaced, removed or added; every framing of a single line; and short   *)
(* conversations in which lines, events and the agent's disconnect         *)
(* interleave.                                                             *)
(***************************************************************************)
PlainLine(id, method) ==
    [len |-> 1, utf8 |-> TRUE, json |-> TRUE, object |-> TRUE, version |-> TRUE, id |-> id,
     method |-> method, result |-> FALSE, params |-> "obj", tool |-> Absent, args |-> NoFields]

ToolLine(tool, args) ==
    [PlainLine("number", "tools/call") EXCEPT !.tool = tool, !.args = args]

FieldsOf(tool) == {f \in {tf[2] : tf \in DOMAIN FieldKind} : <<tool, f>> \in DOMAIN FieldKind}

WellFormed(tool, fields) ==
    [f \in fields |-> CHOOSE v \in ValidField[FieldKind[<<tool, f>>]] : v \notin {"null", "empty", "blank"}]

(* Validation looks at one field at a time, so one odd field at a time is  *)
(* enough.                                                                 *)
OddArguments(tool) ==
    LET bases == {WellFormed(tool, ToolSpecs[tool].required), WellFormed(tool, FieldsOf(tool))}
    IN  bases
        \cup {[g \in DOMAIN b \cup {f} |-> IF g = f THEN v ELSE b[g]] :
              b \in bases, f \in FieldsOf(tool) \cup {"_actor"}, v \in Values}
        \cup {[g \in DOMAIN b \ {f} |-> b[g]] : b \in bases, f \in FieldsOf(tool)}

ToolCalls == {<<ToolLine(t, a)>> : t \in {"account_list"}, a \in {NoFields}}
             \cup UNION {{<<ToolLine(t, a)>> : a \in OddArguments(t)} : t \in DOMAIN ToolSpecs}
             \cup {<<ToolLine("unheard_of", NoFields)>>}

Framings ==
    {<<[PlainLine(id, method) EXCEPT !.json = j, !.object = o, !.version = v, !.result = r,
                                     !.params = p, !.len = n]>> :
        id \in {Absent, "string", "null", "bool"},
        method \in {Absent, "empty", "initialize", "initialized", "ping", "tools/list",
                    "tools/call", "other"},
        j \in BOOLEAN, o \in BOOLEAN, v \in BOOLEAN, r \in BOOLEAN,
        p \in {Absent, "obj", "words"}, n \in {2}}

Talk == {PlainLine("string", "ping"), PlainLine(Absent, "initialized"),
         [PlainLine("number", "ping") EXCEPT !.len = MaxLineBytes + 1],
         [PlainLine("number", "ping") EXCEPT !.len = MaxLineBytes + 2, !.utf8 = FALSE],
         [PlainLine("number", "ping") EXCEPT !.utf8 = FALSE],
         ToolLine("draft_delete", [id |-> "uuid"])}

(* A subscription makes events; three lines, one of which subscribes.      *)
Talks == {<<>>} \cup {<<a, b>> : a \in Talk, b \in Talk}
         \cup {<<PlainLine(Absent, "initialized"), a, b>> : a \in Talk, b \in Talk}

AllConversations == ToolCalls \cup Framings \cup Talks

TwoTopics == <<"mail.new", "account.synced">>

(***************************************************************************)
(* Files: parts of different kinds and sizes, names that must be           *)
(* sanitised, an undecodable text, and two parts of one name.              *)
(***************************************************************************)
Part(name, type, cid, text) ==
    [name |-> name, type |-> type, cid |-> cid, text |-> text, bad |-> 0]

SomeMails ==
    {<<Part("a", "text", "", <<1, 3, 2>>), Part("b", "bin", "", <<1, 1>>),
       Part("o:dd", "text", "c1", <<2, 2, 1>>)>>,
     <<Part("o:dd", "text", "", <<1, 1, 1, 4>>), [Part("b", "text", "", <<2, 3>>) EXCEPT !.bad = 2]>>,
     <<[Part("a", "text", "", <<1>>) EXCEPT !.bad = 1], Part("a", "text", "", <<3>>)>>,
     <<Part("a", "text", "", <<1>>), Part("a", "text", "", <<3, 3, 4, 4>>)>>}

SomeNames == [n \in {"a", "b", "o:dd"} |-> IF n = "o:dd" THEN "o_dd" ELSE n]

(***************************************************************************)
(* Letters: one to a group, one without a sender, and one that continues   *)
(* an older thread.  Bodies: a quote in the middle, and lines that look    *)
(* like a quotation's introduction.                                        *)
(***************************************************************************)
Lower(who) == [who |-> who, spelt |-> "lower"]
Mixed(who) == [who |-> who, spelt |-> "Mixed"]

First(from, to, cc, rest) ==
    [from |-> from, to |-> to, cc |-> cc, subject |-> [marks |-> <<>>, rest |-> rest],
     replyTo |-> 0, refs |-> <<>>, body |-> <<"text">>, typed |-> <<"text">>, all |-> FALSE]

SomeFirstLetters ==
    {First(<<Lower("ann")>>, <<Lower("me"), Mixed("bob")>>, <<Lower("bob"), Mixed("ann")>>, "plans"),
     First(<<>>, <<Lower("bob"), Lower("me")>>, <<>>, "plans"),
     [First(<<Mixed("me")>>, <<Lower("ann")>>, <<Lower("bob")>>, "") EXCEPT !.replyTo = -1,
         !.refs = <<[id |-> -2, wrapped |-> TRUE], [id |-> -1, wrapped |-> TRUE]>>]}

SomeTypings == {<<"text", "quote", "address">>, <<"opening", "rule">>}

(***************************************************************************)
(* Queries: rows that share threads, dates and folders, with addresses     *)
(* that hold the wildcards of LIKE; every filter; limits out of range; and *)
(* statements of the words validate_query tells apart.                     *)
(***************************************************************************)
Stored(id, account, place, date, text, from, seen, files) ==
    [id |-> id, account |-> account, folder |-> place, thread |-> 2 * account + (date % 2), date |-> date, text |-> text,
     from |-> from, to |-> from, seen |-> seen, files |-> files]

SomeRows ==
    {Stored(1, 1, 1, 1, <<"a">>, <<"a", "b">>, TRUE, 0),
     Stored(2, 1, 1, 2, <<"a">>, <<"a", "%", "b">>, FALSE, 2),
     Stored(3, 2, 2, 2, <<"a", "\"">>, <<"_", "b">>, FALSE, 0),
     Stored(4, 2, 1, 3, <<"a">>, <<"\\", "b">>, TRUE, 1),
     Stored(5, 1, 2, 1, <<"a">>, <<"a", "b">>, FALSE, 1)}

SomeStores == {SomeRows, {}, {m \in SomeRows : m.id # 2}}
SomeArrivals == {Stored(6, 1, 1, 2, <<"a">>, <<"a", "_">>, FALSE, 0)}
SomeTerms == {<<"a">>, <<"a", "\"">>, <<"\"">>}
Needles == {<<"%">>, <<"_">>, <<"\\", "b">>, <<"a", "b">>, <<"a", "_">>}

SomeFilters ==
    {<<>>, "thread" :> 3}
    \cup {"from_addr" :> n : n \in Needles}
    \cup {("to_addr" :> n) @@ ("unread" :> b) : n \in Needles, b \in BOOLEAN}
    \cup {("account" :> a) @@ ("has_attachments" :> b) : a \in 1 .. 2, b \in BOOLEAN}
    \cup {("folder" :> 1) @@ ("date_from" :> d) @@ ("date_to" :> e) : d \in 1 .. 2, e \in 2 .. 3}

SomeLists == {[what |-> "thread", of |-> 3], [what |-> "threads", of |-> 1]} \cup {[what |-> "folder", of |-> f] : f \in 1 .. 3}
             \cup {[what |-> "recent", of |-> a] : a \in 0 .. 2}

SomeLimits == {-1, 0, 1, 2, 9}

SqlWords == {"SELECT", "WITH", "DELETE", "rows", "close", ";"}
SomeStatements == UNION {[1 .. n -> SqlWords] : n \in 0 .. 3} \cup {<<"SELECT", "rows", "rows", ";">>}

(* The dangerous calls of the catalogue, on one draft and one message.     *)
AskedCall(tool, args, row) == [tool |-> tool, args |-> args, row |-> row]
Addressed(to) == [f \in AddressFields |-> IF f = "to_addrs" THEN to ELSE "none"]
SomeAskedCalls ==
    {AskedCall("message_send", [account_id |-> "uuid", draft_id |-> "uuid"], "draft"),
     AskedCall("draft_delete", [id |-> "uuid"], "draft"),
     AskedCall("draft_update", [id |-> "uuid", subject |-> "null", text_body |-> "word",
                                html_body |-> "null"] @@ Addressed("words"), "draft"),
     AskedCall("message_set_flags", [id |-> "uuid", flags |-> "words"], "message"),
     AskedCall("draft_create", [account_id |-> "uuid", in_reply_to_msg |-> "uuid"]
                               @@ Addressed("none"), "message"),
     AskedCall("sql_query", [sql |-> "word"], "none")}

=============================================================================
