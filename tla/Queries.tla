------------------------------- MODULE Queries -------------------------------
(***************************************************************************)
(* The lookups the daemon answers: filtered full-text search               *)
(* (src/db/search.rs, op_search), the agent's read-only SQL                *)
(* (src/db/sql_query.rs, op_sql_query) and the paged lists of messages,    *)
(* threads, audit entries and approvals (src/db).  A client reads a result *)
(* page by page while mail may arrive; a SQL answer is streamed row by row *)
(* within its limits.                                                      *)
(*                                                                         *)
(* Text that is matched is a sequence of characters; a SQL statement is    *)
(* the sequence of its words and semicolons, where "close" stands for text *)
(* that ends the parenthesis the daemon puts around the statement; a SQL   *)
(* row is the byte count of its one cell.  A message's text is the phrase  *)
(* it is found by.                                                         *)
(***************************************************************************)
EXTENDS Integers, Sequences, FiniteSets, SequencesExt

CONSTANTS Mail,          \* the stored messages the runs start from: sets of rows
          Arrivals,      \* rows that may arrive later
          Terms,         \* what is searched for
          Filters,       \* the filters a search may carry
          Lists,         \* the lists a client may page through
          Limits,        \* limits a client may ask for, also out of range
          PageMax,       \* 500 for a list (200 for op_search), scaled
          Statements,    \* SQL statements an agent may send
          SqlRowsMax, SqlTextMax, CellMax, ResponseMax,   \* scaled
          RowsRead,      \* bound: rows read of one statement
          CellSizes

VARIABLES mail,     \* the messages table
          paging,   \* the list or search being paged, or NoQuery
          got,      \* the ids read so far, in order
          steady,   \* no mail arrived while paging
          sql       \* the SQL request in progress

queryVars == <<mail, paging, got, steady, sql>>

NoQuery == [what |-> "none"]

-----------------------------------------------------------------------------
(* quote_term: in quotes, each quote inside doubled.                       *)
QuoteTerm(term) ==
    <<"\"">> \o FlattenSeq([i \in DOMAIN term |-> IF term[i] = "\"" THEN <<"\"", "\"">>
                                                  ELSE <<term[i]>>]) \o <<"\"">>

(* External: what FTS5 reads of a query that is one quoted string, or      *)
(* <<"syntax">>.                                                           *)
FtsPhrase(query) ==
    LET inner == SubSeq(query, 2, Len(query) - 1)
        n == Len(inner)
        f[i \in 0 .. n + 1] ==
            IF i > n THEN <<>>
            ELSE IF i = 0 THEN f[1]
            ELSE IF inner[i] # "\"" THEN <<inner[i]>> \o f[i + 1]
            ELSE IF i < n /\ inner[i + 1] = "\"" THEN <<"\"">> \o (IF i + 2 > n THEN <<>> ELSE f[i + 2])
            ELSE <<"syntax">>
    IN  f[0]

Mutant_LikePattern(needle) ==
    <<"%">> \o FlattenSeq([i \in DOMAIN needle |->
        IF needle[i] \in {"%", "\\"} THEN <<"\\", needle[i]>> ELSE <<needle[i]>>]) \o <<"%">>

(* like_pattern *)
LikePattern(needle) ==
    <<"%">> \o FlattenSeq([i \in DOMAIN needle |->
        IF needle[i] \in {"%", "_", "\\"} THEN <<"\\", needle[i]>> ELSE <<needle[i]>>]) \o <<"%">>

(* External: SQLite's LIKE ... ESCAPE '\'.                                 *)
Like(text, pattern) ==
    LET f[i \in 1 .. Len(text) + 1, j \in 1 .. Len(pattern) + 1] ==
            IF j > Len(pattern) THEN i > Len(text)
            ELSE IF pattern[j] = "%"
            THEN f[i, j + 1] \/ (i <= Len(text) /\ f[i + 1, j])
            ELSE IF pattern[j] = "\\"
            THEN i <= Len(text) /\ text[i] = pattern[j + 1] /\ f[i + 1, j + 2]
            ELSE i <= Len(text) /\ pattern[j] \in {"_", text[i]} /\ f[i + 1, j + 1]
    IN  f[1, 1]

Given(filters, field, holds) == field \in DOMAIN filters => holds

(* search_filtered: the conjunction of the filters present.                *)
SearchFiltered(rows, term, filters) ==
    {m \in rows :
        /\ FtsPhrase(QuoteTerm(term)) = m.text
        /\ \A f \in {"account", "folder", "thread"} : Given(filters, f, m[f] = filters[f])
        /\ Given(filters, "date_from", m.date >= filters["date_from"])
        /\ Given(filters, "date_to", m.date <= filters["date_to"])
        /\ Given(filters, "from_addr", Like(m.from, LikePattern(filters["from_addr"])))
        /\ Given(filters, "to_addr", Like(m.to, LikePattern(filters["to_addr"])))
        /\ Given(filters, "has_attachments", (m.files > 0) = filters["has_attachments"])
        /\ Given(filters, "unread", ~m.seen = filters["unread"])}

-----------------------------------------------------------------------------
(* LIMIT and OFFSET with the bounds every list puts on them                *)

Clamp(limit) == IF limit < 1 THEN 1 ELSE IF limit > PageMax THEN PageMax ELSE limit

Page(ordered, limit, offset) ==
    LET from == IF offset < 0 THEN 0 ELSE offset
        to   == from + Clamp(limit)
    IN  SubSeq(ordered, from + 1, IF to > Len(ordered) THEN Len(ordered) ELSE to)

(* messages::list_by_folder: newest first (equal dates in row order).      *)
ListByFolder(rows, folder) ==
    SetToSortSeq({m \in rows : m.folder = folder},
                 LAMBDA a, b : a.date > b.date \/ (a.date = b.date /\ a.id < b.id))

(* messages::list_by_thread: oldest first, all of it.                      *)
ListByThread(rows, thread) ==
    SetToSortSeq({m \in rows : m.thread = thread},
                 LAMBDA a, b : a.date < b.date \/ (a.date = b.date /\ a.id < b.id))

(* audit::list_recent, audit::list_by_actor and mcp::list_approvals: last  *)
(* row first, of one actor or state where one is given.                    *)
ListRecent(rows, account) ==
    SetToSortSeq({m \in rows : account \in {0, m.account}}, LAMBDA a, b : a.id > b.id)

(* threads::list_recent: an account's threads, the latest message first.   *)
ListThreads(rows, account) ==
    LET of == {m \in rows : m.account = account}
    IN  SetToSortSeq({[id |-> t, last |-> Max({m.date : m \in {m \in of : m.thread = t}})] :
                      t \in {m.thread : m \in of}},
                     LAMBDA a, b : a.last > b.last \/ (a.last = b.last /\ a.id > b.id))

(* search_filtered's order: the rank, which rows of equal text share.      *)
ListHits(rows, term, filters) ==
    SetToSortSeq(SearchFiltered(rows, term, filters), LAMBDA a, b : a.id < b.id)

Listed(rows, a) ==
    CASE a.what = "folder" -> ListByFolder(rows, a.of)
      [] a.what = "recent" -> ListRecent(rows, a.of)
      [] a.what = "threads" -> ListThreads(rows, a.of)
      [] a.what = "search" -> ListHits(rows, a.term, a.filters)

Ids(ms) == [i \in DOMAIN ms |-> ms[i].id]

-----------------------------------------------------------------------------
(* SQL *)

Forbidden == {"INSERT", "UPDATE", "DELETE", "REPLACE", "MERGE", "CREATE", "DROP", "ALTER",
              "TRUNCATE", "ATTACH", "DETACH", "VACUUM", "REINDEX", "BEGIN", "COMMIT",
              "ROLLBACK", "SAVEPOINT", "RELEASE", "PRAGMA"}

(* trim_one_trailing_semicolon *)
TrimSemicolon(text) == IF text # <<>> /\ Last(text) = ";" THEN Front(text) ELSE text

(* validate_query *)
ValidateQuery(text) ==
    LET words == SelectSeq(TrimSemicolon(text), LAMBDA w : w # ";")
    IN  /\ Len(text) <= SqlTextMax
        /\ TrimSemicolon(text) # <<>>
        /\ Range(words) \cap Forbidden = {}
        /\ words # <<>> /\ Head(words) \in {"SELECT", "WITH"}

(* sqlite_value_to_json, ensure_cell_bytes and ResponseBudget::account:    *)
(* one row of one cell taken, or the request refused.                      *)
Account(s, bytes) ==
    IF bytes > CellMax \/ s.used + bytes > ResponseMax
    THEN [s EXCEPT !.state = "bad_args", !.rows = <<>>]
    ELSE [s EXCEPT !.rows = Append(@, bytes), !.used = @ + bytes]

-----------------------------------------------------------------------------
QueryStart(stores) ==
    /\ mail \in stores
    /\ paging = NoQuery /\ got = <<>> /\ steady = TRUE
    /\ sql = [state |-> "idle"]

QueryInit == QueryStart(Mail)

(* A client starts to page: op_search, message.list, audit.list, ...       *)
Ask ==
    /\ paging = NoQuery /\ sql.state = "idle"
    /\ \E limit \in Limits :
           \/ \E l \in Lists : paging' = [limit |-> limit, done |-> FALSE] @@ l
           \/ \E term \in Terms, f \in Filters :
                  paging' = [what |-> "search", term |-> term, filters |-> f,
                            limit |-> limit, done |-> FALSE]
    /\ UNCHANGED <<mail, got, steady, sql>>

(* The next page; the client stops at an empty one.  A thread comes whole. *)
ReadPage ==
    /\ paging # NoQuery /\ ~paging.done
    /\ LET page == IF paging.what = "thread"
                   THEN (IF got = <<>> THEN ListByThread(mail, paging.of) ELSE <<>>)
                   ELSE Page(Listed(mail, paging), paging.limit, Len(got))
       IN  /\ got' = got \o Ids(page)
           /\ paging' = [paging EXCEPT !.done = page = <<>>]
    /\ UNCHANGED <<mail, steady, sql>>

Arrive ==
    /\ paging # NoQuery /\ ~paging.done
    /\ \E m \in Arrivals \ mail : mail' = mail \cup {m}
    /\ steady' = FALSE
    /\ UNCHANGED <<paging, got, sql>>

(* op_sql_query: limit a positive integer if given, the statement          *)
(* validated, and the wrapped query started on the read-only pool.         *)
SqlQuery ==
    /\ paging = NoQuery /\ sql.state = "idle"
    /\ \E text \in Statements, limit \in Limits :
           sql' = IF limit <= 0 \/ ~ValidateQuery(text) THEN [state |-> "bad_args", rows |-> <<>>]
                  ELSE [state |-> "running", rows |-> <<>>, used |-> 0, text |-> text,
                        cap |-> IF limit > SqlRowsMax THEN SqlRowsMax ELSE limit]
    /\ UNCHANGED <<mail, paging, got, steady>>

(* The statement stays the subquery that query() makes of it.              *)
Wrapped(text) == "close" \notin Range(text)

(* External: SQLite runs the statement as a subquery, which a semicolon    *)
(* inside it makes a syntax error.  Text that is not such a subquery may   *)
(* run too, on its own.                                                    *)
Runs(text) == Wrapped(text) => ";" \notin Range(TrimSemicolon(text))

(* External: SQLite gives one more row, up to the LIMIT that follows the   *)
(* subquery.                                                               *)
SqlRow ==
    /\ sql.state = "running" /\ Runs(sql.text) /\ Len(sql.rows) < RowsRead
    /\ Wrapped(sql.text) => Len(sql.rows) < sql.cap
    /\ \E bytes \in CellSizes : sql' = Account(sql, bytes)
    /\ UNCHANGED <<mail, paging, got, steady>>

(* The rows end, SQLite refuses, or two seconds pass: what was read goes   *)
(* with the refusal.                                                       *)
SqlEnd ==
    /\ sql.state = "running"
    /\ sql' \in (IF Runs(sql.text) THEN {[sql EXCEPT !.state = "ok"]} ELSE {})
                \cup {[sql EXCEPT !.state = e, !.rows = <<>>] : e \in {"internal", "bad_args"}}
    /\ UNCHANGED <<mail, paging, got, steady>>

QueryNext == Ask \/ ReadPage \/ Arrive \/ SqlQuery \/ SqlRow \/ SqlEnd

-----------------------------------------------------------------------------
(* Properties                                                              *)

HasPart(text, part) ==
    \E i \in 0 .. Len(text) - Len(part) : SubSeq(text, i + 1, i + Len(part)) = part

(* Reading a list or a search to its end, with any limit asked for, gives   *)
(* every row it is of once and no other: the words are looked for as they  *)
(* were typed, %, _ and quotes included, every filter holds, and no page   *)
(* is empty before the end (search_filtered, like_pattern, quote_term and  *)
(* the clamped LIMIT).  Mail that arrives while paging may make a row come *)
(* twice; no row is invented.                                              *)
LookupsExact ==
    LET IdOf(m) == IF paging.what = "threads" THEN m.thread ELSE m.id
    IN
    /\ paging # NoQuery => Range(got) \subseteq {IdOf(m) : m \in mail}
    /\ paging # NoQuery /\ paging.done /\ steady =>
        /\ Cardinality(Range(got)) = Len(got)
        /\ Range(got) = {IdOf(m) : m \in {m \in mail :
              CASE paging.what = "folder" -> m.folder = paging.of
                [] paging.what = "thread" -> m.thread = paging.of
                [] paging.what = "recent" -> paging.of \in {0, m.account}
                [] paging.what = "threads" -> m.account = paging.of
                [] paging.what = "search" ->
                     /\ m.text = paging.term
                     /\ \A f \in DOMAIN paging.filters :
                          CASE f = "from_addr" -> HasPart(m.from, paging.filters[f])
                            [] f = "to_addr" -> HasPart(m.to, paging.filters[f])
                            [] f = "date_from" -> ~(m.date < paging.filters[f])
                            [] f = "date_to" -> ~(m.date > paging.filters[f])
                            [] f = "has_attachments" -> paging.filters[f] = (m.files # 0)
                            [] f = "unread" -> paging.filters[f] # m.seen
                            [] OTHER -> m[f] = paging.filters[f]}}

(* A SQL answer stays within its cell and response limits whatever the     *)
(* statement, holds no word that writes, and a refused one carries no rows *)
(* (validate_query, ResponseBudget, QUERY_TIMEOUT).  The row limit is that *)
(* of the SQL the daemon puts around the statement, so it is promised for  *)
(* statements that stay inside it.                                         *)
SqlBounded ==
    /\ sql.state \in {"running", "ok"} =>
        /\ Wrapped(sql.text) => Len(sql.rows) <= sql.cap /\ Len(sql.rows) <= SqlRowsMax
        /\ \A i \in DOMAIN sql.rows : sql.rows[i] <= CellMax
        /\ FoldLeft(+, 0, sql.rows) <= ResponseMax
        /\ \A i \in DOMAIN sql.text : sql.text[i] \notin Forbidden
    /\ sql.state \in {"internal", "bad_args"} => sql.rows = <<>>

(* Lists and searches answer what was asked, and SQL within its limits     *)
(* (search_filtered, list_by_folder, query).                               *)
QueriesSound == LookupsExact /\ SqlBounded

=============================================================================
