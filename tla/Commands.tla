------------------------------- MODULE Commands -------------------------------
(***************************************************************************)
(* The command bar of the TUI (tui/command.rs; handle_command_key,         *)
(* handle_command_tab and run_command_line of tui/mod.rs): typing a        *)
(* command, completing its name with Tab, running it with Enter, and the   *)
(* name proposed for one that is not known.  The line is the sequence of   *)
(* its characters.                                                         *)
(***************************************************************************)
EXTENDS Integers, Sequences, FiniteSets, SequencesExt

CONSTANTS Fragments,        \* what is typed at once: sequences of characters
          MaxTyped,         \* bound on the fragments of one line
          MaxCommandChars   \* MAX_COMMAND_CHARS, scaled

VARIABLES line,   \* command_input
          typed,  \* fragments typed into it
          tabbed, \* the line before the last Tab, if a Tab made this line
          ran     \* what Enter did last

commandVars == <<line, typed, tabbed, ran>>

Letters(name) ==
    CASE name = "account" -> <<"a","c","c","o","u","n","t">>
      [] name = "approvals" -> <<"a","p","p","r","o","v","a","l","s">>
      [] name = "approve" -> <<"a","p","p","r","o","v","e">>
      [] name = "archive" -> <<"a","r","c","h","i","v","e">>
      [] name = "compose" -> <<"c","o","m","p","o","s","e">>
      [] name = "delete" -> <<"d","e","l","e","t","e">>
      [] name = "deny" -> <<"d","e","n","y">>
      [] name = "flag" -> <<"f","l","a","g">>
      [] name = "forward" -> <<"f","o","r","w","a","r","d">>
      [] name = "goto" -> <<"g","o","t","o">>
      [] name = "help" -> <<"h","e","l","p">>
      [] name = "move" -> <<"m","o","v","e">>
      [] name = "reply" -> <<"r","e","p","l","y">>
      [] name = "reply-all" -> <<"r","e","p","l","y","-","a","l","l">>
      [] name = "search" -> <<"s","e","a","r","c","h">>
      [] name = "seen" -> <<"s","e","e","n">>
      [] name = "start-sync" -> <<"s","t","a","r","t","-","s","y","n","c">>
      [] name = "stop-sync" -> <<"s","t","o","p","-","s","y","n","c">>
      [] name = "sync" -> <<"s","y","n","c">>
      [] name = "theme" -> <<"t","h","e","m","e">>
      [] name = "unflag" -> <<"u","n","f","l","a","g">>
      [] name = "unseen" -> <<"u","n","s","e","e","n">>
      [] name = "w" -> <<"w">>

(* COMMAND_NAMES *)
CommandNames ==
    <<"account", "approvals", "approve", "archive", "compose", "delete", "deny", "flag",
      "forward", "goto", "help", "move", "reply", "reply-all", "search", "seen",
      "start-sync", "stop-sync", "sync", "theme", "unflag", "unseen", "w">>

-----------------------------------------------------------------------------
(* Parsing *)

(* split_whitespace *)
Words(text) ==
    LET starts == {i \in DOMAIN text : text[i] # " " /\ (i = 1 \/ text[i - 1] = " ")}
        End(i) == CHOOSE e \in i .. Len(text) :
                     /\ \A k \in i .. e : text[k] # " "
                     /\ e = Len(text) \/ text[e + 1] = " "
        order == SetToSortSeq(starts, <)
    IN  [n \in DOMAIN order |-> SubSeq(text, order[n], End(order[n]))]

(* The arms of parse_command that take no argument (parse_no_args).        *)
NoArgs == {"sync", "start-sync", "stop-sync", "seen", "unseen", "flag", "unflag", "archive",
           "approvals", "approve", "delete", "deny", "compose", "reply", "reply-all",
           "forward", "help", "w"}

AccountFlag == <<"-", "-", "a", "c", "c", "o", "u", "n", "t">>

(* "next" and the names ThemeName::from_str knows                          *)
ThemeWords == {<<"n","e","x","t">>, <<"d","a","r","k">>, <<"l","i","g","h","t">>, <<"h","c">>,
               <<"h","i","g","h","-","c","o","n","t","r","a","s","t">>}

(* parse_search: one --account with a value at most, and words to look for.*)
SearchArgs(args) ==
    LET n == Len(args)
        f[i \in 1 .. n + 2, given \in BOOLEAN, words \in BOOLEAN] ==
            IF i > n THEN words
            ELSE IF args[i] # AccountFlag THEN f[i + 1, given, TRUE]
            ELSE i < n /\ ~given /\ f[i + 2, TRUE, words]
    IN  f[1, FALSE, FALSE]

(* parse_no_args, parse_remainder, parse_account, parse_theme              *)
TakesArgs(name, args) ==
    CASE name \in NoArgs -> args = <<>>
      [] name \in {"move", "goto"} -> args # <<>>
      [] name = "account" -> Len(args) = 1
      [] name = "theme" -> Len(args) = 1 /\ args[1] \in ThemeWords
      [] name = "search" -> SearchArgs(args)

(* parse_command: what the first word names and whether the rest fits.     *)
ParserNames == NoArgs \cup {"move", "goto", "account", "search", "theme"}
ParseCommand(text) ==
    LET words == Words(text)
        named == {n \in ParserNames : Letters(n) = words[1]}
        name  == CHOOSE n \in named : TRUE
    IN  IF words = <<>> THEN [is |-> "empty"]
        ELSE IF named = {} THEN [is |-> "unknown", word |-> words[1]]
        ELSE IF TakesArgs(name, Tail(words)) THEN [is |-> "command", name |-> name]
        ELSE [is |-> "usage", name |-> name]

-----------------------------------------------------------------------------
(* The nearest name *)

Least3(a, b, c) == LET m == IF a < b THEN a ELSE b IN IF m < c THEN m ELSE c

(* The two letters before column j of row i are swapped.                   *)
Swapped(a, b, i, j) == i > 1 /\ j > 1 /\ a[i] = b[j - 1] /\ a[i - 1] = b[j]

(* damerau_levenshtein, with its rolling rows prev_prev, prev and curr;    *)
(* column j of a row is its element j + 1.                                 *)
Distance(a, b) ==
    LET Value(rows, curr, i, j) ==
            LET plain == Least3(rows.prev[j + 1] + 1, curr[j] + 1,
                                rows.prev[j] + (IF a[i] = b[j] THEN 0 ELSE 1))
            IN  IF Swapped(a, b, i, j) THEN Least3(plain, plain, rows.prevPrev[j - 1] + 1)
                ELSE plain
        Row(rows, i) ==
            [prevPrev |-> rows.prev,
             prev |-> FoldLeftDomain(LAMBDA curr, j : Append(curr, Value(rows, curr, i, j)), <<i>>, b)]
        first == [n \in 1 .. Len(b) + 1 |-> n - 1]
    IN  FoldLeftDomain(Row, [prevPrev |-> first, prev |-> first], a).prev[Len(b) + 1]

Apart(a, b) == IF Len(a) > Len(b) THEN Len(a) - Len(b) ELSE Len(b) - Len(a)

(* nearest_command_name: within two edits, the nearest, the first of those.*)
Nearest(word) ==
    LET near == {i \in DOMAIN CommandNames : Apart(word, Letters(CommandNames[i])) <= 2}
        d[i \in near] == Distance(word, Letters(CommandNames[i]))
        ok == {i \in near : d[i] <= 2}
    IN  IF ok = {} THEN "none"
        ELSE CommandNames[CHOOSE i \in ok : \A j \in ok : d[i] < d[j] \/ (d[i] = d[j] /\ i <= j)]

-----------------------------------------------------------------------------
(* Completion *)

Matches(text) == SelectSeq(CommandNames, LAMBDA n : IsPrefix(text, Letters(n)))

(* longest_common_prefix *)
CommonPrefix(names) ==
    LET first == Letters(names[1])
        Shared(k) == \A n \in Range(names) : Len(Letters(n)) >= k /\ Letters(n)[k] = first[k]
        ends == {k \in 0 .. Len(first) : \A m \in 1 .. k : Shared(m)}
    IN  SubSeq(first, 1, CHOOSE k \in ends : \A m \in ends : m <= k)

(* push_command_char, one character after another                          *)
Push(text, chars) == SubSeq(text \o chars, 1, IF Len(text \o chars) > MaxCommandChars
                                              THEN MaxCommandChars ELSE Len(text \o chars))

Mutant_Completed(text) ==
    LET names == Matches(text)
    IN  IF text = <<>> \/ Contains(text, " ") \/ names = <<>> THEN text
        ELSE Push(<<>>, Letters(names[1]) \o <<" ">>)

(* complete_command and handle_command_tab                                 *)
Completed(text) ==
    LET names == Matches(text)
    IN  IF text = <<>> \/ Contains(text, " ") \/ names = <<>> THEN text
        ELSE IF Len(names) = 1 THEN Push(<<>>, Letters(names[1]) \o <<" ">>)
        ELSE IF Len(CommonPrefix(names)) > Len(text) THEN CommonPrefix(names) ELSE text

-----------------------------------------------------------------------------
Nothing == [is |-> "nothing"]

CommandInit == line = <<>> /\ typed = 0 /\ tabbed = <<>> /\ ran = Nothing

Type ==
    /\ typed < MaxTyped
    /\ \E f \in Fragments : line' = Push(line, f)
    /\ typed' = typed + 1 /\ tabbed' = <<>> /\ ran' = Nothing

BackspaceKey ==
    /\ line # <<>>
    /\ line' = Front(line) /\ tabbed' = <<>> /\ UNCHANGED <<typed, ran>>

Tab == line # <<>> /\ line' = Completed(line) /\ tabbed' = line /\ UNCHANGED <<typed, ran>>

(* cancel_command_mode *)
Cancel == line' = <<>> /\ typed' = 0 /\ tabbed' = <<>> /\ ran' = Nothing

(* finish_command, run_command_line and record_command_parse_error; a      *)
(* blank line is ignored.                                                  *)
EnterKey ==
    /\ line' = <<>> /\ typed' = 0 /\ tabbed' = <<>>
    /\ LET parsed == ParseCommand(line)
       IN  ran' = CASE parsed.is = "empty" -> Nothing
                    [] parsed.is = "unknown" -> parsed @@ [meant |-> Nearest(parsed.word)]
                    [] OTHER -> parsed

CommandNext == Type \/ BackspaceKey \/ Tab \/ Cancel \/ EnterKey

-----------------------------------------------------------------------------
(* Properties                                                              *)

(* One slip of the keys turns one word into the other.                     *)
OneSlip(a, b) ==
    \/ \E i \in DOMAIN a : RemoveAt(a, i) = b
    \/ \E i \in DOMAIN b : RemoveAt(b, i) = a
    \/ Len(a) = Len(b) /\ Cardinality({i \in DOMAIN a : a[i] # b[i]}) = 1
    \/ \E i \in 1 .. Len(a) - 1 : [a EXCEPT ![i] = a[i + 1], ![i + 1] = a[i]] = b

(* What Tab writes can be run: it only adds to what was typed, keeps every *)
(* command that was still possible, and a name it completes, of any        *)
(* command, is one the parser knows; and a word one slip away from a       *)
(* command, wherever the slip is, is answered with such a command, never   *)
(* with one further off (complete_command, COMMAND_NAMES against           *)
(* parse_command, nearest_command_name).                                   *)
CommandsAgree ==
    /\ Range(CommandNames) = ParserNames
    /\ tabbed # <<>> =>
        /\ IsPrefix(tabbed, line)
        /\ ~Contains(tabbed, " ") /\ Len(line) < MaxCommandChars =>
               /\ \A n \in ParserNames : IsPrefix(tabbed, Letters(n)) =>
                      IsPrefix(line, Letters(n) \o <<" ">>)
               /\ Contains(line, " ") => ParseCommand(line).is \in {"command", "usage"}
    /\ ran.is = "unknown" =>
        LET slips == {n \in ParserNames : OneSlip(ran.word, Letters(n))}
        IN  /\ slips # {} => ran.meant \in slips
            /\ ran.meant # "none" => Apart(ran.word, Letters(ran.meant)) <= 2

=============================================================================
