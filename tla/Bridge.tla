------------------------------- MODULE Bridge -------------------------------
(***************************************************************************)
(* The MCP bridge's conversation with its agent: the stdio loop of         *)
(* src/mcp/server.rs (bounded line reader, sequential handling, one writer *)
(* task behind a bounded channel, event forwarders started by the          *)
(* `initialized' notification), the JSON-RPC framing of                    *)
(* src/mcp/protocol.rs, and the daemon requests a tool call leads to.      *)
(* How a required approval is decided is McpApproval's subject; here it is *)
(* allowed or it fails.                                                    *)
(*                                                                         *)
(* A line of input is a record.  Its length and its encoding matter to the *)
(* reader; `json' says whether it parses, and the rest are the classes the *)
(* framing rules tell apart ("absent" for a missing field).                *)
(***************************************************************************)
EXTENDS Tools, Sequences

CONSTANTS MaxLineBytes,     \* STDIO_MAX_LINE_BYTES, scaled
          OutputMailbox,    \* OUTPUT_MAILBOX, scaled
          Topics,           \* notification_topics: a sequence
          MaxEvents,        \* bound: events forwarded in a run
          Conversations     \* the inputs to explore: sequences of lines

VARIABLES lines,      \* the whole input
          at,         \* index of the line being read or handled
          taken,      \* bytes of it accumulated by the reader
          serving,    \* what the loop is doing
          answer,     \* response about to be sent, or None
          calls,      \* daemon requests made for the line being handled
          out,        \* the channel to the writer
          stdout,     \* frames written
          pipe,       \* is the agent still reading stdout
          started,    \* are there notification handles
          asked,      \* topics asked for in this round of subscriptions (a count)
          forwarders, \* topics with a live forwarder
          events,     \* events forwarded so far
          uiCall      \* the terminal client's last request, or NoCall

bridgeVars == <<lines, at, taken, serving, answer, calls, out, stdout, pipe, started, asked,
                forwarders, events, uiCall>>

None == [id |-> "none", code |-> "none"]

Line == lines[at]

NoCall == [op |-> "none"]

Response(id, code) == [id |-> id, code |-> code]

Notice == [id |-> "notice", code |-> "notice"]

-----------------------------------------------------------------------------
(* protocol.rs: classify a line.  The error paths answer with the id found *)
(* so far, or null.                                                        *)

ValidId(id) == id \in {"string", "number", "null"}

HasMethod(l) == l.method \notin {Absent, "empty"}

ParseValue(l) ==
    LET Refused(id) == [kind |-> "refused",
                        answer |-> Response(IF id = Absent THEN "null" ELSE id, "invalid_request")]
    IN  CASE ~l.object       -> Refused(Absent)
          [] ~l.version      -> Refused(l.id)
          [] ~HasMethod(l)   -> IF l.result THEN [kind |-> "response", answer |-> None]
                                ELSE Refused(l.id)
          [] l.id = Absent   -> [kind |-> "notification", answer |-> None]
          [] ~ValidId(l.id)  -> Refused(l.id)
          [] OTHER           -> [kind |-> "request", answer |-> None]

ParseLine(l) ==
    IF l.json THEN ParseValue(l)
    ELSE [kind |-> "refused", answer |-> Response("null", "parse_error")]

(* object_params: null stands for the empty object.                        *)
ObjectParams(l) == l.params \in {Absent, "null", "obj"}

-----------------------------------------------------------------------------
(* handle_request and handle_tool_call: the code of the response, from     *)
(* what the daemon did with the calls made.                                *)

(* The codes a failed daemon request turns into (BridgeError::to_json_rpc):*)
(* an error answer or a broken socket, or an answer of the wrong shape.    *)
DaemonFailures == {"server", "internal"}

(* A tool call reaches the daemon when its parameters, its name and its    *)
(* arguments pass.                                                         *)
CallableTool(l) == /\ ObjectParams(l) /\ l.params = "obj"
                   /\ l.tool \in DOMAIN ToolSpecs
                   /\ ValidArguments(l.tool, l.args)

(* The daemon requests for a tool, one outcome per way through call_tool:  *)
(* a harmless tool asks once; a dangerous one consults the gates and is    *)
(* then denied, forwarded, or forwarded after an approval; any request may *)
(* fail, and an approval be denied or expire, which ends the call.         *)
ToolOutcomes(tool, args) ==
    LET forward == ToolRequest(tool, args)
        Fails(s) == {[calls |-> s, code |-> c] : c \in DaemonFailures}
        \* a request the dispatcher refuses cannot succeed
        Ends(s) == Fails(s)
                   \cup (IF Dispatched(s[Len(s)].op, s[Len(s)].args) = "handled"
                         THEN {[calls |-> s, code |-> "ok"]} ELSE {})
        approved == <<GateListCall, ApprovalCreateCall, ApprovalGetCall>>
        expired  == Append(approved, ApprovalExpireCall)
    IN  IF ~ToolSpecs[tool].dangerous THEN Ends(<<forward>>)
        ELSE UNION {Fails(SubSeq(expired, 1, n)) : n \in DOMAIN expired}
             \cup Ends(<<GateListCall, forward>>)
             \cup Ends(Append(approved, forward))

Handled(l) ==
    LET Plain(code) == {[calls |-> <<>>, code |-> code]}
    IN  CASE l.method = "initialize" -> Plain(IF ObjectParams(l) THEN "ok" ELSE "invalid_params")
          [] l.method \in {"tools/list", "ping"} -> Plain("ok")
          [] l.method = "tools/call" -> IF CallableTool(l) THEN ToolOutcomes(l.tool, l.args)
                                        ELSE Plain("invalid_params")
          [] OTHER -> Plain("method_not_found")

-----------------------------------------------------------------------------
(* The stdio loop                                                          *)

BridgeStart(talks, phase) ==
    /\ lines \in talks /\ serving = phase
    /\ at = 1 /\ taken = 0 /\ answer = None /\ calls = <<>>
    /\ out = <<>> /\ stdout = <<>> /\ pipe = "open"
    /\ started = FALSE /\ asked = 0 /\ forwarders = {} /\ events = 0
    /\ uiCall = NoCall

BridgeInit == BridgeStart(Conversations, "reading")

(* A complete line: the reader fails on bytes that are not UTF-8, which    *)
(* ends the loop through `?' with nothing aborted or awaited.              *)
LineRead ==
    /\ calls' = <<>>
    /\ IF ~Line.utf8
       THEN serving' = "failed" /\ UNCHANGED answer
       ELSE LET parsed == ParseLine(Line)
            IN  /\ serving' = "handling"
                /\ answer' = parsed.answer

(* read_bounded_line, a chunk without the line's end.  Past the limit the  *)
(* rest of the line is discarded and the frame is an oversized one.        *)
ReadMore ==
    /\ serving = "reading" /\ at <= Len(lines)
    /\ \E k \in 1 .. (Line.len - taken) :
           IF taken + k > MaxLineBytes
           THEN /\ serving' = "handling" /\ answer' = Response("null", "invalid_request")
                /\ calls' = <<>> /\ taken' = Line.len
           ELSE taken' = taken + k /\ UNCHANGED <<serving, answer, calls>>
    /\ UNCHANGED <<lines, at, out, stdout, pipe, started, asked, forwarders, events, uiCall>>

Mutant_ReadEnd ==
    /\ serving = "reading" /\ at <= Len(lines)
    /\ IF Line.len - taken > MaxLineBytes
       THEN /\ serving' = "handling" /\ answer' = Response("null", "invalid_request")
            /\ calls' = <<>>
       ELSE LineRead
    /\ taken' = Line.len
    /\ UNCHANGED <<lines, at, out, stdout, pipe, started, asked, forwarders, events, uiCall>>

(* read_bounded_line, the chunk with the line's end (or the end of input   *)
(* after an unfinished last line).                                         *)
ReadEnd ==
    /\ serving = "reading" /\ at <= Len(lines)
    /\ IF Line.len > MaxLineBytes
       THEN /\ serving' = "handling" /\ answer' = Response("null", "invalid_request")
            /\ calls' = <<>>
       ELSE LineRead
    /\ taken' = Line.len
    /\ UNCHANGED <<lines, at, out, stdout, pipe, started, asked, forwarders, events, uiCall>>

Oversized == Line.len > MaxLineBytes

IsRequest == ~Oversized /\ answer = None /\ ParseLine(Line).kind = "request"

(* Handle a request: make its daemon calls and compose its response.       *)
Handle ==
    /\ serving = "handling" /\ IsRequest
    /\ \E h \in Handled(Line) :
           /\ calls' = h.calls
           /\ answer' = Response(Line.id, h.code)
    /\ serving' = "sending"
    /\ UNCHANGED <<lines, at, taken, out, stdout, pipe, started, asked, forwarders, events, uiCall>>

StartsNotifications ==
    /\ ~Oversized /\ ParseLine(Line).kind = "notification"
    /\ Line.method = "initialized"

(* After a line: subscribe once, on the first `initialized', else read on. *)
NextLine ==
    IF StartsNotifications /\ ~started
    THEN serving' = "subscribing" /\ asked' = 0 /\ UNCHANGED <<at, taken>>
    ELSE serving' = "reading" /\ at' = at + 1 /\ taken' = 0 /\ UNCHANGED asked

(* A notification or a response has no answer.                             *)
Skip ==
    /\ serving = "handling" /\ answer = None /\ ~IsRequest
    /\ NextLine
    /\ UNCHANGED <<lines, answer, calls, out, stdout, pipe, started, forwarders, events, uiCall>>

(* out_tx.send: waits for room; fails once the writer is gone, and then    *)
(* the loop stops.                                                         *)
SendAnswer ==
    /\ serving \in {"handling", "sending"} /\ answer # None
    /\ IF pipe = "broken"
       THEN serving' = "draining" /\ UNCHANGED <<out, at, taken, asked>>
       ELSE Len(out) < OutputMailbox /\ out' = Append(out, answer) /\ NextLine
    /\ answer' = None
    /\ UNCHANGED <<lines, calls, stdout, pipe, started, forwarders, events, uiCall>>

(* start_notifications: subscribe to the topics one after the other; a     *)
(* subscription that fails is reported to the agent, when it can be.       *)
Subscribe ==
    /\ serving = "subscribing"
    /\ asked' = asked + 1
    /\ \/ forwarders' = forwarders \cup {Topics[asked']} /\ UNCHANGED out
       \/ /\ IF pipe = "broken" THEN UNCHANGED out
             ELSE Len(out) < OutputMailbox /\ out' = Append(out, Notice)
          /\ UNCHANGED forwarders
    /\ started' = (started \/ forwarders' # {})
    /\ IF asked' = Len(Topics)
       THEN serving' = "reading" /\ at' = at + 1 /\ taken' = 0
       ELSE UNCHANGED <<serving, at, taken>>
    /\ UNCHANGED <<lines, answer, calls, stdout, pipe, events, uiCall>>

(* A forwarder passes an event on; when its subscription drops it reports  *)
(* that and ends; when the writer is gone it ends.                         *)
Forward(topic) ==
    /\ events < MaxEvents /\ serving \notin {"ended", "failed"}
    /\ IF pipe = "broken"
       THEN forwarders' = forwarders \ {topic} /\ UNCHANGED out
       ELSE /\ Len(out) < OutputMailbox /\ out' = Append(out, Notice)
            /\ forwarders' \in {forwarders, forwarders \ {topic}}
    /\ events' = events + 1
    /\ UNCHANGED <<lines, at, taken, serving, answer, calls, stdout, pipe, started, asked,
                   uiCall>>

(* The writer task: writes the oldest frame.                               *)
Write ==
    /\ pipe = "open" /\ out # <<>> /\ serving \notin {"ended", "failed"}
    /\ stdout' = Append(stdout, Head(out)) /\ out' = Tail(out)
    /\ UNCHANGED <<lines, at, taken, serving, answer, calls, pipe, started, asked, forwarders,
                   events, uiCall>>

(* The agent closes the bridge's stdout: the writer ends with an error.    *)
BreakPipe ==
    /\ pipe = "open" /\ serving \notin {"ended", "failed"}
    /\ pipe' = "broken" /\ out' = <<>>
    /\ UNCHANGED <<lines, at, taken, serving, answer, calls, stdout, started, asked, forwarders,
                   events, uiCall>>

(* End of input: the forwarders are aborted and the loop's sender dropped; *)
(* the writer is then awaited.                                             *)
EndOfInput ==
    /\ serving = "reading" /\ at > Len(lines)
    /\ serving' = "draining" /\ forwarders' = {}
    /\ UNCHANGED <<lines, at, taken, answer, calls, out, stdout, pipe, started, asked, events, uiCall>>

Mutant_Finish ==
    /\ serving = "draining" /\ pipe = "broken"
    /\ serving' = "ended" /\ forwarders' = {}
    /\ UNCHANGED <<lines, at, taken, answer, calls, out, stdout, pipe, started, asked, events, uiCall>>

(* The awaited writer has nothing left, or died.                           *)
Finish ==
    /\ serving = "draining" /\ (out = <<>> \/ pipe = "broken")
    /\ serving' = "ended" /\ forwarders' = {}
    /\ UNCHANGED <<lines, at, taken, answer, calls, out, stdout, pipe, started, asked, events, uiCall>>

(* The terminal client makes one of its requests.  It shares nothing with  *)
(* the conversation, so it is explored in the empty one only.              *)
UiRequest ==
    /\ lines = <<>> /\ uiCall = NoCall
    /\ uiCall' \in UiCalls
    /\ UNCHANGED <<lines, at, taken, serving, answer, calls, out, stdout, pipe, started, asked,
                   forwarders, events>>

BridgeNext ==
    \/ ReadMore \/ ReadEnd \/ Handle \/ Skip \/ SendAnswer
    \/ Subscribe \/ \E t \in forwarders : Forward(t)
    \/ Write \/ BreakPipe \/ EndOfInput \/ Finish \/ UiRequest

(* The runtime polls the loop, the writer and every forwarder; the daemon  *)
(* answers or its socket breaks.  The agent need not close anything.       *)
BridgeFairness ==
    /\ WF_bridgeVars(ReadMore \/ ReadEnd) /\ WF_bridgeVars(Handle) /\ WF_bridgeVars(Skip)
    /\ WF_bridgeVars(EndOfInput) /\ WF_bridgeVars(Finish) /\ WF_bridgeVars(Write)
    /\ SF_bridgeVars(SendAnswer) /\ SF_bridgeVars(Subscribe)

-----------------------------------------------------------------------------
(* Properties                                                              *)

(* What JSON-RPC owes for a line, stated without the order of the checks.  *)
Owes(l) ==
    \/ l.len > MaxLineBytes \/ ~l.json \/ ~l.object \/ ~l.version
    \/ IF HasMethod(l) THEN l.id # Absent ELSE ~l.result

OwedId(l) == IF l.len <= MaxLineBytes /\ l.json /\ l.object /\ l.id # Absent THEN l.id ELSE "null"

(* The agent gets one answer per line that is owed one, in the order of    *)
(* its lines, carrying the line's id, whatever the chunks its input comes  *)
(* in and however events interleave; and when the bridge ends after the    *)
(* end of input, none is missing (serve_stdio_io_with_limit).              *)
AnswersInOrder ==
    LET answered == SelectSeq(stdout, LAMBDA frame : frame # Notice)
        owed     == SelectSeq(lines, Owes)
    IN  /\ Len(answered) <= Len(owed)
        /\ \A i \in 1 .. Len(answered) : answered[i].id = OwedId(owed[i])
        /\ serving = "ended" /\ pipe = "open" => Len(answered) = Len(owed)

(* A tool call is refused for its arguments exactly when they do not match *)
(* the schema tools/list advertises (validate_arguments, input_schema).    *)
SchemaHonoured ==
    serving = "sending" /\ Line.method = "tools/call" /\ Line.params = "obj"
        /\ Line.tool \in DOMAIN ToolSpecs
    => (answer.code = "invalid_params" <=> ~Advertised(Line.tool, Line.args))

(* Strings the tool schema admits and the daemon refuses: a search for     *)
(* nothing, and an empty sender or recipient filter.                       *)
EmptySearch(call) ==
    /\ call.op = "search"
    /\ \/ call.args.q \in {"empty", "blank"}
       \/ \E f \in {"from_addr", "to_addr"} : Field(call.args, f) = "empty"

(* Whatever a client sends, the dispatcher knows the operation and takes   *)
(* the shape of its arguments: the bridge's validation leaves it nothing   *)
(* to refuse but empty search strings, and the terminal client's and the   *)
(* bridge's own requests are never bad_args.  The terminal's decisions     *)
(* are apart (see UiCallsTaken).                                           *)
CallsTaken ==
    \A call \in {calls[i] : i \in DOMAIN calls} \cup ({uiCall} \ ({NoCall} \cup UiDecisions)) :
        Dispatched(call.op, call.args) = "handled" \/ EmptySearch(call)

(* Every request the terminal client builds is one the dispatcher takes    *)
(* (decide_approval included).                                             *)
UiCallsTaken == uiCall # NoCall => Dispatched(uiCall.op, uiCall.args) = "handled"

(* A tool that changes anything only reaches the daemon after the gates    *)
(* were consulted, and is recorded under the agent's name                  *)
(* (call_tool, forward_dangerous_tool, actor_from_args).                   *)
AgentActionsGated ==
    serving = "sending" /\ Line.method = "tools/call" =>
        \A i \in DOMAIN calls :
            calls[i].op = ToolSpecs[Line.tool].op /\ calls[i].op \in ChangingOps
            => i > 1 /\ calls[1] = GateListCall /\ ActorFrom(calls[i].args) = "mcp"

(* The two clients and the daemon agree on every call: what the bridge     *)
(* lets through is what its schema says and what the dispatcher takes, and *)
(* what changes anything was gated and is recorded as the agent's          *)
(* (validate_arguments, dispatch, call_tool).                              *)
CallsAgree == SchemaHonoured /\ CallsTaken /\ AgentActionsGated

(* The bridge ends once its input does, whatever its subscriptions and its *)
(* writer are doing, while the agent reads on or after it has gone         *)
(* (serve_stdio_io_with_limit).                                            *)
BridgeEnds == <>(serving \in {"ended", "failed"})

=============================================================================
