----------------------------- MODULE McpApproval ------------------------------
(***************************************************************************)
(* Approval of dangerous tool calls: the MCP bridge (src/mcp/server.rs)    *)
(* asks the daemon for the gates of a tool, and where they require it      *)
(* creates an approval row, waits for somebody to decide it, and forwards  *)
(* the call or refuses it.  The daemon's side is the mcp.* operations of   *)
(* src/daemon/dispatcher.rs over src/db/mcp.rs.                            *)
(*                                                                         *)
(* A call c is one tools/call of a dangerous tool.  Its approval row, its  *)
(* subscription and its arguments are identified with it.  A gate pattern  *)
(* is the set of calls whose arguments it matches.  One bridge serves its   *)
(* calls one at a time; the calls of the model belong to several bridges.   *)
(***************************************************************************)
EXTENDS Integers, Sequences

CONSTANTS
  Calls,
  GateKinds,     \* the gates users may create: [action, pattern] records
  MaxGates,      \* bound: gates created
  Capacity       \* events buffered for one subscriber before it lags

Actions == {"auto_allow", "deny", "require"}
Terminal == {"allowed", "denied", "expired"}

ASSUME ConstantsAssumption ==
  /\ GateKinds \subseteq [action : Actions, pattern : SUBSET Calls]
  /\ MaxGates \in Nat /\ Capacity \in Nat \ {0}

VARIABLES
  gates,         \* table mcp_gates
  everAuto,      \* calls that some auto_allow gate has ever matched
  created,       \* number of gates created
  row,           \* table mcp_approvals: state of each call's row, or "none"
  unpublished,   \* decide handlers between their UPDATE and their publish
  aborted,       \* ... that were aborted there
  pc,            \* where the bridge is with each call
  sub,           \* subscription to mcp.approval_decided
  chan, lost,    \* its buffered events; whether older ones were overwritten
  linked         \* whether the connection of the call's bridge is up

vars == <<gates, everAuto, created, row, unpublished, aborted, pc, sub, chan, lost, linked>>
gateVars == <<gates, everAuto, created>>
subVars == <<sub, chan, lost>>

-----------------------------------------------------------------------------
(* Gates.                                                                  *)

\* gates::decide over list_gates_for_tool, which sorts by created_at: the first
\* matching gate, Require by default.
Decision(c) ==
  LET matching == {g \in gates : c \in g.pattern}
      first == CHOOSE g \in matching : \A h \in matching : g.at <= h.at
  IN IF matching = {} THEN "require" ELSE first.action

CreateGate ==
  /\ created < MaxGates
  /\ created' = created + 1
  /\ \E g \in GateKinds :
       /\ gates' = gates \cup {[at |-> created', action |-> g.action, pattern |-> g.pattern]}
       /\ everAuto' = everAuto \cup (IF g.action = "auto_allow" THEN g.pattern ELSE {})
  /\ UNCHANGED <<row, unpublished, pc, subVars, linked, aborted>>

DeleteGate ==
  /\ \E g \in gates : gates' = gates \ {g}
  /\ UNCHANGED <<everAuto, created, row, unpublished, pc, subVars, linked, aborted>>

-----------------------------------------------------------------------------
(* mcp.approval.decide.                                                    *)

\* db::mcp::decide: UPDATE ... WHERE state = 'pending'.
DecideRow(c, s) ==
  IF row[c] = "pending"
    THEN /\ row' = [row EXCEPT ![c] = s]
         /\ unpublished' = unpublished \cup {c}
    ELSE UNCHANGED <<row, unpublished>>

\* A user answers in the TUI, or another client sends the operation.
UserDecide(c) ==
  /\ row[c] # "none"
  /\ \E s \in Terminal : DecideRow(c, s)
  /\ UNCHANGED <<gateVars, pc, subVars, linked, aborted>>

\* broadcast::Sender::send: a full buffer overwrites its oldest event.
Push(q, e) == Append(IF Len(q) = Capacity THEN Tail(q) ELSE q, e)

\* The handler re-reads the row and publishes it to every subscriber.
PublishDecision(c) ==
  LET e == [id |-> c, state |-> row[c]]
      live == {d \in Calls : sub[d] = "live"}
  IN /\ c \in unpublished
     /\ unpublished' = unpublished \ {c}
     /\ chan' = [d \in Calls |-> IF d \in live THEN Push(chan[d], e) ELSE chan[d]]
     /\ lost' = [d \in Calls |-> lost[d] \/ (d \in live /\ Len(chan[d]) = Capacity)]
     /\ UNCHANGED <<gateVars, row, pc, sub, linked, aborted>>

\* The connection that sent the decision closes first: its handlers are
\* aborted between the UPDATE and the publish.
AbortDecision(c) ==
  /\ c \in unpublished
  /\ unpublished' = unpublished \ {c}
  /\ aborted' = aborted \cup {c}
  /\ UNCHANGED <<gateVars, row, pc, subVars, linked>>

-----------------------------------------------------------------------------
(* The bridge.  Every daemon request is one step and needs the connection. *)

Goto(c, l) == pc' = [pc EXCEPT ![c] = l]
Unsubscribe(c) ==
  /\ sub' = [sub EXCEPT ![c] = "none"]
  /\ chan' = [chan EXCEPT ![c] = <<>>]
  /\ lost' = [lost EXCEPT ![c] = FALSE]

\* Mutant: only a denial stops the call.
Mutant_Outcome(s) == IF s = "denied" THEN s ELSE "forward"

\* Where call_after_required_approval goes with the state it was given.
Outcome(s) == IF s = "allowed" THEN "forward" ELSE s

\* call_tool: mcp.gate.list, then gates::decide.
ListGates(c) ==
  /\ pc[c] = "start" /\ linked[c]
  /\ Goto(c, CASE Decision(c) = "auto_allow" -> "forward"
               [] Decision(c) = "deny" -> "gate_denied"
               [] OTHER -> "create")
  /\ UNCHANGED <<gateVars, row, unpublished, subVars, linked, aborted>>

\* mcp.approval.create, which also publishes mcp.approval_requested.
CreateApproval(c) ==
  /\ pc[c] = "create" /\ linked[c]
  /\ row' = [row EXCEPT ![c] = "pending"]
  /\ Goto(c, "subscribe")
  /\ UNCHANGED <<gateVars, unpublished, subVars, linked, aborted>>

\* Mutant: no check between subscribing and waiting.
Mutant_Subscribe(c) ==
  /\ pc[c] = "subscribe" /\ linked[c]
  /\ sub' = [sub EXCEPT ![c] = "live"]
  /\ Goto(c, "wait")
  /\ UNCHANGED <<gateVars, row, unpublished, chan, lost, linked, aborted>>

\* wait_for_approval, on a connection of its own.
Subscribe(c) ==
  /\ pc[c] = "subscribe" /\ linked[c]
  /\ sub' = [sub EXCEPT ![c] = "live"]
  /\ Goto(c, "check")
  /\ UNCHANGED <<gateVars, row, unpublished, chan, lost, linked, aborted>>

\* get_approval: the first check, and the one after a lagged notice.
Check(c) ==
  /\ pc[c] = "check" /\ linked[c]
  /\ IF row[c] = "pending"
       THEN Goto(c, "wait") /\ UNCHANGED subVars
       ELSE Goto(c, Outcome(row[c])) /\ Unsubscribe(c)
  /\ UNCHANGED <<gateVars, row, unpublished, linked, aborted>>

\* Mutant: wait for a decision without a deadline.
Mutant_Timeout(c) == FALSE /\ UNCHANGED vars

Timeout(c) ==
  /\ pc[c] = "wait"
  /\ Goto(c, "expire")
  /\ UNCHANGED <<gateVars, row, unpublished, subVars, linked, aborted>>

\* events.recv(): a lagged notice, a decision of this call, or of another.
ReceiveLagged(c) ==
  /\ pc[c] = "wait" /\ lost[c]
  /\ lost' = [lost EXCEPT ![c] = FALSE]
  /\ Goto(c, "check")
  /\ UNCHANGED <<gateVars, row, unpublished, sub, chan, linked, aborted>>

ReceiveEvent(c) ==
  /\ pc[c] = "wait" /\ ~lost[c] /\ chan[c] # <<>>
  /\ IF Head(chan[c]).id = c
       THEN Goto(c, Outcome(Head(chan[c]).state)) /\ Unsubscribe(c)
       ELSE /\ chan' = [chan EXCEPT ![c] = Tail(@)]
            /\ UNCHANGED <<pc, sub, lost>>
  /\ UNCHANGED <<gateVars, row, unpublished, linked, aborted>>

\* events.recv() = None, after what was buffered has been received: one read,
\* and expire_approval if the row is still pending.
ReceiveClosed(c) ==
  /\ pc[c] = "wait" /\ linked[c]
  /\ sub[c] = "dropped" /\ ~lost[c] /\ chan[c] = <<>>
  /\ IF row[c] = "pending"
       THEN Goto(c, "expire") /\ UNCHANGED subVars
       ELSE Goto(c, Outcome(row[c])) /\ Unsubscribe(c)
  /\ UNCHANGED <<gateVars, row, unpublished, linked, aborted>>

\* Mutant: the answer of the decide request is ignored.
Mutant_Expire(c) ==
  /\ pc[c] = "expire" /\ linked[c]
  /\ DecideRow(c, "expired")
  /\ Goto(c, "expired")
  /\ Unsubscribe(c)
  /\ UNCHANGED <<gateVars, linked, aborted>>

\* expire_approval: decide(expired); when somebody was faster, read the row.
Expire(c) ==
  /\ pc[c] = "expire" /\ linked[c]
  /\ DecideRow(c, "expired")
  /\ Goto(c, IF row[c] = "pending" THEN "expired" ELSE "reread")
  /\ Unsubscribe(c)
  /\ UNCHANGED <<gateVars, linked, aborted>>

Reread(c) ==
  /\ pc[c] = "reread" /\ linked[c]
  /\ Goto(c, Outcome(row[c]))
  /\ UNCHANGED <<gateVars, row, unpublished, subVars, linked, aborted>>

\* forward_dangerous_tool: the daemon executes the tool.
Forward(c) ==
  /\ pc[c] = "forward" /\ linked[c]
  /\ Goto(c, "executed")
  /\ UNCHANGED <<gateVars, row, unpublished, subVars, linked, aborted>>

Requesting == {"start", "create", "subscribe", "check", "expire", "reread", "forward"}
Finished == Terminal \cup {"gate_denied", "executed", "failed", "gone"}

\* A request on a closed connection returns an error, which ends the call.  The
\* read that follows a closed subscription is such a request.
RequestFails(c) ==
  /\ ~linked[c]
  /\ \/ pc[c] \in Requesting
     \/ pc[c] = "wait" /\ sub[c] = "dropped" /\ ~lost[c] /\ chan[c] = <<>>
  /\ Goto(c, "failed") /\ Unsubscribe(c)
  /\ UNCHANGED <<gateVars, row, unpublished, linked, aborted>>

\* Only the subscription's own connection closes.
DropSubscription(c) ==
  /\ sub[c] = "live"
  /\ sub' = [sub EXCEPT ![c] = "dropped"]
  /\ UNCHANGED <<gateVars, row, unpublished, pc, chan, lost, linked, aborted>>

\* postbloxd exits; its tables survive.  The bridge never reconnects.
DaemonExit ==
  /\ \E c \in Calls : linked[c]
  /\ linked' = [c \in Calls |-> FALSE]
  /\ unpublished' = {} /\ aborted' = aborted \cup unpublished
  /\ sub' = [c \in Calls |-> IF sub[c] = "live" THEN "dropped" ELSE sub[c]]
  /\ UNCHANGED <<gateVars, row, pc, chan, lost>>

\* The bridge process ends (stdin closed, or killed) in the middle of a call.
BridgeExit(c) ==
  /\ pc[c] \notin Finished
  /\ Goto(c, "gone") /\ Unsubscribe(c)
  /\ UNCHANGED <<gateVars, row, unpublished, linked, aborted>>

-----------------------------------------------------------------------------
Init ==
  /\ gates = {} /\ everAuto = {} /\ created = 0
  /\ row = [c \in Calls |-> "none"] /\ unpublished = {} /\ aborted = {}
  /\ pc = [c \in Calls |-> "start"]
  /\ sub = [c \in Calls |-> "none"]
  /\ chan = [c \in Calls |-> <<>>] /\ lost = [c \in Calls |-> FALSE]
  /\ linked = [c \in Calls |-> TRUE]

BridgeStep(c) ==
  \/ ListGates(c) \/ CreateApproval(c) \/ Subscribe(c) \/ Check(c)
  \/ Timeout(c) \/ ReceiveLagged(c) \/ ReceiveEvent(c) \/ ReceiveClosed(c)
  \/ Expire(c) \/ Reread(c) \/ Forward(c) \/ RequestFails(c)

Next ==
  \/ CreateGate \/ DeleteGate
  \/ \E c \in Calls : \/ UserDecide(c) \/ PublishDecision(c) \/ AbortDecision(c)
                      \/ BridgeStep(c) \/ DropSubscription(c) \/ BridgeExit(c)
  \/ DaemonExit

Spec == Init /\ [][Next]_vars

\* The bridge runs on; its approval timer always fires; nobody has to decide.
FairSpec == Spec /\ \A c \in Calls : WF_vars(BridgeStep(c)) /\ WF_vars(Timeout(c))

-----------------------------------------------------------------------------
(* Properties.                                                             *)

PCs == Requesting \cup Finished \cup {"wait"}
Event == [id : Calls, state : Terminal]

\* Types; a subscriber never buffers more than the broadcast capacity.
TypeOK ==
  /\ gates \subseteq [at : 1..MaxGates, action : Actions, pattern : SUBSET Calls]
  /\ everAuto \subseteq Calls /\ created \in 0..MaxGates
  /\ row \in [Calls -> Terminal \cup {"none", "pending"}]
  /\ unpublished \subseteq Calls /\ aborted \subseteq Calls
  /\ pc \in [Calls -> PCs]
  /\ sub \in [Calls -> {"none", "live", "dropped"}]
  /\ chan \in [Calls -> Seq(Event)] /\ \A c \in Calls : Len(chan[c]) <= Capacity
  /\ lost \in [Calls -> BOOLEAN] /\ linked \in [Calls -> BOOLEAN]

\* A dangerous call is forwarded only if its approval row says allowed, or if
\* an auto_allow gate has matched it: whatever timeouts, late, lost or lagged
\* decisions, dropped subscriptions and deleted gates do.
OnlyAuthorised ==
  \A c \in Calls : pc[c] \in {"forward", "executed"} =>
                     row[c] = "allowed" \/ c \in everAuto

\* What the agent is told is what the table says: a call that ended denied or
\* expired has that row, so an expired call cannot be allowed afterwards.
OutcomeMatchesRow ==
  \A c \in Calls : pc[c] \in Terminal => row[c] = pc[c]

\* A decision is final: no later decision or timeout changes it.
DecisionsFinal ==
  [][\A c \in Calls : row[c] \in Terminal => row'[c] = row[c]]_vars

\* While the bridge waits with nothing buffered and no publish under way, its
\* row is pending, unless a publish was aborted or the subscription dropped:
\* subscribing before the first check closes the window in which a decision
\* could be missed.
NoMissedDecision ==
  \A c \in Calls :
    pc[c] = "wait" /\ sub[c] = "live" /\ row[c] \in Terminal =>
      \/ c \in unpublished \/ c \in aborted \/ lost[c]
      \/ \E i \in DOMAIN chan[c] : chan[c][i].id = c

\* Every call ends, even if nobody decides.
EveryCallEnds == \A c \in Calls : <>(pc[c] \in Finished)

\* When a waiting call's subscription drops, its row does not stay pending (as
\* long as the bridge itself lives).
DroppedIsExpired ==
  \A c \in Calls : (pc[c] = "wait" /\ sub[c] = "dropped")
                      ~> (row[c] # "pending" \/ pc[c] = "gone")
=============================================================================
