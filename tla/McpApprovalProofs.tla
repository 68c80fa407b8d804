--------------------------- MODULE McpApprovalProofs --------------------------
(* Proofs about McpApproval, for every set of calls, every set of gates and *)
(* every buffer capacity.                                                  *)
EXTENDS McpApproval, SequenceTheorems, WellFoundedInduction, TLAPS

\* A buffered decision, and one about to be published, says what the row says.
EventsTruthful ==
  /\ \A c \in Calls : \A i \in DOMAIN chan[c] : row[chan[c][i].id] = chan[c][i].state
  /\ \A c \in unpublished : row[c] \in Terminal

\* Where the bridge is determines how far the row has come.
RowFollowsBridge ==
  \A c \in Calls :
    /\ pc[c] \in {"start", "create", "gate_denied"} => row[c] = "none"
    /\ pc[c] \in {"subscribe", "check", "wait", "expire"} => row[c] # "none"
    /\ pc[c] = "reread" => row[c] \in Terminal

\* everAuto covers the gates of today.
GatesRecorded ==
  \A g \in gates : g.action = "auto_allow" => g.pattern \subseteq everAuto

\* The inductive invariant.  OutcomeMatchesRow alone is not inductive: a call
\* ends with the state of a buffered event, so events must be truthful.
IInv ==
  /\ TypeOK
  /\ EventsTruthful
  /\ RowFollowsBridge
  /\ GatesRecorded
  /\ OnlyAuthorised
  /\ OutcomeMatchesRow

-----------------------------------------------------------------------------
(* Lemmas.                                                                 *)

\* The steps of the bridge and of the daemon that touch neither the gates nor
\* the connection state, in the vocabulary of the proofs.
USE DEF Actions, Terminal, Requesting, Finished, PCs, Event

\* The initial state satisfies the invariant.
LEMMA InitIInv == Init => IInv
BY ConstantsAssumption
   DEF Init, IInv, TypeOK, EventsTruthful, RowFollowsBridge, GatesRecorded,
       OnlyAuthorised, OutcomeMatchesRow

\* A nonempty set of natural numbers has a least element.
LEMMA LeastNat ==
  ASSUME NEW S \in SUBSET Nat, S # {}
  PROVE  \E n \in S : \A m \in S : n <= m
<1> DEFINE R == {ss \in Nat \X Nat : ss[1] < ss[2]}
<1>1. IsWellFoundedOn(R, Nat)
  BY NatLessThanWellFounded, Zenon DEF OpToRel
<1>2. PICK n \in S : \A m \in S : ~(<<m, n>> \in R)
  <2> HIDE DEF R
  <2> QED BY <1>1, WFMin, Zenon
<1>3. \A m \in S : ~(m < n)
  BY <1>2
<1> QED BY <1>3

\* What is not the head of a sequence is in its tail, one place earlier.
LEMMA TailKeeps ==
  ASSUME NEW S, NEW s \in Seq(S), s # <<>>, NEW i \in DOMAIN s, s[i] # Head(s)
  PROVE  i - 1 \in DOMAIN Tail(s) /\ Tail(s)[i - 1] = s[i]
<1>1. i # 1
  OBVIOUS
<1> QED
  BY <1>1, HeadTailProperties

\* gates::decide answers auto_allow only for a call that a gate allows.
LEMMA DecisionRecorded ==
  ASSUME TypeOK, GatesRecorded, NEW c \in Calls, Decision(c) = "auto_allow"
  PROVE  c \in everAuto
<1> DEFINE matching == {g \in gates : c \in g.pattern}
<1> DEFINE Earliest(g) == \A h \in matching : g.at <= h.at
<1>1. matching # {} /\ (CHOOSE g \in matching : Earliest(g)).action = "auto_allow"
  BY DEF Decision
<1>2. \E g \in matching : Earliest(g)
  <2> DEFINE S == {g.at : g \in matching}
  <2>1. S \in SUBSET Nat /\ S # {}
    BY <1>1, ConstantsAssumption DEF TypeOK
  <2>2. PICK n \in S : \A m \in S : n <= m
    <3> HIDE DEF S
    <3> QED BY <2>1, LeastNat
  <2> QED BY <2>2
<1>3. PICK g \in matching : g.action = "auto_allow"
  <2> HIDE DEF Earliest, matching
  <2> QED BY <1>1, <1>2
<1> QED BY <1>3 DEF GatesRecorded

\* What a publish leaves in a subscriber's buffer.
LEMMA PushProperties ==
  ASSUME NEW q \in Seq(Event), Len(q) <= Capacity, NEW e \in Event
  PROVE  /\ Push(q, e) \in Seq(Event)
         /\ Len(Push(q, e)) <= Capacity
         /\ \A i \in DOMAIN Push(q, e) :
              Push(q, e)[i] = e \/ \E j \in DOMAIN q : Push(q, e)[i] = q[j]
<1> DEFINE r == IF Len(q) = Capacity THEN Tail(q) ELSE q
<1>1. /\ r \in Seq(Event) /\ Len(r) < Capacity
      /\ \A i \in 1..Len(r) : \E j \in 1..Len(q) : r[i] = q[j]
  <2>1. CASE Len(q) = Capacity
    <3>1. q # <<>>
      BY <2>1, ConstantsAssumption
    <3>2. Tail(q) \in Seq(Event) /\ Len(Tail(q)) = Len(q) - 1
      BY <3>1, HeadTailProperties
    <3>3. \A i \in 1..Len(Tail(q)) : Tail(q)[i] = q[i + 1]
      BY <3>1, HeadTailProperties
    <3> QED
      BY <2>1, <3>2, <3>3, ConstantsAssumption
  <2>2. CASE Len(q) # Capacity
    BY <2>2, ConstantsAssumption
  <2> QED
    BY <2>1, <2>2
<1>2. Push(q, e) = Append(r, e)
  BY DEF Push
<1> HIDE DEF r
<1>3. /\ Append(r, e) \in Seq(Event) /\ Len(Append(r, e)) = Len(r) + 1
      /\ \A i \in 1..Len(r) : Append(r, e)[i] = r[i]
      /\ Append(r, e)[Len(r) + 1] = e
  BY <1>1, AppendProperties
<1>4. \A i \in 1..(Len(r) + 1) :
        Append(r, e)[i] = e \/ \E j \in 1..Len(q) : Append(r, e)[i] = q[j]
  BY <1>1, <1>3
<1> QED
  BY <1>1, <1>2, <1>3, <1>4, ConstantsAssumption

\* Ending a subscription keeps the types.
LEMMA UnsubscribeType ==
  ASSUME TypeOK, NEW c \in Calls, Unsubscribe(c)
  PROVE  /\ sub' \in [Calls -> {"none", "live", "dropped"}]
         /\ chan' \in [Calls -> Seq(Event)] /\ \A d \in Calls : Len(chan'[d]) <= Capacity
         /\ lost' \in [Calls -> BOOLEAN]
         /\ DOMAIN chan'[c] = {} /\ \A d \in Calls : d # c => chan'[d] = chan[d]
<1> DEFINE none == <<>>
<1>1. none \in Seq(Event) /\ Len(none) = 0 /\ DOMAIN none = {}
  OBVIOUS
<1>2. chan' = [chan EXCEPT ![c] = none]
  BY DEF Unsubscribe
<1> HIDE DEF none
<1>3. sub' \in [Calls -> {"none", "live", "dropped"}] /\ lost' \in [Calls -> BOOLEAN]
  BY DEF Unsubscribe, TypeOK
<1>4. chan'[c] = none /\ \A d \in Calls : d # c => chan'[d] = chan[d]
  BY <1>2 DEF TypeOK
<1>5. chan' \in [Calls -> Seq(Event)]
  BY <1>1, <1>2 DEF TypeOK
<1>6. \A d \in Calls : Len(chan'[d]) <= Capacity
  BY <1>1, <1>4, ConstantsAssumption DEF TypeOK
<1> QED
  BY <1>1, <1>3, <1>4, <1>5, <1>6

\* Ending a subscription removes buffered events, and so keeps the others true.
LEMMA UnsubscribeTruthful ==
  ASSUME TypeOK, EventsTruthful, NEW c \in Calls, Unsubscribe(c),
         UNCHANGED <<row, unpublished>>
  PROVE  EventsTruthful'
<1>1. DOMAIN chan'[c] = {} /\ \A d \in Calls : d # c => chan'[d] = chan[d]
  BY UnsubscribeType
<1> QED
  BY <1>1 DEF EventsTruthful

\* A buffered event is an event.
LEMMA BufferedEvent ==
  ASSUME TypeOK, NEW c \in Calls, NEW i \in DOMAIN chan[c]
  PROVE  chan[c][i] \in Event
<1>1. chan[c] \in Seq(Event)
  BY DEF TypeOK
<1>2. i \in 1..Len(chan[c])
  BY <1>1
<1> QED
  BY <1>1, <1>2, ElementOfSeq

\* A decision does not contradict what is buffered: it only decides pending rows.
LEMMA DecideTruthful ==
  ASSUME TypeOK, EventsTruthful, NEW c \in Calls, NEW s \in Terminal, DecideRow(c, s),
         \A d \in Calls : DOMAIN chan'[d] = {} \/ chan'[d] = chan[d]
  PROVE  EventsTruthful'
<1>1. \A d \in Calls : row[d] \in Terminal => row'[d] = row[d]
  BY DEF DecideRow, TypeOK
<1>2. \A d \in unpublished' : row'[d] \in Terminal
  BY DEF DecideRow, EventsTruthful, TypeOK
<1>3. ASSUME NEW d \in Calls, NEW i \in DOMAIN chan'[d]
      PROVE  row'[chan'[d][i].id] = chan'[d][i].state
  <2>1. chan'[d] = chan[d]
    OBVIOUS
  <2>2. chan[d][i] \in Event
    BY <2>1, BufferedEvent
  <2>3. row[chan[d][i].id] = chan[d][i].state
    BY <2>1 DEF EventsTruthful
  <2> QED
    BY <1>1, <2>1, <2>2, <2>3
<1> QED
  BY <1>2, <1>3 DEF EventsTruthful

\* What a waiting bridge takes from its buffer says what the row says.
LEMMA HeadTruthful ==
  ASSUME TypeOK, EventsTruthful, NEW c \in Calls, chan[c] # <<>>
  PROVE  /\ Head(chan[c]) \in Event /\ row[Head(chan[c]).id] = Head(chan[c]).state
         /\ Tail(chan[c]) \in Seq(Event) /\ Len(Tail(chan[c])) <= Capacity
         /\ \A i \in DOMAIN Tail(chan[c]) :
              \E j \in DOMAIN chan[c] : Tail(chan[c])[i] = chan[c][j]
<1>1. chan[c] \in Seq(Event) /\ Len(chan[c]) <= Capacity
  BY DEF TypeOK
<1>2. /\ Head(chan[c]) \in Event /\ Tail(chan[c]) \in Seq(Event)
      /\ Len(Tail(chan[c])) = Len(chan[c]) - 1
      /\ \A i \in 1..Len(Tail(chan[c])) : Tail(chan[c])[i] = chan[c][i + 1]
  BY <1>1, HeadTailProperties
<1>3. 1 \in DOMAIN chan[c] /\ Head(chan[c]) = chan[c][1]
  BY <1>1
<1> QED
  BY <1>1, <1>2, <1>3, ConstantsAssumption DEF EventsTruthful

\* Every step preserves the types.  That a published event has a terminal
\* state needs the rest of the invariant.
LEMMA NextTypeOK == IInv /\ [Next]_vars => TypeOK'
<1> SUFFICES ASSUME IInv, [Next]_vars PROVE TypeOK'
  OBVIOUS
<1> USE DEF IInv, TypeOK
<1>1. CASE CreateGate
  <2>1. gates' \in SUBSET [at : 1..MaxGates, action : Actions, pattern : SUBSET Calls]
    <3>1. created' \in 1..MaxGates
      BY <1>1, ConstantsAssumption DEF CreateGate
    <3>2. PICK g \in GateKinds :
            gates' = gates \cup {[at |-> created', action |-> g.action, pattern |-> g.pattern]}
      BY <1>1 DEF CreateGate
    <3>3. g.action \in Actions /\ g.pattern \in SUBSET Calls
      BY ConstantsAssumption
    <3> QED
      BY <3>1, <3>2, <3>3
  <2>2. everAuto' \subseteq Calls
    BY <1>1, ConstantsAssumption DEF CreateGate
  <2>3. created' \in 0..MaxGates
    BY <1>1, ConstantsAssumption DEF CreateGate
  <2> QED
    BY <1>1, <2>1, <2>2, <2>3 DEF CreateGate, subVars
<1>2. CASE DeleteGate
  BY <1>2 DEF DeleteGate, subVars
<1>3. ASSUME NEW c \in Calls, UserDecide(c) PROVE TypeOK'
  BY <1>3 DEF UserDecide, DecideRow, gateVars, subVars
<1>4. ASSUME NEW c \in Calls, PublishDecision(c) PROVE TypeOK'
  <2> DEFINE e == [id |-> c, state |-> row[c]]
  <2>1. e \in Event
    BY <1>4 DEF PublishDecision, EventsTruthful
  <2>2. \A d \in Calls : Push(chan[d], e) \in Seq(Event) /\ Len(Push(chan[d], e)) <= Capacity
    BY <2>1, PushProperties
  <2>3. chan' \in [Calls -> Seq(Event)] /\ \A d \in Calls : Len(chan'[d]) <= Capacity
    BY <1>4, <2>2 DEF PublishDecision
  <2>4. lost' \in [Calls -> BOOLEAN]
    BY <1>4 DEF PublishDecision
  <2> QED
    BY <1>4, <2>3, <2>4 DEF PublishDecision, gateVars
<1>5. ASSUME NEW c \in Calls, AbortDecision(c) PROVE TypeOK'
  BY <1>5 DEF AbortDecision, gateVars, subVars
<1>6. ASSUME NEW c \in Calls, ListGates(c) PROVE TypeOK'
  BY <1>6 DEF ListGates, Goto, gateVars, subVars
<1>7. ASSUME NEW c \in Calls, CreateApproval(c) PROVE TypeOK'
  BY <1>7 DEF CreateApproval, Goto, gateVars, subVars
<1>8. ASSUME NEW c \in Calls, Subscribe(c) PROVE TypeOK'
  BY <1>8 DEF Subscribe, Goto, gateVars
<1>9. ASSUME NEW c \in Calls, Check(c) PROVE TypeOK'
  <2>1. CASE row[c] = "pending"
    BY <1>9, <2>1 DEF Check, Goto, gateVars, subVars
  <2>2. CASE row[c] # "pending"
    <3>1. Outcome(row[c]) \in PCs
      BY <1>9, <2>2 DEF Check, Outcome, RowFollowsBridge
    <3>2. Unsubscribe(c)
      BY <1>9, <2>2 DEF Check
    <3>3. pc' = [pc EXCEPT ![c] = Outcome(row[c])]
      BY <1>9, <2>2 DEF Check, Goto
    <3>4. pc' \in [Calls -> PCs]
      BY <3>1, <3>3
    <3> QED
      BY <1>9, <3>2, <3>4, UnsubscribeType DEF Check, gateVars
  <2> QED
    BY <2>1, <2>2
<1>10. ASSUME NEW c \in Calls, Timeout(c) PROVE TypeOK'
  BY <1>10 DEF Timeout, Goto, gateVars, subVars
<1>11. ASSUME NEW c \in Calls, ReceiveLagged(c) PROVE TypeOK'
  BY <1>11 DEF ReceiveLagged, Goto, gateVars
<1>12. ASSUME NEW c \in Calls, ReceiveEvent(c) PROVE TypeOK'
  <2>1. CASE Head(chan[c]).id = c
    <3>1. Outcome(Head(chan[c]).state) \in PCs
      BY <1>12, HeadTruthful DEF ReceiveEvent, Outcome
    <3>2. Unsubscribe(c)
      BY <1>12, <2>1 DEF ReceiveEvent
    <3>3. pc' \in [Calls -> PCs]
      BY ZenonT(60), <1>12, <2>1, <3>1 DEF ReceiveEvent, Goto
    <3> QED
      BY <1>12, <3>2, <3>3, UnsubscribeType DEF ReceiveEvent, gateVars
  <2>2. CASE Head(chan[c]).id # c
    <3>1. Tail(chan[c]) \in Seq(Event) /\ Len(Tail(chan[c])) <= Capacity
      BY <1>12, HeadTruthful DEF ReceiveEvent
    <3> QED
      BY <1>12, <2>2, <3>1 DEF ReceiveEvent, gateVars
  <2> QED
    BY <2>1, <2>2
<1>13. ASSUME NEW c \in Calls, ReceiveClosed(c) PROVE TypeOK'
  <2>1. CASE row[c] = "pending"
    BY <1>13, <2>1 DEF ReceiveClosed, Goto, gateVars, subVars
  <2>2. CASE row[c] # "pending"
    <3>1. Outcome(row[c]) \in PCs
      BY <1>13, <2>2 DEF ReceiveClosed, Outcome, RowFollowsBridge
    <3>2. Unsubscribe(c)
      BY <1>13, <2>2 DEF ReceiveClosed
    <3> QED
      BY ZenonT(60), <1>13, <2>2, <3>1, <3>2, UnsubscribeType DEF ReceiveClosed, Goto, gateVars
  <2> QED
    BY <2>1, <2>2
<1>14. ASSUME NEW c \in Calls, Expire(c) PROVE TypeOK'
  <2>1. Unsubscribe(c)
    BY <1>14 DEF Expire
  <2>2. row' \in [Calls -> Terminal \cup {"none", "pending"}] /\ unpublished' \subseteq Calls
    BY <1>14 DEF Expire, DecideRow
  <2>3. pc' \in [Calls -> PCs]
    BY <1>14 DEF Expire, Goto
  <2> QED
    BY <1>14, <2>1, <2>2, <2>3, UnsubscribeType DEF Expire, gateVars
<1>15. ASSUME NEW c \in Calls, Reread(c) PROVE TypeOK'
  <2>1. Outcome(row[c]) \in PCs
    BY <1>15 DEF Reread, Outcome, RowFollowsBridge
  <2> QED
    BY <1>15, <2>1 DEF Reread, Goto, gateVars, subVars
<1>16. ASSUME NEW c \in Calls, Forward(c) PROVE TypeOK'
  BY <1>16 DEF Forward, Goto, gateVars, subVars
<1>17. ASSUME NEW c \in Calls, RequestFails(c) PROVE TypeOK'
  <2>1. Unsubscribe(c)
    BY <1>17 DEF RequestFails
  <2> QED
    BY <1>17, <2>1, UnsubscribeType DEF RequestFails, Goto, gateVars
<1>18. ASSUME NEW c \in Calls, DropSubscription(c) PROVE TypeOK'
  BY <1>18 DEF DropSubscription, gateVars
<1>19. ASSUME NEW c \in Calls, BridgeExit(c) PROVE TypeOK'
  <2>1. Unsubscribe(c)
    BY <1>19 DEF BridgeExit
  <2> QED
    BY <1>19, <2>1, UnsubscribeType DEF BridgeExit, Goto, gateVars
<1>20. CASE DaemonExit
  BY <1>20 DEF DaemonExit, gateVars
<1>21. CASE UNCHANGED vars
  BY <1>21 DEF vars
<1> QED
  BY <1>1, <1>2, <1>3, <1>4, <1>5, <1>6, <1>7, <1>8, <1>9, <1>10, <1>11, <1>12,
     <1>13, <1>14, <1>15, <1>16, <1>17, <1>18, <1>19, <1>20, <1>21
     DEF Next, BridgeStep

Facts ==
  EventsTruthful /\ RowFollowsBridge /\ GatesRecorded /\ OnlyAuthorised /\ OutcomeMatchesRow

\* Every step preserves the other conjuncts of the invariant.
LEMMA NextFacts == IInv /\ [Next]_vars => Facts'
<1> SUFFICES ASSUME IInv, [Next]_vars PROVE Facts'
  OBVIOUS
<1> USE DEF IInv, TypeOK
<1>1. CASE CreateGate
  BY <1>1 DEF CreateGate, subVars,
     Facts, EventsTruthful, RowFollowsBridge, GatesRecorded, OnlyAuthorised, OutcomeMatchesRow
<1>2. CASE DeleteGate
  BY <1>2 DEF DeleteGate, subVars,
     Facts, EventsTruthful, RowFollowsBridge, GatesRecorded, OnlyAuthorised, OutcomeMatchesRow
<1>3. ASSUME NEW c \in Calls, UserDecide(c) PROVE Facts'
  <2>1. EventsTruthful'
    <3>1. PICK s \in Terminal : DecideRow(c, s)
      BY <1>3 DEF UserDecide
    <3> QED
      BY <1>3, <3>1, DecideTruthful DEF UserDecide, subVars
  <2>2. RowFollowsBridge'
    BY <1>3 DEF UserDecide, DecideRow, gateVars, subVars, RowFollowsBridge
  <2>3. GatesRecorded'
    BY <1>3 DEF UserDecide, DecideRow, gateVars, subVars, GatesRecorded
  <2>4. OnlyAuthorised'
    BY <1>3 DEF UserDecide, DecideRow, gateVars, subVars, OnlyAuthorised
  <2>5. OutcomeMatchesRow'
    BY <1>3 DEF UserDecide, DecideRow, gateVars, subVars, OutcomeMatchesRow
  <2> QED
    BY <2>1, <2>2, <2>3, <2>4, <2>5 DEF Facts
<1>4. ASSUME NEW c \in Calls, PublishDecision(c) PROVE Facts'
  <2>1. ASSUME NEW d \in Calls, NEW i \in DOMAIN chan'[d]
        PROVE  row[chan'[d][i].id] = chan'[d][i].state
    <3> DEFINE e == [id |-> c, state |-> row[c]]
    <3>1. e \in Event
      BY <1>4 DEF PublishDecision, EventsTruthful
    <3>2. chan'[d] = chan[d] \/ chan'[d] = Push(chan[d], e)
      BY <1>4 DEF PublishDecision
    <3>3. chan[d] \in Seq(Event) /\ Len(chan[d]) <= Capacity
      OBVIOUS
    <3>4. chan'[d][i] = e \/ \E j \in DOMAIN chan[d] : chan'[d][i] = chan[d][j]
      <4> HIDE DEF e, TypeOK
      <4>1. CASE chan'[d] = chan[d]
        BY <4>1
      <4>2. CASE chan'[d] = Push(chan[d], e)
        <5>1. \A k \in DOMAIN Push(chan[d], e) :
                \/ Push(chan[d], e)[k] = e
                \/ \E j \in DOMAIN chan[d] : Push(chan[d], e)[k] = chan[d][j]
          BY <3>1, <3>3, PushProperties
        <5> QED
          BY <4>2, <5>1
      <4> QED
        BY <3>2, <4>1, <4>2
    <3> QED
      BY <3>4 DEF EventsTruthful
  <2>2. EventsTruthful'
    BY ZenonT(60), <1>4, <2>1 DEF PublishDecision, EventsTruthful
  <2> QED
    BY <1>4, <2>2 DEF PublishDecision, gateVars, Facts, RowFollowsBridge, GatesRecorded,
       OnlyAuthorised, OutcomeMatchesRow
<1>5. ASSUME NEW c \in Calls, AbortDecision(c) PROVE Facts'
  BY <1>5 DEF AbortDecision, gateVars, subVars,
     Facts, EventsTruthful, RowFollowsBridge, GatesRecorded, OnlyAuthorised, OutcomeMatchesRow
<1>6. ASSUME NEW c \in Calls, ListGates(c) PROVE Facts'
  BY <1>6, DecisionRecorded DEF ListGates, Goto, gateVars, subVars,
     Facts, EventsTruthful, RowFollowsBridge, GatesRecorded, OnlyAuthorised, OutcomeMatchesRow
<1>7. ASSUME NEW c \in Calls, CreateApproval(c) PROVE Facts'
  <2>1. EventsTruthful'
    <3>1. \A d \in Calls : row[d] \in Terminal => row'[d] = row[d]
      BY <1>7 DEF CreateApproval, RowFollowsBridge
    <3>2. \A d \in Calls : \A i \in DOMAIN chan[d] : chan[d][i] \in Event
      BY BufferedEvent
    <3> QED
      BY <1>7, <3>1, <3>2 DEF CreateApproval, subVars, EventsTruthful
  <2>2. RowFollowsBridge'
    BY <1>7 DEF CreateApproval, Goto, gateVars, subVars, RowFollowsBridge
  <2>3. GatesRecorded'
    BY <1>7 DEF CreateApproval, Goto, gateVars, subVars, GatesRecorded
  <2>4. OnlyAuthorised'
    BY <1>7 DEF CreateApproval, Goto, gateVars, subVars, OnlyAuthorised, RowFollowsBridge
  <2>5. OutcomeMatchesRow'
    BY <1>7 DEF CreateApproval, Goto, gateVars, subVars, OutcomeMatchesRow
  <2> QED
    BY <2>1, <2>2, <2>3, <2>4, <2>5 DEF Facts
<1>8. ASSUME NEW c \in Calls, Subscribe(c) PROVE Facts'
  BY <1>8 DEF Subscribe, Goto, gateVars,
     Facts, EventsTruthful, RowFollowsBridge, GatesRecorded, OnlyAuthorised, OutcomeMatchesRow
<1>9. ASSUME NEW c \in Calls, Check(c) PROVE Facts'
  <2>1. EventsTruthful'
    <3>1. CASE UNCHANGED subVars
      BY <1>9, <3>1 DEF Check, subVars, EventsTruthful
    <3>2. CASE Unsubscribe(c)
      BY <1>9, <3>2, UnsubscribeTruthful DEF Check
    <3> QED
      BY <1>9, <3>1, <3>2 DEF Check
  <2>2. RowFollowsBridge'
    BY <1>9 DEF Check, Goto, Outcome, gateVars, subVars, RowFollowsBridge
  <2>3. GatesRecorded'
    BY <1>9 DEF Check, Goto, Outcome, gateVars, subVars, GatesRecorded
  <2>4. OnlyAuthorised'
    BY <1>9 DEF Check, Goto, Outcome, gateVars, subVars, OnlyAuthorised
  <2>5. OutcomeMatchesRow'
    BY ZenonT(60), <1>9 DEF Check, Goto, Outcome, gateVars, subVars, OutcomeMatchesRow
  <2> QED
    BY <2>1, <2>2, <2>3, <2>4, <2>5 DEF Facts
<1>10. ASSUME NEW c \in Calls, Timeout(c) PROVE Facts'
  BY SMTT(30), <1>10 DEF Timeout, Goto, gateVars, subVars,
     Facts, EventsTruthful, RowFollowsBridge, GatesRecorded, OnlyAuthorised, OutcomeMatchesRow
<1>11. ASSUME NEW c \in Calls, ReceiveLagged(c) PROVE Facts'
  BY SMTT(30), <1>11 DEF ReceiveLagged, Goto, gateVars,
     Facts, EventsTruthful, RowFollowsBridge, GatesRecorded, OnlyAuthorised, OutcomeMatchesRow
<1>12. ASSUME NEW c \in Calls, ReceiveEvent(c) PROVE Facts'
  <2>1. EventsTruthful'
    <3>1. CASE Head(chan[c]).id = c
      <4>1. Unsubscribe(c)
        BY <1>12, <3>1 DEF ReceiveEvent
      <4> QED
        BY <1>12, <4>1, UnsubscribeTruthful DEF ReceiveEvent
    <3>2. CASE Head(chan[c]).id # c
      <4>1. chan' = [chan EXCEPT ![c] = Tail(chan[c])]
        BY <1>12, <3>2 DEF ReceiveEvent
      <4>2. \A i \in DOMAIN Tail(chan[c]) :
              \E j \in DOMAIN chan[c] : Tail(chan[c])[i] = chan[c][j]
        BY <1>12, HeadTruthful DEF ReceiveEvent
      <4> QED
        BY SMTT(30), <1>12, <4>1, <4>2 DEF ReceiveEvent, EventsTruthful
    <3> QED
      BY <3>1, <3>2
  <2>2. \/ UNCHANGED pc
        \/ row[c] \in Terminal /\ Goto(c, Outcome(row[c]))
    BY <1>12, HeadTruthful DEF ReceiveEvent
  <2>3. RowFollowsBridge' /\ OnlyAuthorised' /\ OutcomeMatchesRow'
    <3>1. row' = row /\ everAuto' = everAuto
      BY <1>12 DEF ReceiveEvent, gateVars
    <3>2. CASE UNCHANGED pc
      BY <3>1, <3>2 DEF RowFollowsBridge, OnlyAuthorised, OutcomeMatchesRow
    <3>3. CASE row[c] \in Terminal /\ Goto(c, Outcome(row[c]))
      <4>1. pc' = [pc EXCEPT ![c] = Outcome(row[c])]
        BY <3>3 DEF Goto
      <4>2. RowFollowsBridge'
        BY <3>1, <3>3, <4>1 DEF Outcome, RowFollowsBridge
      <4>3. OnlyAuthorised'
        BY <3>1, <3>3, <4>1 DEF Outcome, OnlyAuthorised
      <4>4. OutcomeMatchesRow'
        BY <3>1, <3>3, <4>1 DEF Outcome, OutcomeMatchesRow
      <4> QED BY <4>2, <4>3, <4>4
    <3> QED BY <2>2, <3>2, <3>3
  <2>4. GatesRecorded'
    BY <1>12 DEF ReceiveEvent, gateVars, GatesRecorded
  <2> QED
    BY <2>1, <2>3, <2>4 DEF Facts
<1>13. ASSUME NEW c \in Calls, ReceiveClosed(c) PROVE Facts'
  <2>1. EventsTruthful'
    <3>1. CASE UNCHANGED subVars
      BY <1>13, <3>1 DEF ReceiveClosed, subVars, EventsTruthful
    <3>2. CASE Unsubscribe(c)
      BY <1>13, <3>2, UnsubscribeTruthful DEF ReceiveClosed
    <3> QED
      BY <1>13, <3>1, <3>2 DEF ReceiveClosed
  <2>2. RowFollowsBridge'
    BY <1>13 DEF ReceiveClosed, Goto, Outcome, gateVars, subVars, RowFollowsBridge
  <2>3. GatesRecorded'
    BY <1>13 DEF ReceiveClosed, Goto, Outcome, gateVars, subVars, GatesRecorded
  <2>4. OnlyAuthorised'
    BY ZenonT(60), <1>13 DEF ReceiveClosed, Goto, Outcome, gateVars, subVars, OnlyAuthorised
  <2>5. OutcomeMatchesRow'
    <3>1. row[c] = "pending" \/ row[c] \in Terminal
      BY <1>13 DEF ReceiveClosed, RowFollowsBridge
    <3>2. pc' = [pc EXCEPT ![c] = IF row[c] = "pending" THEN "expire" ELSE Outcome(row[c])]
      BY <1>13 DEF ReceiveClosed, Goto
    <3> QED
      BY <1>13, <3>1, <3>2 DEF ReceiveClosed, Outcome, OutcomeMatchesRow
  <2> QED
    BY <2>1, <2>2, <2>3, <2>4, <2>5 DEF Facts
<1>14. ASSUME NEW c \in Calls, Expire(c) PROVE Facts'
  <2>1. EventsTruthful'
    <3>1. \A d \in Calls : DOMAIN chan'[d] = {} \/ chan'[d] = chan[d]
      BY <1>14, UnsubscribeType DEF Expire
    <3> QED
      BY <1>14, <3>1, DecideTruthful DEF Expire
  <2>2. RowFollowsBridge'
    BY <1>14 DEF Expire, DecideRow, Goto, gateVars, RowFollowsBridge
  <2>3. GatesRecorded'
    BY <1>14 DEF Expire, DecideRow, Goto, gateVars, GatesRecorded
  <2>4. OnlyAuthorised'
    BY <1>14 DEF Expire, DecideRow, Goto, gateVars, OnlyAuthorised
  <2>5. OutcomeMatchesRow'
    BY <1>14 DEF Expire, DecideRow, Goto, gateVars, OutcomeMatchesRow
  <2> QED
    BY <2>1, <2>2, <2>3, <2>4, <2>5 DEF Facts
<1>15. ASSUME NEW c \in Calls, Reread(c) PROVE Facts'
  BY SMTT(60), <1>15 DEF Reread, Goto, Outcome, gateVars, subVars,
     Facts, EventsTruthful, RowFollowsBridge, GatesRecorded, OnlyAuthorised, OutcomeMatchesRow
<1>16. ASSUME NEW c \in Calls, Forward(c) PROVE Facts'
  BY SMTT(30), <1>16 DEF Forward, Goto, gateVars, subVars,
     Facts, EventsTruthful, RowFollowsBridge, GatesRecorded, OnlyAuthorised, OutcomeMatchesRow
<1>17. ASSUME NEW c \in Calls, RequestFails(c) PROVE Facts'
  <2>1. EventsTruthful'
    <3>1. Unsubscribe(c)
      BY <1>17 DEF RequestFails
    <3> QED
      BY <1>17, <3>1, UnsubscribeTruthful DEF RequestFails
  <2>2. RowFollowsBridge'
    BY <1>17 DEF RequestFails, Goto, gateVars, RowFollowsBridge
  <2>3. GatesRecorded'
    BY <1>17 DEF RequestFails, Goto, gateVars, GatesRecorded
  <2>4. OnlyAuthorised'
    BY <1>17 DEF RequestFails, Goto, gateVars, OnlyAuthorised
  <2>5. OutcomeMatchesRow'
    BY <1>17 DEF RequestFails, Goto, gateVars, OutcomeMatchesRow
  <2> QED
    BY <2>1, <2>2, <2>3, <2>4, <2>5 DEF Facts
<1>18. ASSUME NEW c \in Calls, DropSubscription(c) PROVE Facts'
  BY SMTT(30), <1>18 DEF DropSubscription, gateVars,
     Facts, EventsTruthful, RowFollowsBridge, GatesRecorded, OnlyAuthorised, OutcomeMatchesRow
<1>19. ASSUME NEW c \in Calls, BridgeExit(c) PROVE Facts'
  <2>1. EventsTruthful'
    <3>1. Unsubscribe(c)
      BY <1>19 DEF BridgeExit
    <3> QED
      BY <1>19, <3>1, UnsubscribeTruthful DEF BridgeExit
  <2>2. RowFollowsBridge'
    BY <1>19 DEF BridgeExit, Goto, gateVars, RowFollowsBridge
  <2>3. GatesRecorded'
    BY <1>19 DEF BridgeExit, Goto, gateVars, GatesRecorded
  <2>4. OnlyAuthorised'
    BY <1>19 DEF BridgeExit, Goto, gateVars, OnlyAuthorised
  <2>5. OutcomeMatchesRow'
    BY <1>19 DEF BridgeExit, Goto, gateVars, OutcomeMatchesRow
  <2> QED
    BY <2>1, <2>2, <2>3, <2>4, <2>5 DEF Facts
<1>20. CASE DaemonExit
  BY SMTT(30), <1>20 DEF DaemonExit, gateVars,
     Facts, EventsTruthful, RowFollowsBridge, GatesRecorded, OnlyAuthorised, OutcomeMatchesRow
<1>21. CASE UNCHANGED vars
  BY SMTT(30), <1>21 DEF vars,
     Facts, EventsTruthful, RowFollowsBridge, GatesRecorded, OnlyAuthorised, OutcomeMatchesRow
<1> QED
  BY <1>1, <1>2, <1>3, <1>4, <1>5, <1>6, <1>7, <1>8, <1>9, <1>10, <1>11, <1>12,
     <1>13, <1>14, <1>15, <1>16, <1>17, <1>18, <1>19, <1>20, <1>21
     DEF Next, BridgeStep

\* The invariant is inductive.
LEMMA Inductive == IInv /\ [Next]_vars => IInv'
<1> SUFFICES ASSUME IInv, [Next]_vars PROVE IInv'
  OBVIOUS
<1> QED
  BY NextTypeOK, NextFacts DEF Facts, IInv

\* The invariant holds in every reachable state.
LEMMA Invariance == Spec => []IInv
  BY InitIInv, Inductive, PTL DEF Spec

-----------------------------------------------------------------------------
(* Theorems.                                                               *)

\* Types, and the bound on what is buffered for one subscriber.
THEOREM TypeCorrect == Spec => []TypeOK
<1>1. IInv => TypeOK
  BY DEF IInv
<1> QED
  BY Invariance, <1>1, PTL

\* The bridge forwards a dangerous call only when its approval row is allowed or
\* an auto_allow gate has matched it.
THEOREM Authorised == Spec => []OnlyAuthorised
<1>1. IInv => OnlyAuthorised
  BY DEF IInv
<1> QED
  BY Invariance, <1>1, PTL

\* A refusal the agent sees is the one recorded in mcp_approvals.
THEOREM OutcomeRecorded == Spec => []OutcomeMatchesRow
<1>1. IInv => OutcomeMatchesRow
  BY DEF IInv
<1> QED
  BY Invariance, <1>1, PTL

\* No step changes a decision: UPDATE ... WHERE state = 'pending' is the only
\* update, and an approval is created once per call.
THEOREM Final == Spec => DecisionsFinal
<1> DEFINE A == \A c \in Calls : row[c] \in Terminal => row'[c] = row[c]
<1>1. ASSUME IInv, [Next]_vars PROVE A \/ UNCHANGED vars
  <2> USE <1>1 DEF IInv, TypeOK
  <2>1. ASSUME NEW c \in Calls, UserDecide(c) PROVE A
    BY <2>1 DEF UserDecide, DecideRow
  <2>2. ASSUME NEW c \in Calls, Expire(c) PROVE A
    BY <2>2 DEF Expire, DecideRow
  <2>3. ASSUME NEW c \in Calls, CreateApproval(c) PROVE A
    BY <2>3 DEF CreateApproval, RowFollowsBridge
  <2>4. \/ UNCHANGED row
        \/ \E c \in Calls : UserDecide(c) \/ Expire(c) \/ CreateApproval(c)
    BY DEF Next, BridgeStep, vars, CreateGate, DeleteGate, PublishDecision, AbortDecision,
       ListGates, Subscribe, Check, Timeout, ReceiveLagged, ReceiveEvent, ReceiveClosed,
       Reread, Forward, RequestFails, DropSubscription, BridgeExit, DaemonExit
  <2> QED
    BY <2>1, <2>2, <2>3, <2>4
<1>2. IInv /\ [Next]_vars => [A]_vars
  BY <1>1
<1> QED
  BY Invariance, <1>2, PTL DEF Spec, DecisionsFinal

\* A publish adds its event, and unless it reports a lag it removes none.
LEMMA PushKeeps ==
  ASSUME NEW q \in Seq(Event), NEW e \in Event
  PROVE  /\ \E i \in DOMAIN Push(q, e) : Push(q, e)[i] = e
         /\ Len(q) # Capacity =>
              \A j \in DOMAIN q : \E i \in DOMAIN Push(q, e) : Push(q, e)[i] = q[j]
<1> DEFINE r == IF Len(q) = Capacity THEN Tail(q) ELSE q
<1>1. r \in Seq(Event) /\ (Len(q) # Capacity => r = q)
  BY HeadTailProperties, EmptySeq, ConstantsAssumption
<1>2. Push(q, e) = Append(r, e)
  BY DEF Push
<1> HIDE DEF r
<1>3. /\ Append(r, e) \in Seq(Event) /\ Len(Append(r, e)) = Len(r) + 1
      /\ \A i \in 1..Len(r) : Append(r, e)[i] = r[i]
      /\ Append(r, e)[Len(r) + 1] = e
  BY <1>1, AppendProperties
<1>4. DOMAIN Append(r, e) = 1..(Len(r) + 1) /\ Len(r) \in Nat
  BY <1>1, <1>3
<1> QED
  BY <1>1, <1>2, <1>3, <1>4

\* Every step preserves NoMissedDecision.
LEMMA NextNoMissed == IInv /\ NoMissedDecision /\ [Next]_vars => NoMissedDecision'
<1> SUFFICES ASSUME IInv, NoMissedDecision, [Next]_vars,
                    NEW c \in Calls, pc'[c] = "wait", sub'[c] = "live", row'[c] \in Terminal
             PROVE  \/ c \in unpublished' \/ c \in aborted' \/ lost'[c]
                    \/ \E i \in DOMAIN chan'[c] : chan'[c][i].id = c
  BY DEF NoMissedDecision
<1> USE DEF IInv, TypeOK
<1> DEFINE Covered == \/ c \in unpublished \/ c \in aborted \/ lost[c]
                      \/ \E i \in DOMAIN chan[c] : chan[c][i].id = c
<1>1. pc[c] = "wait" /\ sub[c] = "live" /\ row[c] \in Terminal => Covered
  BY DEF NoMissedDecision
<1>2. ASSUME NEW d \in Calls, PublishDecision(d)
      PROVE  \/ c \in unpublished' \/ c \in aborted' \/ lost'[c]
             \/ \E i \in DOMAIN chan'[c] : chan'[c][i].id = c
  <2> DEFINE e == [id |-> d, state |-> row[d]]
  <2>1. /\ chan'[c] = Push(chan[c], e) /\ aborted' = aborted
        /\ unpublished' = unpublished \ {d}
        /\ lost'[c] = (lost[c] \/ Len(chan[c]) = Capacity)
        /\ e \in Event /\ chan[c] \in Seq(Event)
    BY <1>2 DEF PublishDecision, EventsTruthful
  <2>2. Covered
    BY <1>1, <1>2 DEF PublishDecision
  <2>3. /\ \E i \in DOMAIN chan'[c] : chan'[c][i] = e
        /\ Len(chan[c]) # Capacity =>
             \A j \in DOMAIN chan[c] : \E i \in DOMAIN chan'[c] : chan'[c][i] = chan[c][j]
    <3> HIDE DEF e, TypeOK
    <3>1. /\ \E i \in DOMAIN Push(chan[c], e) : Push(chan[c], e)[i] = e
          /\ Len(chan[c]) # Capacity =>
               \A j \in DOMAIN chan[c] :
                 \E i \in DOMAIN Push(chan[c], e) : Push(chan[c], e)[i] = chan[c][j]
      BY <2>1, PushKeeps
    <3> QED
      BY <2>1, <3>1
  <2>4. CASE d = c
    BY <2>3, <2>4
  <2>5. CASE d # c
    <3>1. CASE \E j \in DOMAIN chan[c] : chan[c][j].id = c
      <4> HIDE DEF TypeOK
      <4>1. PICK j \in DOMAIN chan[c] : chan[c][j].id = c
        BY <3>1
      <4>2. lost'[c] \/ \E i \in DOMAIN chan'[c] : chan'[c][i] = chan[c][j]
        BY <2>1, <2>3
      <4> QED
        BY <4>1, <4>2
    <3>2. CASE c \in unpublished \/ c \in aborted \/ lost[c]
      BY <2>1, <2>5, <3>2
    <3> QED
      BY <2>2, <3>1, <3>2
  <2> QED
    BY <2>4, <2>5
<1>3. ASSUME NEW d \in Calls, ReceiveEvent(d)
      PROVE  \/ c \in unpublished' \/ c \in aborted' \/ lost'[c]
             \/ \E i \in DOMAIN chan'[c] : chan'[c][i].id = c
  <2>1. Covered
    BY <1>1, <1>3, UnsubscribeType DEF ReceiveEvent, Goto, Unsubscribe
  <2>2. CASE d # c \/ Unsubscribe(d)
    BY ZenonT(60), <1>3, <2>1, <2>2 DEF ReceiveEvent, Unsubscribe
  <2>3. CASE d = c /\ ~Unsubscribe(d)
    <3>1. /\ chan'[c] = Tail(chan[c]) /\ Head(chan[c]).id # c /\ chan[c] # <<>>
          /\ chan[c] \in Seq(Event) /\ UNCHANGED <<unpublished, aborted, lost>>
      BY <1>3, <2>3 DEF ReceiveEvent
    <3>3. ASSUME NEW i \in DOMAIN chan[c], chan[c][i].id = c
          PROVE  i - 1 \in DOMAIN chan'[c] /\ chan'[c][i - 1] = chan[c][i]
      <4>1. chan[c][i] # Head(chan[c])
        BY ZenonT(60), <3>1, <3>3
      <4> QED
        BY ZenonT(60), <3>1, <4>1, TailKeeps
    <3>4. CASE \E i \in DOMAIN chan[c] : chan[c][i].id = c
      <4> HIDE DEF TypeOK, IInv
      <4>1. PICK i \in DOMAIN chan[c] : chan[c][i].id = c
        BY <3>4
      <4>2. i - 1 \in DOMAIN chan'[c] /\ chan'[c][i - 1] = chan[c][i]
        BY <3>3, <4>1
      <4>3. chan'[c][i - 1].id = c
        BY <4>1, <4>2
      <4> QED
        BY <4>2, <4>3
    <3>5. CASE c \in unpublished \/ c \in aborted \/ lost[c]
      BY <3>1, <3>5
    <3> QED
      BY <2>1, <3>4, <3>5
  <2> QED
    BY <2>2, <2>3
<1>4. ASSUME NEW d \in Calls, UserDecide(d) \/ Expire(d)
      PROVE  \/ c \in unpublished' \/ c \in aborted' \/ lost'[c]
             \/ \E i \in DOMAIN chan'[c] : chan'[c][i].id = c
  BY <1>1, <1>4 DEF UserDecide, Expire, DecideRow, Goto, Unsubscribe, subVars
<1>5. CASE \E d \in Calls : \/ ListGates(d) \/ CreateApproval(d) \/ Subscribe(d) \/ Check(d)
                             \/ Timeout(d) \/ ReceiveLagged(d) \/ ReceiveClosed(d)
                             \/ Reread(d) \/ Forward(d) \/ RequestFails(d) \/ BridgeExit(d)
  <2>1. PICK d \in Calls : \/ ListGates(d) \/ CreateApproval(d) \/ Subscribe(d) \/ Check(d)
                           \/ Timeout(d) \/ ReceiveLagged(d) \/ ReceiveClosed(d)
                           \/ Reread(d) \/ Forward(d) \/ RequestFails(d) \/ BridgeExit(d)
    BY <1>5
  <2>2. d # c
    BY <2>1 DEF ListGates, CreateApproval, Subscribe, Check, Timeout, ReceiveLagged,
       ReceiveClosed, Reread, Forward, RequestFails, BridgeExit, Goto, Outcome, Unsubscribe
  <2>3. /\ pc'[c] = pc[c] /\ sub'[c] = sub[c] /\ row'[c] = row[c]
        /\ chan'[c] = chan[c] /\ lost'[c] = lost[c] /\ UNCHANGED <<unpublished, aborted>>
    BY <2>1, <2>2 DEF ListGates, CreateApproval, Subscribe, Check, Timeout, ReceiveLagged,
       ReceiveClosed, Reread, Forward, RequestFails, BridgeExit, Goto, Unsubscribe, subVars
  <2> QED
    BY <1>1, <2>3
<1>6. CASE \/ CreateGate \/ DeleteGate \/ DaemonExit \/ UNCHANGED vars
          \/ \E d \in Calls : AbortDecision(d) \/ DropSubscription(d)
  BY ZenonT(60), <1>1, <1>6 DEF CreateGate, DeleteGate, DaemonExit, AbortDecision, DropSubscription,
     subVars, vars
<1> QED
  BY <1>2, <1>3, <1>4, <1>5, <1>6 DEF Next, BridgeStep

\* A waiting bridge has not missed a decision: it is still to be published, or
\* buffered, or announced by a lag, or its publish was aborted.
THEOREM NothingMissed == Spec => []NoMissedDecision
<1>1. Init => NoMissedDecision
  BY DEF Init, NoMissedDecision
<1> QED
  BY Invariance, <1>1, NextNoMissed, PTL DEF Spec
=============================================================================
