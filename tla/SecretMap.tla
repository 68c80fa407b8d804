------------------------------- MODULE SecretMap -------------------------------
(***************************************************************************)
(* What SecretStore promises its callers (src/secrets/mod.rs): put and     *)
(* delete change the secret of one account, at one moment of the call, and *)
(* leave the other accounts alone; a call that is answered has taken       *)
(* effect, and one that fails or is cut short has done so or not, or may   *)
(* yet do so.                                                              *)
(***************************************************************************)
CONSTANTS Callers, Accounts, Values, None
VARIABLES
  secrets,   \* the secret of each account, or None
  calls,     \* the call of each caller: account, value (None to delete), st
  late       \* the calls cut short that may still take effect

vars == <<secrets, calls, late>>

Idle == [st |-> "none", a |-> None, val |-> None]

Init == secrets = [a \in Accounts |-> None] /\ calls = [c \in Callers |-> Idle] /\ late = {}

Begin(c) ==
  /\ calls[c] = Idle
  /\ \E a \in Accounts, v \in Values \cup {None} :
       calls' = [calls EXCEPT ![c] = [st |-> "called", a |-> a, val |-> v]]
  /\ UNCHANGED <<secrets, late>>

TakeEffect(c) ==
  /\ calls[c].st = "called"
  /\ secrets' = [secrets EXCEPT ![calls[c].a] = calls[c].val]
  /\ calls' = [calls EXCEPT ![c] = [@ EXCEPT !.st = "done"]]
  /\ UNCHANGED late

Return(c) ==
  /\ calls[c] # Idle
  /\ calls' = [calls EXCEPT ![c] = Idle]
  /\ late' \in {late, late \cup {[a |-> calls[c].a, val |-> calls[c].val]}}
  /\ UNCHANGED secrets

TakeEffectLate ==
  \E l \in late : /\ secrets' = [secrets EXCEPT ![l.a] = l.val]
                  /\ late' \in {late, late \ {l}} /\ UNCHANGED calls

\* A call cut short fails after all.
LateFails == \E l \in late : late' = late \ {l} /\ UNCHANGED <<secrets, calls>>

\* The daemon goes down: no call returns.
Crash == calls' = [c \in Callers |-> Idle] /\ late' = {} /\ UNCHANGED secrets

Next == Crash \/ TakeEffectLate \/ LateFails \/ \E c \in Callers : Begin(c) \/ TakeEffect(c) \/ Return(c)

Spec == Init /\ [][Next]_vars
================================================================================
