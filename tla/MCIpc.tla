--------------------------------- MODULE MCIpc ---------------------------------
(* Instances of Ipc for TLC. *)
EXTENDS Ipc, TLC

CONSTANTS c1, c2, t1

\* The TUI: one client for its requests and its subscriptions.
Tui == {[c \in Clients |-> {"request", "subscribe"}]}
\* A client that pipelines requests and subscribes; two that send requests, for
\* one connection; the TUI alone.
Mixed == {[c \in Clients |-> IF c = c1 THEN {"pipeline", "subscribe"} ELSE {}],
          [c \in Clients |-> IF c = c1 THEN {"request"} ELSE {"pipeline"}],
          [c \in Clients |-> IF c = c1 THEN {"request", "subscribe"} ELSE {}]}
================================================================================
