------------------------------ MODULE Terminal ------------------------------
(***************************************************************************)
(* The terminal client: the keys of its panes, composer and overlays       *)
(* (Screen, Display) and those of its command bar (Commands).  While the   *)
(* bar is open every key goes to it, and it leaves the rest of the screen  *)
(* alone until Enter; Screen models what the commands then do.  A run      *)
(* therefore follows the keys of one set, the bar's being the set "line".  *)
(***************************************************************************)
EXTENDS Display, Commands

terminalVars == <<vars, commandVars>>

Bar == {"line"}

TerminalInit ==
    /\ ScreenInit /\ CommandInit
    /\ keys = Bar => app.r = NoReader

TerminalNext ==
    \/ keys # Bar /\ ScreenNext /\ UNCHANGED commandVars
    \/ keys = Bar /\ CommandNext /\ UNCHANGED vars

TerminalSpec == TerminalInit /\ [][TerminalNext]_terminalVars

\* What the client says of its keys and commands is what it does: the help overlay
\* against the keys (HelpTrue), completion, suggestions and the names listed against
\* what parse_command takes (CommandsAgree).
InputDocumented == HelpTrue /\ CommandsAgree
=============================================================================
