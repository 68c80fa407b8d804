------------------------------- MODULE MCDrafts --------------------------------
(***************************************************************************)
(* Instances of Drafts: one draft that two clients work on, and two drafts *)
(* of one client with every failure.                                       *)
(***************************************************************************)
EXTENDS Drafts

MCDraftScenarios ==
  {[hazards |-> {"others", "cut"}, ids |-> {1}],
   [hazards |-> {"sql", "file", "smtp", "cut"}, ids |-> {1, 2}]}
=============================================================================
