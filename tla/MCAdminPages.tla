---------------------------- MODULE MCAdminPages ----------------------------
(* One key and one rule listed at first, room for one more of each.        *)
EXTENDS AdminPages, TLC

CONSTANTS old, new

MCForms == [active : BOOLEAN, text : {"default", "mine"}]
MCDefaultForm == [active |-> TRUE, text |-> "default"]
MCInitialKeys == old :> "active"
MCInitialRules == old :> [active |-> FALSE, text |-> "mine"]
=============================================================================
