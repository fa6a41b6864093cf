--------------------------- MODULE MCConfigReload ---------------------------
(* A small instance of ConfigReload for TLC.                               *)
EXTENDS ConfigReload

\* A whole document, one with limits only, one whose second route cannot be
\* registered, and one the schema refuses.
MCDocuments ==
    {[fields |-> {"routes", "limits"}, valid |-> TRUE, good |-> 2],
     [fields |-> {"limits"}, valid |-> TRUE, good |-> 0],
     [fields |-> {"routes"}, valid |-> TRUE, good |-> 1],
     [fields |-> {"routes"}, valid |-> FALSE, good |-> 2]}
=============================================================================
