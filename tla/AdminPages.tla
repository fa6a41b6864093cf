----------------------------- MODULE AdminPages -----------------------------
(***************************************************************************)
(* The two pages of the admin dashboard on which an operator changes       *)
(* something in several steps: pages/ApiKeys.tsx and pages/RateLimits.tsx  *)
(* of apps/dashboard, under the router of App.tsx.  A page's state is      *)
(* React state: it lasts from the page's mount to the next navigation and  *)
(* reaches no server, the calls of lib/api.ts having no caller here.       *)
(*                                                                         *)
(* Dialogs are modal: while one is open only it and the browser's          *)
(* navigation react.  A click is one step, its handler and the rendering   *)
(* after it.                                                               *)
(***************************************************************************)
EXTENDS Integers

CONSTANTS Ids,           \* ids of keys and rules: listed at first, or Date.now()
          InitialKeys,   \* initialKeys: the ids with "active" or "revoked"
          InitialRules,  \* initialRules: the ids with their contents
          Forms,         \* what a rule's form may hold
          DefaultForm,
          MarkTime,      \* 2 s, in ticks
          MaxCopies      \* bound: clicks on Copy while a page is mounted

NoId == "none"      \* null
Create == "create"  \* the button Add Rule

ASSUME AdminAssumption ==
    /\ NoId \notin Ids
    /\ InitialKeys \in [DOMAIN InitialKeys -> {"active", "revoked"}]
    /\ InitialRules \in [DOMAIN InitialRules -> Forms]
    /\ (DOMAIN InitialKeys) \cup (DOMAIN InitialRules) \subseteq Ids
    /\ DefaultForm \in Forms
    /\ \A f \in Forms : f.active \in BOOLEAN /\ [f EXCEPT !.active = ~@] \in Forms
    /\ MarkTime \in Nat \ {0} /\ MaxCopies \in Nat

VARIABLES
    page,      \* what the router shows
    keys,      \* keys, by id
    creating,  \* ApiKeys' dialogOpen
    confirm,   \* revokeConfirm
    copied,    \* copiedId
    copies,    \* the calls of handleCopy, in the order of the clicks
    rules,     \* rules, by id
    editor,    \* RateLimits' dialogOpen, editingId and form
    asked      \* history: the button that opened the editor

copyVars == <<copied, copies>>
keyVars == <<keys, creating, confirm>>
ruleVars == <<rules, editor, asked>>
dashboardVars == <<page, keyVars, copyVars, ruleVars>>

Pages == {"api-keys", "rate-limits", "other"}

\* One call of handleCopy: writeText has not settled; the timer has left
\* ticks to run; or it is over.
Copies == [id : Ids, stage : {"writing", "timed", "over"}, left : 0..MarkTime]

IsListing(f, S) == DOMAIN f \subseteq Ids /\ f \in [DOMAIN f -> S]

DashboardTypeOK ==
    /\ page \in Pages
    /\ IsListing(keys, {"active", "revoked"})
    /\ creating \in BOOLEAN
    /\ confirm \in Ids \cup {NoId}
    /\ copied \in Ids \cup {NoId}
    /\ \E n \in 0..MaxCopies : copies \in [1..n -> Copies]
    /\ IsListing(rules, Forms)
    /\ editor \in [open : BOOLEAN, editing : Ids \cup {NoId}, form : Forms]
    /\ asked \in Ids \cup {Create, NoId}

\* The listing f with v under the id i, and without it.
With(f, i, v) == [j \in DOMAIN f \cup {i} |-> IF j = i THEN v ELSE f[j]]
Without(f, i) == [j \in DOMAIN f \ {i} |-> f[j]]

ClosedEditor == [open |-> FALSE, editing |-> NoId, form |-> DefaultForm]

\* index.html sends the browser to some page.
DashboardInit ==
    /\ page \in Pages
    /\ keys = InitialKeys
    /\ creating = FALSE /\ confirm = NoId
    /\ copied = NoId /\ copies = <<>>
    /\ rules = InitialRules
    /\ editor = ClosedEditor /\ asked = NoId

\* Another page is mounted with its initial state; what the old one still has
\* to come sets the state of a component that is gone.
Navigate(p) ==
    /\ page' \in Pages \ {page} /\ page' = p
    /\ keys' = InitialKeys
    /\ creating' = FALSE /\ confirm' = NoId
    /\ copied' = NoId /\ copies' = <<>>
    /\ rules' = InitialRules
    /\ editor' = ClosedEditor /\ asked' = NoId

-----------------------------------------------------------------------------
(* ApiKeys *)

KeyTable == page = "api-keys" /\ ~creating /\ confirm = NoId

OpenKeyDialog ==
    /\ KeyTable
    /\ creating' = TRUE
    /\ UNCHANGED <<page, keys, confirm, copyVars, ruleVars>>

CloseKeyDialog ==
    /\ page = "api-keys" /\ creating
    /\ creating' = FALSE
    /\ UNCHANGED <<page, keys, confirm, copyVars, ruleVars>>

\* handleCreate, with a name typed; without one it does nothing.
Generate(i) ==
    /\ page = "api-keys" /\ creating
    /\ i \notin DOMAIN keys
    /\ keys' = With(keys, i, "active")
    /\ creating' = FALSE
    /\ UNCHANGED <<page, confirm, copyVars, ruleVars>>

AskRevoke(i) ==
    /\ KeyTable /\ i \in DOMAIN keys /\ keys[i] = "active"
    /\ confirm' = i
    /\ UNCHANGED <<page, keys, creating, copyVars, ruleVars>>

KeepKey ==
    /\ page = "api-keys" /\ confirm # NoId
    /\ confirm' = NoId
    /\ UNCHANGED <<page, keys, creating, copyVars, ruleVars>>

\* handleRevoke.
Revoke ==
    /\ page = "api-keys" /\ confirm # NoId
    /\ keys' = [keys EXCEPT ![confirm] = "revoked"]
    /\ confirm' = NoId
    /\ UNCHANGED <<page, creating, copyVars, ruleVars>>

\* handleCopy up to its await.
Copy(i) ==
    /\ KeyTable /\ i \in DOMAIN keys
    /\ \E n \in 1..MaxCopies :
          /\ DOMAIN copies = 1..n - 1
          /\ copies' = [m \in 1..n |-> IF m < n THEN copies[m]
                                       ELSE [id |-> i, stage |-> "writing", left |-> 0]]
    /\ UNCHANGED <<page, keyVars, copied, ruleVars>>

\* Faulty: no timer is set.
CopyWrittenUntimed(n) ==
    /\ copies[n].stage = "writing"
    /\ copied' = copies[n].id
    /\ copies' = [copies EXCEPT ![n].stage = "over"]
    /\ UNCHANGED <<page, keyVars, ruleVars>>

\* ... and behind it.
CopyWritten(n) ==
    /\ copies[n].stage = "writing"
    /\ copied' = copies[n].id
    /\ copies' = [copies EXCEPT ![n].stage = "timed", ![n].left = MarkTime]
    /\ UNCHANGED <<page, keyVars, ruleVars>>

\* The browser refuses: the handler's promise is rejected, nobody is told.
CopyRefused(n) ==
    /\ copies[n].stage = "writing"
    /\ copies' = [copies EXCEPT ![n].stage = "over"]
    /\ UNCHANGED <<page, keyVars, copied, ruleVars>>

\* The callback of setTimeout, whatever is marked by then.
Unmark(n) ==
    /\ copies[n].stage = "timed" /\ copies[n].left = 0
    /\ copied' = NoId
    /\ copies' = [copies EXCEPT ![n].stage = "over"]
    /\ UNCHANGED <<page, keyVars, ruleVars>>

Tick ==
    /\ \E n \in DOMAIN copies : copies[n].left > 0
    /\ \A n \in DOMAIN copies : copies[n].stage = "timed" => copies[n].left > 0
    /\ copies' = [n \in DOMAIN copies |->
                     [copies[n] EXCEPT !.left = IF @ > 0 THEN @ - 1 ELSE 0]]
    /\ UNCHANGED <<page, keyVars, copied, ruleVars>>

-----------------------------------------------------------------------------
(* RateLimits *)

RuleTable == page = "rate-limits" /\ ~editor.open

\* Faulty: editingId stays what it was.
OpenCreateUnreset ==
    /\ RuleTable
    /\ editor' = [editor EXCEPT !.open = TRUE, !.form = DefaultForm]
    /\ asked' = Create
    /\ UNCHANGED <<page, keyVars, copyVars, rules>>

OpenCreate ==
    /\ RuleTable
    /\ editor' = [open |-> TRUE, editing |-> NoId, form |-> DefaultForm]
    /\ asked' = Create
    /\ UNCHANGED <<page, keyVars, copyVars, rules>>

OpenEdit(i) ==
    /\ RuleTable /\ i \in DOMAIN rules
    /\ editor' = [open |-> TRUE, editing |-> i, form |-> rules[i]]
    /\ asked' = i
    /\ UNCHANGED <<page, keyVars, copyVars, rules>>

TypeForm(f) ==
    /\ page = "rate-limits" /\ editor.open /\ f # editor.form
    /\ editor' = [editor EXCEPT !.form = f]
    /\ UNCHANGED <<page, keyVars, copyVars, rules, asked>>

\* Cancel, Escape or a click outside: editingId and form stay.
CloseEditor ==
    /\ page = "rate-limits" /\ editor.open
    /\ editor' = [editor EXCEPT !.open = FALSE]
    /\ UNCHANGED <<page, keyVars, copyVars, rules, asked>>

\* handleSave: i is the id of the rule edited, or a new one.
Save(i) ==
    /\ page = "rate-limits" /\ editor.open
    /\ IF editor.editing = NoId THEN i \notin DOMAIN rules ELSE i = editor.editing
    /\ rules' = With(rules, i, editor.form)
    /\ editor' = [editor EXCEPT !.open = FALSE]
    /\ UNCHANGED <<page, keyVars, copyVars, asked>>

Delete(i) ==
    /\ RuleTable /\ i \in DOMAIN rules
    /\ rules' = Without(rules, i)
    /\ UNCHANGED <<page, keyVars, copyVars, editor, asked>>

ToggleActive(i) ==
    /\ RuleTable /\ i \in DOMAIN rules
    /\ rules' = [rules EXCEPT ![i].active = ~@]
    /\ UNCHANGED <<page, keyVars, copyVars, editor, asked>>

-----------------------------------------------------------------------------
KeyStep ==
    \/ OpenKeyDialog \/ CloseKeyDialog \/ KeepKey \/ Revoke
    \/ \E i \in Ids : Generate(i) \/ AskRevoke(i) \/ Copy(i)
    \/ \E n \in DOMAIN copies : CopyWritten(n) \/ CopyRefused(n) \/ Unmark(n)

RuleStep ==
    \/ OpenCreate \/ CloseEditor
    \/ \E f \in Forms : TypeForm(f)
    \/ \E i \in Ids : OpenEdit(i) \/ Save(i) \/ Delete(i) \/ ToggleActive(i)

DashboardNext == (\E p \in Pages : Navigate(p)) \/ KeyStep \/ RuleStep \/ Tick

DashboardSpec == DashboardInit /\ [][DashboardNext]_dashboardVars

\* Timers fire; nothing is assumed of the operator or of the clipboard.
DashboardFairSpec ==
    /\ DashboardSpec
    /\ WF_dashboardVars(\E n \in DOMAIN copies : Unmark(n)) /\ WF_dashboardVars(Tick)

-----------------------------------------------------------------------------
\* The mark of a copied key goes away again, also when keys are copied in
\* quick succession and their timers take each other's marks away.
MarkEnds == copied # NoId ~> copied = NoId

\* Save changes the rule whose Edit button opened the dialog, or adds one to
\* the rules when Add did: no dialog cancelled before can make it overwrite.
SaveKeepsToItsButton ==
    [][page' = page /\ editor.open =>
          \A i \in DOMAIN rules : asked # i => i \in DOMAIN rules' /\ rules'[i] = rules[i]
    ]_dashboardVars

\* ApiKeys.tsx:271: "This action cannot be undone."  A key that has been
\* revoked is never shown as active again.
RevocationLasts ==
    [][\A i \in DOMAIN keys \cap DOMAIN keys' :
          keys[i] = "revoked" => keys'[i] = "revoked"]_dashboardVars
=============================================================================
