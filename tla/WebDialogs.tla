----------------------------- MODULE WebDialogs -----------------------------
(***************************************************************************)
(* The dialogs of the settings and of the lists: forms that create or      *)
(* change one thing on the server, and questions that ask before one is    *)
(* deleted.  What distinguishes them is a row of Dialogs, read off the     *)
(* component; what they do is the same, and a dialog that was closed with  *)
(* its request under way may be open again when the answer comes.  All of   *)
(* them stay mounted while they are closed, and keep what is in them.       *)
(***************************************************************************)
EXTENDS Naturals

CONSTANTS
    Targets,        \* the things (users, tokens, webhooks ...) a dialog is about
    NoTarget,       \* none of them
    MaxOpenings,    \* bound: how often the dialog is opened
    MaxRequests     \* bound: requests it sends

ASSUME DialogAssumption ==
    Targets # {} /\ NoTarget \notin Targets /\ MaxOpenings \in Nat \ {0} /\ MaxRequests \in Nat \ {0}

VARIABLES
    dialog,         \* the dialog that the behaviour is about
    view,           \* what of it is on the screen
    opening,        \* how often it was opened
    target,         \* what it was opened for, the last time
    typed,          \* for which targets what is in its fields was typed
    busy,           \* its loading state
    requests,       \* its requests under way
    requested       \* how many were sent

dialogVars == <<dialog, view, opening, target, typed, busy, requests, requested>>

\* fresh: when the fields are set anew: on every opening, on one for another
\*   target, or never, in a dialog that is always about the same thing
\* guards: confirming is disabled while a request is under way
\* holds: so is closing
\* done: an answer closes the dialog, or shows the token it brought, or leaves it
\*   as it is, or closes it once more when the list has been fetched again; or the
\*   dialog is closed without waiting, and once more by the answer
\* failed: whether an error leaves the dialog open
Form(fresh, guards, holds, done, failed) ==
    [fresh |-> fresh, guards |-> guards, holds |-> holds, done |-> done, failed |-> failed]

CreateUserDialog == Form("target", TRUE, FALSE, "close", "open")
ChangeMemberPasswordDialog == Form("never", FALSE, FALSE, "close", "open")
UpdateAccountDialog == Form("never", FALSE, FALSE, "close", "open")
UpdateCustomizedProfileDialog == Form("never", TRUE, FALSE, "close", "open")
\* Always about a new webhook: WebhookSection.tsx passes no webhookName, and the
\* effect that would fetch the fields of one does nothing.
CreateWebhookDialog == Form("never", TRUE, FALSE, "relist", "open")
CreateAccessTokenDialog == Form("opening", TRUE, FALSE, "token", "open")
CreateIdentityProviderDialog == Form("opening", TRUE, TRUE, "relist", "open")
AIProviderDialog == Form("opening", FALSE, FALSE, "close", "open")
Shortcuts == Form("opening", TRUE, FALSE, "close", "open")
MemoSharePanel == Form("never", TRUE, FALSE, "stay", "open")

\* A question has no fields.
ConfirmDialog(done, failed) == Form("opening", TRUE, TRUE, done, failed)

DeleteAccessToken == ConfirmDialog("close", "open")
DeleteWebhook == ConfirmDialog("close", "open")
DeleteShortcut == ConfirmDialog("close", "open")
DeleteAccount == ConfirmDialog("close", "open")
ArchiveMember == ConfirmDialog("close", "closed")
DeleteMember == ConfirmDialog("detached", "closed")
DeleteIdentityProvider == ConfirmDialog("close", "closed")
DeleteProvider == ConfirmDialog("close", "closed")
DeleteOneMemo == ConfirmDialog("close", "closed")
DeleteUnusedAttachments == ConfirmDialog("close", "closed")

Dialogs ==
    {CreateUserDialog, ChangeMemberPasswordDialog, UpdateAccountDialog, UpdateCustomizedProfileDialog,
     CreateWebhookDialog, CreateAccessTokenDialog, CreateIdentityProviderDialog, AIProviderDialog,
     Shortcuts, MemoSharePanel, DeleteAccessToken, DeleteWebhook, DeleteShortcut, DeleteAccount, ArchiveMember,
     DeleteMember, DeleteIdentityProvider, DeleteProvider, DeleteOneMemo, DeleteUnusedAttachments}

NoDialog == [fresh |-> "never", guards |-> FALSE, holds |-> FALSE, done |-> "none", failed |-> "open"]
TheOne == CHOOSE t \in Targets : TRUE

\* The buttons of a dialog, while a request is under way
CanConfirm == ~(dialog.guards /\ busy)
CanClose == ~(dialog.holds /\ busy)

Choose == \E d \in Dialogs :
    /\ dialog = NoDialog
    /\ dialog' = d
    /\ UNCHANGED <<view, opening, target, typed, busy, requests, requested>>

\* Mutation of FieldsStay: the effect of a dialog does not depend on its target.
FieldsStayOnceSet(t) == dialog.fresh \in {"never", "target"}

\* What is in the fields may still be there when the dialog opens for t.
FieldsStay(t) == dialog.fresh = "never" \/ (dialog.fresh = "target" /\ t = target)

\* A dialog may set its fields anew for the same target too, which the lists
\* fetch again and hand over as another object.
Open(t) ==
    /\ dialog # NoDialog /\ view = "closed" /\ opening < MaxOpenings
    /\ view' = "form"
    /\ opening' = opening + 1
    /\ target' = t
    /\ dialog.fresh = "never" => t = TheOne
    /\ \/ FieldsStay(t) /\ typed' = typed
       \/ dialog.fresh # "never" /\ typed' = {}
    /\ UNCHANGED <<dialog, busy, requests, requested>>

\* handleEditShortcut: the form of the shortcuts is a part of their page, where
\* another can be chosen at any time.
EditShortcut(t) ==
    /\ dialog = Shortcuts /\ view = "form" /\ opening < MaxOpenings
    /\ opening' = opening + 1
    /\ target' = t
    /\ typed' = {}
    /\ UNCHANGED <<dialog, view, busy, requests, requested>>

Type ==
    /\ view = "form"
    /\ typed' = typed \cup {target}
    /\ UNCHANGED <<dialog, view, opening, target, busy, requests, requested>>

\* The cancel button, the Escape key, a click outside
Cancel ==
    /\ view # "closed"
    /\ CanClose
    /\ view' = "closed"
    /\ UNCHANGED <<dialog, opening, target, typed, busy, requests, requested>>

\* The fields are sent for the target on the screen.
Confirm ==
    /\ view = "form" /\ requested < MaxRequests
    /\ CanConfirm
    /\ busy' = (dialog.guards /\ dialog.done # "detached")
    /\ requests' = requests \cup {[number |-> requested, target |-> target, typed |-> typed, state |-> "sent"]}
    /\ requested' = requested + 1
    /\ view' = IF dialog.done = "detached" THEN "closed" ELSE view
    /\ UNCHANGED <<dialog, opening, target, typed>>

\* The page of the shortcuts empties the form when it closes it.
Closed == view' = "closed" /\ typed' = IF dialog = Shortcuts THEN {} ELSE typed

\* Whichever opening is on the screen is the one that the answer closes.
DialogAnswered(r) ==
    /\ r.state = "sent"
    /\ busy' = FALSE
    /\ requests' = (requests \ {r}) \cup (IF dialog.done = "relist" THEN {[r EXCEPT !.state = "listing"]} ELSE {})
    /\ CASE dialog.done = "token" -> view' = (IF view = "form" THEN "token" ELSE view) /\ UNCHANGED typed
         [] dialog.done = "stay" -> UNCHANGED <<view, typed>>
         [] OTHER -> Closed
    /\ UNCHANGED <<dialog, opening, target, requested>>

\* handleDialogSuccess, handleCreateWebhookDialogConfirm: the list has come.  A
\* dialog for identity providers that is closed no longer counts as submitting.
Relisted(r) ==
    /\ r.state = "listing"
    /\ requests' = requests \ {r}
    /\ Closed
    /\ busy' = (busy /\ dialog # CreateIdentityProviderDialog)
    /\ UNCHANGED <<dialog, opening, target, requested>>

Rejected(r) ==
    /\ r.state = "sent"
    /\ busy' = FALSE
    /\ requests' = requests \ {r}
    /\ IF dialog.failed = "closed" THEN Closed ELSE UNCHANGED <<view, typed>>
    /\ UNCHANGED <<dialog, opening, target, requested>>

DialogInit ==
    /\ dialog = NoDialog
    /\ view = "closed"
    /\ opening = 0
    /\ target = NoTarget
    /\ typed = {}
    /\ busy = FALSE
    /\ requests = {}
    /\ requested = 0

DialogNext ==
    \/ Choose \/ Type \/ Cancel \/ Confirm
    \/ \E t \in Targets : Open(t) \/ EditShortcut(t)
    \/ \E r \in requests : DialogAnswered(r) \/ Relisted(r) \/ Rejected(r)

DialogSpec == DialogInit /\ [][DialogNext]_dialogVars

-----------------------------------------------------------------------------
DialogTypeOK ==
    /\ dialog \in Dialogs \cup {NoDialog}
    /\ view \in {"closed", "form", "token"}
    /\ opening \in 0..MaxOpenings /\ requested \in 0..MaxRequests
    /\ target \in Targets \cup {NoTarget} /\ typed \subseteq Targets
    /\ busy \in BOOLEAN
    /\ \A r \in requests : r.target \in Targets /\ r.number \in 0..MaxRequests

\* Over any number of openings, those too that an answer to an earlier request
\* closes under the user's hands, or that begin with a request under way: what is
\* sent for one user, token, webhook or shortcut was never typed for another.
FieldsGoToTheirTarget == \A r \in requests : r.typed \subseteq {r.target}
=============================================================================
