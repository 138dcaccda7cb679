----------------------------- MODULE VaultPage -----------------------------
(***************************************************************************)
(* The vault page (src/web/src/pages/Vault.tsx): the list with its search, *)
(* and the dialogs over it, which keep the item they were opened for, the  *)
(* text typed and the one-time code shown in state of the whole page.      *)
(* What becomes of a change once the page hands it over is module          *)
(* ClientVault; copying is module Clipboard.                               *)
(***************************************************************************)
EXTENDS Naturals, Sequences, SequencesExt, FiniteSets

CONSTANTS
    Items,        \* credentials on the page
    RevMax,       \* bound: changes of one credential
    TypeMax,      \* bound: times a confirmation is typed
    HitLists      \* lists of items, each the fields a search term is found in

VARIABLES
    vitems,       \* the vault: per credential revision and one-time secret
    removing,     \* itemToDelete and deleteInput
    otpEdit,      \* otpSetupItem as it was, the secret typed, the save begun
    otpRemove,    \* otpRemoveItem as it was
    otpShow,      \* otpShowItem
    codes,        \* items whose code is being computed, a bag of one each
    otpCode,      \* the item whose code is displayed
    hits,         \* the list searched
    vphist        \* typed, deleted: confirmations and deletions counted;
                  \* stale: credentials that changed under a dialog

dialogVars == <<vitems, removing, otpEdit, otpRemove, vphist>>
codeVars == <<otpShow, codes, otpCode>>
pageVars == <<vitems, removing, otpEdit, otpRemove, otpShow, codes, otpCode, hits, vphist>>

None == "none"
ItemGone == [rev |-> 0, otp |-> "gone"]
NoItem == [item |-> None, was |-> ItemGone]
NoSave == [item |-> None, was |-> ItemGone, secret |-> "", seen |-> <<>>]

Present(c) == vitems[c] # ItemGone

\* The dialogs cover the page.
Uncovered == removing.item = None /\ otpEdit.item = None /\ otpRemove.item = None

-----------------------------------------------------------------------------
(* Search *)

Compared(a, b) ==
    LET before(f) == f \in a /\ f \notin b
        same(f) == (f \in a) = (f \in b)
    IN before("service") \/ (same("service") /\
         (before("url") \/ (same("url") /\ before("user"))))

(* filter, then sort, which is stable *)
displayedCredentials(list) ==
    LET kept == SelectSeq([i \in DOMAIN list |-> [at |-> i, in |-> list[i]]], LAMBDA e : e.in # {})
        place(s, e) == LET n == Cardinality({i \in DOMAIN s : ~Compared(e.in, s[i].in)})
                       IN InsertAt(s, n + 1, e)
    IN FoldLeft(place, <<>>, kept)

-----------------------------------------------------------------------------
(* Deleting *)

(* Remove in the item's menu *)
AskDelete(c) ==
    /\ Uncovered /\ Present(c)
    /\ removing' = [removing EXCEPT !.item = c]
    /\ UNCHANGED <<vitems, otpEdit, otpRemove, vphist>>

TypeDelete ==
    /\ removing.item # None /\ removing.text = "" /\ vphist.typed < TypeMax
    /\ removing' = [removing EXCEPT !.text = "delete"]
    /\ vphist' = [vphist EXCEPT !.typed = @ + 1, !.for = removing.item]
    /\ UNCHANGED <<vitems, otpEdit, otpRemove>>

(* Cancel clears the text; the cross and the backdrop leave it. *)
CancelDelete(clears) ==
    /\ removing.item # None
    /\ removing' = [item |-> None, text |-> IF clears THEN "" ELSE removing.text]
    /\ UNCHANGED <<vitems, otpEdit, otpRemove, vphist>>

ConfirmDelete ==
    /\ removing.item # None /\ removing.text = "delete"
    /\ vitems' = [vitems EXCEPT ![removing.item] = ItemGone]
    /\ removing' = [item |-> None, text |-> ""]
    /\ vphist' = [vphist EXCEPT !.deleted = @ + 1, !.untyped = @ \/ vphist.for # removing.item]
    /\ UNCHANGED <<otpEdit, otpRemove>>

-----------------------------------------------------------------------------
(* The one-time secret of a credential *)

(* The item as it is on the page when the dialog opens *)
Captured(c) == [item |-> c, was |-> vitems[c]]

(* Setup OTP, or Edit OTP with the secret filled in *)
OpenOtp(c) ==
    /\ Uncovered /\ Present(c)
    /\ otpEdit' = [item |-> c, was |-> Captured(c).was, secret |-> vitems[c].otp, seen |-> <<>>]
    /\ UNCHANGED <<vitems, removing, otpRemove, vphist>>

TypeSecret(s) ==
    /\ otpEdit.item # None /\ s # otpEdit.secret
    /\ otpEdit' = [otpEdit EXCEPT !.secret = s]
    /\ UNCHANGED <<vitems, removing, otpRemove, vphist>>

(* Save: the secret is tried first; the list the update will be made in is *)
(* the one of this render.                                                 *)
SaveOtp ==
    /\ otpEdit.item # None /\ otpEdit.secret # "" /\ otpEdit.seen = <<>>
    /\ otpEdit' = [otpEdit EXCEPT !.seen = <<vitems>>]
    /\ UNCHANGED <<vitems, removing, otpRemove, vphist>>

(* TOTP.generate answered: a bad secret shows an error.  The item captured *)
(* is written with the secret into the list seen.                          *)
OtpTried ==
    /\ otpEdit.seen # <<>>
    /\ IF otpEdit.secret = "bad"
       THEN otpEdit' = [otpEdit EXCEPT !.seen = <<>>] /\ UNCHANGED vitems
       ELSE /\ vitems' = [otpEdit.seen[1] EXCEPT ![otpEdit.item] =
                            IF @ = ItemGone THEN ItemGone ELSE [otpEdit.was EXCEPT !.otp = otpEdit.secret]]
            /\ otpEdit' = NoSave
    /\ UNCHANGED <<removing, otpRemove, vphist>>

CloseOtp ==
    /\ otpEdit.item # None /\ otpEdit.seen = <<>>
    /\ otpEdit' = NoSave
    /\ UNCHANGED <<vitems, removing, otpRemove, vphist>>

AskRemoveOtp(c) ==
    /\ Uncovered /\ Present(c) /\ vitems[c].otp # ""
    /\ otpRemove' = Captured(c)
    /\ UNCHANGED <<vitems, removing, otpEdit, vphist>>

(* Cancel, or Yes: the item captured is written without its secret. *)
AnswerRemoveOtp(yes) ==
    /\ otpRemove.item # None
    /\ vitems' = IF yes /\ Present(otpRemove.item)
                 THEN [vitems EXCEPT ![otpRemove.item] = [otpRemove.was EXCEPT !.otp = ""]]
                 ELSE vitems
    /\ otpRemove' = NoItem
    /\ UNCHANGED <<removing, otpEdit, vphist>>

(* The credential changes: through the form, when no dialog covers the     *)
(* list, or because the vault is loaded again.                             *)
CredentialChanges(c) ==
    /\ Present(c) /\ vitems[c].rev < RevMax
    /\ vitems' = [vitems EXCEPT ![c].rev = @ + 1]
    /\ vphist' = [vphist EXCEPT !.newest[c] = vitems[c].rev + 1,
                                !.stale = IF Uncovered THEN @ ELSE @ \union {c}]
    /\ UNCHANGED <<removing, otpEdit, otpRemove>>

DialogNext ==
    \/ \E c \in Items : AskDelete(c) \/ OpenOtp(c) \/ AskRemoveOtp(c) \/ CredentialChanges(c)
    \/ TypeDelete \/ ConfirmDelete
    \/ \E b \in BOOLEAN : CancelDelete(b) \/ AnswerRemoveOtp(b)
    \/ \E s \in {"good", "bad"} : TypeSecret(s)
    \/ SaveOtp \/ OtpTried \/ CloseOtp

-----------------------------------------------------------------------------
(* The code shown: computed at once and every second while the dialog is   *)
(* open, each time in the background                                       *)

(* setOtpShowItem; the effect computes at once *)
ShowCode(c) ==
    /\ otpShow = None
    /\ otpShow' = c /\ codes' = codes \union {c}
    /\ UNCHANGED otpCode

(* The interval of the effect *)
CodeTick ==
    /\ otpShow # None
    /\ codes' = codes \union {otpShow}
    /\ UNCHANGED <<otpShow, otpCode>>

(* An answer is shown whatever the dialog shows by then. *)
CodeAnswered(c) ==
    /\ c \in codes
    /\ codes' = codes \ {c}
    /\ otpCode' = c
    /\ UNCHANGED otpShow

HideCode ==
    /\ otpShow # None
    /\ otpShow' = None
    /\ UNCHANGED <<codes, otpCode>>

CodeNext ==
    \/ \E c \in Items : ShowCode(c) \/ CodeAnswered(c)
    \/ CodeTick \/ HideCode

-----------------------------------------------------------------------------
PageInit ==
    /\ vitems = [c \in Items |-> [rev |-> 1, otp |-> ""]]
    /\ removing = [item |-> None, text |-> ""]
    /\ otpEdit = NoSave /\ otpRemove = NoItem
    /\ otpShow = None /\ codes = {} /\ otpCode = None
    /\ hits = <<>>
    /\ vphist = [typed |-> 0, deleted |-> 0, for |-> None, untyped |-> FALSE,
                 newest |-> [c \in Items |-> 1], stale |-> {}]

(* Another term, another list *)
Search(list) == hits' = list

-----------------------------------------------------------------------------
(* Properties *)

(* "Type delete to confirm": one confirmation typed deletes at most one    *)
(* credential, however dialogs are opened, dismissed and opened again.     *)
OneDeletionEach == vphist.deleted <= vphist.typed

(* Setting, changing or removing a one-time secret never takes back        *)
(* another change of the vault, unless that change arrived under an open   *)
(* dialog: the item is written as it was when the dialog opened.           *)
OtpKeepsChanges ==
    \A c \in Items : Present(c) /\ vphist.stale = {} => vitems[c].rev = vphist.newest[c]

(* The list shown holds every item the term is found in and no other, in   *)
(* the order service, address, user name, and otherwise in vault order:    *)
(* no earlier item is worse than a later one.                              *)
SearchRanked ==
    LET shown == displayedCredentials(hits)
        key(e) == (IF "service" \in e.in THEN 0 ELSE 4) + (IF "url" \in e.in THEN 0 ELSE 2)
                    + (IF "user" \in e.in THEN 0 ELSE 1)
    IN /\ {e.at : e \in Range(shown)} = {i \in DOMAIN hits : hits[i] # {}}
       /\ \A i, j \in DOMAIN shown : i < j =>
            \/ key(shown[i]) < key(shown[j])
            \/ key(shown[i]) = key(shown[j]) /\ shown[i].at < shown[j].at

=============================================================================
