------------------------------ MODULE Clipboard ------------------------------
(***************************************************************************)
(* The clipboard guard (utils/clipboardGuard.ts) as its three users share  *)
(* it: the vault page cancels its guard before the next copy and when it   *)
(* is left, the generator page only before the next copy, and the          *)
(* credential form, which the vault page shows, drops the handle.  Timers  *)
(* survive the page that set them, but not a reload of the tab.  The       *)
(* browser may refuse a write the user did not ask for, such as the one    *)
(* that clears.                                                            *)
(***************************************************************************)
EXTENDS Naturals, FiniteSets

CONSTANTS
    Guards,       \* calls of secureClipboard
    NoGuard,
    Seconds,      \* seconds, 10 by default
    Refusals      \* how often the browser refuses to clear

VARIABLES
    clip,         \* clipboard: "empty", "other" or the guard that wrote it
    guards,       \* per guard: page, seconds left, state of the timer
    guardRef,     \* per page: the handle kept, NoGuard for none
    countdown,    \* per page: the seconds shown, 0 for none
    page,         \* the page on screen
    lost          \* guards whose clearing was refused or whose tab is gone

clipVars == <<clip, guards, guardRef, countdown, page, lost>>

Pages == {"vault", "generator"}

(* live: the page that started the guard is still on screen *)
Unused == [page |-> "form", left |-> 0, timer |-> "unused", live |-> FALSE]

Running(g) == guards[g].timer = "running"

(* onTick and onDone set the countdown of the page that made the copy while *)
(* it is there; the form shows none                                        *)
Ticks(g, n) ==
    IF guards[g].live /\ guards[g].page \in Pages
    THEN [countdown EXCEPT ![guards[g].page] = n] ELSE countdown

(* Whatever the clipboard holds is replaced. *)
clearWithExec(g) ==
    \/ clip' = "empty" /\ UNCHANGED lost
    \/ /\ Cardinality(lost) < Refusals
       /\ lost' = lost \union {g}
       /\ UNCHANGED clip

-----------------------------------------------------------------------------
(* The guard the page kept, unless it was cancelled before; one whose      *)
(* countdown ended counts, and clears the clipboard a second time          *)
HeldGuard(p) == {g \in Guards : g = guardRef[p] /\ guards[g].timer # "cancelled"}

Cancelled(gs) == [g \in Guards |-> IF g \in gs THEN [guards[g] EXCEPT !.timer = "cancelled"]
                                   ELSE guards[g]]

(* The copy handlers: cancel, then write.  The write is made under the     *)
(* user's click and is not refused, so the clearing before it leaves no    *)
(* trace.                                                                  *)
secureClipboard(g, p) ==
    /\ guards' = [Cancelled(IF p \in Pages THEN HeldGuard(p) ELSE {})
                    EXCEPT ![g] = [page |-> p, left |-> Seconds, timer |-> "running", live |-> TRUE]]
    /\ clip' = g
    /\ countdown' = IF p \in Pages THEN [countdown EXCEPT ![p] = Seconds] ELSE countdown

CopyOn(g, p) ==
    /\ guards[g].timer = "unused" /\ page = p
    /\ secureClipboard(g, p)
    /\ guardRef' = IF p = "form" THEN guardRef ELSE [guardRef EXCEPT ![p] = g]
    /\ UNCHANGED <<page, lost>>

(* A user name, a password or a one-time code of the vault page *)
handleCopyPassword(g) == CopyOn(g, "vault")

(* The generator page: the password shown or one of its history *)
handleCopyGenerated(g) == CopyOn(g, "generator")

(* The form keeps no handle. *)
handleCopyForm(g) == CopyOn(g, "form")

(* "Clear now" beside the countdown *)
ClearNow(g) ==
    /\ LET p == IF page = "form" THEN "vault" ELSE page
       IN countdown[p] > 0 /\ g \in HeldGuard(p)
    /\ guards' = Cancelled({g})
    /\ countdown' = Ticks(g, 0)
    /\ clearWithExec(g)
    /\ UNCHANGED <<guardRef, page>>

(* The interval of secureClipboard *)
GuardTick(g) ==
    /\ Running(g)
    /\ UNCHANGED <<guardRef, page>>
    /\ IF guards[g].left > 1
       THEN /\ guards' = [guards EXCEPT ![g].left = @ - 1]
            /\ countdown' = Ticks(g, guards[g].left - 1)
            /\ UNCHANGED <<clip, lost>>
       ELSE /\ guards' = [guards EXCEPT ![g].left = 0, ![g].timer = "done"]
            /\ countdown' = Ticks(g, 0)
            /\ clearWithExec(g)

(* The form opens and closes within the vault page. *)
SwitchForm ==
    /\ page # "generator"
    /\ page' = IF page = "form" THEN "vault" ELSE "form"
    /\ UNCHANGED <<clip, guards, guardRef, countdown, lost>>

(* What a page leaves behind when it is unmounted *)
Unmounted(p, gs) ==
    /\ guards' = [g \in Guards |-> [Cancelled(gs)[g] EXCEPT
                                      !.live = @ /\ (p = "generator") # (guards[g].page = "generator")]]
    /\ guardRef' = [guardRef EXCEPT ![p] = NoGuard]
    /\ countdown' = [countdown EXCEPT ![p] = 0]

(* Mutant of LeaveVault: the timer is stopped and nothing is cleared. *)
LeaveVaultQuietly ==
    /\ page # "generator" /\ page' = "generator"
    /\ Unmounted("vault", HeldGuard("vault"))
    /\ UNCHANGED <<clip, lost>>

LeaveVault ==
    /\ page # "generator" /\ page' = "generator"
    /\ Unmounted("vault", HeldGuard("vault"))
    /\ \/ HeldGuard("vault") = {} /\ UNCHANGED <<clip, lost>>
       \/ \E g \in HeldGuard("vault") : clearWithExec(g)

(* The generator page has no clean-up: its timer runs on. *)
LeaveGenerator ==
    /\ page = "generator" /\ page' = "vault"
    /\ Unmounted("generator", {})
    /\ UNCHANGED <<clip, lost>>

(* The user copies something in another program. *)
CopyElsewhere ==
    /\ clip # "other" /\ clip' = "other"
    /\ UNCHANGED <<guards, guardRef, countdown, page, lost>>

(* The tab is reloaded: timers, handles and countdowns are gone. *)
ReloadTab ==
    /\ \E g \in Guards : Running(g)
    /\ guards' = [g \in Guards |->
                    [guards[g] EXCEPT !.timer = IF @ = "running" THEN "done" ELSE @, !.live = FALSE]]
    /\ lost' = lost \union {g \in Guards : Running(g)}
    /\ guardRef' = [p \in Pages |-> NoGuard]
    /\ countdown' = [p \in Pages |-> 0]
    /\ UNCHANGED <<clip, page>>

ClipInit ==
    /\ clip = "empty"
    /\ guards = [g \in Guards |-> Unused]
    /\ guardRef = [p \in Pages |-> NoGuard]
    /\ countdown = [p \in Pages |-> 0]
    /\ page = "vault"
    /\ lost = {}

ClipNext ==
    \/ \E g \in Guards :
         \/ handleCopyPassword(g) \/ handleCopyGenerated(g) \/ handleCopyForm(g)
         \/ ClearNow(g) \/ GuardTick(g)
    \/ SwitchForm
    \/ LeaveVault
    \/ LeaveGenerator
    \/ CopyElsewhere
    \/ ReloadTab

-----------------------------------------------------------------------------
(* Properties *)

(* A secret is on the clipboard only while the timer that will clear it    *)
(* runs: no other copy, no cancelled guard and no page change leaves one   *)
(* behind, unless the browser refused to clear or the tab was reloaded.    *)
SecretGuarded == clip \in Guards => Running(clip) \/ clip \in lost

(* The countdown a page shows is that of its last copy: none when its      *)
(* timer is over, and never one of an earlier copy or an earlier visit.    *)
CountdownTrue ==
    \A p \in Pages :
      countdown[p] = IF guardRef[p] \in Guards /\ Running(guardRef[p])
                     THEN guards[guardRef[p]].left ELSE 0

=============================================================================
