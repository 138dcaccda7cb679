---------------------------- MODULE MfaSettings ----------------------------
(***************************************************************************)
(* The second factors of an account in a browser: the configuration and    *)
(* its cache (utils/mfa.ts), the settings that change it                   *)
(* (pages/Settings/hooks/useMfaSetup.ts), the code asked for at sign-in    *)
(* (pages/Login.tsx), the reload of a page (layouts/AppLayout.tsx) and     *)
(* quick unlock (utils/quickUnlock.ts).                                    *)
(*                                                                         *)
(* A configuration is the set of enabled factors, each a pair of its kind  *)
(* and its id (of a TOTP secret: the number of digits of its codes), and   *)
(* the two password switches.  A code of the authenticator app is the      *)
(* 30 s period it belongs to; a code sent by e-mail is its number.         *)
(***************************************************************************)
EXTENDS Naturals, Sequences, FiniteSets

CONSTANTS
    MfaMenus,    \* what behaviours may do: [ops, kinds, stored, daemon]
    KeyIds,      \* ids of hardware credentials
    PeriodMax,   \* bound: 30 s periods
    ChangeMax,   \* bound: changes of the settings
    MailMax      \* bound: codes sent by e-mail

VARIABLES
    mmenu,    \* the menu of this behaviour
    mtab,     \* the tab: page, _mfaCache, the method asked for, registrations
              \* that wait for the user, _usedTotpPeriods, _pendingOtp
    wire,     \* requests under way that store a configuration
    stored,   \* the configuration on the server
    quick,    \* quick unlock: entry in the browser, in the daemon, switch shown
    now,      \* the current period
    fachist     \* history: factors enrolled, codes accepted since the page was
              \* loaded, correct codes refused, known causes, counters

mfaVars == <<mmenu, mtab, wire, stored, quick, now, fachist>>

May(op) == op \in mmenu.ops

NoConfig == [on |-> {<<"none", 0>>}, pwd |-> TRUE, less |-> FALSE]
DEFAULT_MFA == [on |-> {}, pwd |-> TRUE, less |-> FALSE]

Kinds == {"totp", "email", "webauthn", "passkey", "platform"}
Has(cfg, k) == \E f \in cfg.on : f[1] = k
Of(cfg, k) == {f \in cfg.on : f[1] = k}

(* The code boxes of the sign-in form, and the format of codes enrolled now *)
LoginBoxes == 6
EnrolledDigits == 8

getMfaConfig == IF mtab.cache = NoConfig THEN DEFAULT_MFA ELSE mtab.cache

-----------------------------------------------------------------------------
(* Saving *)

(* saveMfaConfig: the cache, and a request that nothing waits for.  (The   *)
(* digest refreshLoginHints posts and the flags updateLoginPolicy sends to *)
(* the daemon are left out: nothing here reads them back.)                 *)
saveMfaConfig(tab, cfg) ==
    /\ mtab' = [tab EXCEPT !.cache = cfg]
    /\ wire' = Append(wire, cfg)

(* A request arrives, in any order, or fails, as those do that come after *)
(* the session was ended.                                                 *)
Deliver ==
    \E i \in DOMAIN wire, fails \in {FALSE} \cup (IF May("lost") \/ mtab.page = "out" THEN {TRUE} ELSE {}) :
       /\ stored' = IF fails THEN stored ELSE wire[i]
       /\ wire' = SubSeq(wire, 1, i - 1) \o SubSeq(wire, i + 1, Len(wire))
       /\ fachist' = [fachist EXCEPT !.causes = @ \cup (IF i > 1 THEN {"overtaken"} ELSE {})
                                              \cup (IF fails THEN {"lost"} ELSE {})]
       /\ UNCHANGED <<mmenu, mtab, quick, now>>

-----------------------------------------------------------------------------
(* Changes in the settings *)

Settings == mtab.page = "in" /\ fachist.changes < ChangeMax

Noted(on, off) ==
    fachist' = [fachist EXCEPT !.enrolled = (@ \cup on) \ off, !.changes = @ + 1,
                           !.causes = @ \cup IF mtab.cache = NoConfig THEN {"reloaded"} ELSE {}]

(* handleTotpVerify: a new secret has codes of EnrolledDigits digits, and  *)
(* the form has as many boxes; one that counts (HOTP) is checked for codes *)
(* of 6 digits, which 8 boxes never hold.  The first try is made by the    *)
(* last box, without its digit, and fails.                                 *)
handleTotpVerify ==
    /\ May("totp") /\ Settings
    /\ LET cfg == getMfaConfig
       IN saveMfaConfig(mtab, [cfg EXCEPT !.on = (@ \ Of(cfg, "totp")) \cup {<<"totp", EnrolledDigits>>}])
    /\ Noted({<<"totp", EnrolledDigits>>}, Of(getMfaConfig, "totp") \ {<<"totp", EnrolledDigits>>})
    /\ UNCHANGED <<mmenu, stored, quick, now>>

RemoveMethod(f) ==
    /\ May("remove") /\ Settings /\ f \in getMfaConfig.on
    /\ LET cfg == getMfaConfig IN saveMfaConfig(mtab, [cfg EXCEPT !.on = @ \ {f}])
    /\ Noted({}, {f})
    /\ UNCHANGED <<mmenu, stored, quick, now>>

handleTotpRemove == \E f \in Of(getMfaConfig, "totp") : RemoveMethod(f)
handleEmailRemove == RemoveMethod(<<"email", 0>>)
handleWebAuthnRemove(i) == RemoveMethod(<<"webauthn", i>>)
handlePasskeyRemove(i) == RemoveMethod(<<"passkey", i>>)
handlePlatformRemove(i) == RemoveMethod(<<"platform", i>>)

handlePasswordlessToggle ==
    /\ May("switch") /\ Settings
    /\ LET cfg == getMfaConfig IN saveMfaConfig(mtab, [cfg EXCEPT !.less = ~@])
    /\ Noted({}, {})
    /\ UNCHANGED <<mmenu, stored, quick, now>>

countActiveMfaMethods == Cardinality({k \in Kinds : Has(getMfaConfig, k)})

handlePasswordLoginToggle ==
    /\ May("switch") /\ Settings
    /\ ~(getMfaConfig.pwd /\ countActiveMfaMethods < 2)
    /\ LET cfg == getMfaConfig IN saveMfaConfig(mtab, [cfg EXCEPT !.pwd = ~@])
    /\ Noted({}, {})
    /\ UNCHANGED <<mmenu, stored, quick, now>>

(* Factors that wait for the user (a touch, a fingerprint, the code in an  *)
(* e-mail) are enrolled in two steps.                                      *)
EnrolStart(f) ==
    /\ f[1] \in mmenu.kinds /\ Settings
    /\ f[1] = "webauthn" => mmenu.daemon
    /\ f \notin getMfaConfig.on /\ \A w \in mtab.waits : w.f # f
    /\ mtab' = [mtab EXCEPT !.waits = @ \cup {[f |-> f, cfg |-> getMfaConfig]}]
    /\ fachist' = [fachist EXCEPT !.changes = @ + 1]
    /\ UNCHANGED <<mmenu, wire, stored, quick, now>>

Enrolled(w, cfg) ==
    /\ w \in mtab.waits
    /\ saveMfaConfig([mtab EXCEPT !.waits = @ \ {w}], [cfg EXCEPT !.on = @ \cup {w.f}])
    /\ fachist' = [fachist EXCEPT !.enrolled = @ \cup {w.f},
                              !.causes = @ \cup IF mtab.cache = NoConfig THEN {"reloaded"} ELSE {}]
    /\ UNCHANGED <<mmenu, stored, quick, now>>

registerWebAuthn(w) == w.f[1] = "webauthn" /\ Enrolled(w, getMfaConfig)

(* Mutant of registerPasskey: the configuration is read before the prompt. *)
registerPasskeyEarly(w) == w.f[1] = "passkey" /\ Enrolled(w, w.cfg)

registerPasskey(w) == w.f[1] = "passkey" /\ Enrolled(w, getMfaConfig)
registerPlatformAuth(w) == w.f[1] = "platform" /\ Enrolled(w, getMfaConfig)
handleEmailVerify(w) == w.f[1] = "email" /\ Enrolled(w, getMfaConfig)

EnrolFails(w) ==
    /\ mtab' = [mtab EXCEPT !.waits = @ \ {w}]
    /\ UNCHANGED <<mmenu, wire, stored, quick, now, fachist>>

-----------------------------------------------------------------------------
(* Quick unlock: a call of the daemon may fail, before or after its effect. *)

handleQuickUnlockConfirm ==
    /\ May("quick") /\ mtab.page = "in" /\ ~quick.shown
    /\ \E answer \in {"ok", "refused", "lost"} :
          quick' = [local |-> TRUE,
                    daemon |-> IF answer = "refused" THEN quick.daemon ELSE TRUE,
                    shown |-> answer = "ok"]
    /\ UNCHANGED <<mmenu, mtab, wire, stored, now, fachist>>

handleToggleQuickUnlock ==
    /\ May("quick") /\ mtab.page = "in" /\ quick.shown
    /\ \E answer \in {"ok", "refused", "lost"} :
          quick' = [local |-> answer # "ok", daemon |-> answer = "refused" /\ quick.daemon,
                    shown |-> answer # "ok"]
    /\ UNCHANGED <<mmenu, mtab, wire, stored, now, fachist>>

-----------------------------------------------------------------------------
(* Signing in *)

Fresh(page, cache) == [page |-> page, cache |-> cache, method |-> "totp", waits |-> {},
                       used |-> {}, otp |-> 0]

mails == fachist.mails

(* generateEmailCode replaces the code that waits. *)
Mailed(tab) == [tab EXCEPT !.otp = mails + 1]

(* handleLogin after the password: loadMfaConfig reads the server's copy   *)
(* (the local one was removed at sign-out), DEFAULT_MFA if that fails.     *)
loadMfaConfig ==
    /\ mtab.page = "out" /\ mails < MailMax
    /\ \E read \in {TRUE} \cup (IF May("lost") THEN {FALSE} ELSE {}) :
          LET cfg == IF read THEN stored ELSE DEFAULT_MFA
              asks == IF Has(cfg, "totp") THEN "totp" ELSE "email"
              tab == [mtab EXCEPT !.cache = cfg, !.method = asks]
          IN /\ fachist' = [fachist EXCEPT !.causes = @ \cup (IF read /\ wire = <<>> THEN {} ELSE {"unread"}),
                                       !.mails = IF ~Has(cfg, "totp") /\ Has(cfg, "email")
                                                 THEN @ + 1 ELSE @]
             /\ mtab' = IF Has(cfg, "totp") THEN [tab EXCEPT !.page = "code"]
                        ELSE IF Has(cfg, "email") THEN [Mailed(tab) EXCEPT !.page = "code"]
                        ELSE [tab EXCEPT !.page = "in"]
    /\ UNCHANGED <<mmenu, wire, stored, quick, now>>

handleSwitchMfaMethod ==
    LET next == IF mtab.method = "totp" THEN "email" ELSE "totp"
        tab == [mtab EXCEPT !.method = next]
    IN /\ mtab.page = "code" /\ mails < MailMax
       /\ mtab' = IF next = "email" THEN Mailed(tab) ELSE tab
       /\ fachist' = [fachist EXCEPT !.mails = IF next = "email" THEN @ + 1 ELSE @]
       /\ UNCHANGED <<mmenu, wire, stored, quick, now>>

(* The garbage collection of _usedTotpPeriods *)
Collected(used) == {p \in used : now < p + 2}

(* verifyTotp: the current period and the next, once each; a code has      *)
(* exactly the digits of the secret's format.                              *)
verifyTotp(digits, p) ==
    /\ digits = LoginBoxes
    /\ p \in {now, now + 1}
    /\ p \notin Collected(mtab.used)

Passed(tab, code) ==
    /\ mtab' = [tab EXCEPT !.page = "in"]
    /\ fachist' = [fachist EXCEPT !.accepted = Append(@, code)]

Refused(tab, correct) ==
    /\ mtab' = tab
    /\ fachist' = [fachist EXCEPT !.refused = @ \/ correct]

(* handleTotpSubmit with the app's code of a period: the current one, or   *)
(* one of a clock that is a period off.                                    *)
TotpSubmit(p) ==
    /\ mtab.page = "code" /\ mtab.method = "totp"
    /\ \E f \in Of(getMfaConfig, "totp") :
          LET checked == [mtab EXCEPT !.used = IF f[2] = LoginBoxes THEN Collected(@) ELSE @]
          IN IF verifyTotp(f[2], p)
             THEN Passed([checked EXCEPT !.used = @ \cup {p}], <<"app", p>>)
             ELSE Refused(checked, p = now /\ p \notin mtab.used)
    /\ UNCHANGED <<mmenu, wire, stored, quick, now>>

(* verifyEmailCode: the code is cleared whatever the outcome. *)
MailSubmit(right) ==
    /\ mtab.page = "code" /\ mtab.method = "email"
    /\ IF right /\ mtab.otp # 0
       THEN Passed([mtab EXCEPT !.otp = 0], <<"mail", mtab.otp>>)
       ELSE Refused([mtab EXCEPT !.otp = 0], FALSE)
    /\ UNCHANGED <<mmenu, wire, stored, quick, now>>

(* handleLogout and performLock: clearMfaCache; requests go on. *)
SignOutMfa ==
    /\ mtab.page = "in"
    /\ mtab' = [mtab EXCEPT !.page = "out", !.cache = NoConfig, !.waits = {}]
    /\ UNCHANGED <<mmenu, wire, stored, quick, now, fachist>>

(* The page is reloaded.  The effect of AppLayout that would read the      *)
(* configuration returns, as the keys are being restored, and is not run   *)
(* again: its dependencies do not change.                                  *)
PageRefresh ==
    /\ May("refresh") /\ mtab.page \in {"in", "code"}
    /\ mtab' = Fresh("in", NoConfig)
    /\ quick' = [quick EXCEPT !.shown = quick.local]
    /\ fachist' = [fachist EXCEPT !.accepted = <<>>]
    /\ UNCHANGED <<mmenu, wire, stored, now>>

PeriodEnds ==
    /\ May("time") /\ now < PeriodMax
    /\ now' = now + 1
    /\ UNCHANGED <<mmenu, mtab, wire, stored, quick, fachist>>

-----------------------------------------------------------------------------
MfaInit ==
    /\ mmenu \in MfaMenus
    /\ stored = mmenu.stored
    /\ mtab = Fresh("out", NoConfig)
    /\ wire = <<>>
    /\ quick = [local |-> FALSE, daemon |-> FALSE, shown |-> FALSE]
    /\ now = 1
    /\ fachist = [enrolled |-> mmenu.stored.on, accepted |-> <<>>, refused |-> FALSE, causes |-> {},
                changes |-> 0, mails |-> 0]

MfaNext ==
    \/ Deliver
    \/ handleTotpVerify \/ handleTotpRemove \/ handleEmailRemove
    \/ \E i \in KeyIds : handleWebAuthnRemove(i) \/ handlePasskeyRemove(i) \/ handlePlatformRemove(i)
    \/ handlePasswordlessToggle \/ handlePasswordLoginToggle
    \/ EnrolStart(<<"email", 0>>)
    \/ \E k \in {"webauthn", "passkey", "platform"}, i \in KeyIds : EnrolStart(<<k, i>>)
    \/ \E w \in mtab.waits : \/ registerWebAuthn(w) \/ registerPasskey(w) \/ registerPlatformAuth(w)
                             \/ handleEmailVerify(w) \/ EnrolFails(w)
    \/ handleQuickUnlockConfirm \/ handleToggleQuickUnlock
    \/ loadMfaConfig \/ handleSwitchMfaMethod
    \/ (\E p \in {now - 1, now, now + 1} : TotpSubmit(p)) \/ (\E right \in BOOLEAN : MailSubmit(right))
    \/ SignOutMfa \/ PageRefresh \/ PeriodEnds

-----------------------------------------------------------------------------
(* A factor the user enrolled and did not remove is in the configuration   *)
(* of the server once all requests arrived, unless one was lost, overtook  *)
(* another, or the configuration was changed when it had not been read     *)
(* (after a reload of the page, or a read at sign-in that failed or was    *)
(* earlier than the last request).                                         *)
FactorsKept ==
    (wire = <<>> /\ fachist.causes = {}) => fachist.enrolled \subseteq stored.on

(* Within one load of the page no code, of the app or of an e-mail, lets   *)
(* the user in twice ("MED-04: rejects codes that have already been used   *)
(* in the same period (replay)").                                          *)
CodeOnce ==
    \A i, j \in DOMAIN fachist.accepted : i # j => fachist.accepted[i] # fachist.accepted[j]

(* The daemon holds no quick-unlock entry whose other half this browser    *)
(* has thrown away, whatever call of the daemon failed.                    *)
QuickPaired == quick.daemon => quick.local

(* The second factors of the account are those the user set up, whatever   *)
(* order the dialogs' answers arrive in.                                   *)
FactorsSound == FactorsKept /\ CodeOnce /\ QuickPaired
=============================================================================
