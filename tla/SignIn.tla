------------------------------- MODULE SignIn -------------------------------
(***************************************************************************)
(* Signing in from a browser: the login page (pages/Login.tsx), the        *)
(* registration page (pages/Register.tsx), the salts of the local keys     *)
(* (crypto/keystore.ts, utils/localCrypto.ts), the client's attempt        *)
(* counters and duress mode (utils/securityModes.ts), and the places that  *)
(* end a session (layouts/AppLayout.tsx, components/Header.tsx,            *)
(* components/Sidebar.tsx).                                                *)
(*                                                                         *)
(* One account, used from several browsers.  A password is right, wrong or *)
(* the duress password.  A key is the salt it is derived with: the key of  *)
(* the salt s opens what was encrypted with it and nothing else.  The      *)
(* server's side is what its replies say (its handlers are in WebAuth).    *)
(***************************************************************************)
EXTENDS Naturals, FiniteSets

CONSTANTS
    Browsers,
    Salts,          \* salts a browser may draw
    NoSalt,
    SignMenus,      \* what behaviours may do: [ops, tries, known, daemon, salt,
                    \* data, disk], tries bounding the submitted passwords
    LockTries,      \* maxAttempts of the default LockoutConfig
    DuressTries     \* the attempts duress mode is armed with

VARIABLES
    lmenu,     \* the menu of this behaviour
    acct,      \* server: registered, cryptoSalt, salt of the vault data, duress flag,
               \* its count, mirror of the duress configuration
    disk,      \* localStorage of each browser
    tab,       \* the tab of each browser: page, state of the page, keys, cookie
    lhist      \* history: submitted passwords, wrong ones since a browser last
               \* signed in, browsers wiped early, salts a user deleted

signVars == <<lmenu, acct, disk, tab, lhist>>

Can(op) == op \in lmenu.ops

Off == [armed |-> FALSE, left |-> 0]
Armed(n) == [armed |-> TRUE, left |-> n]

BlankDisk == [lk |-> NoSalt, lks |-> NoSalt, old |-> NoSalt, made |-> 0, locked |-> FALSE,
              duress |-> Off]

(* A login page that was just opened *)
Opened(cookie) == [page |-> "email", isServer |-> FALSE, known |-> FALSE, pass |-> "none",
                   salt |-> NoSalt, reply |-> "none", head |-> NoSalt, told |-> "nothing",
                   v1 |-> NoSalt, legacy |-> NoSalt, cookie |-> cookie, late |-> FALSE]

Signed(b) == tab[b].page = "vault"

-----------------------------------------------------------------------------
(* The duress configuration and the attempt counters *)

(* getDuressModeConfigFull: with a session the mirror of the server is the *)
(* configuration, and replaces the local one.                              *)
getDuressModeConfigFull(b) == IF tab[b].cookie /\ acct.live THEN acct.mirror ELSE disk[b].duress

(* saveDuressModeConfig: the local copy, and the mirror within a session. *)
Mirrored(b, cfg) == IF tab[b].cookie /\ acct.live THEN cfg ELSE acct.mirror

(* wipeVaultData: the storage and the keys of this browser.  The account   *)
(* stays: no caller of the login page passes the password of the server.   *)
Wiped(b, due) ==
    /\ disk' = [disk EXCEPT ![b] = BlankDisk]
    /\ tab' = [tab EXCEPT ![b] = Opened(@.cookie)]
    /\ lhist' = [lhist EXCEPT !.early = @ \/ ~due,
                              !.deleted = @ \cup {disk[b].lk, disk[b].lks, disk[b].old}]

(* The duress half of recordFailedLoginAttempt *)
failedDuress(b) ==
    LET cfg == getDuressModeConfigFull(b)
    IN [cfg EXCEPT !.left = IF cfg.armed /\ cfg.left > 0 THEN cfg.left - 1 ELSE 0]

recordFailedLoginAttempt(b) ==
    LET cfg == failedDuress(b)
        made == disk[b].made + 1
        wrong == [c \in Browsers |-> lhist.wrong[c] + 1]
    IN /\ acct' = [acct EXCEPT !.mirror = IF cfg.armed THEN Mirrored(b, cfg) ELSE @]
       /\ IF cfg.armed /\ cfg.left = 0
          THEN Wiped(b, wrong[b] >= DuressTries)
          ELSE /\ disk' = [disk EXCEPT ![b].made = made,
                                       ![b].locked = made >= LockTries,
                                       ![b].duress = cfg]
               /\ tab' = [tab EXCEPT ![b].page = "method", ![b].told = "invalid"]
               /\ lhist' = [lhist EXCEPT !.wrong = wrong]

(* The duress half of resetLoginAttempts *)
Refilled(cfg) == IF cfg.armed THEN Armed(DuressTries) ELSE cfg

(* The end of a sign-in: resetLoginAttempts, and publishCryptoSaltIfNeeded *)
(* for a session, whose answer holds no salt; the request may fail.        *)
Completed(b, sends) ==
    LET cfg == Refilled(getDuressModeConfigFull(b))
        sent == sends /\ ~tab[b].known /\ tab[b].cookie /\ acct.live /\ acct.salt = NoSalt
    IN /\ acct' = [acct EXCEPT !.salt = IF sent THEN disk[b].lk ELSE @,
                               !.mirror = IF cfg.armed THEN Mirrored(b, cfg) ELSE @]
       /\ disk' = [disk EXCEPT ![b].made = 0, ![b].locked = FALSE, ![b].duress = cfg]
       /\ lhist' = [lhist EXCEPT !.wrong[b] = 0]

(* lockedUntil passes; attemptsMade stays. *)
LockEnds(b) ==
    /\ disk[b].locked
    /\ disk' = [disk EXCEPT ![b].locked = FALSE]
    /\ UNCHANGED <<lmenu, acct, tab, lhist>>

(* The requests of a change of duress mode that reach the server: that of  *)
(* the mirror, and that of the flag the server enforces.                   *)
Reaching == IF Can("lost") THEN SUBSET {"mirror", "flag"} ELSE {{"mirror", "flag"}}

DuressSet(b, cfg, sent) ==
    /\ disk' = [disk EXCEPT ![b].duress = cfg]
    /\ acct' = [acct EXCEPT !.mirror = IF "mirror" \in sent THEN Mirrored(b, cfg) ELSE @,
                            !.duress = IF "flag" \in sent THEN cfg.armed ELSE @,
                            !.count = IF "flag" \in sent THEN 0 ELSE @]
    /\ UNCHANGED <<lmenu, tab>>

armDuressMode(b) ==
    /\ Can("duress") /\ Signed(b) /\ tab[b].cookie /\ acct.live /\ ~disk[b].duress.armed
    /\ \E sent \in Reaching : DuressSet(b, Armed(DuressTries), sent)
    /\ lhist' = [lhist EXCEPT !.wrong = [c \in Browsers |-> 0]]

(* disarmDuressMode: requests that fail are ignored. *)
disarmDuressMode(b) ==
    /\ Can("duress") /\ Signed(b) /\ tab[b].cookie /\ acct.live /\ disk[b].duress.armed
    /\ \E sent \in Reaching : DuressSet(b, Off, sent)
    /\ UNCHANGED lhist

-----------------------------------------------------------------------------
(* The e-mail step *)

(* handleEmailContinue.  The login-hints route answers every address alike *)
(* and sends no cryptoSalt, so an answer makes the account a server        *)
(* account, and the salt branch of the handler is not taken.               *)
handleEmailContinue(b) ==
    /\ tab[b].page = "email"
    /\ \E answered \in {TRUE} \cup (IF Can("offline") THEN {FALSE} ELSE {}) :
          tab' = [tab EXCEPT ![b].page = "method",
                             ![b].isServer = answered,
                             ![b].known = @ /\ ~answered]
    /\ UNCHANGED <<lmenu, acct, disk, lhist>>

(* The effect of the login page for a tab that has its token and its keys *)
Redirected(b) ==
    /\ tab[b].page = "email" /\ tab[b].v1 # NoSalt
    /\ tab' = [tab EXCEPT ![b].page = "vault"]
    /\ UNCHANGED <<lmenu, acct, disk, lhist>>

-----------------------------------------------------------------------------
(* handleLogin *)

(* getOrCreateLocalKeySalt; a new salt is a random one. *)
LocalSalt(b) ==
    LET used == {disk[c].lk : c \in Browsers} \cup {disk[c].lks : c \in Browsers}
                \cup {acct.salt, acct.data} \cup lhist.deleted
    IN IF disk[b].lks # NoSalt THEN {disk[b].lks}
       ELSE IF disk[b].lk # NoSalt THEN {disk[b].lk}
       ELSE Salts \ used

checkIsDuressPassword(b, pass) ==
    pass = "duress" /\ disk[b].duress.armed /\ getDuressModeConfigFull(b).armed

(* Up to the attempt to unlock the daemon: refused while locked, the       *)
(* duress password, the salt.                                              *)
LoginSubmit(b, pass) ==
    /\ tab[b].page = "method" /\ ~disk[b].locked
    /\ lhist.tries < lmenu.tries
    /\ IF checkIsDuressPassword(b, pass)
       THEN /\ Wiped(b, TRUE)
            /\ UNCHANGED <<lmenu, acct>>
       ELSE /\ \E s \in LocalSalt(b) :
                  /\ disk' = [disk EXCEPT ![b].lk = s,
                                          ![b].duress = IF @.armed THEN getDuressModeConfigFull(b)
                                                        ELSE @]
                  /\ tab' = [tab EXCEPT ![b].page = "daemon", ![b].pass = pass, ![b].salt = s,
                                        ![b].told = "nothing"]
            /\ lhist' = [lhist EXCEPT !.tries = @ + 1]
            /\ UNCHANGED <<lmenu, acct>>

(* The daemon is asked unless the account is a server account. *)
LoginDaemon(b) ==
    /\ tab[b].page = "daemon"
    /\ IF ~tab[b].isServer /\ lmenu.daemon /\ tab[b].pass = "right"
       THEN /\ tab' = [tab EXCEPT ![b].page = "vault", ![b].v1 = tab[b].salt]
            /\ \E sends \in BOOLEAN : Completed(b, sends)
       ELSE /\ tab' = [tab EXCEPT ![b].page = "sent"]
            /\ UNCHANGED <<acct, disk, lhist>>
    /\ UNCHANGED lmenu

(* The server's answer to POST /api/auth/login *)
LoginAnswer(b) ==
    LET ok == acct.live /\ tab[b].pass = "right"
        wipes == acct.live /\ acct.duress /\ acct.count + 1 >= DuressTries
        answer(r) == tab' = [tab EXCEPT ![b].page = "reply", ![b].reply = r]
    IN /\ tab[b].page = "sent"
       /\ \/ Can("offline") /\ answer("unreachable") /\ UNCHANGED acct
          \/ Can("limited") /\ answer("limited") /\ UNCHANGED acct
          \/ /\ ok
             /\ tab' = [tab EXCEPT ![b].page = "reply", ![b].reply = "ok", ![b].cookie = TRUE,
                                   ![b].head = acct.salt]
             /\ acct' = [acct EXCEPT !.count = 0]
          \/ /\ ~ok /\ ~wipes /\ answer("bad")
             /\ acct' = [acct EXCEPT !.count = IF acct.live /\ acct.duress THEN @ + 1 ELSE @]
          \/ /\ ~ok /\ wipes /\ answer("wipe")
             /\ acct' = [acct EXCEPT !.live = FALSE, !.salt = NoSalt, !.data = NoSalt,
                                     !.duress = FALSE, !.count = 0, !.mirror = Off]
       /\ UNCHANGED <<lmenu, disk, lhist>>

(* Mutant of Primary: the salt of the server is not used. *)
PrimaryLocal(b) == tab[b].salt

(* The salt of the key that encrypts: that of the server when it sent one *)
Primary(b) == IF tab[b].head # NoSalt THEN tab[b].head ELSE tab[b].salt

(* _lk_salt_legacy: the first salt the server's salt took the place of *)
KeptSalt(b) ==
    IF tab[b].head \notin {NoSalt, tab[b].salt} /\ disk[b].old = NoSalt
    THEN tab[b].salt ELSE disk[b].old

(* The key that only decrypts: that of the salt just replaced, or of the   *)
(* one that was kept.                                                      *)
Secondary(b) ==
    IF tab[b].head \notin {NoSalt, tab[b].salt} THEN tab[b].salt
    ELSE IF disk[b].old # tab[b].salt THEN disk[b].old ELSE NoSalt

LoginOk(b) ==
    /\ tab' = [tab EXCEPT ![b].v1 = Primary(b), ![b].legacy = Secondary(b), ![b].page = "code",
                          ![b].known = @ \/ tab[b].head # NoSalt,
                          ![b].late = tab[b].head # NoSalt]
    /\ disk' = [disk EXCEPT ![b].old = KeptSalt(b),
                            ![b].lks = IF tab[b].head # NoSalt THEN tab[b].head ELSE @]
    /\ UNCHANGED <<acct, lhist>>

(* Wrong password: the server's order to wipe comes before the counters of *)
(* the browser.                                                            *)
LoginFailed(b) ==
    \/ tab[b].reply = "bad" /\ recordFailedLoginAttempt(b)
    \/ tab[b].reply = "wipe" /\ Wiped(b, TRUE) /\ UNCHANGED acct

LoginReply(b) ==
    /\ tab[b].page = "reply"
    /\ \/ /\ tab[b].reply \in {"unreachable", "limited"}
          /\ tab' = [tab EXCEPT ![b].page = "method", ![b].told = "later"]
          /\ UNCHANGED <<acct, disk, lhist>>
       \/ LoginFailed(b)
       \/ tab[b].reply = "ok" /\ LoginOk(b)
    /\ UNCHANGED lmenu

(* completeServerLogin, after the code of handleTotpSubmit when there is one *)
completeServerLogin(b) ==
    /\ tab[b].page = "code"
    /\ \E sends \in {TRUE} \cup (IF Can("offline") THEN {FALSE} ELSE {}) : Completed(b, sends)
    /\ tab' = [tab EXCEPT ![b].page = "vault"]
    /\ UNCHANGED lmenu

(* handleRegister, when no daemon takes the registration: the salt goes    *)
(* with it to the server.                                                  *)
handleRegister(b) ==
    /\ Can("register") /\ tab[b].page = "email" /\ ~acct.live /\ ~lmenu.daemon
    /\ \E s \in LocalSalt(b) :
          /\ disk' = [disk EXCEPT ![b].lk = s]
          /\ acct' = [acct EXCEPT !.live = TRUE, !.salt = s]
          /\ tab' = [tab EXCEPT ![b].page = "vault", ![b].v1 = s, ![b].cookie = TRUE,
                                ![b].late = TRUE]
    /\ UNCHANGED <<lmenu, lhist>>

-----------------------------------------------------------------------------
(* After signing in *)

(* decryptFromServer tries the key, then the key that only decrypts. *)
Reads(b) == acct.data \in {NoSalt, tab[b].v1, tab[b].legacy}

(* A list that could be read is changed: encryptForServer has one key. *)
SaveVault(b) ==
    /\ Signed(b) /\ tab[b].cookie /\ acct.live /\ Reads(b)
    /\ acct' = [acct EXCEPT !.data = tab[b].v1]
    /\ UNCHANGED <<lmenu, disk, tab, lhist>>

(* handleLogout, performLogout and performLock *)
SignOut(b) ==
    /\ Signed(b)
    /\ tab' = [tab EXCEPT ![b] = Opened(FALSE)]
    /\ UNCHANGED <<lmenu, acct, disk, lhist>>

(* The hidden-tab timer, or sessionInvalid: the keys go, the cookie stays. *)
KeysCleared(b) ==
    /\ Can("clearKeys") /\ Signed(b)
    /\ tab' = [tab EXCEPT ![b] = Opened(@.cookie)]
    /\ UNCHANGED <<lmenu, acct, disk, lhist>>

(* A page refresh: the keystore is restored without the decrypt-only key. *)
Refresh(b) ==
    /\ Can("refresh") /\ tab[b].page \in {"email", "method", "code", "vault"}
    /\ tab' = [tab EXCEPT ![b] = [Opened(@.cookie) EXCEPT !.v1 = tab[b].v1, !.late = tab[b].late]]
    /\ UNCHANGED <<lmenu, acct, disk, lhist>>

(* The user clears the site's data. *)
ClearSite(b) ==
    /\ Can("clear") /\ tab[b].page = "email"
    /\ disk[b] # BlankDisk
    /\ disk' = [disk EXCEPT ![b] = BlankDisk]
    /\ tab' = [tab EXCEPT ![b] = Opened(FALSE)]
    /\ lhist' = [lhist EXCEPT !.deleted = @ \cup {disk[b].lk, disk[b].lks, disk[b].old}]
    /\ UNCHANGED <<lmenu, acct>>

-----------------------------------------------------------------------------
SignInit ==
    /\ lmenu \in SignMenus
    /\ acct = [live |-> lmenu.known, salt |-> lmenu.salt, data |-> lmenu.data, duress |-> FALSE,
               count |-> 0, mirror |-> Off]
    /\ disk = [b \in Browsers |-> [BlankDisk EXCEPT !.lk = lmenu.disk[b]]]
    /\ tab = [b \in Browsers |-> Opened(FALSE)]
    /\ lhist = [tries |-> 0, wrong |-> [b \in Browsers |-> 0], early |-> FALSE, deleted |-> {}]

SignStep(b) ==
    \/ handleEmailContinue(b) \/ Redirected(b)
    \/ \E pass \in {"right", "wrong", "duress"} : LoginSubmit(b, pass)
    \/ LoginDaemon(b) \/ LoginAnswer(b) \/ LoginReply(b) \/ completeServerLogin(b)
    \/ handleRegister(b) \/ SaveVault(b) \/ SignOut(b) \/ KeysCleared(b) \/ Refresh(b)
    \/ ClearSite(b) \/ LockEnds(b) \/ armDuressMode(b) \/ disarmDuressMode(b)

SignNext == \E b \in Browsers : SignStep(b)

-----------------------------------------------------------------------------
(* A tab that signed in when the server had the salt of the account        *)
(* encrypts with the key of that salt, whatever was in the browser's       *)
(* storage (Login.tsx: "promote it to PRIMARY so future cache clears       *)
(* re-derive the same key").                                               *)
CanonicalKey ==
    \A b \in Browsers :
       (Signed(b) /\ tab[b].late /\ acct.live /\ acct.salt # NoSalt) => tab[b].v1 = acct.salt

(* The salt the stored data needs is never forgotten by the code: it is    *)
(* the server's, or some browser has it, unless a user deleted it there.   *)
SaltRemembered ==
    acct.data # NoSalt =>
       \/ acct.data \in {acct.salt} \cup lhist.deleted
       \/ \E b \in Browsers : acct.data \in {disk[b].lk, disk[b].lks, disk[b].old}

(* A browser erases itself for failed attempts only after as many wrong    *)
(* passwords, since it last signed in, as duress mode was armed with.      *)
WipeEarned == ~lhist.early

(* Signing in, from whichever browser, leads to the account's own key: the *)
(* salt it is derived from is remembered, and only failures in a row while *)
(* protection was armed erase anything.                                    *)
KeyReached == CanonicalKey /\ SaltRemembered /\ WipeEarned
=============================================================================
