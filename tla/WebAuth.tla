------------------------------ MODULE WebAuth ------------------------------
(***************************************************************************)
(* Signing in to the web server: the handlers of routes/auth (login,       *)
(* login/finish, register, password, recovery-key, verify-password,        *)
(* sessions, logout) and those of routes/vaultRoutes.js that change what a *)
(* login must present (mfa, duress-enforce) or remove the account (wipe),  *)
(* for one email address and several requests at once.                     *)
(*                                                                         *)
(* The server is written to run as several processes (the deployment pins  *)
(* one, and a restart overlaps two).  A handler yields at every await, so  *)
(* a step below is what one request does to the shared stores between two  *)
(* awaits; users.enc, the session file and mfa_pending.enc are each read   *)
(* and written under a lock file, so an update is one step.                *)
(*                                                                         *)
(* Abstractions.  A password or recovery key is a pair of its kind and its *)
(* number, and a hash is the number it was made from.  Every timeout is a  *)
(* step that may come at any time.  The failure count of a lockout bucket  *)
(* stops at LockAfter, where the schedule starts to lock.  The per-address *)
(* limiter and the Argon2 gate (module StateStore) may turn a request away *)
(* at any time.  revocationEpoch is written and never read; it is left     *)
(* out, and so are replies, cookies, audit events and the device list that *)
(* login keeps (module DeviceLog).                                         *)
(***************************************************************************)
EXTENDS Naturals, Sequences, FiniteSets, Functions

CONSTANTS
    Reqs,         \* requests served at the same time
    Menus,        \* what a behaviour starts from and its bounds: the factors
                  \* enforced at first (mfa), the operations offered (ops),
                  \* and how many passwords (pw), recovery keys (rk), sessions
                  \* (jti) and partial tokens (tok) it goes through
    Enforce,      \* bound: the sets of factors that PUT /api/vault/mfa sends
    SessIds,      \* bound: account ids the address goes through
    SessCap,      \* sessions kept per account (20 in the code)
    LockAfter,    \* first index of the lockout schedules that locks
    MfaMax,       \* MFA_MAX_ATTEMPTS
    DuressMax     \* duressEnforce.maxAttempts, at least 1

Factors == {"totp", "email"}

ASSUME ReqsAssumption == Reqs # {} /\ IsFiniteSet(Reqs)
ASSUME MenusAssumption ==
    /\ Menus \subseteq [mfa : SUBSET Factors, ops : SUBSET STRING,
                        pw : Nat, rk : Nat, jti : Nat, tok : Nat]
    /\ Enforce \subseteq SUBSET Factors
ASSUME LimitsAssumption == LockAfter \in Nat \ {0} /\ DuressMax \in Nat \ {0}
ASSUME SessIdsAssumption == SessIds \subseteq Nat \ {0} /\ 1 \in SessIds

VARIABLES
    menu,       \* the member of Menus that this behaviour follows
    acc,        \* the user record, id = 0 when there is none
    sessions,   \* jtis in the session file of each account id, oldest first
    bkt,        \* the lockout buckets lockout:acct and lockout:fp
    mfaFails,   \* mfa:fail:<user>
    mfaLock,    \* mfa:lock:<user>
    pend,       \* mfa_pending.enc: tokens and email codes that are alive
    totpUsed,   \* the current TOTP period is in _usedTotpPeriods
    req,        \* what each request is doing
    fresh,      \* last numbers given out
    minted,     \* history: sessions that each partial token led to
    judged      \* history: codes and passwords judged since the lock came on

mfaVars == <<mfaFails, mfaLock, pend, totpUsed>>

noteVars == <<menu, fresh, minted, judged>>

waVars == <<acc, sessions, bkt, req, mfaVars, noteVars>>

Buckets == {"acct", "fp"}

Open == [n |-> 0, locked |-> FALSE]

NoAcc == [id |-> 0, pw |-> 0, legacy |-> FALSE, rk |-> 0, mfa |-> {},
          secret |-> FALSE, armed |-> FALSE, dcnt |-> 0]

WaIdle == [pc |-> "idle", op |-> "none", cred |-> <<"none", 0>>, snap |-> NoAcc,
         seen |-> [b \in Buckets |-> 0], tok |-> 0]

NoPend == [tokens |-> {}, otps |-> {}]

(* What is typed at the login form: anything, or what the account holds.   *)
Typed ==
    IF "guess" \in menu.ops
    THEN {<<"pw", n>> : n \in 0..fresh.pw} \cup {<<"rk", n>> : n \in 1..fresh.rk}
    ELSE {<<"pw", acc.pw>>} \cup {<<"rk", n>> : n \in {acc.rk} \ {0}}

Codes == {<<"code", c>> : c \in {"good", "bad", "none"}}

(* authMiddleware and requireAuth: the cookie names a session that is in   *)
(* the file of an account that still exists.                               *)
SignedIn(j) == acc.id # 0 /\ j \in Range(sessions[acc.id])

At(r, pc) == req[r].pc = pc

Start(r, op, rec) ==
    /\ op \in menu.ops
    /\ At(r, "idle")
    /\ req' = [req EXCEPT ![r] = [rec EXCEPT !.op = op]]

Go(r, pc) == req' = [req EXCEPT ![r].pc = pc]

Done(r) == req' = [req EXCEPT ![r] = WaIdle]

(* updateUserById(snap.id): the record changes only if it is still there.  *)
Update(r, rec) == acc' = IF acc.id = req[r].snap.id THEN rec ELSE acc

-----------------------------------------------------------------------------
(* Pieces shared by the handlers *)

(* verifyPassword against the record the handler read. *)
Matches(rec, cred) == rec.pw > 0 /\ cred = <<"pw", rec.pw>>

MatchesRk(rec, cred) == rec.rk > 0 /\ cred = <<"rk", rec.rk>>

(* Two records carry the same password hash. *)
SameHash(a, b) == a.pw = b.pw /\ a.legacy = b.legacy

(* recordSession appends and keeps the last SessCap. *)
RecordSession(i, j) ==
    LET all == Append(sessions[i], j)
    IN SubSeq(all, IF Len(all) > SessCap THEN Len(all) - SessCap + 1 ELSE 1,
              Len(all))

(* recordAccountFailure and recordFingerprintFailure write what the count  *)
(* they read implies, an open bucket included.                             *)
FailedOnce(n) ==
    LET m == IF n < LockAfter THEN n + 1 ELSE LockAfter
    IN [n |-> m, locked |-> m = LockAfter]

(* Account failures are not counted for an armed account. *)
Counted(snap) == IF snap.armed THEN {"fp"} ELSE Buckets

(* A code or password has been judged; what was sent is not needed again.  *)
Judged(r, ok) ==
    /\ judged' = IF mfaLock THEN judged + 1 ELSE judged
    /\ req' = [req EXCEPT ![r].pc = IF ok THEN "clear" ELSE "failed", ![r].cred = WaIdle.cred,
                          ![r].snap = [NoAcc EXCEPT !.id = req[r].snap.id]]

-----------------------------------------------------------------------------
(* POST /api/auth/login *)

LoginStart(r) ==
    /\ \E c \in Typed :
          Start(r, "login", [WaIdle EXCEPT !.pc = "check", !.cred = c, !.snap = acc])
    /\ UNCHANGED <<acc, sessions, bkt, mfaVars, noteVars>>

(* A locked bucket, or the per-address limiter, ends the request. *)
LoginCheck(r) ==
    /\ At(r, "check")
    /\ \/ Done(r)
       \/ /\ \A b \in Counted(req[r].snap) \cup {"fp"} : ~bkt[b].locked
          /\ Go(r, "verify")
    /\ UNCHANGED <<acc, sessions, bkt, mfaVars, noteVars>>

(* The Argon2 gate may throw; a recovery key may have expired. *)
LoginVerify(r) ==
    LET snap == req[r].snap
        cred == req[r].cred
    IN /\ At(r, "verify")
       /\ \/ Done(r)
          \/ /\ Matches(snap, cred) \/ MatchesRk(snap, cred)
             /\ Go(r, "reset")
          \/ /\ ~Matches(snap, cred)
             /\ Go(r, "failread")
       /\ UNCHANGED <<acc, sessions, bkt, mfaVars, noteVars>>

LoginFailRead(r) ==
    /\ At(r, "failread")
    /\ req' = [req EXCEPT ![r].pc = "failwrite", ![r].seen = [b \in Buckets |-> bkt[b].n]]
    /\ UNCHANGED <<acc, sessions, bkt, mfaVars, noteVars>>

LoginFailWrite(r) ==
    /\ At(r, "failwrite")
    /\ bkt' = [b \in Buckets |-> IF b \in Counted(req[r].snap)
                                 THEN FailedOnce(req[r].seen[b]) ELSE bkt[b]]
    /\ IF req[r].snap.armed
       THEN req' = [req EXCEPT ![r].pc = "duress", ![r].seen = WaIdle.seen]
       ELSE Done(r)
    /\ UNCHANGED <<acc, sessions, mfaVars, noteVars>>

(* Under the lock, if the account is still armed: count, or decide to wipe *)
(* without counting.                                                       *)
LoginDuress(r) ==
    LET hit == acc.id = req[r].snap.id /\ acc.armed
    IN /\ At(r, "duress")
       /\ IF hit /\ acc.dcnt + 1 >= DuressMax
          THEN acc' = acc /\ Go(r, "wipedir")
          ELSE /\ acc' = IF hit THEN [acc EXCEPT !.dcnt = @ + 1] ELSE acc
               /\ Done(r)
       /\ UNCHANGED <<sessions, bkt, mfaVars, noteVars>>

LoginReset(r) ==
    /\ At(r, "reset")
    /\ bkt' = [b \in Buckets |-> Open]
    /\ Go(r, "update")
    /\ UNCHANGED <<acc, sessions, mfaVars, noteVars>>

(* Mutant of LoginUpdate: the stronger hash is stored without comparing.   *)
LoginUpdateBlind(r) ==
    LET snap == req[r].snap
        used == ~Matches(snap, req[r].cred)
        rec  == [acc EXCEPT !.rk = IF used THEN 0 ELSE @, !.dcnt = 0]
    IN /\ At(r, "update")
       /\ IF acc.id # snap.id THEN acc' = acc /\ Done(r)
          ELSE /\ \/ acc' = rec
                  \/ /\ snap.legacy
                     /\ acc' = [rec EXCEPT !.pw = snap.pw, !.legacy = FALSE]
               /\ req' = [req EXCEPT ![r].pc = "second", ![r].cred = WaIdle.cred,
                         ![r].snap = [NoAcc EXCEPT !.id = acc.id, !.mfa = acc.mfa]]
       /\ UNCHANGED <<sessions, bkt, mfaVars, noteVars>>

(* Under the lock: a recovery key that was used is cleared, a hash of an   *)
(* older kind is replaced if it is still the one that was verified (and if *)
(* the gate let the new one be computed).                                  *)
LoginUpdate(r) ==
    LET snap == req[r].snap
        used == ~Matches(snap, req[r].cred)
        rec  == [acc EXCEPT !.rk = IF used THEN 0 ELSE @, !.dcnt = 0]
    IN /\ At(r, "update")
       /\ IF acc.id # snap.id THEN acc' = acc /\ Done(r)
          ELSE /\ \/ acc' = rec
                  \/ /\ snap.legacy /\ SameHash(acc, snap)
                     /\ acc' = [rec EXCEPT !.pw = snap.pw, !.legacy = FALSE]
               /\ req' = [req EXCEPT ![r].pc = "second", ![r].cred = WaIdle.cred,
                         ![r].snap = [NoAcc EXCEPT !.id = acc.id, !.mfa = acc.mfa]]
       /\ UNCHANGED <<sessions, bkt, mfaVars, noteVars>>

(* What the record asks for besides the password.  A registered hardware   *)
(* key without an enforced code ends the login here.                       *)
LoginSecond(r) ==
    /\ At(r, "second")
    /\ \/ req[r].snap.mfa = {} /\ Go(r, "jwt")
       \/ req[r].snap.mfa = {} /\ Done(r)
       \/ req[r].snap.mfa # {} /\ mfaLock /\ Done(r)
       \/ req[r].snap.mfa # {} /\ ~mfaLock /\ Go(r, "token")
    /\ UNCHANGED <<acc, sessions, bkt, mfaVars, noteVars>>

(* issueMfaToken, and storeEmailOtp in a second update of the file. *)
LoginToken(r) ==
    /\ At(r, "token")
    /\ fresh.tok < menu.tok
    /\ fresh' = [fresh EXCEPT !.tok = @ + 1]
    /\ pend' = [pend EXCEPT !.tokens = @ \cup {<<fresh.tok + 1, req[r].snap.id>>}]
    /\ IF "email" \in req[r].snap.mfa
       THEN req' = [req EXCEPT ![r].pc = "otp", ![r].tok = fresh.tok + 1] ELSE Done(r)
    /\ UNCHANGED <<acc, sessions, bkt, menu, mfaFails, mfaLock, totpUsed,
                   minted, judged>>

LoginOtp(r) ==
    /\ At(r, "otp")
    /\ pend' = [pend EXCEPT !.otps = @ \cup {req[r].tok}]
    /\ Done(r)
    /\ UNCHANGED <<acc, sessions, bkt, mfaFails, mfaLock, totpUsed, noteVars>>

(* issueJwt and recordSession; the last step of login, login/finish and    *)
(* register.                                                               *)
IssueSession(r) ==
    LET i == req[r].snap.id
        t == req[r].tok
    IN /\ At(r, "jwt")
       /\ fresh.jti < menu.jti
       /\ fresh' = [fresh EXCEPT !.jti = @ + 1]
       /\ sessions' = [sessions EXCEPT ![i] = RecordSession(i, fresh.jti + 1)]
       /\ minted' = [minted EXCEPT ![t] = IF t = 0 THEN 0 ELSE @ + 1]
       /\ Done(r)
       /\ UNCHANGED <<acc, bkt, mfaVars, menu, judged>>

-----------------------------------------------------------------------------
(* POST /api/auth/login/finish *)

(* Mutant of FinishStart: the token is looked up and not deleted. *)
FinishStartKeeps(r) ==
    /\ \E t \in 1..fresh.tok, c \in Codes :
          /\ \E i \in SessIds : <<t, i>> \in pend.tokens
          /\ Start(r, "finish", [WaIdle EXCEPT !.pc = "locked", !.cred = c, !.tok = t,
                     !.snap = [NoAcc EXCEPT !.id =
                                 CHOOSE i \in SessIds : <<t, i>> \in pend.tokens]])
    /\ UNCHANGED <<acc, sessions, bkt, mfaVars, noteVars>>

(* consumeMfaToken: a token that is not in the file ends the request. *)
FinishStart(r) ==
    /\ \E t \in 1..fresh.tok, c \in Codes, i \in SessIds :
          /\ <<t, i>> \in pend.tokens
          /\ pend' = [pend EXCEPT !.tokens = @ \ {<<t, i>>}]
          /\ Start(r, "finish", [WaIdle EXCEPT !.pc = "locked", !.cred = c, !.tok = t,
                                 !.snap = [NoAcc EXCEPT !.id = i]])
    /\ UNCHANGED <<acc, sessions, bkt, mfaFails, mfaLock, totpUsed, noteVars>>

(* Mutant of NotLockedOut: the lock is not looked at. *)
NotLockedOutSkips(r) ==
    /\ At(r, "locked")
    /\ IF acc.id = req[r].snap.id
       THEN req' = [req EXCEPT ![r].pc = "judge", ![r].snap = acc] ELSE Done(r)
    /\ UNCHANGED <<acc, sessions, bkt, mfaVars, noteVars>>

(* findUserById and isMfaLocked, in login/finish, verify-password and      *)
(* wipe.                                                                   *)
NotLockedOut(r) ==
    /\ At(r, "locked")
    /\ IF acc.id = req[r].snap.id /\ ~mfaLock
       THEN req' = [req EXCEPT ![r].pc = "judge", ![r].snap = acc] ELSE Done(r)
    /\ UNCHANGED <<acc, sessions, bkt, mfaVars, noteVars>>

(* verifyTotpCode accepts a code once per period; an email code is taken   *)
(* from the file whatever was supplied; an account that no longer enforces *)
(* a code passes.                                                          *)
FinishCode(r) ==
    LET snap == req[r].snap
        code == req[r].cred[2]
        totp == "totp" \in snap.mfa /\ snap.secret
        mail == ~totp /\ "email" \in snap.mfa
        ok   == \/ totp /\ code = "good" /\ ~totpUsed
                \/ mail /\ code = "good" /\ req[r].tok \in pend.otps
                \/ ~totp /\ ~mail
    IN /\ At(r, "judge") /\ req[r].op = "finish"
       /\ IF (totp \/ mail) /\ code = "none"
          THEN Done(r) /\ UNCHANGED <<pend, totpUsed, judged>>
          ELSE /\ Judged(r, ok)
               /\ totpUsed' = (totpUsed \/ (totp /\ code = "good"))
               /\ pend' = IF mail THEN [pend EXCEPT !.otps = @ \ {req[r].tok}]
                                  ELSE pend
       /\ UNCHANGED <<acc, sessions, bkt, mfaFails, mfaLock, menu, fresh,
                      minted>>

(* recordMfaFailure counts, and then sets the lock and drops the count. *)
MfaFailed(r) ==
    /\ At(r, "failed")
    /\ mfaFails' = mfaFails + 1
    /\ IF mfaFails + 1 >= MfaMax THEN Go(r, "lockout") ELSE Done(r)
    /\ UNCHANGED <<acc, sessions, bkt, mfaLock, pend, totpUsed, noteVars>>

MfaLockout(r) ==
    /\ At(r, "lockout")
    /\ mfaLock' = TRUE
    /\ mfaFails' = 0
    /\ judged' = IF mfaLock THEN judged ELSE 0
    /\ Done(r)
    /\ UNCHANGED <<acc, sessions, bkt, pend, totpUsed, menu, fresh, minted>>

(* clearMfaFailure, and on to what the handler does next. *)
MfaCleared(r) ==
    /\ At(r, "clear")
    /\ mfaFails' = 0
    /\ mfaLock' = FALSE
    /\ judged' = 0
    /\ CASE req[r].op = "finish" -> Go(r, "jwt")
         [] req[r].op = "wipe"   -> Go(r, "wipedir")
         [] OTHER                -> Done(r)
    /\ UNCHANGED <<acc, sessions, bkt, pend, totpUsed, menu, fresh, minted>>

-----------------------------------------------------------------------------
(* Handlers that ask for the password again, and the wipe *)

(* POST /api/auth/verify-password and POST /api/vault/wipe *)
Reauth(r) ==
    /\ \E op \in {"verify", "wipe"}, c \in {<<"pw", 0>>, <<"pw", acc.pw>>}, j \in 1..fresh.jti :
          /\ SignedIn(j)
          /\ Start(r, op, [WaIdle EXCEPT !.pc = "locked", !.cred = c, !.snap = acc])
    /\ UNCHANGED <<acc, sessions, bkt, mfaVars, noteVars>>

ReauthVerify(r) ==
    /\ At(r, "judge") /\ req[r].op \in {"verify", "wipe"}
    /\ \/ Done(r) /\ judged' = judged
       \/ Judged(r, Matches(req[r].snap, req[r].cred))
    /\ UNCHANGED <<acc, sessions, bkt, mfaVars, menu, fresh, minted>>

(* performServerWipe removes the directory and then the record. *)
WipeDir(r) ==
    /\ At(r, "wipedir")
    /\ sessions' = [sessions EXCEPT ![req[r].snap.id] = <<>>]
    /\ Go(r, "wipeuser")
    /\ UNCHANGED <<acc, bkt, mfaVars, noteVars>>

WipeUser(r) ==
    /\ At(r, "wipeuser")
    /\ Update(r, NoAcc)
    /\ Done(r)
    /\ UNCHANGED <<sessions, bkt, mfaVars, noteVars>>

-----------------------------------------------------------------------------
(* POST /api/auth/password and POST /api/auth/recovery-key: the password   *)
(* is verified against a copy of the record, and the update is refused if  *)
(* the record has another hash by then.                                    *)

PasswordStart(r) ==
    /\ \E op \in {"password", "recovery"}, j \in 1..fresh.jti :
          /\ SignedIn(j)
          /\ Start(r, op, [WaIdle EXCEPT !.pc = op, !.cred = <<"pw", acc.pw>>, !.snap = acc])
    /\ UNCHANGED <<acc, sessions, bkt, mfaVars, noteVars>>

PasswordSet(r) ==
    /\ At(r, "password") /\ fresh.pw < menu.pw
    /\ fresh' = [fresh EXCEPT !.pw = @ + 1]
    /\ IF acc.id = req[r].snap.id /\ SameHash(acc, req[r].snap)
       THEN /\ acc' = [acc EXCEPT !.pw = fresh.pw + 1, !.legacy = FALSE]
            /\ Go(r, "pwclear")
       ELSE acc' = acc /\ Done(r)
    /\ UNCHANGED <<sessions, bkt, mfaVars, menu, minted, judged>>

(* Every session goes, in a step of its own. *)
PasswordClear(r) ==
    /\ At(r, "pwclear")
    /\ sessions' = [sessions EXCEPT ![req[r].snap.id] = <<>>]
    /\ Done(r)
    /\ UNCHANGED <<acc, bkt, mfaVars, noteVars>>

RecoverySet(r) ==
    /\ At(r, "recovery") /\ fresh.rk < menu.rk
    /\ fresh' = [fresh EXCEPT !.rk = @ + 1]
    /\ acc' = IF acc.id = req[r].snap.id /\ SameHash(acc, req[r].snap)
              THEN [acc EXCEPT !.rk = fresh.rk + 1] ELSE acc
    /\ Done(r)
    /\ UNCHANGED <<sessions, bkt, mfaVars, menu, minted, judged>>

-----------------------------------------------------------------------------
(* POST /api/auth/register *)

RegisterStart(r) ==
    /\ acc.id = 0
    /\ Start(r, "register", [WaIdle EXCEPT !.pc = "insert"])
    /\ UNCHANGED <<acc, sessions, bkt, mfaVars, noteVars>>

(* insertUser refuses an address that was taken since; the gate may refuse *)
(* the hash.                                                               *)
RegisterInsert(r) ==
    /\ At(r, "insert")
    /\ \/ Done(r) /\ UNCHANGED <<acc, fresh>>
       \/ /\ acc.id = 0 /\ fresh.pw < menu.pw /\ fresh.id + 1 \in SessIds
          /\ fresh' = [fresh EXCEPT !.pw = @ + 1, !.id = @ + 1]
          /\ acc' = [NoAcc EXCEPT !.id = fresh.id + 1, !.pw = fresh.pw + 1]
          /\ req' = [req EXCEPT ![r].pc = "jwt", ![r].snap = acc']
    /\ UNCHANGED <<sessions, bkt, mfaVars, menu, minted, judged>>

-----------------------------------------------------------------------------
(* Handlers of a signed-in user that take one update *)

(* POST /api/auth/logout *)
Logout(j) ==
    /\ "logout" \in menu.ops /\ SignedIn(j)
    /\ sessions' = [sessions EXCEPT ![acc.id] = SelectSeq(@, LAMBDA k : k # j)]
    /\ UNCHANGED <<acc, bkt, req, mfaVars, noteVars>>

(* POST /api/auth/sessions/revoke-others *)
RevokeOthers(j) ==
    /\ "logout" \in menu.ops /\ SignedIn(j)
    /\ sessions' = [sessions EXCEPT ![acc.id] = SelectSeq(@, LAMBDA k : k = j)]
    /\ UNCHANGED <<acc, bkt, req, mfaVars, noteVars>>

(* PUT /api/vault/mfa: a secret that is not sent is kept unless TOTP is    *)
(* switched off.                                                           *)
PutMfa(j, enforce, sent) ==
    /\ "mfa" \in menu.ops /\ SignedIn(j)
    /\ acc' = [acc EXCEPT !.mfa = enforce,
                          !.secret = sent \/ ("totp" \in enforce /\ @)]
    /\ UNCHANGED <<sessions, bkt, req, mfaVars, noteVars>>

(* PUT /api/vault/duress-enforce, and then resetAccountFailures *)
PutDuress(r) ==
    /\ \E j \in 1..fresh.jti : SignedIn(j)
    /\ Start(r, "duress", [WaIdle EXCEPT !.pc = "unlock"])
    /\ \E on \in BOOLEAN : acc' = [acc EXCEPT !.armed = on, !.dcnt = 0]
    /\ UNCHANGED <<sessions, bkt, mfaVars, noteVars>>

DuressUnlock(r) ==
    /\ At(r, "unlock")
    /\ bkt' = [bkt EXCEPT !["acct"] = Open]
    /\ Done(r)
    /\ UNCHANGED <<acc, sessions, mfaVars, noteVars>>

(* DELETE /api/vault/duress-enforce *)
DeleteDuress(j) ==
    /\ "duress" \in menu.ops /\ SignedIn(j) /\ acc.armed
    /\ acc' = [acc EXCEPT !.armed = FALSE, !.dcnt = 0]
    /\ UNCHANGED <<sessions, bkt, req, mfaVars, noteVars>>

-----------------------------------------------------------------------------
(* Timeouts.  The state store drops an entry at the end of its TTL; a      *)
(* count is kept at least as long as its lock.                             *)

BucketUnlock(b) ==
    /\ bkt[b].locked
    /\ bkt' = [bkt EXCEPT ![b].locked = FALSE]
    /\ UNCHANGED <<acc, sessions, req, mfaVars, noteVars>>

BucketForget(b) ==
    /\ bkt[b].n > 0 /\ ~bkt[b].locked
    /\ bkt' = [bkt EXCEPT ![b] = Open]
    /\ UNCHANGED <<acc, sessions, req, mfaVars, noteVars>>

MfaWindowEnds ==
    /\ mfaFails > 0
    /\ mfaFails' = 0
    /\ UNCHANGED <<acc, sessions, bkt, req, mfaLock, pend, totpUsed, noteVars>>

MfaLockEnds ==
    /\ mfaLock
    /\ mfaLock' = FALSE
    /\ judged' = 0
    /\ UNCHANGED <<acc, sessions, bkt, req, mfaFails, pend, totpUsed, menu,
                   fresh, minted>>

(* withMfaPendingLock drops what is older than PARTIAL_MFA_TTL_MS. *)
PendingExpires ==
    /\ \/ \E e \in pend.tokens : pend' = [pend EXCEPT !.tokens = @ \ {e}]
       \/ \E t \in pend.otps : pend' = [pend EXCEPT !.otps = @ \ {t}]
    /\ UNCHANGED <<acc, sessions, bkt, req, mfaFails, mfaLock, totpUsed,
                   noteVars>>

TotpPeriodEnds ==
    /\ totpUsed
    /\ totpUsed' = FALSE
    /\ UNCHANGED <<acc, sessions, bkt, req, mfaFails, mfaLock, pend, noteVars>>

-----------------------------------------------------------------------------
Owner == [NoAcc EXCEPT !.id = 1, !.pw = 1, !.legacy = TRUE, !.mfa = menu.mfa,
                       !.secret = "totp" \in menu.mfa]

(* One account whose hash is of an older kind, signed in once. *)
WaInit ==
    /\ menu \in Menus
    /\ acc = Owner
    /\ sessions = [i \in SessIds |-> IF i = 1 THEN <<1>> ELSE <<>>]
    /\ bkt = [b \in Buckets |-> Open]
    /\ mfaFails = 0 /\ mfaLock = FALSE /\ totpUsed = FALSE
    /\ pend = NoPend
    /\ req = [r \in Reqs |-> WaIdle]
    /\ fresh = [pw |-> 1, rk |-> 0, jti |-> 1, tok |-> 0, id |-> 1]
    /\ minted = [t \in 0..menu.tok |-> 0]
    /\ judged = 0

(* What a request that has started goes on to do. *)
Continue(r) ==
    \/ LoginCheck(r) \/ LoginVerify(r) \/ LoginFailRead(r)
    \/ LoginFailWrite(r) \/ LoginDuress(r)
    \/ LoginReset(r) \/ LoginUpdate(r) \/ LoginSecond(r) \/ LoginToken(r)
    \/ LoginOtp(r) \/ IssueSession(r) \/ NotLockedOut(r) \/ FinishCode(r)
    \/ MfaFailed(r) \/ MfaLockout(r) \/ MfaCleared(r) \/ ReauthVerify(r)
    \/ WipeDir(r) \/ WipeUser(r) \/ PasswordSet(r) \/ PasswordClear(r)
    \/ RecoverySet(r) \/ RegisterInsert(r) \/ DuressUnlock(r)

WaNext ==
    \/ \E r \in Reqs :
          \/ Continue(r)
          \/ LoginStart(r) \/ FinishStart(r) \/ Reauth(r) \/ PasswordStart(r)
          \/ RegisterStart(r) \/ PutDuress(r)
    \/ \E j \in 1..fresh.jti :
          \/ Logout(j) \/ RevokeOthers(j) \/ DeleteDuress(j)
          \/ \E e \in Enforce, s \in BOOLEAN : PutMfa(j, e, s)
    \/ \E b \in Buckets : BucketUnlock(b) \/ BucketForget(b)
    \/ MfaWindowEnds \/ MfaLockEnds \/ PendingExpires \/ TotpPeriodEnds

WaSpec == WaInit /\ [][WaNext]_waVars

-----------------------------------------------------------------------------
(* Properties *)

(* The token that login hands out when a second factor is due leads to one *)
(* session at most, however many login/finish requests present it and      *)
(* however their steps interleave (consumeMfaToken in utils.js).           *)
TokenOnce == \A t \in 1..menu.tok : minted[t] <= 1

(* Once recordMfaFailure has set the lock, the only codes and passwords    *)
(* still judged are those of requests that had passed isMfaLocked before:  *)
(* at most one for every other request.                                    *)
NoGuessesWhenLocked == judged < Cardinality(Reqs)

(* While duress protection is armed the stored count stays below the       *)
(* limit, so the failure that reaches it decides on the wipe and no later  *)
(* one is needed, whatever logins succeed, fail or re-arm meanwhile.       *)
DuressBudget == acc.armed => acc.dcnt < DuressMax

(* A password or a recovery key is replaced only by a request that         *)
(* verified the password against the hash being replaced, so of two        *)
(* changes that both verified the same old password one is refused with    *)
(* 409.                                                                    *)
ChangeVouched ==
    (acc.id # 0 /\ acc'.id = acc.id /\ (acc'.pw # acc.pw \/ acc'.rk > acc.rk))
    => \E r \in Reqs : /\ At(r, "password") \/ At(r, "recovery")
                       /\ req'[r] # req[r]
                       /\ SameHash(req[r].snap, acc)

(* A full session list loses its oldest entry to a new login, never the    *)
(* one that was just issued and never more than one (recordSession).       *)
NewSessionStays ==
    fresh'.jti > fresh.jti => \E i \in SessIds :
        /\ sessions'[i] # <<>> /\ sessions'[i][Len(sessions'[i])] = fresh'.jti
        /\ Cardinality(Range(sessions[i]) \ Range(sessions'[i])) <= 1

(* What an account has only moves on: changes of its password and recovery *)
(* key are vouched for, a new session stays, and the stored password never *)
(* goes back to an earlier one: the stronger hash that login computes for  *)
(* the password it verified does not replace a password that was changed   *)
(* while it was being computed.                                            *)
AccountMovesOn ==
    [][/\ ChangeVouched
       /\ acc'.id = acc.id => acc'.pw >= acc.pw
       /\ NewSessionStays]_waVars

(* Guessing is limited, one account's codes and one vault's passwords      *)
(* alike, however many requests guess at once.                             *)
GuessesLimited == NoGuessesWhenLocked /\ DuressBudget
=============================================================================
