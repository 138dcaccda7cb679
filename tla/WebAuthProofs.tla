--------------------------- MODULE WebAuthProofs ---------------------------
(***************************************************************************)
(* Proofs about WebAuth, for every number of requests at once, every       *)
(* account and menu, and every limit.                                      *)
(*                                                                         *)
(* WaInv has one part per property.  TokenInv: a partial token is in one   *)
(* place only, the file or the login/finish that took it out, and has led  *)
(* to no session while it is there.  JudgeInv: the guesses made under the  *)
(* lock and those still to come are fewer than the requests.  Most steps   *)
(* touch neither, and Served says what they do to the request they serve.  *)
(***************************************************************************)
EXTENDS WebAuth, FiniteSetTheorems, TLAPS

Stages ==
    {"idle", "check", "verify", "failread", "failwrite", "duress", "reset", "update", "second",
     "token", "otp", "jwt", "locked", "judge", "failed", "lockout", "clear", "wipedir",
     "wipeuser", "password", "pwclear", "recovery", "insert", "unlock"}

Operations ==
    {"none", "login", "finish", "verify", "wipe", "password", "recovery", "register", "duress"}

Account ==
    [id : Nat, pw : Nat, legacy : BOOLEAN, rk : Nat, mfa : SUBSET Factors,
     secret : BOOLEAN, armed : BOOLEAN, dcnt : Nat]

Sent == ({"pw", "rk", "none"} \X Nat) \cup Codes

Request ==
    [pc : Stages, op : Operations, cred : Sent, snap : Account,
     seen : [Buckets -> Nat], tok : Nat]

Numbers == [pw : Nat, rk : Nat, jti : Nat, tok : Nat, id : Nat]

Pending == [tokens : SUBSET (Nat \X Nat), otps : SUBSET Nat]

Bucket == [n : Nat, locked : BOOLEAN]

(* The types of all but the requests. *)
SharedOK ==
    /\ menu \in Menus
    /\ acc \in Account
    /\ bkt \in [Buckets -> Bucket]
    /\ mfaFails \in Nat /\ mfaLock \in BOOLEAN /\ totpUsed \in BOOLEAN
    /\ pend \in Pending
    /\ fresh \in Numbers
    /\ minted \in [0..menu.tok -> Nat]
    /\ judged \in Nat

WaTypeOK == SharedOK /\ req \in [Reqs -> Request]

(* The request r was let in on a partial token. *)
Holding(r) == req[r].tok # 0 /\ req[r].pc # "otp"

(* A token that is still in the file, or on its way through login/finish,  *)
(* has led to no session, and it is in one place only.                     *)
TokenInv ==
    /\ \A t \in 1..menu.tok :
          /\ minted[t] <= 1
          /\ t > fresh.tok => minted[t] = 0
    /\ \A e \in pend.tokens : e[1] \in 1..fresh.tok /\ minted[e[1]] = 0
    /\ \A e, f \in pend.tokens : e[1] = f[1] => e = f
    /\ \A r \in Reqs :
          Holding(r) => /\ req[r].tok <= fresh.tok /\ minted[req[r].tok] = 0
                        /\ \A e \in pend.tokens : e[1] # req[r].tok
                        /\ \A q \in Reqs : Holding(q) /\ req[q].tok = req[r].tok => q = r
    /\ fresh.tok <= menu.tok

Judging == {r \in Reqs : At(r, "judge")}

(* Requests that passed isMfaLocked before the lock came on have used up   *)
(* their turns or still have them; the one that set the lock has none.     *)
JudgeInv ==
    IF mfaLock THEN judged + Cardinality(Judging) < Cardinality(Reqs) ELSE judged = 0

WaInv ==
    /\ WaTypeOK
    /\ TokenInv
    /\ JudgeInv
    /\ DuressBudget
    /\ acc.pw <= fresh.pw

-----------------------------------------------------------------------------
(* Requests *)

(* The record of no account and the request of nobody have their types. *)
LEMMA IdleTyped == /\ NoAcc \in Account /\ WaIdle \in Request
                   /\ WaIdle.tok = 0 /\ WaIdle.pc = "idle"
  BY DEF NoAcc, WaIdle, Account, Request, Stages, Operations, Sent, Buckets

(* Every counter may be stepped. *)
LEMMA NumbersNext ==
    ASSUME NEW f \in Numbers
    PROVE  /\ [f EXCEPT !.pw = @ + 1] \in Numbers
           /\ [f EXCEPT !.rk = @ + 1] \in Numbers
           /\ [f EXCEPT !.jti = @ + 1] \in Numbers
           /\ [f EXCEPT !.tok = @ + 1] \in Numbers
           /\ [f EXCEPT !.pw = @ + 1, !.id = @ + 1] \in Numbers
  <1>1. [f EXCEPT !.pw = @ + 1] \in Numbers
    BY DEF Numbers
  <1>2. [f EXCEPT !.rk = @ + 1] \in Numbers
    BY DEF Numbers
  <1>3. [f EXCEPT !.jti = @ + 1] \in Numbers
    BY DEF Numbers
  <1>4. [f EXCEPT !.tok = @ + 1] \in Numbers
    BY DEF Numbers
  <1>5. [f EXCEPT !.pw = @ + 1, !.id = @ + 1] \in Numbers
    <2>1. \A m, n \in Nat : [f EXCEPT !.pw = m, !.id = n] \in Numbers
      BY Zenon DEF Numbers
    <2>2. f.pw + 1 \in Nat /\ f.id + 1 \in Nat
      BY DEF Numbers
    <2> QED BY <2>1, <2>2, Zenon
  <1> QED BY <1>1, <1>2, <1>3, <1>4, <1>5

(* Every update of a user record that a handler makes is of its type. *)
LEMMA AccountNext ==
    ASSUME NEW a \in Account, NEW n \in Nat, NEW m \in Nat, NEW b \in BOOLEAN
    PROVE  /\ [a EXCEPT !.dcnt = @ + 1] \in Account
           /\ [a EXCEPT !.pw = n, !.legacy = FALSE] \in Account
           /\ [a EXCEPT !.rk = n] \in Account
           /\ [a EXCEPT !.rk = n, !.dcnt = 0] \in Account
           /\ [a EXCEPT !.armed = b, !.dcnt = 0] \in Account
           /\ [a EXCEPT !.id = n] \in Account
           /\ [a EXCEPT !.id = n, !.pw = m] \in Account
  <1>1. [a EXCEPT !.dcnt = @ + 1] \in Account
    BY DEF Account
  <1>2. [a EXCEPT !.pw = n, !.legacy = FALSE] \in Account
    BY Zenon DEF Account
  <1>3. [a EXCEPT !.rk = n] \in Account
    BY DEF Account
  <1>4. [a EXCEPT !.rk = n, !.dcnt = 0] \in Account
    BY Zenon DEF Account
  <1>5. [a EXCEPT !.armed = b, !.dcnt = 0] \in Account
    BY Zenon DEF Account
  <1>6. [a EXCEPT !.id = n] \in Account
    BY DEF Account
  <1>7. [a EXCEPT !.id = n, !.pw = m] \in Account
    BY Zenon DEF Account
  <1> QED BY <1>1, <1>2, <1>3, <1>4, <1>5, <1>6, <1>7

(* Every update of the file of pending tokens and codes is of its type. *)
LEMMA PendingNext ==
    ASSUME NEW p \in Pending, NEW t \in Nat, NEW i \in Nat, NEW e
    PROVE  /\ [p EXCEPT !.tokens = @ \cup {<<t, i>>}] \in Pending
           /\ [p EXCEPT !.tokens = @ \ {e}] \in Pending
           /\ [p EXCEPT !.otps = @ \cup {t}] \in Pending
           /\ [p EXCEPT !.otps = @ \ {e}] \in Pending
  <1>1. [p EXCEPT !.tokens = @ \cup {<<t, i>>}] \in Pending
    BY DEF Pending
  <1>2. [p EXCEPT !.tokens = @ \ {e}] \in Pending
    BY DEF Pending
  <1>3. [p EXCEPT !.otps = @ \cup {t}] \in Pending
    BY DEF Pending
  <1>4. [p EXCEPT !.otps = @ \ {e}] \in Pending
    BY DEF Pending
  <1> QED BY <1>1, <1>2, <1>3, <1>4

(* The request r moved, alone, and not to where a code is judged.  A       *)
(* partial token that it was let in on is kept until it ends.              *)
Served(r) ==
    /\ req' \in [Reqs -> Request]
    /\ \A q \in Reqs \ {r} : req'[q] = req[q]
    /\ req'[r].pc # "judge"
    /\ req'[r].tok \in {0, req[r].tok}
    /\ req[r].pc = "otp" => req'[r].tok = 0

(* A request that goes on to its next stage is served. *)
LEMMA GoServes ==
    ASSUME req \in [Reqs -> Request], NEW r \in Reqs, NEW p \in Stages \ {"judge"}, Go(r, p),
           ~At(r, "otp")
    PROVE  Served(r)
  BY DEF Go, Served, Request, At

(* A request that is answered is served. *)
LEMMA DoneServes ==
    ASSUME req \in [Reqs -> Request], NEW r \in Reqs, Done(r)
    PROVE  Served(r)
  BY IdleTyped DEF Done, Served

(* A request that starts with no token is served. *)
LEMMA StartServes ==
    ASSUME req \in [Reqs -> Request], NEW r \in Reqs, NEW o \in Operations,
           NEW x \in Request, x.pc # "judge", x.tok = 0, Start(r, o, x)
    PROVE  Served(r)
  BY Zenon DEF Start, Request, Served

(* What a handler remembers of the account and of what was sent. *)
LEMMA NewRequest ==
    ASSUME NEW p \in Stages, NEW c \in Sent, NEW a \in Account
    PROVE  /\ [WaIdle EXCEPT !.pc = p, !.cred = c, !.snap = a] \in Request
           /\ [WaIdle EXCEPT !.pc = p, !.cred = c, !.snap = a].pc = p
           /\ [WaIdle EXCEPT !.pc = p, !.cred = c, !.snap = a].tok = 0
  BY IdleTyped, ZenonT(40) DEF Request, WaIdle

(* What a handler remembers that only starts. *)
LEMMA BareRequest ==
    ASSUME NEW p \in Stages
    PROVE  LET x == [WaIdle EXCEPT !.pc = p]
           IN x \in Request /\ x.pc = p /\ x.tok = 0
  BY IdleTyped DEF Request, WaIdle

(* A code or password is judged only at the stage of that name. *)
LEMMA JudgedServes ==
    ASSUME WaTypeOK, NEW r \in Reqs, NEW ok, At(r, "judge"), Judged(r, ok)
    PROVE  /\ Served(r)
           /\ judged' = IF mfaLock THEN judged + 1 ELSE judged
           /\ judged' \in Nat
  <1>1. [NoAcc EXCEPT !.id = req[r].snap.id] \in Account
    BY IdleTyped, Zenon DEF WaTypeOK, Request, Account
  <1>2. WaIdle.cred \in Sent
    BY DEF WaIdle, Sent
  <1>3. judged' = IF mfaLock THEN judged + 1 ELSE judged
    BY DEF Judged
  <1>4. judged' \in Nat
    BY <1>3 DEF WaTypeOK, SharedOK
  <1>5. PICK p \in {"clear", "failed"} :
           req' = [req EXCEPT ![r].pc = p, ![r].cred = WaIdle.cred,
                              ![r].snap = [NoAcc EXCEPT !.id = req[r].snap.id]]
    BY Zenon DEF Judged
  <1>6. p \in Stages \ {"judge"}
    BY <1>5 DEF Stages
  <1>7. Served(r)
    BY <1>1, <1>2, <1>5, <1>6, ZenonT(40) DEF WaTypeOK, Served, Request, At
  <1> QED BY <1>3, <1>4, <1>7

-----------------------------------------------------------------------------
(* Types, and where each step leaves its request *)

(* The steps of a request under way. *)
LEMMA ContinueServes ==
    ASSUME WaTypeOK, NEW r \in Reqs, Continue(r)
    PROVE  /\ SharedOK'
           /\ LoginToken(r) \/ NotLockedOut(r) \/ Served(r)
  <1>t. SharedOK /\ req \in [Reqs -> Request] /\ req[r] \in Request
    BY DEF WaTypeOK
  <1>1. CASE LoginCheck(r) \/ LoginVerify(r) \/ LoginSecond(r)
    <2>1. Served(r)
      BY <1>1, <1>t, GoServes, DoneServes DEF LoginCheck, LoginVerify, LoginSecond, At, Stages
    <2>2. SharedOK'
      BY <1>1, <1>t DEF LoginCheck, LoginVerify, LoginSecond, SharedOK, noteVars, mfaVars
    <2> QED BY <2>1, <2>2
  <1>2. CASE LoginFailRead(r)
    <2>1. [b \in Buckets |-> bkt[b].n] \in [Buckets -> Nat]
      BY <1>t DEF SharedOK, Bucket
    <2>2. "failwrite" \in Stages \ {"judge"}
      BY DEF Stages
    <2>3. Served(r)
      BY <1>2, <1>t, <2>1, <2>2, Zenon DEF LoginFailRead, Served, Request, At
    <2>4. SharedOK'
      BY <1>2, <1>t DEF LoginFailRead, SharedOK, noteVars, mfaVars
    <2> QED BY <2>3, <2>4
  <1>3. CASE LoginFailWrite(r)
    <2>1. Served(r)
      <3>1. CASE Done(r)
        BY <3>1, <1>t, DoneServes
      <3>2. CASE req' = [req EXCEPT ![r].pc = "duress", ![r].seen = WaIdle.seen]
        <4>1. WaIdle.seen \in [Buckets -> Nat] /\ "duress" \in Stages \ {"judge"}
          BY DEF WaIdle, Stages
        <4> QED BY <1>3, <1>t, <3>2, <4>1, Zenon DEF LoginFailWrite, Served, Request, At
      <3> QED BY <1>3, <3>1, <3>2, Zenon DEF LoginFailWrite
    <2>2. \A n \in Nat : FailedOnce(n) \in Bucket
      BY LimitsAssumption DEF FailedOnce, Bucket
    <2>3. req[r].seen \in [Buckets -> Nat]
      BY <1>t DEF Request
    <2>4. bkt' \in [Buckets -> Bucket]
      BY <1>3, <1>t, <2>2, <2>3 DEF LoginFailWrite, SharedOK
    <2>5. SharedOK'
      BY <1>3, <1>t, <2>4 DEF LoginFailWrite, SharedOK, noteVars, mfaVars
    <2> QED BY <2>1, <2>5
  <1>4. CASE LoginDuress(r)
    <2>1. Served(r)
      BY <1>4, <1>t, GoServes, DoneServes DEF LoginDuress, At, Stages
    <2>2. acc' \in Account
      BY <1>4, <1>t, AccountNext, Zenon DEF LoginDuress, SharedOK
    <2>3. SharedOK'
      BY <1>4, <1>t, <2>2 DEF LoginDuress, SharedOK, noteVars, mfaVars
    <2> QED BY <2>1, <2>3
  <1>5. CASE LoginReset(r) \/ DuressUnlock(r)
    <2>1. Served(r)
      BY <1>5, <1>t, GoServes, DoneServes DEF LoginReset, DuressUnlock, At, Stages
    <2>2. bkt' \in [Buckets -> Bucket]
      <3>1. Open \in Bucket
        BY DEF Open, Bucket
      <3> QED BY <1>5, <1>t, <3>1 DEF LoginReset, DuressUnlock, SharedOK
    <2>3. SharedOK'
      BY <1>5, <1>t, <2>2 DEF LoginReset, DuressUnlock, SharedOK, noteVars, mfaVars
    <2> QED BY <2>1, <2>3
  <1>6. CASE LoginUpdate(r)
    <2>1. CASE acc.id # req[r].snap.id
      <3>1. Served(r)
        BY <1>6, <1>t, <2>1, DoneServes DEF LoginUpdate
      <3>2. SharedOK'
        BY <1>6, <1>t, <2>1 DEF LoginUpdate, SharedOK, noteVars, mfaVars
      <3> QED BY <3>1, <3>2
    <2>2. CASE acc.id = req[r].snap.id
      <3>1. [NoAcc EXCEPT !.id = acc.id, !.mfa = acc.mfa] \in Account
        BY <1>t, IdleTyped, Zenon DEF SharedOK, Account
      <3>2. WaIdle.cred \in Sent /\ "second" \in Stages \ {"judge"}
        BY DEF WaIdle, Sent, Stages
      <3>3. /\ At(r, "update")
            /\ req' = [req EXCEPT ![r].pc = "second", ![r].cred = WaIdle.cred,
                         ![r].snap = [NoAcc EXCEPT !.id = acc.id, !.mfa = acc.mfa]]
        BY <1>6, <2>2 DEF LoginUpdate
      <3>4. Served(r)
        BY <1>t, <3>1, <3>2, <3>3, Zenon DEF Served, Request, At
      <3>5. acc' \in Account
        <4> DEFINE k == IF ~Matches(req[r].snap, req[r].cred) THEN 0 ELSE acc.rk
                   rec == [acc EXCEPT !.rk = k, !.dcnt = 0]
        <4>1. k \in Nat /\ req[r].snap.pw \in Nat
          BY <1>t DEF SharedOK, Account, Request
        <4>2. acc' = rec \/ acc' = [rec EXCEPT !.pw = req[r].snap.pw, !.legacy = FALSE]
          BY <1>6, <2>2 DEF LoginUpdate
        <4>3. rec \in Account
          BY <1>t, <4>1, AccountNext, Zenon DEF SharedOK
        <4> HIDE DEF rec
        <4> QED BY <4>1, <4>2, <4>3, AccountNext, Zenon
      <3>6. SharedOK'
        BY <1>6, <1>t, <3>5 DEF LoginUpdate, SharedOK, noteVars, mfaVars
      <3> QED BY <3>4, <3>6
    <2> QED BY <2>1, <2>2
  <1>7. CASE LoginToken(r)
    <2>1. fresh' \in Numbers
      BY <1>7, <1>t, NumbersNext, Zenon DEF LoginToken, SharedOK
    <2>2. req[r].snap.id \in Nat
      BY <1>t DEF Request, Account
    <2>3. pend' \in Pending
      <3>1. fresh.tok + 1 \in Nat /\ pend \in Pending
        BY <1>t DEF SharedOK, Numbers
      <3> QED BY <1>7, <2>2, <3>1, PendingNext, Zenon DEF LoginToken
    <2>4. SharedOK'
      BY <1>7, <1>t, <2>1, <2>3 DEF LoginToken, SharedOK
    <2> QED BY <1>7, <2>4
  <1>8. CASE LoginOtp(r)
    <2>1. Served(r)
      BY <1>8, <1>t, DoneServes DEF LoginOtp
    <2>2. req[r].tok \in Nat
      BY <1>t DEF Request
    <2>3. pend' \in Pending
      BY <1>8, <1>t, <2>2, PendingNext, Zenon DEF LoginOtp, SharedOK
    <2>4. SharedOK'
      BY <1>8, <1>t, <2>3 DEF LoginOtp, SharedOK, noteVars
    <2> QED BY <2>1, <2>4
  <1>9. CASE IssueSession(r)
    <2>1. Served(r)
      BY <1>9, <1>t, DoneServes DEF IssueSession
    <2>2. fresh' \in Numbers
      BY <1>9, <1>t, NumbersNext, Zenon DEF IssueSession, SharedOK
    <2>3. minted' \in [0..menu.tok -> Nat]
      <3>1. PICK t \in Nat : minted' = [minted EXCEPT ![t] = IF t = 0 THEN 0 ELSE @ + 1]
        BY <1>9, <1>t, Zenon DEF IssueSession, Request
      <3>2. minted \in [0..menu.tok -> Nat]
        BY <1>t DEF SharedOK
      <3>3. CASE t \in 0..menu.tok
        <4>1. (IF t = 0 THEN 0 ELSE minted[t] + 1) \in Nat
          BY <3>2, <3>3
        <4> QED BY <3>1, <3>2, <4>1, Zenon
      <3>4. CASE t \notin 0..menu.tok
        BY <3>1, <3>2, <3>4, Zenon
      <3> QED BY <3>3, <3>4
    <2>4. SharedOK'
      BY <1>9, <1>t, <2>2, <2>3 DEF IssueSession, SharedOK, mfaVars
    <2> QED BY <2>1, <2>4
  <1>10. CASE NotLockedOut(r)
    <2>1. SharedOK'
      BY <1>10, <1>t DEF NotLockedOut, SharedOK, noteVars, mfaVars
    <2> QED BY <1>10, <2>1
  <1>11. CASE FinishCode(r)
    <2>1. Served(r) /\ judged' \in Nat
      BY <1>11, <1>t, DoneServes, JudgedServes, Zenon DEF FinishCode, WaTypeOK, SharedOK
    <2>2. pend' \in Pending
      <3>1. pend' = pend \/ pend' = [pend EXCEPT !.otps = @ \ {req[r].tok}]
        BY <1>11, Zenon DEF FinishCode
      <3> QED BY <1>t, <3>1, PendingNext, Zenon DEF SharedOK
    <2>3. totpUsed' \in BOOLEAN
      BY <1>11, <1>t, Zenon DEF FinishCode, SharedOK
    <2>4. SharedOK'
      BY <1>11, <1>t, <2>1, <2>2, <2>3 DEF FinishCode, SharedOK
    <2> QED BY <2>1, <2>4
  <1>12. CASE MfaFailed(r) \/ MfaLockout(r) \/ MfaCleared(r)
    <2>1. Served(r)
      BY <1>12, <1>t, GoServes, DoneServes DEF MfaFailed, MfaLockout, MfaCleared, At, Stages
    <2>2. mfaFails' \in Nat /\ judged' \in Nat /\ mfaLock' \in BOOLEAN
      <3>1. mfaFails \in Nat /\ judged \in Nat /\ mfaLock \in BOOLEAN
        BY <1>t DEF SharedOK
      <3>2. mfaFails' \in {0, mfaFails + 1} /\ judged' \in {0, judged}
        BY <1>12 DEF MfaFailed, MfaLockout, MfaCleared, noteVars
      <3>3. mfaLock' \in {mfaLock, TRUE, FALSE}
        BY <1>12, Zenon DEF MfaFailed, MfaLockout, MfaCleared
      <3>4. mfaFails' \in Nat
        BY <3>1, <3>2
      <3>5. judged' \in Nat
        BY <3>1, <3>2
      <3>6. mfaLock' \in BOOLEAN
        BY <3>1, <3>3, Zenon
      <3> QED BY <3>4, <3>5, <3>6
    <2>3. SharedOK'
      BY <1>12, <1>t, <2>2 DEF MfaFailed, MfaLockout, MfaCleared, SharedOK, noteVars
    <2> QED BY <2>1, <2>3
  <1>13. CASE ReauthVerify(r)
    <2>1. Served(r) /\ judged' \in Nat
      BY <1>13, <1>t, DoneServes, JudgedServes DEF ReauthVerify, WaTypeOK, SharedOK
    <2>2. SharedOK'
      BY <1>13, <1>t, <2>1 DEF ReauthVerify, SharedOK, mfaVars
    <2> QED BY <2>1, <2>2
  <1>14. CASE WipeDir(r) \/ PasswordClear(r)
    <2>1. Served(r)
      BY <1>14, <1>t, GoServes, DoneServes DEF WipeDir, PasswordClear, At, Stages
    <2>2. SharedOK'
      BY <1>14, <1>t DEF WipeDir, PasswordClear, SharedOK, noteVars, mfaVars
    <2> QED BY <2>1, <2>2
  <1>15. CASE WipeUser(r)
    <2>1. Served(r)
      BY <1>15, <1>t, DoneServes DEF WipeUser
    <2>2. acc' \in Account
      BY <1>15, <1>t, IdleTyped DEF WipeUser, Update, SharedOK
    <2>3. SharedOK'
      BY <1>15, <1>t, <2>2 DEF WipeUser, SharedOK, noteVars, mfaVars
    <2> QED BY <2>1, <2>3
  <1>16. CASE PasswordSet(r) \/ RecoverySet(r)
    <2>1. Served(r)
      BY <1>16, <1>t, GoServes, DoneServes DEF PasswordSet, RecoverySet, At, Stages
    <2>2. acc' \in Account
      <3>1. fresh.pw + 1 \in Nat /\ fresh.rk + 1 \in Nat
        BY <1>t DEF SharedOK, Numbers
      <3> QED BY <1>16, <1>t, <3>1, AccountNext, Zenon DEF PasswordSet, RecoverySet, SharedOK
    <2>3. fresh' \in Numbers
      BY <1>16, <1>t, NumbersNext, Zenon DEF PasswordSet, RecoverySet, SharedOK
    <2>4. SharedOK'
      BY <1>16, <1>t, <2>2, <2>3 DEF PasswordSet, RecoverySet, SharedOK, mfaVars
    <2> QED BY <2>1, <2>4
  <1>17. CASE RegisterInsert(r)
    <2>1. CASE Done(r) /\ UNCHANGED <<acc, fresh>>
      <3>1. Served(r)
        BY <1>t, <2>1, DoneServes
      <3>2. SharedOK'
        BY <1>17, <1>t, <2>1 DEF RegisterInsert, SharedOK, mfaVars
      <3> QED BY <3>1, <3>2
    <2>2. CASE ~(Done(r) /\ UNCHANGED <<acc, fresh>>)
      <3>1. /\ fresh' = [fresh EXCEPT !.pw = @ + 1, !.id = @ + 1]
            /\ acc' = [NoAcc EXCEPT !.id = fresh.id + 1, !.pw = fresh.pw + 1]
            /\ req' = [req EXCEPT ![r].pc = "jwt", ![r].snap = acc']
            /\ At(r, "insert")
        BY <1>17, <2>2 DEF RegisterInsert
      <3>2. acc' \in Account
        <4>1. fresh.pw + 1 \in Nat /\ fresh.id + 1 \in Nat
          BY <1>t DEF SharedOK, Numbers
        <4> QED BY <3>1, <4>1, IdleTyped, AccountNext, Zenon
      <3>3. fresh' \in Numbers
        BY <1>t, <3>1, NumbersNext, Zenon DEF SharedOK
      <3>4. "jwt" \in Stages \ {"judge"}
        BY DEF Stages
      <3>5. Served(r)
        BY <1>t, <3>1, <3>2, <3>4, Zenon DEF Served, Request, At
      <3>6. SharedOK'
        BY <1>17, <1>t, <3>2, <3>3 DEF RegisterInsert, SharedOK, mfaVars
      <3> QED BY <3>5, <3>6
    <2> QED BY <2>1, <2>2
  <1> QED BY <1>1, <1>2, <1>3, <1>4, <1>5, <1>6, <1>7, <1>8, <1>9, <1>10, <1>11, <1>12,
             <1>13, <1>14, <1>15, <1>16, <1>17 DEF Continue

(* The first steps of requests. *)
LEMMA StartTyped ==
    ASSUME WaTypeOK, NEW r \in Reqs,
           LoginStart(r) \/ Reauth(r) \/ PasswordStart(r) \/ RegisterStart(r) \/ PutDuress(r)
    PROVE  SharedOK' /\ Served(r)
  <1>t. SharedOK /\ req \in [Reqs -> Request] /\ acc \in Account
    BY DEF WaTypeOK, SharedOK
  <1>n. /\ acc.pw \in Nat /\ acc.rk \in Nat
        /\ \A n \in Nat : <<"pw", n>> \in Sent /\ <<"rk", n>> \in Sent
    BY <1>t DEF Account, Sent
  <1>1. CASE LoginStart(r)
    <2>1. Typed \subseteq Sent
      <3>1. \A n : n \in 0..fresh.pw \/ n \in 1..fresh.rk => n \in Nat
        BY <1>t DEF SharedOK, Numbers
      <3> QED BY <1>n, <3>1, Zenon DEF Typed
    <2>2. PICK c \in Sent :
             Start(r, "login", [WaIdle EXCEPT !.pc = "check", !.cred = c, !.snap = acc])
      BY <1>1, <2>1, Zenon DEF LoginStart
    <2>3. "check" \in Stages /\ "login" \in Operations
      BY DEF Stages, Operations
    <2> DEFINE x == [WaIdle EXCEPT !.pc = "check", !.cred = c, !.snap = acc]
    <2>4. x \in Request /\ x.pc = "check" /\ x.tok = 0
      <3>1. acc \in Account /\ "check" \in Stages /\ c \in Sent
        BY <1>t, <2>3
      <3> QED BY <3>1, NewRequest, ZenonT(40)
    <2> HIDE DEF x
    <2>5. Start(r, "login", x)
      BY <2>2 DEF x
    <2>6. Served(r)
      BY <1>t, <2>3, <2>4, <2>5, StartServes
    <2>7. SharedOK'
      BY <1>1, <1>t, Zenon DEF LoginStart, SharedOK, noteVars, mfaVars
    <2> QED BY <2>6, <2>7
  <1>2. CASE Reauth(r)
    <2>1. PICK o \in {"verify", "wipe"}, c \in {<<"pw", 0>>, <<"pw", acc.pw>>} :
             Start(r, o, [WaIdle EXCEPT !.pc = "locked", !.cred = c, !.snap = acc])
      BY <1>2, Zenon DEF Reauth
    <2>2. c \in Sent
      BY <1>n, <2>1, Zenon
    <2>3. "locked" \in Stages /\ o \in Operations
      BY <2>1 DEF Stages, Operations
    <2> DEFINE x == [WaIdle EXCEPT !.pc = "locked", !.cred = c, !.snap = acc]
    <2>4. x \in Request /\ x.pc = "locked" /\ x.tok = 0
      BY <1>t, <2>2, <2>3, NewRequest, ZenonT(40)
    <2> HIDE DEF x
    <2>5. Start(r, o, x)
      BY <2>1 DEF x
    <2>6. Served(r)
      BY <1>t, <2>3, <2>4, <2>5, StartServes
    <2>7. SharedOK'
      BY <1>2, <1>t DEF Reauth, SharedOK, noteVars, mfaVars
    <2> QED BY <2>6, <2>7
  <1>3. CASE PasswordStart(r)
    <2>1. PICK o \in {"password", "recovery"} :
             Start(r, o, [WaIdle EXCEPT !.pc = o, !.cred = <<"pw", acc.pw>>, !.snap = acc])
      BY <1>3, Zenon DEF PasswordStart
    <2>2. PICK c \in Sent : c = <<"pw", acc.pw>>
      BY <1>n, Zenon
    <2>3. o \in Stages /\ o \in Operations /\ o # "judge"
      BY <2>1 DEF Stages, Operations
    <2> DEFINE x == [WaIdle EXCEPT !.pc = o, !.cred = c, !.snap = acc]
    <2> HIDE DEF x
    <2>4. x \in Request /\ x.pc = o /\ x.tok = 0
      <3>1. x = [WaIdle EXCEPT !.pc = o, !.cred = c, !.snap = acc]
        BY DEF x
      <3>2. x \in Request
        BY <1>t, <2>3, <3>1, IdleTyped, Zenon DEF Request
      <3>3. x.pc = o
        BY <3>1 DEF WaIdle
      <3>4. x.tok = 0
        BY <3>1 DEF WaIdle
      <3> QED BY <3>2, <3>3, <3>4
    <2>5. Start(r, o, x)
      BY <2>1, <2>2 DEF x
    <2>6. Served(r)
      BY <1>t, <2>3, <2>4, <2>5, StartServes
    <2>7. SharedOK'
      BY <1>3, <1>t DEF PasswordStart, SharedOK, noteVars, mfaVars
    <2> QED BY <2>6, <2>7
  <1>4. CASE RegisterStart(r) \/ PutDuress(r)
    <2>1. PICK o \in {"register", "duress"}, p \in {"insert", "unlock"} :
             Start(r, o, [WaIdle EXCEPT !.pc = p])
      BY <1>4, Zenon DEF RegisterStart, PutDuress
    <2>2. p \in Stages /\ o \in Operations /\ p # "judge"
      BY <2>1 DEF Stages, Operations
    <2> DEFINE x == [WaIdle EXCEPT !.pc = p]
    <2>3. x \in Request /\ x.pc = p /\ x.tok = 0
      BY <2>2, BareRequest
    <2> HIDE DEF x
    <2>4. Start(r, o, x)
      BY <2>1 DEF x
    <2>5. Served(r)
      BY <1>t, <2>2, <2>3, <2>4, StartServes
    <2>6. acc' \in Account
      BY <1>4, <1>t, AccountNext, Zenon DEF RegisterStart, PutDuress
    <2>7. SharedOK'
      BY <1>4, <1>t, <2>6, Zenon DEF RegisterStart, PutDuress, SharedOK, noteVars, mfaVars
    <2> QED BY <2>5, <2>7
  <1> QED BY <1>1, <1>2, <1>3, <1>4

(* Steps that serve no request leave the requests alone. *)
Aside ==
    \/ \E j \in 1..fresh.jti :
          \/ Logout(j) \/ RevokeOthers(j) \/ DeleteDuress(j)
          \/ \E e \in Enforce, s \in BOOLEAN : PutMfa(j, e, s)
    \/ \E b \in Buckets : BucketUnlock(b) \/ BucketForget(b)
    \/ MfaWindowEnds \/ MfaLockEnds \/ PendingExpires \/ TotpPeriodEnds

(* What no request does keeps the types and the requests. *)
LEMMA AsideTyped ==
    ASSUME WaTypeOK, Aside
    PROVE  SharedOK' /\ req' = req
  <1>t. SharedOK /\ acc \in Account
    BY DEF WaTypeOK, SharedOK
  <1>1. req' = req
    BY Zenon DEF Aside, Logout, RevokeOthers, DeleteDuress, PutMfa, BucketUnlock, BucketForget,
           MfaWindowEnds, MfaLockEnds, PendingExpires, TotpPeriodEnds
  <1>2. CASE \E j \in 1..fresh.jti :
                \/ Logout(j) \/ RevokeOthers(j) \/ DeleteDuress(j)
                \/ \E e \in Enforce, s \in BOOLEAN : PutMfa(j, e, s)
    <2>1. acc' \in Account
      <3>1. CASE \E j \in 1..fresh.jti : Logout(j) \/ RevokeOthers(j) \/ DeleteDuress(j)
        BY <3>1, <1>t, AccountNext, Zenon DEF Logout, RevokeOthers, DeleteDuress
      <3>2. CASE \E j \in 1..fresh.jti, e \in Enforce, s \in BOOLEAN : PutMfa(j, e, s)
        <4>1. PICK e \in Enforce, b \in BOOLEAN : acc' = [acc EXCEPT !.mfa = e, !.secret = b]
          <5>1. PICK e \in Enforce, s \in BOOLEAN :
                   acc' = [acc EXCEPT !.mfa = e, !.secret = s \/ ("totp" \in e /\ @)]
            BY <3>2, Zenon DEF PutMfa
          <5>2. (s \/ ("totp" \in e /\ acc.secret)) \in BOOLEAN
            OBVIOUS
          <5> QED BY <5>1, <5>2, Zenon
        <4>2. e \in SUBSET Factors
          BY <4>1, MenusAssumption
        <4> QED BY <1>t, <4>1, <4>2, Zenon DEF Account
      <3> QED BY <1>2, <3>1, <3>2
    <2> QED BY <1>1, <1>2, <1>t, <2>1, Zenon
            DEF Logout, RevokeOthers, DeleteDuress, PutMfa, SharedOK, noteVars, mfaVars
  <1>3. CASE \E b \in Buckets : BucketUnlock(b) \/ BucketForget(b)
    <2>1. \A k \in Bucket : [k EXCEPT !.locked = FALSE] \in Bucket
      BY Zenon DEF Bucket
    <2>2. Open \in Bucket
      BY DEF Open, Bucket
    <2>3. bkt' \in [Buckets -> Bucket]
      BY <1>3, <1>t, <2>1, <2>2 DEF BucketUnlock, BucketForget, SharedOK
    <2> QED BY <1>1, <1>3, <1>t, <2>3
            DEF BucketUnlock, BucketForget, SharedOK, noteVars, mfaVars
  <1>4. CASE MfaWindowEnds \/ MfaLockEnds \/ TotpPeriodEnds
    <2>1. mfaFails' \in Nat /\ judged' \in Nat
      BY <1>4, <1>t DEF MfaWindowEnds, MfaLockEnds, TotpPeriodEnds, SharedOK, noteVars
    <2>2. mfaLock' \in BOOLEAN /\ totpUsed' \in BOOLEAN
      BY <1>4, <1>t, Zenon DEF MfaWindowEnds, MfaLockEnds, TotpPeriodEnds, SharedOK
    <2> QED BY <1>1, <1>4, <1>t, <2>1, <2>2
            DEF MfaWindowEnds, MfaLockEnds, TotpPeriodEnds, SharedOK, noteVars
  <1>5. CASE PendingExpires
    <2>1. pend' \in Pending
      BY <1>5, <1>t, PendingNext, Zenon DEF PendingExpires, SharedOK
    <2> QED BY <1>1, <1>5, <1>t, <2>1 DEF PendingExpires, SharedOK, noteVars
  <1> QED BY <1>2, <1>3, <1>4, <1>5 DEF Aside

-----------------------------------------------------------------------------
(* The requests that Served does not describe *)

(* login/finish takes its token out of the file. *)
LEMMA FinishTyped ==
    ASSUME WaTypeOK, NEW r \in Reqs, FinishStart(r)
    PROVE  /\ SharedOK' /\ req' \in [Reqs -> Request]
           /\ \A q \in Reqs \ {r} : req'[q] = req[q]
           /\ req'[r].pc = "locked"
           /\ \E e \in pend.tokens :
                 req'[r].tok = e[1] /\ pend' = [pend EXCEPT !.tokens = @ \ {e}]
  <1>t. SharedOK /\ req \in [Reqs -> Request] /\ pend \in Pending
    BY DEF WaTypeOK, SharedOK
  <1>1. PICK t \in 1..fresh.tok, c \in Codes, i \in SessIds :
           /\ <<t, i>> \in pend.tokens
           /\ pend' = [pend EXCEPT !.tokens = @ \ {<<t, i>>}]
           /\ Start(r, "finish", [WaIdle EXCEPT !.pc = "locked", !.cred = c, !.tok = t,
                                                !.snap = [NoAcc EXCEPT !.id = i]])
    BY Zenon DEF FinishStart
  <1>2. PICK a \in Account : a = [NoAcc EXCEPT !.id = i]
    BY <1>1, SessIdsAssumption, IdleTyped, AccountNext, Zenon
  <1>3. t \in Nat /\ c \in Sent /\ "locked" \in Stages /\ "finish" \in Operations
    BY <1>1, <1>t DEF SharedOK, Numbers, Sent, Stages, Operations
  <1> DEFINE x == [WaIdle EXCEPT !.pc = "locked", !.cred = c, !.tok = t, !.snap = a]
  <1>4. x \in Request /\ x.pc = "locked" /\ x.tok = t
    BY <1>2, <1>3, IdleTyped, Zenon DEF Request, WaIdle
  <1> HIDE DEF x
  <1>5. req' = [req EXCEPT ![r] = [x EXCEPT !.op = "finish"]]
    BY <1>1, <1>2 DEF x, Start
  <1>6. [x EXCEPT !.op = "finish"] \in Request
    BY <1>3, <1>4 DEF Request
  <1>7. /\ req' \in [Reqs -> Request]
        /\ \A q \in Reqs \ {r} : req'[q] = req[q]
        /\ req'[r].pc = "locked" /\ req'[r].tok = t
    BY <1>t, <1>4, <1>5, <1>6 DEF Request
  <1>8. pend' \in Pending
    BY <1>1, <1>t, PendingNext, Zenon
  <1>9. SharedOK'
    BY <1>8, <1>t DEF FinishStart, SharedOK, noteVars
  <1> QED BY <1>1, <1>7, <1>9, Zenon

(* isMfaLocked lets a request through to be judged only without the lock. *)
LEMMA NotLockedTyped ==
    ASSUME WaTypeOK, NEW r \in Reqs, NotLockedOut(r)
    PROVE  /\ req' \in [Reqs -> Request]
           /\ \A q \in Reqs \ {r} : req'[q] = req[q]
           /\ req[r].pc # "otp" /\ req'[r].tok \in {0, req[r].tok}
           /\ req'[r].pc = "judge" => ~mfaLock
  <1>t. req \in [Reqs -> Request] /\ acc \in Account /\ "judge" \in Stages
    BY DEF WaTypeOK, SharedOK, Stages
  <1>1. CASE acc.id = req[r].snap.id /\ ~mfaLock
    <2>1. req' = [req EXCEPT ![r].pc = "judge", ![r].snap = acc] /\ req[r].pc = "locked"
      BY <1>1 DEF NotLockedOut, At
    <2>2. req[r] \in Request /\ req'[r] = [req[r] EXCEPT !.pc = "judge", !.snap = acc]
      BY <1>t, <2>1
    <2>3. req'[r] \in Request /\ req'[r].tok = req[r].tok
      BY <1>t, <2>2, Zenon DEF Request
    <2>4. req' \in [Reqs -> Request] /\ \A q \in Reqs \ {r} : req'[q] = req[q]
      BY <1>t, <2>1, <2>3
    <2> QED BY <1>1, <2>1, <2>3, <2>4
  <1>2. CASE ~(acc.id = req[r].snap.id /\ ~mfaLock)
    BY <1>2, <1>t, DoneServes DEF NotLockedOut, At, Served
  <1> QED BY <1>1, <1>2

(* login hands its new token out, and keeps it only to send the code. *)
LEMMA TokenTyped ==
    ASSUME WaTypeOK, NEW r \in Reqs, LoginToken(r)
    PROVE  /\ req' \in [Reqs -> Request]
           /\ \A q \in Reqs \ {r} : req'[q] = req[q]
           /\ req'[r].tok = 0 \/ req'[r].pc = "otp"
           /\ req'[r].pc # "judge"
  <1>t. req \in [Reqs -> Request] /\ fresh.tok + 1 \in Nat /\ "otp" \in Stages
    BY DEF WaTypeOK, SharedOK, Numbers, Stages
  <1>1. CASE Done(r)
    BY <1>1, <1>t, IdleTyped DEF Done
  <1>2. CASE req' = [req EXCEPT ![r].pc = "otp", ![r].tok = fresh.tok + 1]
    BY <1>2, <1>t, Zenon DEF Request
  <1> QED BY <1>1, <1>2 DEF LoginToken

(* Tokens are issued by login and spent by the session alone. *)
LEMMA ContinueCalm ==
    ASSUME WaTypeOK, NEW r \in Reqs, Continue(r), ~LoginToken(r), ~IssueSession(r)
    PROVE  UNCHANGED <<menu, minted>> /\ fresh'.tok = fresh.tok /\ pend'.tokens = pend.tokens
  <1>1. UNCHANGED <<menu, minted>>
    BY Zenon DEF Continue, LoginCheck, LoginVerify, LoginFailRead, LoginFailWrite, LoginDuress,
           LoginReset, LoginUpdate, LoginSecond, LoginOtp, NotLockedOut, FinishCode, MfaFailed,
           MfaLockout, MfaCleared, ReauthVerify, WipeDir, WipeUser, PasswordSet, PasswordClear,
           RecoverySet, RegisterInsert, DuressUnlock, noteVars
  <1>2. fresh' = fresh \/ PasswordSet(r) \/ RecoverySet(r) \/ RegisterInsert(r)
    BY Zenon DEF Continue, LoginCheck, LoginVerify, LoginFailRead, LoginFailWrite, LoginDuress,
           LoginReset, LoginUpdate, LoginSecond, LoginOtp, NotLockedOut, FinishCode, MfaFailed,
           MfaLockout, MfaCleared, ReauthVerify, WipeDir, WipeUser, PasswordClear, DuressUnlock,
           noteVars
  <1>3. fresh'.tok = fresh.tok
    BY <1>2, Zenon DEF PasswordSet, RecoverySet, RegisterInsert, WaTypeOK, SharedOK, Numbers
  <1>4. pend' = pend \/ LoginOtp(r) \/ FinishCode(r)
    BY Zenon DEF Continue, LoginCheck, LoginVerify, LoginFailRead, LoginFailWrite, LoginDuress,
           LoginReset, LoginUpdate, LoginSecond, NotLockedOut, MfaFailed, MfaLockout, MfaCleared,
           ReauthVerify, WipeDir, WipeUser, PasswordSet, PasswordClear, RecoverySet,
           RegisterInsert, DuressUnlock, mfaVars
  <1>5. pend'.tokens = pend.tokens
    BY <1>4, Zenon DEF LoginOtp, FinishCode, WaTypeOK, SharedOK, Pending
  <1> QED BY <1>1, <1>3, <1>5

(* The lock and the count of guesses change in four steps only. *)
LEMMA ContinueUnjudged ==
    ASSUME NEW r \in Reqs, Continue(r), ~FinishCode(r), ~ReauthVerify(r), ~MfaLockout(r),
           ~MfaCleared(r)
    PROVE  UNCHANGED <<mfaLock, judged>>
  BY Zenon DEF Continue, LoginCheck, LoginVerify, LoginFailRead, LoginFailWrite, LoginDuress,
         LoginReset, LoginUpdate, LoginSecond, LoginToken, LoginOtp, IssueSession, NotLockedOut,
         MfaFailed, WipeDir, WipeUser, PasswordSet, PasswordClear, RecoverySet, RegisterInsert,
         DuressUnlock, noteVars, mfaVars

-----------------------------------------------------------------------------
(* The invariant, conjunct by conjunct *)

(* Every step keeps the types. *)
LEMMA TypeStep ==
    ASSUME WaTypeOK, [WaNext]_waVars
    PROVE  WaTypeOK'
  <1>1. CASE UNCHANGED waVars
    BY <1>1 DEF waVars, mfaVars, noteVars, WaTypeOK, SharedOK
  <1>2. ASSUME NEW r \in Reqs, Continue(r)  PROVE WaTypeOK'
    BY <1>2, ContinueServes, NotLockedTyped, TokenTyped DEF WaTypeOK, Served
  <1>3. ASSUME NEW r \in Reqs, FinishStart(r)  PROVE WaTypeOK'
    BY <1>3, FinishTyped DEF WaTypeOK
  <1>4. ASSUME NEW r \in Reqs,
               LoginStart(r) \/ Reauth(r) \/ PasswordStart(r) \/ RegisterStart(r) \/ PutDuress(r)
        PROVE  WaTypeOK'
    BY <1>4, StartTyped DEF WaTypeOK, Served
  <1>5. CASE Aside
    BY <1>5, AsideTyped DEF WaTypeOK
  <1> QED BY <1>1, <1>2, <1>3, <1>4, <1>5 DEF WaNext, Aside

(* A step that mints nothing, issues no token and lets no request in on one. *)
TokenQuiet ==
    /\ UNCHANGED <<menu, minted>> /\ fresh'.tok = fresh.tok
    /\ pend'.tokens \subseteq pend.tokens
    /\ \A q \in Reqs : req'[q].tok = 0 \/ req'[q].tok = req[q].tok
    /\ \A q \in Reqs : req'[q].tok # 0 => req[q].pc # "otp" \/ req'[q].pc = "otp"

(* Such a step keeps what is known of the tokens. *)
LEMMA TokenQuietKeeps ==
    ASSUME TokenInv, TokenQuiet
    PROVE  TokenInv'
  <1>1. \A q \in Reqs : Holding(q)' => Holding(q) /\ req'[q].tok = req[q].tok
    BY DEF TokenQuiet, Holding
  <1>2. /\ \A t \in 1..menu'.tok : minted'[t] <= 1 /\ (t > fresh'.tok => minted'[t] = 0)
        /\ fresh'.tok <= menu'.tok
    BY DEF TokenQuiet, TokenInv
  <1>3. /\ \A e \in pend'.tokens : e[1] \in 1..fresh'.tok /\ minted'[e[1]] = 0
        /\ \A e, f \in pend'.tokens : e[1] = f[1] => e = f
    BY DEF TokenQuiet, TokenInv
  <1>4. ASSUME NEW r \in Reqs, Holding(r)'
        PROVE  /\ req'[r].tok <= fresh'.tok /\ minted'[req'[r].tok] = 0
               /\ \A e \in pend'.tokens : e[1] # req'[r].tok
               /\ \A q \in Reqs : Holding(q)' /\ req'[q].tok = req'[r].tok => q = r
    <2>1. Holding(r) /\ req'[r].tok = req[r].tok
      BY <1>1, <1>4
    <2>2. /\ req[r].tok <= fresh.tok /\ minted[req[r].tok] = 0
          /\ \A e \in pend.tokens : e[1] # req[r].tok
          /\ \A q \in Reqs : Holding(q) /\ req[q].tok = req[r].tok => q = r
      BY <2>1 DEF TokenInv
    <2> QED BY <1>1, <2>1, <2>2 DEF TokenQuiet
  <1> QED BY <1>2, <1>3, <1>4 DEF TokenInv

(* Every step keeps what is known of the tokens. *)
LEMMA TokenStep ==
    ASSUME WaTypeOK, TokenInv, [WaNext]_waVars
    PROVE  TokenInv'
  <1>t. /\ req \in [Reqs -> Request] /\ fresh \in Numbers /\ pend \in Pending
        /\ minted \in [0..menu.tok -> Nat] /\ menu.tok \in Nat
    BY MenusAssumption DEF WaTypeOK, SharedOK
  <1>n. fresh.tok \in Nat /\ \A q \in Reqs : req[q].tok \in Nat
    BY <1>t DEF Numbers, Request
  <1>1. CASE UNCHANGED waVars
    BY <1>1, TokenQuietKeeps DEF waVars, mfaVars, noteVars, TokenQuiet
  <1>2. ASSUME NEW r \in Reqs, Continue(r), ~LoginToken(r), ~IssueSession(r)  PROVE TokenInv'
    BY <1>2, ContinueCalm, ContinueServes, NotLockedTyped, TokenQuietKeeps
       DEF TokenQuiet, Served
  <1>3. ASSUME NEW r \in Reqs, LoginToken(r)  PROVE TokenInv'
    <2>1. /\ \A q \in Reqs \ {r} : req'[q] = req[q]
          /\ req'[r].tok = 0 \/ req'[r].pc = "otp"
      BY <1>3, TokenTyped
    <2>2. \A q \in Reqs : Holding(q)' => Holding(q) /\ req'[q] = req[q]
      BY <2>1 DEF Holding
    <2>3. /\ fresh.tok < menu.tok /\ fresh'.tok = fresh.tok + 1
          /\ pend'.tokens = pend.tokens \cup {<<fresh.tok + 1, req[r].snap.id>>}
          /\ UNCHANGED <<menu, minted>>
      BY <1>3, <1>t DEF LoginToken, Numbers, Pending
    <2>4. /\ \A t \in 1..menu.tok : minted[t] <= 1 /\ (t > fresh.tok => minted[t] = 0)
          /\ \A e \in pend.tokens : e[1] \in 1..fresh.tok /\ minted[e[1]] = 0
          /\ \A e, f \in pend.tokens : e[1] = f[1] => e = f
      BY DEF TokenInv
    <2>5. fresh.tok + 1 \in 1..menu.tok /\ minted[fresh.tok + 1] = 0
      BY <1>t, <1>n, <2>3, <2>4
    <2>6. /\ \A t \in 1..menu'.tok : minted'[t] <= 1 /\ (t > fresh'.tok => minted'[t] = 0)
          /\ fresh'.tok <= menu'.tok
      BY <1>t, <1>n, <2>3, <2>4
    <2>7. /\ \A e \in pend'.tokens : e[1] \in 1..fresh'.tok /\ minted'[e[1]] = 0
          /\ \A e, f \in pend'.tokens : e[1] = f[1] => e = f
      <3>1. \A e \in pend.tokens : e[1] # fresh.tok + 1
        BY <1>n, <2>4
      <3> QED BY <1>n, <2>3, <2>4, <2>5, <3>1
    <2>8. ASSUME NEW q \in Reqs, Holding(q)'
          PROVE  /\ req'[q].tok <= fresh'.tok /\ minted'[req'[q].tok] = 0
                 /\ \A e \in pend'.tokens : e[1] # req'[q].tok
                 /\ \A p \in Reqs : Holding(p)' /\ req'[p].tok = req'[q].tok => p = q
      <3>1. Holding(q) /\ req'[q] = req[q]
        BY <2>2, <2>8
      <3>2. /\ req[q].tok <= fresh.tok /\ minted[req[q].tok] = 0
            /\ \A e \in pend.tokens : e[1] # req[q].tok
            /\ \A p \in Reqs : Holding(p) /\ req[p].tok = req[q].tok => p = q
        BY <3>1 DEF TokenInv
      <3>3. fresh.tok + 1 # req[q].tok
        BY <1>n, <3>2
      <3> QED BY <1>n, <2>2, <2>3, <3>1, <3>2, <3>3
    <2> QED BY <2>6, <2>7, <2>8 DEF TokenInv
  <1>4. ASSUME NEW r \in Reqs, IssueSession(r)  PROVE TokenInv'
    <2> DEFINE t == req[r].tok
    <2>1. /\ req' = [req EXCEPT ![r] = WaIdle] /\ req[r].pc = "jwt"
          /\ minted' = [minted EXCEPT ![t] = IF t = 0 THEN 0 ELSE @ + 1]
          /\ fresh' = [fresh EXCEPT !.jti = @ + 1] /\ pend' = pend /\ menu' = menu
      BY <1>4 DEF IssueSession, Done, At, mfaVars
    <2>2. /\ fresh'.tok = fresh.tok
          /\ \A q \in Reqs : Holding(q)' => q # r /\ Holding(q) /\ req'[q] = req[q]
      BY <1>t, <2>1, IdleTyped DEF Numbers, Holding
    <2>3. CASE t = 0
      <3>1. \A s \in 1..menu.tok : minted'[s] = minted[s]
        BY <1>t, <2>1, <2>3
      <3>2. /\ \A s \in 1..menu'.tok : minted'[s] <= 1 /\ (s > fresh'.tok => minted'[s] = 0)
            /\ fresh'.tok <= menu'.tok
        BY <2>1, <2>2, <3>1 DEF TokenInv
      <3>3. /\ \A e \in pend'.tokens : e[1] \in 1..fresh'.tok /\ minted'[e[1]] = 0
            /\ \A e, f \in pend'.tokens : e[1] = f[1] => e = f
        BY <1>t, <1>n, <2>1, <2>2, <3>1 DEF TokenInv
      <3>4. \A q \in Reqs : Holding(q)' =>
               /\ req'[q].tok <= fresh'.tok /\ minted'[req'[q].tok] = 0
               /\ \A e \in pend'.tokens : e[1] # req'[q].tok
               /\ \A p \in Reqs : Holding(p)' /\ req'[p].tok = req'[q].tok => p = q
        <4>1. \A q \in Reqs : Holding(q) => req[q].tok \in 1..menu.tok
          BY <1>t, <1>n DEF TokenInv, Holding
        <4> QED BY <2>1, <2>2, <3>1, <4>1 DEF TokenInv
      <3> QED BY <3>2, <3>3, <3>4 DEF TokenInv
    <2>4. CASE t # 0
      <3>1. /\ t \in 1..fresh.tok /\ t \in 1..menu.tok /\ minted[t] = 0
            /\ \A e \in pend.tokens : e[1] # t
            /\ \A q \in Reqs : Holding(q) /\ req[q].tok = t => q = r
        BY <1>t, <1>n, <2>1, <2>4 DEF TokenInv, Holding
      <3>2. minted'[t] = 1 /\ \A s \in 0..menu.tok : s # t => minted'[s] = minted[s]
        BY <1>t, <2>1, <2>4, <3>1
      <3>3. /\ \A s \in 1..menu'.tok : minted'[s] <= 1 /\ (s > fresh'.tok => minted'[s] = 0)
            /\ fresh'.tok <= menu'.tok
        BY <1>t, <1>n, <2>1, <2>2, <3>1, <3>2 DEF TokenInv
      <3>4. /\ \A e \in pend'.tokens : e[1] \in 1..fresh'.tok /\ minted'[e[1]] = 0
            /\ \A e, f \in pend'.tokens : e[1] = f[1] => e = f
        <4>1. \A e \in pend.tokens : e[1] \in 0..menu.tok /\ e[1] # t
          BY <1>t, <1>n, <3>1 DEF TokenInv
        <4> QED BY <2>1, <2>2, <3>2, <4>1 DEF TokenInv
      <3>5. \A q \in Reqs : Holding(q)' =>
               /\ req'[q].tok <= fresh'.tok /\ minted'[req'[q].tok] = 0
               /\ \A e \in pend'.tokens : e[1] # req'[q].tok
               /\ \A p \in Reqs : Holding(p)' /\ req'[p].tok = req'[q].tok => p = q
        <4>1. \A q \in Reqs : Holding(q) /\ q # r => req[q].tok \in 0..menu.tok /\ req[q].tok # t
          BY <1>t, <1>n, <3>1 DEF TokenInv, Holding
        <4> QED BY <2>1, <2>2, <3>2, <4>1 DEF TokenInv
      <3> QED BY <3>3, <3>4, <3>5 DEF TokenInv
    <2> QED BY <2>3, <2>4
  <1>5. ASSUME NEW r \in Reqs, FinishStart(r)  PROVE TokenInv'
    <2>1. PICK e \in pend.tokens :
             req'[r].tok = e[1] /\ pend' = [pend EXCEPT !.tokens = @ \ {e}]
      BY <1>5, FinishTyped
    <2>2. /\ \A q \in Reqs \ {r} : req'[q] = req[q]
          /\ UNCHANGED <<menu, minted, fresh>> /\ pend'.tokens = pend.tokens \ {e}
      BY <1>5, <1>t, <2>1, FinishTyped, Zenon DEF FinishStart, noteVars, Pending
    <2>3. /\ e[1] \in 1..fresh.tok /\ minted[e[1]] = 0
          /\ \A f \in pend.tokens \ {e} : f[1] # e[1]
          /\ \A q \in Reqs : Holding(q) => req[q].tok # e[1]
      BY DEF TokenInv
    <2>4. \A q \in Reqs \ {r} : Holding(q)' => Holding(q)
      BY <2>2 DEF Holding
    <2>5. \A q \in Reqs : Holding(q)' =>
               /\ req'[q].tok <= fresh'.tok /\ minted'[req'[q].tok] = 0
               /\ \A f \in pend'.tokens : f[1] # req'[q].tok
               /\ \A p \in Reqs : Holding(p)' /\ req'[p].tok = req'[q].tok => p = q
      <3>1. ASSUME NEW q \in Reqs \ {r}, Holding(q)'
            PROVE  /\ req'[q].tok <= fresh'.tok /\ minted'[req'[q].tok] = 0
                   /\ \A f \in pend'.tokens : f[1] # req'[q].tok
                   /\ \A p \in Reqs : Holding(p)' /\ req'[p].tok = req'[q].tok => p = q
        BY <2>1, <2>2, <2>3, <2>4, <3>1 DEF TokenInv
      <3>2. /\ req'[r].tok <= fresh'.tok /\ minted'[req'[r].tok] = 0
            /\ \A f \in pend'.tokens : f[1] # req'[r].tok
            /\ \A p \in Reqs : Holding(p)' /\ req'[p].tok = req'[r].tok => p = r
        BY <1>n, <2>1, <2>2, <2>3, <2>4
      <3> QED BY <3>1, <3>2
    <2>6. /\ \A t \in 1..menu'.tok : minted'[t] <= 1 /\ (t > fresh'.tok => minted'[t] = 0)
          /\ fresh'.tok <= menu'.tok
          /\ \A f \in pend'.tokens : f[1] \in 1..fresh'.tok /\ minted'[f[1]] = 0
          /\ \A f, g \in pend'.tokens : f[1] = g[1] => f = g
      BY <2>2 DEF TokenInv
    <2> QED BY <2>5, <2>6 DEF TokenInv
  <1>6. ASSUME NEW r \in Reqs,
               LoginStart(r) \/ Reauth(r) \/ PasswordStart(r) \/ RegisterStart(r) \/ PutDuress(r)
        PROVE  TokenInv'
    <2>1. UNCHANGED <<menu, minted, fresh, pend>>
      BY <1>6, Zenon DEF LoginStart, Reauth, PasswordStart, RegisterStart, PutDuress, noteVars, mfaVars
    <2> QED BY <1>6, <2>1, StartTyped, TokenQuietKeeps DEF Served, TokenQuiet
  <1>7. CASE Aside
    <2>1. UNCHANGED <<menu, minted, fresh>>
      BY <1>7, Zenon DEF Aside, Logout, RevokeOthers, DeleteDuress, PutMfa, BucketUnlock, BucketForget,
                  MfaWindowEnds, MfaLockEnds, PendingExpires, TotpPeriodEnds, noteVars
    <2>2. pend' = pend \/ PendingExpires
      BY <1>7, Zenon DEF Aside, Logout, RevokeOthers, DeleteDuress, PutMfa, BucketUnlock, BucketForget,
                  MfaWindowEnds, MfaLockEnds, TotpPeriodEnds, mfaVars
    <2>3. pend'.tokens \subseteq pend.tokens
      BY <1>t, <2>2 DEF PendingExpires, Pending
    <2> QED BY <1>7, <2>1, <2>3, AsideTyped, TokenQuietKeeps DEF TokenQuiet
  <1> QED BY <1>1, <1>2, <1>3, <1>4, <1>5, <1>6, <1>7 DEF WaNext, Aside

(* Sets of requests are counted like sets of numbers. *)
LEMMA Counting ==
    ASSUME NEW T \in SUBSET Reqs, NEW S \in SUBSET T
    PROVE  /\ Cardinality(S) \in Nat /\ Cardinality(T) \in Nat
           /\ Cardinality(S) <= Cardinality(T)
           /\ \A r \in T \ S : Cardinality(S) < Cardinality(T)
  <1>1. IsFiniteSet(T) /\ IsFiniteSet(S)
    BY ReqsAssumption, FS_Subset
  <1>2. /\ Cardinality(S) \in Nat /\ Cardinality(T) \in Nat
        /\ Cardinality(S) <= Cardinality(T)
    BY <1>1, FS_Subset, FS_CardinalityType
  <1>3. ASSUME NEW r \in T \ S  PROVE Cardinality(S) < Cardinality(T)
    <2>1. /\ IsFiniteSet(T \ {r}) /\ Cardinality(T \ {r}) = Cardinality(T) - 1
      BY <1>1, FS_RemoveElement
    <2>2. S \subseteq T \ {r}
      OBVIOUS
    <2>3. Cardinality(S) <= Cardinality(T \ {r})
      BY <2>1, <2>2, FS_Subset
    <2> QED BY <1>2, <2>1, <2>3
  <1> QED BY <1>2, <1>3

(* Every step keeps the count of guesses within the requests left. *)
LEMMA JudgeStep ==
    ASSUME WaTypeOK, JudgeInv, [WaNext]_waVars
    PROVE  JudgeInv'
  <1>t. /\ judged \in Nat /\ mfaLock \in BOOLEAN /\ Judging \in SUBSET Reqs
        /\ Judging' \in SUBSET Reqs /\ Cardinality(Reqs) \in Nat
    BY Counting DEF WaTypeOK, SharedOK, Judging
  <1>q. ASSUME UNCHANGED <<mfaLock, judged>>, mfaLock => Judging' \subseteq Judging
        PROVE  JudgeInv'
    BY <1>q, <1>t, Counting DEF JudgeInv
  <1>0. ASSUME NEW r \in Reqs, Served(r)
        PROVE  Judging' \subseteq Judging /\ r \notin Judging'
    BY <1>0 DEF Served, Judging, At
  <1>1. CASE UNCHANGED waVars
    BY <1>1, <1>q DEF waVars, mfaVars, noteVars, Judging, At
  <1>2. ASSUME NEW r \in Reqs, Continue(r), UNCHANGED <<mfaLock, judged>>
        PROVE  JudgeInv'
    <2>1. CASE NotLockedOut(r)
      <3>1. mfaLock => Judging' \subseteq Judging
        BY <2>1, NotLockedTyped DEF Judging, At
      <3> QED BY <1>2, <1>q, <3>1
    <2>2. CASE LoginToken(r)
      <3>1. Judging' \subseteq Judging
        BY <2>2, TokenTyped DEF Judging, At
      <3> QED BY <1>2, <1>q, <3>1
    <2>3. CASE Served(r)
      BY <1>0, <1>2, <1>q, <2>3
    <2> QED BY <1>2, <2>1, <2>2, <2>3, ContinueServes
  <1>3. ASSUME NEW r \in Reqs, NEW ok, At(r, "judge"), Judged(r, ok), mfaLock' = mfaLock
        PROVE  JudgeInv'
    <2>1. Served(r) /\ judged' = IF mfaLock THEN judged + 1 ELSE judged
      BY <1>3, JudgedServes
    <2>2. r \in Judging \ Judging' /\ Judging' \in SUBSET Judging
      BY <1>0, <1>3, <2>1 DEF Judging
    <2>3. /\ Cardinality(Judging') < Cardinality(Judging)
          /\ Cardinality(Judging') \in Nat /\ Cardinality(Judging) \in Nat
      BY <1>t, <2>2, Counting
    <2> QED BY <1>t, <1>3, <2>1, <2>3 DEF JudgeInv
  <1>4. ASSUME NEW r \in Reqs, MfaLockout(r)  PROVE JudgeInv'
    <2>1. /\ mfaLock' = TRUE /\ judged' = IF mfaLock THEN judged ELSE 0
          /\ Judging' \in SUBSET Judging /\ r \in Reqs \ Judging'
      BY <1>4, <1>0, DoneServes DEF MfaLockout, WaTypeOK
    <2>2. /\ Cardinality(Judging') <= Cardinality(Judging)
          /\ Cardinality(Judging') < Cardinality(Reqs)
          /\ Cardinality(Judging') \in Nat /\ Cardinality(Judging) \in Nat
      BY <1>t, <2>1, Counting
    <2> QED BY <1>t, <2>1, <2>2 DEF JudgeInv
  <1>5. ASSUME NEW r \in Reqs, FinishCode(r)  PROVE JudgeInv'
    <2>1. CASE UNCHANGED <<mfaLock, judged>>
      BY <1>2, <1>5, <2>1 DEF Continue
    <2>2. CASE ~UNCHANGED <<mfaLock, judged>>
      <3>1. PICK ok : At(r, "judge") /\ Judged(r, ok) /\ mfaLock' = mfaLock
        BY <1>5, <2>2, Zenon DEF FinishCode
      <3> QED BY <1>3, <3>1
    <2> QED BY <2>1, <2>2
  <1>6. ASSUME NEW r \in Reqs, ReauthVerify(r)  PROVE JudgeInv'
    <2>1. CASE UNCHANGED <<mfaLock, judged>>
      BY <1>2, <1>6, <2>1 DEF Continue
    <2>2. CASE ~UNCHANGED <<mfaLock, judged>>
      <3>1. PICK ok : At(r, "judge") /\ Judged(r, ok) /\ mfaLock' = mfaLock
        BY <1>6, <2>2 DEF ReauthVerify, mfaVars
      <3> QED BY <1>3, <3>1
    <2> QED BY <2>1, <2>2
  <1>7. ASSUME mfaLock' = FALSE, judged' = 0  PROVE JudgeInv'
    BY <1>7 DEF JudgeInv
  <1>8. ASSUME NEW r \in Reqs, Continue(r)  PROVE JudgeInv'
    BY <1>2, <1>4, <1>5, <1>6, <1>7, <1>8, ContinueUnjudged, Zenon DEF MfaCleared
  <1>9. ASSUME NEW r \in Reqs,
               LoginStart(r) \/ Reauth(r) \/ PasswordStart(r) \/ RegisterStart(r) \/ PutDuress(r)
        PROVE  JudgeInv'
    <2>1. UNCHANGED <<mfaLock, judged>>
      BY <1>9, Zenon DEF LoginStart, Reauth, PasswordStart, RegisterStart, PutDuress, noteVars, mfaVars
    <2> QED BY <1>0, <1>9, <1>q, <2>1, StartTyped
  <1>10. ASSUME NEW r \in Reqs, FinishStart(r)  PROVE JudgeInv'
    <2>1. UNCHANGED <<mfaLock, judged>>
      BY <1>10 DEF FinishStart, noteVars
    <2>2. Judging' \subseteq Judging
      BY <1>10, FinishTyped DEF Judging, At
    <2> QED BY <1>q, <2>1, <2>2
  <1>11. CASE Aside
    <2>1. Judging' = Judging
      BY <1>11, AsideTyped DEF Judging, At
    <2>2. CASE MfaLockEnds
      BY <1>7, <2>2, Zenon DEF MfaLockEnds
    <2>3. CASE ~MfaLockEnds
      <3>1. UNCHANGED <<mfaLock, judged>>
        BY <1>11, <2>3, Zenon DEF Aside, Logout, RevokeOthers, DeleteDuress, PutMfa, BucketUnlock,
             BucketForget, MfaWindowEnds, PendingExpires, TotpPeriodEnds, noteVars, mfaVars
      <3> QED BY <1>q, <2>1, <3>1
    <2> QED BY <2>2, <2>3
  <1> QED BY <1>1, <1>8, <1>9, <1>10, <1>11 DEF WaNext, Aside

(* What a step may do to the account. *)
PasswordMovesOn == acc.id # 0 /\ acc'.id = acc.id => acc'.pw >= acc.pw

AccountKept ==
    /\ DuressBudget'
    /\ acc'.pw <= fresh'.pw
    /\ ChangeVouched
    /\ PasswordMovesOn

(* A step that leaves both secrets of the account alone. *)
LEMMA SecretsAlone ==
    ASSUME WaInv, WaTypeOK', fresh'.pw = fresh.pw, acc'.pw = acc.pw, acc'.rk \in {0, acc.rk},
           acc'.armed => acc'.dcnt < DuressMax
    PROVE  AccountKept
  <1>1. acc.pw \in Nat /\ acc.rk \in Nat
    BY DEF WaInv, WaTypeOK, SharedOK, Account
  <1> QED BY <1>1 DEF WaInv, AccountKept, DuressBudget, ChangeVouched, PasswordMovesOn

(* Every step keeps the account as AccountKept says. *)
LEMMA AccountStep ==
    ASSUME WaInv, WaTypeOK', [WaNext]_waVars
    PROVE  AccountKept
  <1>t. /\ acc \in Account /\ fresh \in Numbers /\ req \in [Reqs -> Request]
        /\ DuressMax \in Nat \ {0} /\ (acc.armed => acc.dcnt < DuressMax)
        /\ acc.pw <= fresh.pw
    BY LimitsAssumption DEF WaInv, WaTypeOK, SharedOK, DuressBudget
  <1>n. /\ acc.pw \in Nat /\ acc.rk \in Nat /\ acc.dcnt \in Nat /\ acc.armed \in BOOLEAN
        /\ fresh.pw \in Nat /\ acc.id \in Nat /\ fresh.id \in Nat
    BY <1>t DEF Account, Numbers
  <1>q. ASSUME acc' = acc, fresh'.pw = fresh.pw  PROVE AccountKept
    BY <1>q, <1>t, SecretsAlone
  <1>1. CASE UNCHANGED waVars
    BY <1>1, <1>q DEF waVars, noteVars
  <1>2. ASSUME NEW r \in Reqs, Continue(r), acc' = acc, ~PasswordSet(r)  PROVE AccountKept
    <2>1. \/ fresh' = fresh
          \/ LoginToken(r) \/ IssueSession(r) \/ RecoverySet(r) \/ RegisterInsert(r)
      BY <1>2, Zenon DEF Continue, LoginCheck, LoginVerify, LoginFailRead, LoginFailWrite, LoginDuress,
           LoginReset, LoginUpdate, LoginSecond, LoginOtp, NotLockedOut, FinishCode, MfaFailed,
           MfaLockout, MfaCleared, ReauthVerify, WipeDir, WipeUser, PasswordClear, DuressUnlock,
           noteVars
    <2>2. RegisterInsert(r) => fresh' = fresh
      <3>1. ASSUME acc = [NoAcc EXCEPT !.id = fresh.id + 1, !.pw = fresh.pw + 1]
            PROVE  acc.id # 0
        BY <1>n, <3>1 DEF NoAcc
      <3> QED BY <1>2, <3>1 DEF RegisterInsert
    <2>3. fresh'.pw = fresh.pw
      BY <1>t, <2>1, <2>2 DEF LoginToken, IssueSession, RecoverySet, Numbers
    <2> QED BY <1>2, <1>q, <2>3
  <1>3. ASSUME NEW r \in Reqs, LoginDuress(r)  PROVE AccountKept
    <2>1. fresh' = fresh /\ \/ acc' = acc
                            \/ acc' = [acc EXCEPT !.dcnt = @ + 1] /\ acc.dcnt + 1 < DuressMax
      BY <1>3, <1>t, <1>n DEF LoginDuress, noteVars
    <2>2. CASE acc' = acc
      BY <1>q, <2>1, <2>2
    <2>3. CASE acc' = [acc EXCEPT !.dcnt = @ + 1] /\ acc.dcnt + 1 < DuressMax
      <3>1. acc'.pw = acc.pw /\ acc'.rk = acc.rk /\ acc'.dcnt < DuressMax
        BY <1>t, <2>3 DEF Account
      <3> QED BY <2>1, <3>1, SecretsAlone
    <2> QED BY <2>1, <2>2, <2>3
  <1>4. ASSUME NEW r \in Reqs, LoginUpdate(r)  PROVE AccountKept
    <2>1. CASE acc' = acc
      BY <1>4, <1>q, <2>1 DEF LoginUpdate, noteVars
    <2>2. CASE acc' # acc
      <3> DEFINE k == IF ~Matches(req[r].snap, req[r].cred) THEN 0 ELSE acc.rk
                 x == [acc EXCEPT !.rk = k, !.dcnt = 0]
      <3>1. /\ fresh' = fresh
            /\ \/ acc' = x
               \/ /\ acc.pw = req[r].snap.pw
                  /\ acc' = [x EXCEPT !.pw = req[r].snap.pw, !.legacy = FALSE]
        BY <1>4, <2>2 DEF LoginUpdate, SameHash, noteVars
      <3>2. k \in {0, acc.rk}
        OBVIOUS
      <3> HIDE DEF k
      <3>3. acc'.pw = acc.pw /\ acc'.rk = k /\ acc'.dcnt = 0
        BY <1>t, <3>1, Zenon DEF Account
      <3> QED BY <1>t, <3>1, <3>2, <3>3, SecretsAlone
    <2> QED BY <2>1, <2>2
  <1>5. ASSUME NEW r \in Reqs, WipeUser(r)  PROVE AccountKept
    <2>1. fresh' = fresh /\ (acc' = acc \/ acc' = NoAcc)
      BY <1>5 DEF WipeUser, Update, noteVars
    <2>2. CASE acc' = NoAcc
      <3>1. acc'.pw = 0 /\ acc'.rk = 0 /\ acc'.armed = FALSE /\ acc'.id = 0
        BY <2>2 DEF NoAcc
      <3> QED BY <1>t, <1>n, <2>1, <3>1
              DEF AccountKept, DuressBudget, ChangeVouched, PasswordMovesOn
    <2> QED BY <1>q, <2>1, <2>2
  <1>6. ASSUME NEW r \in Reqs, PasswordSet(r)  PROVE AccountKept
    <2>1. fresh'.pw = fresh.pw + 1 /\ At(r, "password")
      BY <1>6, <1>t DEF PasswordSet, Numbers
    <2>2. CASE acc' = acc
      BY <1>t, <1>n, <2>1, <2>2 DEF AccountKept, DuressBudget, ChangeVouched, PasswordMovesOn
    <2>3. CASE acc' # acc
      <3>1. /\ SameHash(acc, req[r].snap) /\ Go(r, "pwclear")
            /\ acc' = [acc EXCEPT !.pw = fresh.pw + 1, !.legacy = FALSE]
        BY <1>6, <2>3 DEF PasswordSet
      <3>2. /\ acc'.pw = fresh.pw + 1 /\ acc'.armed = acc.armed /\ acc'.dcnt = acc.dcnt
        BY <1>t, <3>1 DEF Account
      <3>3. SameHash(req[r].snap, acc) /\ req'[r] # req[r]
        <4>1. req'[r].pc = "pwclear"
          BY <1>t, <3>1 DEF Go, Request
        <4> QED BY <2>1, <3>1, <4>1 DEF SameHash, At
      <3>4. ChangeVouched
        BY <2>1, <3>3 DEF ChangeVouched
      <3> QED BY <1>t, <1>n, <2>1, <3>2, <3>4 DEF AccountKept, DuressBudget, PasswordMovesOn
    <2> QED BY <2>2, <2>3
  <1>7. ASSUME NEW r \in Reqs, RecoverySet(r)  PROVE AccountKept
    <2>1. fresh'.pw = fresh.pw /\ At(r, "recovery")
      BY <1>7, <1>t DEF RecoverySet, Numbers
    <2>2. CASE acc' = acc
      BY <1>q, <2>1, <2>2
    <2>3. CASE acc' # acc
      <3>1. /\ SameHash(acc, req[r].snap) /\ Done(r)
            /\ acc' = [acc EXCEPT !.rk = fresh.rk + 1]
        BY <1>7, <2>3 DEF RecoverySet
      <3>2. acc'.pw = acc.pw /\ acc'.armed = acc.armed /\ acc'.dcnt = acc.dcnt
        BY <1>t, <3>1 DEF Account
      <3>3. SameHash(req[r].snap, acc) /\ req'[r] # req[r]
        <4>1. req'[r].pc = "idle"
          BY <1>t, <3>1, IdleTyped DEF Done
        <4> QED BY <2>1, <3>1, <4>1 DEF SameHash, At
      <3>4. ChangeVouched
        BY <2>1, <3>3 DEF ChangeVouched
      <3> QED BY <1>t, <1>n, <2>1, <3>2, <3>4 DEF AccountKept, DuressBudget, PasswordMovesOn
    <2> QED BY <2>2, <2>3
  <1>8. ASSUME NEW r \in Reqs, RegisterInsert(r), acc' # acc  PROVE AccountKept
    <2>1. /\ acc.id = 0 /\ fresh'.pw = fresh.pw + 1
          /\ acc' = [NoAcc EXCEPT !.id = fresh.id + 1, !.pw = fresh.pw + 1]
      BY <1>8, <1>t, Zenon DEF RegisterInsert, Numbers
    <2>2. acc'.pw = fresh.pw + 1 /\ acc'.armed = FALSE
      BY <2>1 DEF NoAcc
    <2> QED BY <1>n, <2>1, <2>2 DEF AccountKept, DuressBudget, ChangeVouched, PasswordMovesOn
  <1>9. ASSUME NEW r \in Reqs, Continue(r)  PROVE AccountKept
    <2>1. \/ acc' = acc \/ LoginDuress(r) \/ LoginUpdate(r) \/ WipeUser(r)
          \/ PasswordSet(r) \/ RecoverySet(r) \/ RegisterInsert(r)
      BY <1>9, Zenon DEF Continue, LoginCheck, LoginVerify, LoginFailRead, LoginFailWrite, LoginReset,
           LoginSecond, LoginToken, LoginOtp, IssueSession, NotLockedOut, FinishCode, MfaFailed,
           MfaLockout, MfaCleared, ReauthVerify, WipeDir, PasswordClear, DuressUnlock
    <2> QED BY <1>2, <1>3, <1>4, <1>5, <1>6, <1>7, <1>8, <1>9, <2>1
  <1>10. ASSUME NEW r \in Reqs, LoginStart(r) \/ Reauth(r) \/ PasswordStart(r)
                                \/ RegisterStart(r) \/ FinishStart(r)
         PROVE  AccountKept
    BY <1>10, <1>q, Zenon DEF LoginStart, Reauth, PasswordStart, RegisterStart, FinishStart, noteVars
  <1>11. ASSUME fresh' = fresh, NEW on \in BOOLEAN, acc' = [acc EXCEPT !.armed = on, !.dcnt = 0]
         PROVE  AccountKept
    <2>1. acc'.pw = acc.pw /\ acc'.rk = acc.rk /\ acc'.dcnt = 0
      BY <1>11, <1>t DEF Account
    <2> QED BY <1>11, <1>t, <2>1, SecretsAlone
  <1>12. ASSUME NEW r \in Reqs, PutDuress(r)  PROVE AccountKept
    BY <1>11, <1>12, Zenon DEF PutDuress, noteVars
  <1>13. CASE Aside
    <2>1. fresh' = fresh
      BY <1>13, Zenon DEF Aside, Logout, RevokeOthers, DeleteDuress, PutMfa, BucketUnlock, BucketForget,
                  MfaWindowEnds, MfaLockEnds, PendingExpires, TotpPeriodEnds, noteVars
    <2>2. CASE \E j \in 1..fresh.jti : DeleteDuress(j)
      BY <1>11, <2>1, <2>2, Zenon DEF DeleteDuress
    <2>3. CASE \E j \in 1..fresh.jti, e \in Enforce, s \in BOOLEAN : PutMfa(j, e, s)
      <3>1. PICK j \in 1..fresh.jti, e \in Enforce, s \in BOOLEAN : PutMfa(j, e, s)
        BY <2>3
      <3>2. /\ acc'.pw = acc.pw /\ acc'.rk = acc.rk
            /\ acc'.armed = acc.armed /\ acc'.dcnt = acc.dcnt
        BY <1>t, <3>1 DEF PutMfa, Account
      <3> QED BY <1>t, <2>1, <3>2, SecretsAlone
    <2>4. CASE acc' = acc
      BY <1>q, <2>1, <2>4
    <2> QED BY <1>13, <2>2, <2>3, <2>4, Zenon DEF Aside, Logout, RevokeOthers, BucketUnlock,
            BucketForget, MfaWindowEnds, MfaLockEnds, PendingExpires, TotpPeriodEnds
  <1> QED BY <1>1, <1>9, <1>10, <1>12, <1>13 DEF WaNext, Aside

(* The invariant holds at the start. *)
LEMMA WaInitInv ==
    ASSUME WaInit
    PROVE  WaInv
  <1>1. menu \in Menus /\ menu.tok \in Nat
    BY MenusAssumption DEF WaInit
  <1>2. acc \in Account /\ acc.pw <= fresh.pw /\ DuressBudget
    <2>1. menu.mfa \in SUBSET Factors /\ ("totp" \in menu.mfa) \in BOOLEAN
      BY <1>1, MenusAssumption
    <2>2. acc = [id |-> 1, pw |-> 1, legacy |-> TRUE, rk |-> 0, mfa |-> menu.mfa,
                 secret |-> "totp" \in menu.mfa, armed |-> FALSE, dcnt |-> 0]
      BY Zenon DEF WaInit, Owner, NoAcc
    <2>3. acc \in Account
      BY <2>1, <2>2 DEF Account
    <2>4. acc.pw = 1 /\ acc.armed = FALSE /\ fresh.pw = 1
      BY <2>2 DEF WaInit
    <2> QED BY <2>3, <2>4 DEF DuressBudget
  <1>3. /\ bkt \in [Buckets -> Bucket] /\ pend \in Pending /\ fresh \in Numbers
        /\ minted \in [0..menu.tok -> Nat]
    BY <1>1 DEF WaInit, Open, Bucket, NoPend, Pending, Numbers
  <1>4. WaTypeOK
    BY <1>1, <1>2, <1>3, IdleTyped, Zenon DEF WaInit, WaTypeOK, SharedOK
  <1>5. TokenInv
    BY <1>1, IdleTyped DEF WaInit, TokenInv, NoPend, Holding
  <1>6. JudgeInv
    BY DEF WaInit, JudgeInv
  <1> QED BY <1>2, <1>4, <1>5, <1>6 DEF WaInv

(* Every step keeps the invariant. *)
LEMMA WaInvStep ==
    ASSUME WaInv, [WaNext]_waVars
    PROVE  WaInv' /\ AccountKept
  <1>1. WaTypeOK'
    BY TypeStep DEF WaInv
  <1>2. AccountKept
    BY <1>1, AccountStep
  <1>3. TokenInv'
    BY TokenStep DEF WaInv
  <1>4. JudgeInv'
    BY JudgeStep DEF WaInv
  <1> QED BY <1>1, <1>2, <1>3, <1>4 DEF WaInv, AccountKept

(* The invariant of the account routes. *)
LEMMA WaInvariant == WaSpec => []WaInv
  <1>1. WaInv /\ [WaNext]_waVars => WaInv'
    BY WaInvStep
  <1> QED BY WaInitInv, <1>1, PTL DEF WaSpec

(* One partial token leads to one session at most, however many            *)
(* login/finish requests present it and however their steps interleave     *)
(* (consumeMfaToken in utils.js).                                          *)
THEOREM TokensSpentOnce == WaSpec => []TokenOnce
  <1>1. WaInv => TokenOnce
    BY DEF WaInv, TokenInv, TokenOnce
  <1> QED BY <1>1, WaInvariant, PTL

(* With any number of requests at once, the codes and passwords judged     *)
(* after recordMfaFailure has set the lock are fewer than the requests,    *)
(* and the duress count of an armed account stays below its limit.         *)
THEOREM GuessingIsLimited == WaSpec => []GuessesLimited
  <1>1. ASSUME WaInv  PROVE GuessesLimited
    <2>1. /\ judged \in Nat /\ Cardinality(Reqs) \in Nat \ {0} /\ Cardinality(Judging) \in Nat
      <3>1. Judging \in SUBSET Reqs /\ {} \in SUBSET Reqs /\ \E r \in Reqs : TRUE
        BY ReqsAssumption DEF Judging
      <3>2. /\ Cardinality(Reqs) \in Nat /\ Cardinality(Judging) \in Nat
            /\ Cardinality({}) < Cardinality(Reqs) /\ Cardinality({}) \in Nat
        BY <3>1, Counting
      <3> QED BY <1>1, <3>2 DEF WaInv, WaTypeOK, SharedOK
    <2>2. judged < Cardinality(Reqs)
      BY <1>1, <2>1 DEF WaInv, JudgeInv
    <2> QED BY <1>1, <2>2 DEF WaInv, GuessesLimited, NoGuessesWhenLocked
  <1> QED BY <1>1, WaInvariant, PTL

(* The password and the recovery key of an account are replaced only by a  *)
(* request that verified the password being replaced, and the stored       *)
(* password never goes back to an earlier one, whatever logins, changes    *)
(* and wipes overlap (updateUserById in the auth routes).                  *)
THEOREM AccountOnlyMovesOn == WaSpec => [][ChangeVouched /\ PasswordMovesOn]_waVars
  <1>1. WaInv /\ [WaNext]_waVars => [ChangeVouched /\ PasswordMovesOn]_waVars
    BY WaInvStep DEF AccountKept
  <1> QED BY <1>1, WaInvariant, PTL DEF WaSpec
=============================================================================
