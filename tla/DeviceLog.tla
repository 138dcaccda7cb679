------------------------------ MODULE DeviceLog ------------------------------
(***************************************************************************)
(* What sign-ins leave in the account's record besides a session: the log  *)
(* of devices and the lockout bucket of each (lib/rateLimiter.js), the     *)
(* hints the sign-in page asks for and the salt of the vault key           *)
(* (routes/auth/login.js).                                                 *)
(*                                                                         *)
(* Sign-in requests overlap.  The record is changed by atomic updates; the *)
(* bucket is read and written back in two steps.  A behaviour is about the *)
(* log or about the record ("log", "record" in DeviceMenus).  An expired   *)
(* lock is a step that may happen at any time.                             *)
(***************************************************************************)
EXTENDS Naturals, Sequences, SequencesExt

CONSTANTS
    Attempts,     \* sign-in requests that can be under way together
    Devices,      \* the devices (client identities) they come from
    DeviceMenus,  \* subset of {"log", "record"}
    DevCap,       \* FINGERPRINT_LOG_CAP
    LockCount,    \* failures after which a bucket is locked
    AttemptCap,   \* bound: sign-in attempts
    VaultSalts    \* salts browsers publish

Methods == {"totp", "emailOtp", "passwordEnabled", "webauthn", "passwordlessEnabled"}
HiddenMethods == {"passkey", "platform"}  \* stored, never shown before sign-in
NoHints == [k \in Methods \cup HiddenMethods |-> "unset"]
NoVaultSalt == "no salt"

VARIABLES
    dmenu,    \* the behaviour's menu
    devlog,   \* fingerprintLog: entries with an id and two counts
    bucket,   \* the lockout bucket of each device
    attempt,  \* the sign-in requests
    removal,  \* the device whose removal is under way, after its update
    hints,    \* loginHints
    vsalt,    \* cryptoSalt
    dlhist    \* history: see DeviceInit

deviceVars == <<dmenu, devlog, bucket, attempt, removal, hints, vsalt, dlhist>>

NoAttempt == [pc |-> "idle", dev |-> "", read |-> 0, ok |-> FALSE]
Empty == [count |-> 0, locked |-> FALSE]

DeviceInit ==
    /\ dmenu \in DeviceMenus
    /\ devlog = <<>> /\ bucket = [d \in Devices |-> Empty]
    /\ attempt = [a \in Attempts |-> NoAttempt] /\ removal = ""
    /\ hints = NoHints /\ vsalt = NoVaultSalt
    \* total: attempts made; seen: attempts logged per device since it entered
    \* the log; last: the device logged last; fails: failures per device since
    \* its bucket was emptied; raced: buckets changed between a failure's read
    \* and its write; lapsed: those whose lock ran out; published: the last
    \* hints; salts: those handed out
    /\ dlhist = [total |-> 0, seen |-> [d \in Devices |-> 0], last |-> "", fails |-> [d \in Devices |-> 0],
                 raced |-> {}, lapsed |-> {}, published |-> NoHints, salts |-> {}]

(***************************************************************************)
(* The log: an entry is updated in its place, a new one goes to the end    *)
(* and pushes out the one that entered first.                              *)
(***************************************************************************)
makeFingerprintLogEntry(d, ok) == [id |-> d, failures |-> IF ok THEN 0 ELSE 1, successes |-> IF ok THEN 1 ELSE 0]

Listed(log) == {log[i].id : i \in 1..Len(log)}

mergeFingerprintLog(log, new) ==
    IF new.id \in Listed(log)
    THEN [i \in 1..Len(log) |->
            IF log[i].id # new.id THEN log[i]
            ELSE [log[i] EXCEPT !.failures = @ + new.failures, !.successes = @ + new.successes]]
    ELSE LET all == Append(log, new)
         IN IF Len(all) > DevCap THEN SubSeq(all, Len(all) - DevCap + 1, Len(all)) ELSE all

(***************************************************************************)
(* A sign-in: the bucket is checked, the password judged, a failure is     *)
(* counted (read, then write back) or a success empties the bucket, and    *)
(* the device is logged.                                                   *)
(***************************************************************************)
checkFingerprintRate(d) == ~bucket[d].locked

AttemptBegins(a, d) ==
    /\ "log" = dmenu /\ attempt[a].pc = "idle" /\ dlhist.total < AttemptCap
    /\ attempt' = [attempt EXCEPT ![a] = IF checkFingerprintRate(d) THEN [NoAttempt EXCEPT !.pc = "judge", !.dev = d]
                                         ELSE NoAttempt]
    /\ dlhist' = [dlhist EXCEPT !.total = @ + 1]
    /\ UNCHANGED <<dmenu, devlog, bucket, removal, hints, vsalt>>

AttemptJudged(a, ok) ==
    /\ attempt[a].pc = "judge"
    /\ attempt' = [attempt EXCEPT ![a].pc = IF ok THEN "reset" ELSE "read", ![a].ok = ok]
    /\ UNCHANGED <<dmenu, devlog, bucket, removal, hints, vsalt, dlhist>>

FailureRead(a) ==
    /\ attempt[a].pc = "read"
    /\ attempt' = [attempt EXCEPT ![a].pc = "write", ![a].read = bucket[attempt[a].dev].count]
    /\ UNCHANGED <<dmenu, devlog, bucket, removal, hints, vsalt, dlhist>>

(* a bucket written while another failure holds what it read of it *)
Raced(d, self) == IF \E b \in Attempts \ self : attempt[b].pc = "write" /\ attempt[b].dev = d THEN {d} ELSE {}

LockedAt(count) == count >= LockCount

FailureWritten(a) ==
    /\ attempt[a].pc = "write"
    /\ LET d == attempt[a].dev
           count == attempt[a].read + 1
       IN /\ bucket' = [bucket EXCEPT ![d] = [count |-> count, locked |-> LockedAt(count)]]
          /\ dlhist' = [dlhist EXCEPT !.fails[d] = @ + 1, !.raced = @ \cup Raced(d, {a}),
                                      !.lapsed = @ \ {d}]
    /\ attempt' = [attempt EXCEPT ![a].pc = "log"]
    /\ UNCHANGED <<dmenu, devlog, removal, hints, vsalt>>

Emptied(d) ==
    /\ bucket' = [bucket EXCEPT ![d] = Empty]
    /\ dlhist' = [dlhist EXCEPT !.fails[d] = 0, !.lapsed = @ \ {d}, !.raced = @ \cup Raced(d, {})]

resetFingerprintFailures(a) ==
    /\ attempt[a].pc = "reset" /\ Emptied(attempt[a].dev)
    /\ attempt' = [attempt EXCEPT ![a].pc = "log"]
    /\ UNCHANGED <<dmenu, devlog, removal, hints, vsalt>>

(* the counts start again when a device leaves the log *)
SeenIn(log, seen) == [d \in Devices |-> IF d \in Listed(log) THEN seen[d] ELSE 0]

AttemptLogged(a) ==
    /\ attempt[a].pc = "log"
    /\ devlog' = mergeFingerprintLog(devlog, makeFingerprintLogEntry(attempt[a].dev, attempt[a].ok))
    /\ dlhist' = [dlhist EXCEPT !.seen = SeenIn(devlog', [@ EXCEPT ![attempt[a].dev] = @ + 1]),
                                !.last = attempt[a].dev]
    /\ attempt' = [attempt EXCEPT ![a] = NoAttempt]
    /\ UNCHANGED <<dmenu, bucket, removal, hints, vsalt>>

(* a lock runs out; later the store forgets the bucket *)
LockExpires(d) ==
    /\ bucket[d].locked
    /\ bucket' = [bucket EXCEPT ![d].locked = FALSE]
    /\ dlhist' = [dlhist EXCEPT !.lapsed = @ \cup {d}]
    /\ UNCHANGED <<dmenu, devlog, attempt, removal, hints, vsalt>>

BucketForgotten(d) ==
    /\ bucket[d].count > 0 /\ ~bucket[d].locked /\ Emptied(d)
    /\ UNCHANGED <<dmenu, devlog, attempt, removal, hints, vsalt>>

(***************************************************************************)
(* DELETE /api/auth/fingerprints/:id: the entry goes, then its bucket.     *)
(***************************************************************************)
deleteFingerprint(d) ==
    /\ removal = "" /\ d \in Listed(devlog)
    /\ devlog' = SelectSeq(devlog, LAMBDA e : e.id # d)
    /\ removal' = d
    /\ dlhist' = [dlhist EXCEPT !.seen = SeenIn(devlog', @), !.last = IF @ = d THEN "" ELSE @]
    /\ UNCHANGED <<dmenu, bucket, attempt, hints, vsalt>>

RemovalResets ==
    /\ removal # "" /\ Emptied(removal) /\ removal' = ""
    /\ UNCHANGED <<dmenu, devlog, attempt, hints, vsalt>>

(***************************************************************************)
(* The hints and the salt.                                                 *)
(***************************************************************************)
postLoginHints(h) == h

HintsPublished(h) ==
    /\ "record" = dmenu /\ hints # h
    /\ hints' = postLoginHints(h)
    /\ dlhist' = [dlhist EXCEPT !.published = h]
    /\ UNCHANGED <<dmenu, devlog, bucket, attempt, removal, vsalt>>

getLoginHints == [k \in Methods |-> IF hints[k] # "unset" THEN hints[k]
                                    ELSE IF k = "passwordEnabled" THEN "on" ELSE "off"]

SaltStored(s) == IF vsalt = NoVaultSalt THEN s ELSE vsalt

postCryptoSalt(s) ==
    /\ "record" = dmenu /\ vsalt' = SaltStored(s)
    /\ dlhist' = [dlhist EXCEPT !.salts = @ \cup {vsalt'}]
    /\ UNCHANGED <<dmenu, devlog, bucket, attempt, removal, hints>>

(* a page publishes the state of one method *)
Publishable == {[NoHints EXCEPT ![k] = v] : k \in DOMAIN NoHints, v \in {"on", "off"}}

DeviceNext ==
    \/ \E a \in Attempts :
         \/ \E d \in Devices : AttemptBegins(a, d)
         \/ \E ok \in BOOLEAN : AttemptJudged(a, ok)
         \/ FailureRead(a) \/ FailureWritten(a) \/ resetFingerprintFailures(a) \/ AttemptLogged(a)
    \/ \E d \in Devices : LockExpires(d) \/ BucketForgotten(d) \/ deleteFingerprint(d)
    \/ RemovalResets
    \/ \E h \in Publishable : HintsPublished(h)
    \/ \E s \in VaultSalts : postCryptoSalt(s)

(***************************************************************************)
(* Properties.                                                             *)
(***************************************************************************)

(* The log of devices never outgrows its cap, names no device twice and    *)
(* has the device of the last attempt (until it is removed), and the       *)
(* counts of an entry add up to the attempts made since it entered, though *)
(* sign-ins from several devices and removals overlap                      *)
(* (mergeFingerprintLog).                                                  *)
DevicesCounted ==
    /\ Len(devlog) <= DevCap
    /\ dlhist.last # "" => dlhist.last \in Listed(devlog)
    /\ \A i, j \in 1..Len(devlog) : devlog[i].id = devlog[j].id => i = j
    /\ \A i \in 1..Len(devlog) : devlog[i].failures + devlog[i].successes = dlhist.seen[devlog[i].id]

(* A device's bucket holds the failures since its last success or removal, *)
(* and is locked after each failure from LockCount on until that lock runs *)
(* out, unless another request changed the bucket between a failure's read *)
(* and its write (recordFingerprintFailure).                               *)
FailuresCounted ==
    \A d \in Devices \ dlhist.raced :
        /\ bucket[d].count = dlhist.fails[d]
        /\ bucket[d].locked = (dlhist.fails[d] >= LockCount /\ d \notin dlhist.lapsed)

(* Every browser that asks for the vault's salt is given the same one: the *)
(* first published wins (POST /api/auth/crypto-salt).                      *)
OneVaultSalt == \A s, t \in dlhist.salts : s = t

(* The sign-in page is told what was published last and the default for    *)
(* the rest: a method that is no longer published is not offered           *)
(* (POST /api/auth/login-hints replaces the hints).                        *)
HintsCurrent ==
    \A k \in Methods : getLoginHints[k] = IF dlhist.published[k] # "unset" THEN dlhist.published[k]
                                          ELSE IF k = "passwordEnabled" THEN "on" ELSE "off"
=============================================================================
