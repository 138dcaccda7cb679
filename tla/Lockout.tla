------------------------------ MODULE Lockout ------------------------------
(***************************************************************************)
(* Failed unlock attempts and what they lead to: the two LockoutTrackers   *)
(* of DaemonState (daemon/src/vault/lockout.rs), the duress limit, and the *)
(* failure events queued for the audit log (pending_audit).                *)
(*                                                                         *)
(* An attempt checks the trackers, spends a long time deriving keys,       *)
(* and only then records a failure or resets a tracker; attempts of        *)
(* several clients overlap.  All of them use the one uid that the gRPC     *)
(* server passes, so each tracker has a single entry.  Time is kept as the *)
(* number of units an entry still has to run.                              *)
(***************************************************************************)
EXTENDS Naturals, Sequences

CONSTANTS
    Callers,      \* attempts under way at the same time
    Kinds,        \* attempts that clients make, a subset of AllKinds
    Schedule,     \* LOCKOUT_SCHEDULE_SECS, in some unit of time
    DuressMax,    \* duress_max_attempts of the header, 0 when it is off
    PendingCap    \* most events that pending_audit holds

(* unlock: password, then TOTP.  backup: password, then a backup code.     *)
(* other: passkey, quick unlock.  recovery: the recovery key.  verify: a   *)
(* password check by verify_master_password or change_password.            *)
AllKinds == {"unlock", "backup", "other", "recovery", "verify"}

ASSUME KindsAssumption == Kinds \subseteq AllKinds
(* Later lockouts are not shorter than earlier ones. *)
ASSUME ScheduleAssumption ==
    /\ Schedule \in Seq(Nat)
    /\ Len(Schedule) > 1
    /\ \A m, n \in 1 .. Len(Schedule) : m <= n => Schedule[m] <= Schedule[n]
    /\ \E n \in 1 .. Len(Schedule) : Schedule[n] > 0
ASSUME BoundsAssumption == DuressMax \in Nat /\ PendingCap \in Nat

VARIABLES
    entry,      \* the entry of each tracker; count 0 when there is none
    work,       \* the attempt of each caller
    open,       \* the vault is unlocked
    granted,    \* callers whose attempt created a session that is still valid
    held,       \* some client has been given a session that is still valid
    pending,    \* number of events in pending_audit
    streak,     \* history: failures since a tracker was last reset or cleared
    wiped,      \* the duress limit erased the vault
    lost        \* history: events drained and not logged

access == <<open, granted, held>>
lockoutVars == <<entry, work, access, pending, streak, wiped, lost>>

Trackers == {"pw", "totp"}

Stages == {"idle", "check_totp", "attempt", "factor", "record", "record_totp", "relock",
           "backup_lock", "reset", "drain", "log", "reset_totp"}

(* Bound on the count: what comes after it is treated alike. *)
MaxCount == IF DuressMax <= Len(Schedule) THEN Len(Schedule) ELSE DuressMax

Absent == [count |-> 0, left |-> 0]

InForce(e) == e.count > 0 /\ e.left > 0

AtMost(n, max) == IF n <= max THEN n ELSE max

(* The schedule is looked up with a count that saturates at its end. *)
Seconds(count) == Schedule[AtMost(count, Len(Schedule) - 1) + 1]

(* LockoutTracker::record_failed_unlock.  An entry below the first lockout *)
(* has run out as soon as it is made.                                      *)
Recorded(e) ==
    LET count == AtMost(e.count + 1, MaxCount)
    IN  [count |-> count, left |-> IF Seconds(count) > 0 THEN Seconds(count) ELSE e.left]

(* LockoutTracker::check_unlock_lockout on an entry that has run out. *)
Pruned(e) == IF InForce(e) THEN e ELSE Absent

Moves(w, stage) == work' = [work EXCEPT ![w].at = stage]

(* lock_internal: no key, no connection, no session. *)
CloseVault == open' = FALSE /\ granted' = {} /\ held' = FALSE

NoAttempt == [at |-> "idle", kind |-> "none"]

(* The trackers are emptied (lock_internal with clear_lockout). *)
ClearTrackers ==
    /\ entry' = [x \in Trackers |-> Absent]
    /\ streak' = [x \in Trackers |-> 0]

-----------------------------------------------------------------------------
(* Checks: an attempt that is locked out ends here, except that the        *)
(* recovery handler records a failure whatever the error was.              *)

(* Mutant of Begin: an attempt that is locked out counts as a failure. *)
BeginRecords(w, k) ==
    /\ work[w] = NoAttempt
    /\ k = "verify" => held
    /\ IF InForce(entry["pw"])
       THEN entry' = [entry EXCEPT !["pw"] = Recorded(@)] /\ UNCHANGED work
       ELSE /\ entry' = [entry EXCEPT !["pw"] = Pruned(@)]
            /\ work' = [work EXCEPT ![w] = [at |-> "check_totp", kind |-> k]]
    /\ UNCHANGED <<access, pending, streak, wiped, lost>>

FirstStage(k) ==
    IF k \in {"unlock", "backup"} THEN "check_totp"
    ELSE IF InForce(entry["pw"]) THEN "record" ELSE "attempt"

Begin(w, k) ==
    /\ work[w] = NoAttempt
    /\ k = "verify" => held
    /\ InForce(entry["pw"]) => k = "recovery"
    /\ entry' = [entry EXCEPT !["pw"] = Pruned(@)]
    /\ work' = [work EXCEPT ![w] = [at |-> FirstStage(k), kind |-> k]]
    /\ UNCHANGED <<access, pending, streak, wiped, lost>>

CheckTotp(w) ==
    /\ work[w].at = "check_totp"
    /\ entry' = [entry EXCEPT !["totp"] = Pruned(@)]
    /\ IF InForce(entry["totp"]) THEN work' = [work EXCEPT ![w] = NoAttempt]
                                 ELSE Moves(w, "attempt")
    /\ UNCHANGED <<access, pending, streak, wiped, lost>>

(* The key derivation and the checks that follow it.  The recovery unlock  *)
(* creates its session only after the reset.                               *)
Attempt(w) ==
    /\ work[w].at = "attempt"
    /\ \/ Moves(w, "record") /\ UNCHANGED access
       \/ /\ work[w].kind # "verify"
          /\ open' = TRUE
          /\ granted' = IF work[w].kind = "recovery" THEN granted ELSE granted \cup {w}
          /\ Moves(w, IF work[w].kind \in {"unlock", "backup"} THEN "factor" ELSE "reset")
          /\ UNCHANGED held
       \/ /\ work[w].kind = "verify"
          /\ work' = [work EXCEPT ![w] = NoAttempt]
          /\ UNCHANGED access
    /\ UNCHANGED <<entry, pending, streak, wiped, lost>>

(* The second factor; it passes when none is set up. *)
Factor(w) ==
    /\ work[w].at = "factor"
    /\ \/ Moves(w, "reset")
       \/ work[w].kind = "unlock" /\ Moves(w, "record_totp")
       \/ work[w].kind = "backup" /\ Moves(w, "backup_lock")
    /\ UNCHANGED <<entry, access, pending, streak, wiped, lost>>

-----------------------------------------------------------------------------
(* Failures. *)

(* New entries for the trackers in S.  At the duress limit the vault is    *)
(* erased, which locks it and empties the trackers.                        *)
RecordIn(S) ==
    LET new == [x \in Trackers |-> IF x \in S THEN Recorded(entry[x]) ELSE entry[x]]
        limit == DuressMax > 0 /\ ~wiped /\ \E x \in S : new[x].count >= DuressMax
    IN  /\ pending' = AtMost(pending + 1, PendingCap)
        /\ wiped' = (wiped \/ limit)
        /\ IF limit THEN ClearTrackers /\ CloseVault
           ELSE /\ entry' = new
                /\ streak' = [x \in Trackers |-> IF x \in S THEN AtMost(streak[x] + 1, MaxCount)
                                                            ELSE streak[x]]
                /\ UNCHANGED access

(* record_failed_unlock *)
RecordFailure(w) ==
    /\ work[w].at = "record"
    /\ RecordIn({"pw"})
    /\ work' = [work EXCEPT ![w] = NoAttempt]
    /\ UNCHANGED lost

(* record_totp_failure counts in both trackers; then lock_keep_lockout. *)
RecordTotpFailure(w) ==
    /\ work[w].at = "record_totp"
    /\ RecordIn({"pw", "totp"})
    /\ Moves(w, "relock")
    /\ UNCHANGED lost

(* Mutant of LockKeepLockout: it is lock(). *)
LockKeepLockoutNot(w) ==
    /\ work[w].at = "relock"
    /\ CloseVault
    /\ ClearTrackers
    /\ work' = [work EXCEPT ![w] = NoAttempt]
    /\ UNCHANGED <<pending, wiped, lost>>

LockKeepLockout(w) ==
    /\ work[w].at = "relock"
    /\ CloseVault
    /\ work' = [work EXCEPT ![w] = NoAttempt]
    /\ UNCHANGED <<entry, pending, streak, wiped, lost>>

(* A wrong backup code locks the vault first and is recorded after that. *)
BackupCodeLock(w) ==
    /\ work[w].at = "backup_lock"
    /\ ClearTrackers
    /\ CloseVault
    /\ Moves(w, "record")
    /\ UNCHANGED <<pending, wiped, lost>>

-----------------------------------------------------------------------------
(* Success: reset_unlock_counter, then the TOTP tracker in complete_unlock. *)

(* The client gets its token. *)
Replied(w) ==
    /\ work' = [work EXCEPT ![w] = NoAttempt]
    /\ granted' = granted \ {w}
    /\ held' = (held \/ w \in granted \/ work[w].kind = "recovery")

Done(w) == IF work[w].kind = "unlock" THEN Moves(w, "reset_totp") /\ UNCHANGED <<granted, held>>
                                      ELSE Replied(w)

(* Mutant of ResetCounter: the entry stays. *)
ResetCounterForgets(w) ==
    /\ work[w].at = "reset"
    /\ streak' = [streak EXCEPT !["pw"] = 0]
    /\ IF open THEN Moves(w, "drain") /\ UNCHANGED <<granted, held>> ELSE Done(w)
    /\ UNCHANGED <<entry, open, pending, wiped, lost>>

ResetCounter(w) ==
    /\ work[w].at = "reset"
    /\ entry' = [entry EXCEPT !["pw"] = Absent]
    /\ streak' = [streak EXCEPT !["pw"] = 0]
    /\ IF open THEN Moves(w, "drain") /\ UNCHANGED <<granted, held>> ELSE Done(w)
    /\ UNCHANGED <<open, pending, wiped, lost>>

DrainPending(w) ==
    /\ work[w].at = "drain"
    /\ pending' = 0
    /\ IF pending > 0 THEN Moves(w, "log") /\ UNCHANGED <<granted, held>> ELSE Done(w)
    /\ UNCHANGED <<entry, open, streak, wiped, lost>>

(* with_vmk fails once the vault has been locked. *)
LogPending(w) ==
    /\ work[w].at = "log"
    /\ lost' = (lost \/ ~open)
    /\ Done(w)
    /\ UNCHANGED <<entry, open, pending, streak, wiped>>

ResetTotp(w) ==
    /\ work[w].at = "reset_totp"
    /\ entry' = [entry EXCEPT !["totp"] = Absent]
    /\ streak' = [streak EXCEPT !["totp"] = 0]
    /\ Replied(w)
    /\ UNCHANGED <<open, pending, wiped, lost>>

-----------------------------------------------------------------------------
(* A client with a session locks the vault. *)
Lock ==
    /\ held
    /\ CloseVault
    /\ ClearTrackers
    /\ UNCHANGED <<work, pending, wiped, lost>>

LockoutTick ==
    /\ \E x \in Trackers : entry[x].left > 0
    /\ entry' = [x \in Trackers |->
                   [entry[x] EXCEPT !.left = IF @ > 0 THEN @ - 1 ELSE 0]]
    /\ UNCHANGED <<work, access, pending, streak, wiped, lost>>

LockoutInit ==
    /\ entry = [x \in Trackers |-> Absent]
    /\ work = [w \in Callers |-> NoAttempt]
    /\ open = FALSE
    /\ granted = {}
    /\ held = FALSE
    /\ pending = 0
    /\ streak = [x \in Trackers |-> 0]
    /\ wiped = FALSE
    /\ lost = FALSE

Step(w) ==
    \/ \E k \in Kinds : Begin(w, k)
    \/ CheckTotp(w)
    \/ Attempt(w)
    \/ Factor(w)
    \/ RecordFailure(w)
    \/ RecordTotpFailure(w)
    \/ LockKeepLockout(w)
    \/ BackupCodeLock(w)
    \/ ResetCounter(w)
    \/ DrainPending(w)
    \/ LogPending(w)
    \/ ResetTotp(w)

LockoutNext == (\E w \in Callers : Step(w)) \/ Lock \/ LockoutTick

(* Time passes; nothing else is promised. *)
LockoutSpec == LockoutInit /\ [][LockoutNext]_lockoutVars /\ WF_lockoutVars(LockoutTick)
-----------------------------------------------------------------------------
(* Properties. *)

(* Every variable keeps the shape of the code's data. *)
LockoutTypeOK ==
    /\ entry \in [Trackers -> [count : 0 .. MaxCount, left : Nat]]
    /\ work \in [Callers -> [at : Stages, kind : Kinds \cup {"none"}]]
    /\ open \in BOOLEAN
    /\ granted \subseteq Callers
    /\ held \in BOOLEAN
    /\ pending \in 0 .. PendingCap
    /\ streak \in [Trackers -> 0 .. MaxCount]
    /\ wiped \in BOOLEAN
    /\ lost \in BOOLEAN

(* The vault is erased only after as many failures in a row as the owner   *)
(* allowed, counted by one of the trackers since it was last reset: an     *)
(* attempt that overlaps a success never carries old failures over.        *)
NoEarlyWipe ==
    [][wiped' /\ ~wiped =>
          \E x \in Trackers : streak[x] + 1 >= DuressMax]_lockoutVars

(* A lockout ends, however often clients try: attempts that it refuses do  *)
(* not prolong it, and those already under way can do so only once each.   *)
(* The exception is an attempt with the recovery key, whose handler        *)
(* records a failure for the refusal and so renews the lockout.            *)
LockoutEnds ==
    \A x \in Trackers :
        InForce(entry[x]) ~> \/ ~InForce(entry[x])
                             \/ \E w \in Callers : work[w].kind = "recovery"

(* Number of consecutive failures at which the schedule first locks out. *)
FirstLockout ==
    CHOOSE n \in 0 .. Len(Schedule) - 1 :
        Schedule[n + 1] > 0 /\ \A m \in 0 .. n - 1 : Schedule[m + 1] = 0

(* After as many failures in a row as the schedule says, the next attempt  *)
(* is locked out (Technical Reference 6.3: after 5 failures, 30 seconds).  *)
RepeatedFailuresLockOut ==
    [][streak'["pw"] > streak["pw"] /\ streak'["pw"] >= FirstLockout =>
          InForce(entry'["pw"])]_lockoutVars

(* A TOTP lockout in force ends early only by a completed unlock, by an    *)
(* erasure, or by lock(), which takes a session or a wrong backup code:    *)
(* failing the second factor again, which locks the vault too, never ends  *)
(* it (lock_keep_lockout).                                                 *)
TotpLockoutKept ==
    [][entry["totp"].left > 1 =>
          \/ entry'["totp"].left >= entry["totp"].left - 1
          \/ wiped' /\ ~wiped
          \/ held /\ UNCHANGED work
          \/ \E w \in Callers : work[w].at \in {"reset_totp", "backup_lock"} /\ work'[w] # work[w]]_lockoutVars

-----------------------------------------------------------------------------
(* Schedules for the instances *)

(* LOCKOUT_SCHEDULE_SECS in units of 30 seconds. *)
RealSchedule == <<0, 0, 0, 0, 0, 1, 2, 4, 10, 20>>

(* A short one with the shape of the real one, for overlapping attempts. *)
ShortSchedule == <<0, 2, 3>>
=============================================================================
