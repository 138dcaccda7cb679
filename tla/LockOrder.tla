----------------------------- MODULE LockOrder -----------------------------
(***************************************************************************)
(* The order in which the daemon's request handlers take the two locks     *)
(* that nest: the mutex around the database connection (DaemonState.db)    *)
(* and the reader-writer lock around the vault master key                  *)
(* (DaemonState.vmk).  The other locks of DaemonState (vault_uuid,         *)
(* wipe_ticket, lockout, pending_audit, sessions) are released in the      *)
(* statement that takes them and are left out.                             *)
(*                                                                         *)
(* A path is the sequence of lock operations of one way through a handler. *)
(* What a branch depends on is left out: a thread takes any path.          *)
(*     "L", "U"   db.lock() and the end of its guard                       *)
(*     "R", "r"   vmk.read() and the end of its guard                      *)
(*     "W", "w"   vmk.write() and the end of its guard                     *)
(***************************************************************************)
EXTENDS Naturals, Sequences

CONSTANTS
    Threads,     \* worker threads of the tokio runtime
    Handlers,    \* handlers that clients call, a subset of AllHandlers
    NoThread     \* a value that is not a thread

VARIABLES
    todo,       \* what is left of the path of each thread
    dbOwner,    \* the thread that holds db, or NoThread
    reads,      \* number of read guards on vmk that each thread holds
    writer,     \* the thread that holds the write guard on vmk, or NoThread
    queue       \* threads that wait in vmk.write()

lockVars == <<todo, dbOwner, reads, writer, queue>>

ASSUME NoThreadAssumption == NoThread \notin Threads

-----------------------------------------------------------------------------
(* Paths *)

Then(A, B) == {a \o b : a \in A, b \in B}

Maybe(A) == A \cup {<<>>}

Nothing == {<<>>}

StoreVmk == {<<"W", "w">>}

StoreDb == {<<"L", "U">>}

(* A guard on db around the paths of A. *)
LockedDb(A) == {<<"L">> \o a \o <<"U">> : a \in A}

(* with_vmk runs its closure under the read guard unless the vault is      *)
(* locked.                                                                 *)
WithVmk(A) == {<<"R">> \o a \o <<"r">> : a \in Maybe(A)}

(* is_locked, vmk_read_guard and the signing in write_header. *)
PeekVmk == {<<"R", "r">>}

WriteHeader == PeekVmk

(* with_vmk_db!, audit_log, and the second-factor checks of the unlock     *)
(* handlers.                                                               *)
WithVmkDb == WithVmk(LockedDb(Nothing))

(* Mutant of LockInternal: the connection stays locked while the key is    *)
(* cleared.                                                                *)
LockInternalKeepsDb == LockedDb(StoreVmk)

(* lock_internal *)
LockInternal == Then(StoreDb, StoreVmk)

(* record_failed_unlock and record_totp_failure lock the vault at the      *)
(* duress limit.                                                           *)
RecordFailure == Maybe(LockInternal)

ResetUnlockCounter == Then(PeekVmk, Maybe(WithVmkDb))

(* unlock_existing writes the header for a ticket and for new KDF          *)
(* parameters before it loads the key and the connection.                  *)
UnlockExisting ==
    Then(Maybe(WriteHeader), Then(Maybe(WriteHeader), Then(StoreVmk, StoreDb)))

CreateAndUnlock == Then(StoreVmk, Then(WriteHeader, StoreDb))

Unlocked == UnlockExisting \cup CreateAndUnlock

(* An unlock fails before it loads anything, after the write of a ticket,  *)
(* after the header of a new vault, or when no session is left for it.     *)
UnlockFailed ==
    Then(Maybe(WriteHeader) \cup Then(StoreVmk, WriteHeader) \cup Unlocked, RecordFailure)

(* The end of an unlock handler: the audit entry and the ticket. *)
ReplyPath == Then(WithVmkDb, PeekVmk)

(* unlock_with_passkey stores the signature counter after the load. *)
PasskeyLoad == Then(StoreVmk, Then(StoreDb, Maybe(LockedDb(Maybe(WriteHeader)))))

QuickLoad == Then(Maybe(WriteHeader), Then(StoreVmk, StoreDb))

RecoveryLoad == Then(StoreVmk, Then(StoreDb, ResetUnlockCounter))

UpdateLoginPolicy == LockedDb(Maybe(WriteHeader))

AddPasskeyToSidecar == LockedDb(Maybe(WriteHeader))

EnrollRecoveryKey == WithVmk(LockedDb(Maybe(WriteHeader)))

(* register_fido2 of a resident key stores a copy of the vault key in the  *)
(* sidecar from inside with_vmk_db!.                                       *)
RegisterResidentKey == WithVmk(LockedDb(Then(PeekVmk, AddPasskeyToSidecar)))

(* The sidecar is written under db, before the new key is loaded. *)
ChangePassword ==
    LET begun == Then(PeekVmk, PeekVmk)
    IN  Then(Maybe(PeekVmk), RecordFailure)
        \cup Then(begun, Then(LockedDb(Maybe(WriteHeader)), RecordFailure))
        \cup Then(begun, Then(LockedDb(WriteHeader), Then(StoreVmk, WithVmkDb)))

(* request stands for the handlers that are one use of with_vmk_db!, and   *)
(* shutdown for the signal handlers of main.                               *)
Paths ==
    [request |-> WithVmkDb,
     lock |-> Then(WithVmkDb, LockInternal),
     shutdown |-> LockInternal,
     forensic_wipe |-> Then(PeekVmk, Maybe(LockInternal)),
     unlock |-> UnlockFailed \cup
         Then(Unlocked, Then(WithVmkDb, Then(ResetUnlockCounter, ReplyPath)
                                        \cup Then(RecordFailure, LockInternal))),
     unlock_with_backup_code |-> UnlockFailed \cup
         Then(Unlocked, Then(WithVmkDb, Then(ResetUnlockCounter, ReplyPath)
                                        \cup Then(LockInternal, RecordFailure))),
     unlock_with_passkey |-> Then(Maybe(PasskeyLoad), RecordFailure) \cup
         Then(PasskeyLoad, Then(ResetUnlockCounter, ReplyPath)),
     quick_unlock |-> Then(Maybe(QuickLoad), RecordFailure) \cup
         Then(QuickLoad, Then(ResetUnlockCounter, ReplyPath)),
     unlock_with_recovery_key |-> Then(Maybe(RecoveryLoad), RecordFailure) \cup
         Then(RecoveryLoad, ReplyPath),
     quick_unlock_enroll |-> WriteHeader,
     quick_unlock_revoke |-> WriteHeader,
     update_login_policy |-> UpdateLoginPolicy,
     verify_master_password |-> Then(Maybe(PeekVmk), RecordFailure),
     change_password |-> ChangePassword,
     enroll_recovery_key |-> EnrollRecoveryKey,
     register_fido2 |-> WithVmkDb \cup RegisterResidentKey]

AllHandlers == DOMAIN Paths

ASSUME HandlersAssumption == Handlers \subseteq AllHandlers

-----------------------------------------------------------------------------
(* std::sync::Mutex and RwLock as they behave on Linux: neither is         *)
(* reentrant, and a reader waits while a writer holds the lock or waits    *)
(* for it.                                                                 *)

MutexFree == dbOwner = NoThread

Readable == writer = NoThread /\ queue = {}

Writable == writer = NoThread /\ \A t \in Threads : reads[t] = 0

Advance(t) == todo' = [todo EXCEPT ![t] = Tail(@)]

At(t, o) == todo[t] # <<>> /\ Head(todo[t]) = o

BeginPath(t, h) ==
    /\ todo[t] = <<>>
    /\ \E p \in Paths[h] : todo' = [todo EXCEPT ![t] = p]
    /\ UNCHANGED <<dbOwner, reads, writer, queue>>

LockDb(t) ==
    /\ At(t, "L") /\ MutexFree
    /\ dbOwner' = t
    /\ Advance(t)
    /\ UNCHANGED <<reads, writer, queue>>

UnlockDb(t) ==
    /\ At(t, "U")
    /\ dbOwner' = NoThread
    /\ Advance(t)
    /\ UNCHANGED <<reads, writer, queue>>

ReadVmk(t) ==
    /\ At(t, "R") /\ Readable
    /\ reads' = [reads EXCEPT ![t] = @ + 1]
    /\ Advance(t)
    /\ UNCHANGED <<dbOwner, writer, queue>>

DropRead(t) ==
    /\ At(t, "r")
    /\ reads' = [reads EXCEPT ![t] = @ - 1]
    /\ Advance(t)
    /\ UNCHANGED <<dbOwner, writer, queue>>

(* A writer that finds the lock taken announces itself and waits. *)
QueueWrite(t) ==
    /\ At(t, "W") /\ ~Writable
    /\ t \notin queue
    /\ queue' = queue \cup {t}
    /\ UNCHANGED <<todo, dbOwner, reads, writer>>

WriteVmk(t) ==
    /\ At(t, "W") /\ Writable
    /\ writer' = t
    /\ queue' = queue \ {t}
    /\ Advance(t)
    /\ UNCHANGED <<dbOwner, reads>>

DropWrite(t) ==
    /\ At(t, "w")
    /\ writer' = NoThread
    /\ Advance(t)
    /\ UNCHANGED <<dbOwner, reads, queue>>

LockInit ==
    /\ todo = [t \in Threads |-> <<>>]
    /\ dbOwner = NoThread
    /\ reads = [t \in Threads |-> 0]
    /\ writer = NoThread
    /\ queue = {}

Step(t) ==
    \/ \E h \in Handlers : BeginPath(t, h)
    \/ LockDb(t) \/ UnlockDb(t)
    \/ ReadVmk(t) \/ DropRead(t)
    \/ QueueWrite(t) \/ WriteVmk(t) \/ DropWrite(t)

LockNext == \E t \in Threads : Step(t)

LockSpec == LockInit /\ [][LockNext]_lockVars

-----------------------------------------------------------------------------
(* Properties *)

Operations == {"L", "U", "R", "r", "W", "w"}

Blocked(t) ==
    \/ At(t, "L") /\ ~MutexFree
    \/ At(t, "R") /\ ~Readable
    \/ At(t, "W") /\ ~Writable

(* Handlers never all wait for each other: whenever requests are being     *)
(* served, one of them can go on.  The daemon's handlers hold their guards *)
(* with no timeout, so a cycle of waits would last until a restart.        *)
NobodyStuck ==
    LET busy == {t \in Threads : todo[t] # <<>>}
    IN  busy # {} => \E t \in busy : ~Blocked(t)

(* The thread waits for a lock that it holds itself. *)
WaitsForItself(t) ==
    \/ At(t, "L") /\ dbOwner = t
    \/ At(t, "R") /\ reads[t] > 0

(* Two handlers, whichever they are, never wait for each other, although   *)
(* with_vmk_db! and the sidecar writers take the two locks in opposite     *)
(* orders: only a handler that takes a lock again stops them               *)
(* (register_fido2 with db, enroll_recovery_key with vmk while a writer    *)
(* waits).                                                                 *)
StuckOnlyByReentry == NobodyStuck \/ \E t \in Threads : WaitsForItself(t)
=============================================================================
