----------------------------- MODULE VaultState -----------------------------
(***************************************************************************)
(* The vault's keys on disk and in memory, as DaemonState keeps them       *)
(* (daemon/src/vault/state.rs and the handlers of ipc/grpc_server.rs).     *)
(*                                                                         *)
(* Two files hold the vault: the sidecar vault.db.meta (the variable meta) *)
(* and the SQLCipher database vault.db (db).  Every handler that changes   *)
(* both is split at its durable writes, because the daemon may stop        *)
(* between any two of them and each write may fail.  Handlers run one at a *)
(* time here; their interleaving is the subject of VaultThreads.           *)
(*                                                                         *)
(* Keys, salts and wipe tickets are drawn from one supply of fresh numbers *)
(* and 0 stands for "none" or for bytes that decrypt to nothing.           *)
(* Ciphertext is modelled by what opens it: wrapping the vault master key  *)
(* (VMK) k under the key-encryption key of password p and salt s is        *)
(* recorded as [pw |-> p, salt |-> s, vmk |-> k].                          *)
(***************************************************************************)
EXTENDS Naturals, FiniteSets

CONSTANTS
    Passwords,      \* master passwords a user may choose
    NoFile,         \* a file that is not on disk
    MaxFresh,       \* bound on the numbers drawn (keys, salts, tickets)
    Requests,       \* optional requests that clients may send
    HeavyKdf,       \* values is_legacy_heavy can take on tune_params()
    Outcomes,       \* results a file write may have (FALSE: an I/O error)
    InitVaults      \* kinds of vault the daemon may find when it starts

ASSUME MaxFreshAssumption == MaxFresh \in Nat \ {0}
ASSUME PasswordsAssumption == Passwords # {}
ASSUME HeavyKdfAssumption == HeavyKdf # {} /\ HeavyKdf \subseteq BOOLEAN
ASSUME OutcomesAssumption == TRUE \in Outcomes /\ Outcomes \subseteq BOOLEAN
ASSUME InitVaultsAssumption ==
    InitVaults # {}
    /\ InitVaults \subseteq {"absent", "current", "heavy", "ticketless", "passkey"}

VARIABLES
    meta,      \* the sidecar: a header, or NoFile
    db,        \* the database file, or NoFile
    vmk,       \* DaemonState.vmk: the key in memory, 0 when locked
    conn,      \* DaemonState.db holds an open connection
    ticket,    \* DaemonState.wipe_ticket, 0 when None
    session,   \* some session token is valid
    op,        \* the handler in progress between two durable writes
    fresh,     \* next unused number
    held,      \* sealed wipe tickets clients hold: <<ticket, sealing key>>
    torn       \* history: a two-file update was cut between its files

memory == <<vmk, conn, ticket, session>>
vars == <<meta, db, memory, op, fresh, held, torn>>

Num == 0 .. MaxFresh

(* What header_hmac covers: every field of VaultHeader but the HMAC. *)
Body == [pw : Passwords, salt : Num, vmk : Num, heavy : BOOLEAN,
         pwLogin : BOOLEAN, duress : BOOLEAN, passkeys : SUBSET Num,
         quick : SUBSET (Passwords \X Num), recovery : Num, ticket : Num]

(* header_hmac is recorded as the key and the body it was computed over;   *)
(* key 0 is an absent HMAC.                                                *)
Header == [body : Body, macKey : Num, macBody : Body]

(* audit, data and totp: the keys under which the rows of audit_log, the   *)
(* stored items and the TOTP secret were written (totp = 0: no TOTP).      *)
Database == [key : Num, audit : SUBSET Num, data : SUBSET Num, totp : Num]

Stages == {"idle", "create_open", "ticket", "rewrap", "load",
           "change_header", "change_load",
           "erase_meta", "erase_db", "erase_unlink"}

Operation == [at : Stages, key : Num, ticket : Num, quick : BOOLEAN]

ASSUME NoFileAssumption == NoFile \notin Header /\ NoFile \notin Database

At(stage, k, t, q) == [at |-> stage, key |-> k, ticket |-> t, quick |-> q]

Idle == At("idle", 0, 0, FALSE)

-----------------------------------------------------------------------------
(* Helpers. *)

(* Mutant of WriteHeader: the HMAC is never computed anew. *)
WriteHeaderUnsigned(h, b, k) == [h EXCEPT !.body = b]

(* write_header: with a key in memory the HMAC is recomputed under it;     *)
(* while locked the HMAC read from the file is written back unchanged.     *)
WriteHeader(h, b, k) ==
    IF k # 0 THEN [body |-> b, macKey |-> k, macBody |-> b]
             ELSE [h EXCEPT !.body = b]

(* The mandatory HMAC check of unlock_existing. *)
HeaderIntact(h, k) == h.macKey = k /\ h.macBody = h.body

NewDb(k) == [key |-> k, audit |-> {}, data |-> {}, totp |-> 0]

(* open_vault followed by verify_chain: a missing file is created, an      *)
(* existing one must have this key and an audit chain that verifies.       *)
Opens(k) == k # 0 /\ (db # NoFile => db.key = k /\ db.audit \subseteq {k})

Opened(k) == IF db = NoFile THEN NewDb(k) ELSE db

(* audit::log through a loaded connection. *)
Logged(d, k) == [d EXCEPT !.audit = @ \cup {k}]

(* PRAGMA rekey: pages get the new key, the rows in them do not change. *)
RekeyVault(d, k) == [d EXCEPT !.key = k]

StoredUnder(d, k) == [d EXCEPT !.data = @ \cup {k}]
WithTotp(d, k) == [d EXCEPT !.totp = k]

(* The checks of unlock_existing on password p, up to migrate_data_to_v2. *)
PasswordUnlocks(p) ==
    /\ meta # NoFile
    /\ db # NoFile
    /\ meta.body.pwLogin
    /\ p = meta.body.pw
    /\ HeaderIntact(meta, meta.body.vmk)
    /\ Opens(meta.body.vmk)

(* A quick-unlock entry holds a KEK; it opens the header while the header  *)
(* is still wrapped under that KEK.                                        *)
QuickEntryOpens(e) == e = <<meta.body.pw, meta.body.salt>>

(* Changes to the header's fields. *)
WithTicket(b, t) == [b EXCEPT !.ticket = t]
WithQuick(b, q) == [b EXCEPT !.quick = q]
WithRecovery(b, k) == [b EXCEPT !.recovery = k]
WithPolicy(b, p, d) == [b EXCEPT !.pwLogin = p, !.duress = d]

(* A new salt and KEK around the VMK k, as the KDF migration writes it. *)
Rewrapped(b, s, k, h) == [b EXCEPT !.salt = s, !.vmk = k, !.heavy = h]

(* The header change_password writes; recovery and ticket stay. *)
Rekeyed(b, p, k, h) ==
    [b EXCEPT !.pw = p, !.salt = k, !.vmk = k, !.heavy = h,
              !.passkeys = {}, !.quick = {}]

(* Mutant of Sanitised: the key copies of passkeys stay. *)
SanitisedNotPasskeys(b) == [b EXCEPT !.salt = 0, !.vmk = 0, !.ticket = 0, !.quick = {}]

(* sanitise_header: recovery_key_copy and header_hmac are left as read. *)
Sanitised(b) ==
    [b EXCEPT !.salt = 0, !.vmk = 0, !.ticket = 0, !.quick = {},
              !.passkeys = {0 : k \in @}]

(* Mutant of ClearMemory: the sessions stay. *)
ClearMemoryNotSessions ==
    vmk' = 0 /\ conn' = FALSE /\ ticket' = 0 /\ UNCHANGED session

(* lock_internal *)
ClearMemory == vmk' = 0 /\ conn' = FALSE /\ ticket' = 0 /\ session' = FALSE

(* forensic_wipe_internal locks first, then erases the files. *)
StartErase == ClearMemory /\ op' = At("erase_meta", 0, 0, FALSE)

(* record_failed_unlock: at the duress threshold the vault is erased.  The *)
(* failure counter itself is modelled in Lockout, so either may happen.    *)
Refuse ==
    \/ op' = Idle /\ UNCHANGED memory
    \/ meta # NoFile /\ meta.body.duress /\ StartErase

Enabled(r) == r \in Requests /\ op = Idle

(* A request with a session token, on a loaded vault (auth_then! around    *)
(* with_vmk_db!).                                                          *)
Authorised(r) == Enabled(r) /\ session /\ vmk # 0 /\ conn

-----------------------------------------------------------------------------
(* Creation and the password unlock. *)

CreateVault(p) ==
    /\ op = Idle
    /\ db = NoFile
    /\ fresh <= MaxFresh
    /\ fresh' = fresh + 1
    /\ \E h \in HeavyKdf :
         LET b == [pw |-> p, salt |-> fresh, vmk |-> fresh, heavy |-> h,
                   pwLogin |-> TRUE, duress |-> FALSE, passkeys |-> {},
                   quick |-> {}, recovery |-> 0, ticket |-> fresh]
         IN  \/ /\ meta' = WriteHeader([body |-> b, macKey |-> 0, macBody |-> b],
                                       b, fresh)
                /\ vmk' = fresh
                /\ op' = At("create_open", fresh, fresh, FALSE)
                /\ UNCHANGED <<conn, ticket, session>>
             \/ /\ FALSE \in Outcomes
                /\ \/ vmk' = fresh /\ op' = Idle /\ UNCHANGED <<conn, ticket, session>>
                   \/ meta # NoFile /\ meta.body.duress /\ StartErase
                /\ UNCHANGED meta
    /\ UNCHANGED <<db, held, torn>>

CreateOpen ==
    /\ op.at = "create_open"
    /\ \/ /\ db' = Logged(NewDb(op.key), op.key)
          /\ conn' = TRUE
          /\ ticket' = op.ticket
          /\ session' = TRUE
          /\ held' = held \cup {<<op.ticket, op.key>>}
          /\ op' = Idle
          /\ UNCHANGED vmk
       \/ FALSE \in Outcomes /\ Refuse /\ UNCHANGED <<db, held>>
    /\ UNCHANGED <<meta, fresh, torn>>

UnlockExisting(p) ==
    /\ op = Idle
    /\ PasswordUnlocks(p)
    /\ meta.body.ticket = 0 \/ meta.body.heavy => fresh < MaxFresh
    /\ op' = At(IF meta.body.ticket = 0 THEN "ticket" ELSE "rewrap",
                meta.body.vmk, 0, FALSE)
    /\ UNCHANGED <<meta, db, memory, fresh, held, torn>>

(* A header without wipe_ticket_hash gets a new ticket.  A failed write    *)
(* ends the password unlock and is ignored by the quick unlock.            *)
WriteTicket ==
    /\ op.at = "ticket"
    /\ fresh <= MaxFresh
    /\ fresh' = fresh + 1
    /\ LET next == At(IF op.quick THEN "load" ELSE "rewrap", op.key, fresh, op.quick)
       IN  \/ /\ meta' = WriteHeader(meta, WithTicket(meta.body, fresh), vmk)
              /\ op' = next
              /\ UNCHANGED memory
           \/ /\ FALSE \in Outcomes
              /\ IF op.quick THEN op' = next /\ UNCHANGED memory ELSE Refuse
              /\ UNCHANGED meta
    /\ UNCHANGED <<db, held, torn>>

(* rewrap_vmk_with_current_kdf: a new salt and KEK around the same VMK; a  *)
(* failed write is not fatal.                                              *)
Rewrap ==
    /\ op.at = "rewrap"
    /\ op' = At("load", op.key, op.ticket, op.quick)
    /\ \/ /\ meta.body.heavy
          /\ fresh <= MaxFresh
          /\ fresh' = fresh + 1
          /\ \E h \in HeavyKdf :
               meta' = WriteHeader(meta, Rewrapped(meta.body, fresh, op.key, h), vmk)
       \/ /\ meta.body.heavy => FALSE \in Outcomes
          /\ UNCHANGED <<meta, fresh>>
    /\ UNCHANGED <<db, memory, held, torn>>

(* Mutant of Load: the key and the wipe ticket of the stage are swapped. *)
LoadSwapped ==
    /\ op.at = "load"
    /\ \/ /\ op.quick \/ db.totp \in {0, op.key}
          /\ vmk' = op.ticket
          /\ conn' = TRUE
          /\ ticket' = op.key
          /\ session' = TRUE
          /\ db' = Logged(db, op.key)
          /\ op' = Idle
          /\ UNCHANGED held
       \/ /\ ~op.quick
          /\ \/ ClearMemory /\ op' = Idle
             \/ meta.body.duress /\ StartErase
          /\ UNCHANGED <<db, held>>
    /\ UNCHANGED <<meta, fresh, torn>>

(* The fields of DaemonState are filled in.  The password paths then ask   *)
(* for the second factor: a TOTP code, or a backup code when TOTP is set   *)
(* up, both stored under the key that was in use at set-up.                *)
Load ==
    /\ op.at = "load"
    /\ \/ /\ op.quick \/ db.totp \in {0, op.key}
          /\ vmk' = op.key
          /\ conn' = TRUE
          /\ ticket' = op.ticket
          /\ session' = TRUE
          /\ db' = Logged(db, op.key)
          /\ held' = IF op.ticket = 0 THEN held
                                      ELSE held \cup {<<op.ticket, op.key>>}
          /\ op' = Idle
       \/ /\ ~op.quick
          /\ \/ ClearMemory /\ op' = Idle
             \/ meta.body.duress /\ StartErase
          /\ UNCHANGED <<db, held>>
    /\ UNCHANGED <<meta, fresh, torn>>

-----------------------------------------------------------------------------
(* Unlocking without the password. *)

(* State common to the passkey and the recovery unlock: key k is loaded    *)
(* and no wipe ticket is kept in memory.                                   *)
LoadWithoutTicket(k) ==
    /\ vmk' = k
    /\ conn' = TRUE
    /\ ticket' = 0
    /\ session' = TRUE
    /\ db' = Logged(Opened(k), k)

(* A sign count that went up is written to the sidecar once the key is in  *)
(* memory; the result of that write is ignored.                            *)
UnlockWithPasskey ==
    /\ Enabled("unlock_with_passkey")
    /\ meta # NoFile
    /\ \E k \in meta.body.passkeys :
         /\ Opens(k)
         /\ LoadWithoutTicket(k)
         /\ meta' \in {meta, WriteHeader(meta, meta.body, k)}
    /\ UNCHANGED <<op, fresh, held, torn>>

UnlockWithRecoveryKey ==
    /\ Enabled("unlock_with_recovery_key")
    /\ meta # NoFile
    /\ Opens(meta.body.recovery)
    /\ LoadWithoutTicket(meta.body.recovery)
    /\ UNCHANGED <<meta, op, fresh, held, torn>>

QuickUnlock ==
    /\ Enabled("quick_unlock")
    /\ meta # NoFile
    /\ \E e \in meta.body.quick : QuickEntryOpens(e)
    /\ Opens(meta.body.vmk)
    /\ meta.body.ticket = 0 => fresh <= MaxFresh
    /\ db' = Opened(meta.body.vmk)
    /\ op' = At(IF meta.body.ticket = 0 THEN "ticket" ELSE "load",
                meta.body.vmk, 0, TRUE)
    /\ UNCHANGED <<meta, memory, fresh, held, torn>>

(* Any refused unlock or password check, once the duress limit is set. *)
RefusedAttempt ==
    /\ op = Idle
    /\ meta # NoFile
    /\ meta.body.duress
    /\ StartErase
    /\ UNCHANGED <<meta, db, fresh, held, torn>>

-----------------------------------------------------------------------------
(* Requests on an open vault. *)

(* A sidecar update made while the vault is open. *)
UpdateSidecar(b) ==
    /\ meta' = WriteHeader(meta, b, vmk)
    /\ UNCHANGED <<db, memory, op, fresh, held, torn>>

(* The entry wraps the KEK of the password given, which is not verified. *)
QuickUnlockEnroll(p) ==
    /\ Authorised("quick_unlock")
    /\ meta # NoFile
    /\ UpdateSidecar(WithQuick(meta.body, meta.body.quick \cup {<<p, meta.body.salt>>}))

QuickUnlockRevoke ==
    /\ Authorised("quick_unlock")
    /\ meta # NoFile
    /\ UpdateSidecar(WithQuick(meta.body, {}))

EnrollRecoveryKey ==
    /\ Authorised("unlock_with_recovery_key")
    /\ meta # NoFile
    /\ UpdateSidecar(WithRecovery(meta.body, vmk))

UpdateLoginPolicy(p, d) ==
    /\ Authorised("update_login_policy")
    /\ meta # NoFile
    /\ UpdateSidecar(WithPolicy(meta.body, p, d))

(* A row written or rewritten under the key in memory, with its audit row. *)
StoreItem ==
    /\ Authorised("store_item")
    /\ db' = Logged(StoredUnder(db, vmk), vmk)
    /\ UNCHANGED <<meta, memory, op, fresh, held, torn>>

(* TOTP is set up, and removed by a client that still has a valid code. *)
SetupVaultTotp ==
    /\ Authorised("vault_totp")
    /\ db' = Logged(WithTotp(db, vmk), vmk)
    /\ UNCHANGED <<meta, memory, op, fresh, held, torn>>

RemoveVaultTotp ==
    /\ Authorised("vault_totp")
    /\ db.totp = vmk
    /\ db' = Logged(WithTotp(db, 0), vmk)
    /\ UNCHANGED <<meta, memory, op, fresh, held, torn>>

Lock ==
    /\ op = Idle
    /\ session
    /\ db' = IF vmk # 0 /\ conn THEN Logged(db, vmk) ELSE db
    /\ ClearMemory
    /\ UNCHANGED <<meta, op, fresh, held, torn>>

-----------------------------------------------------------------------------
(* The master password change: rekey the database, write the header, then  *)
(* replace the key in memory and log the change.                           *)

ChangePassword ==
    /\ Authorised("change_password")
    /\ meta # NoFile
    /\ meta.body.vmk = vmk
    /\ fresh <= MaxFresh
    /\ fresh' = fresh + 1
    /\ db' = RekeyVault(db, fresh)
    /\ op' = At("change_header", fresh, 0, FALSE)
    /\ UNCHANGED <<meta, memory, held, torn>>

ChangeHeader ==
    /\ op.at = "change_header"
    /\ \/ /\ \E p \in Passwords, h \in HeavyKdf :
               meta' = WriteHeader(meta, Rekeyed(meta.body, p, op.key, h), vmk)
          /\ op' = At("change_load", op.key, 0, FALSE)
          /\ UNCHANGED <<memory, torn>>
       \/ /\ FALSE \in Outcomes
          /\ Refuse
          /\ torn' = TRUE
          /\ UNCHANGED meta
    /\ UNCHANGED <<db, fresh, held>>

ChangeLoad ==
    /\ op.at = "change_load"
    /\ vmk' = op.key
    /\ db' = Logged(db, op.key)
    /\ op' = Idle
    /\ UNCHANGED <<meta, conn, ticket, session, fresh, held, torn>>

-----------------------------------------------------------------------------
(* Erasure. *)

(* The client's sealed ticket must open under the key in memory and match  *)
(* wipe_ticket_hash.                                                       *)
ForensicWipe ==
    /\ op = Idle
    /\ vmk # 0
    /\ meta # NoFile
    /\ meta.body.ticket # 0
    /\ <<meta.body.ticket, vmk>> \in held
    /\ StartErase
    /\ UNCHANGED <<meta, db, fresh, held, torn>>

(* The header is sanitised in place (cryptographic_erase), left as it is   *)
(* when that fails, or destroyed at once (VAULT_WIPE_MODE=overwrite).      *)
EraseMeta ==
    /\ op.at = "erase_meta"
    /\ \/ meta' = WriteHeader(meta, Sanitised(meta.body), 0)
       \/ FALSE \in Outcomes /\ UNCHANGED meta
       \/ "overwrite" \in Requests /\ meta' = NoFile
    /\ op' = At("erase_db", 0, 0, FALSE)
    /\ UNCHANGED <<db, memory, fresh, held, torn>>

EraseDb ==
    /\ op.at = "erase_db"
    /\ db' = NoFile
    /\ op' = At("erase_unlink", 0, 0, FALSE)
    /\ UNCHANGED <<meta, memory, fresh, held, torn>>

EraseUnlink ==
    /\ op.at = "erase_unlink"
    /\ meta' = NoFile
    /\ op' = Idle
    /\ UNCHANGED <<db, memory, fresh, held, torn>>

(* The daemon stops, at any point, and starts again with nothing in        *)
(* memory.  A shutdown between requests and the exit that follows a        *)
(* forensic wipe have the same effect.                                     *)
Crash ==
    /\ "crash" \in Requests
    /\ ClearMemory
    /\ op' = Idle
    /\ torn' = (torn \/ op.at \in {"change_header", "erase_unlink"})
    /\ UNCHANGED <<meta, db, fresh, held>>

-----------------------------------------------------------------------------
(* A vault written by an earlier run of this or of an older release. *)
StoredBody(kind, p) ==
    [pw |-> p, salt |-> 1, vmk |-> 1, heavy |-> kind = "heavy",
     pwLogin |-> TRUE, duress |-> FALSE,
     passkeys |-> IF kind = "passkey" THEN {1} ELSE {},
     quick |-> {}, recovery |-> 0, ticket |-> IF kind = "ticketless" THEN 0 ELSE 1]

Init ==
    /\ \E kind \in InitVaults, p \in Passwords :
         IF kind = "absent"
         THEN meta = NoFile /\ db = NoFile /\ fresh = 1
         ELSE /\ meta = [body |-> StoredBody(kind, p), macKey |-> 1,
                         macBody |-> StoredBody(kind, p)]
              /\ db = Logged(StoredUnder(NewDb(1), 1), 1)
              /\ fresh = 2
    /\ vmk = 0
    /\ conn = FALSE
    /\ ticket = 0
    /\ session = FALSE
    /\ op = Idle
    /\ held = {}
    /\ torn = FALSE

Next ==
    \/ \E p \in Passwords : CreateVault(p) \/ UnlockExisting(p) \/ QuickUnlockEnroll(p)
    \/ CreateOpen
    \/ WriteTicket
    \/ Rewrap
    \/ Load
    \/ UnlockWithPasskey
    \/ UnlockWithRecoveryKey
    \/ QuickUnlock
    \/ RefusedAttempt
    \/ QuickUnlockRevoke
    \/ EnrollRecoveryKey
    \/ \E p, d \in BOOLEAN : UpdateLoginPolicy(p, d)
    \/ StoreItem
    \/ SetupVaultTotp
    \/ RemoveVaultTotp
    \/ Lock
    \/ ChangePassword
    \/ ChangeHeader
    \/ ChangeLoad
    \/ ForensicWipe
    \/ EraseMeta
    \/ EraseDb
    \/ EraseUnlink
    \/ Crash

Spec == Init /\ [][Next]_vars
-----------------------------------------------------------------------------
(* Properties. *)

(* Every variable keeps the shape of the code's data. *)
TypeOK ==
    /\ meta \in Header \cup {NoFile}
    /\ db \in Database \cup {NoFile}
    /\ vmk \in Num
    /\ conn \in BOOLEAN
    /\ ticket \in Num
    /\ session \in BOOLEAN
    /\ op \in Operation
    /\ fresh \in 1 .. MaxFresh + 1
    /\ held \subseteq (Num \X Num)
    /\ torn \in BOOLEAN

(* Both files of a vault are on disk, no handler is half way, and the      *)
(* header has not been sanitised by a wipe.                                *)
Intact ==
    /\ op = Idle
    /\ meta # NoFile
    /\ db # NoFile
    /\ meta.body.vmk # 0

(* The owner is never shut out: whatever sequence of requests, I/O errors  *)
(* and crashes went before, the current master password passes every check *)
(* of unlock_existing (HMAC, SQLCipher key, audit chain) as long as        *)
(* password login is enabled.                                              *)
PasswordOpens ==
    Intact /\ meta.body.pwLogin => PasswordUnlocks(meta.body.pw)

(* Every copy of the VMK in the sidecar (passkey entries, recovery key)    *)
(* still opens the database.                                               *)
SidecarCopiesOpen ==
    Intact => \A k \in (meta.body.passkeys \cup {meta.body.recovery}) \ {0} : Opens(k)

(* A quick-unlock entry enrolled with the current password still unwraps   *)
(* the header: no write of the header leaves it behind.                    *)
QuickEntriesCurrent ==
    Intact => \A e \in meta.body.quick :
                e[1] = meta.body.pw => QuickEntryOpens(e)

(* While a session is valid, everything stored in the database was written *)
(* under the key in memory, so every item can be read back.                *)
DataReadable ==
    op = Idle /\ session => db.data \subseteq {vmk} /\ db.totp \in {0, vmk}

(* A client that holds the ticket whose hash is in the header can use it   *)
(* whenever the vault is open.                                             *)
HeldTicketUsable ==
    op = Idle /\ session /\ meta # NoFile =>
        \A h \in held : h[1] = meta.body.ticket => h[2] = vmk

(* Every way in that the sidecar offers leads in, whatever requests, write *)
(* errors and crashes went before: the password, the copies of the key and *)
(* the quick-unlock entries.                                               *)
WaysInOpen == PasswordOpens /\ SidecarCopiesOpen /\ QuickEntriesCurrent

(* An open vault can be used: its items are read and its ticket is taken.  *)
OpenVaultUsable == DataReadable /\ HeldTicketUsable

(* The header, the database and the memory agree on the VMK, except inside *)
(* the window of change_password and after a two-file update was cut.      *)
KeysAgree ==
    ~torn /\ meta # NoFile /\ db # NoFile /\ meta.body.vmk # 0 =>
        /\ meta.body.vmk = IF op.at = "change_header" THEN vmk ELSE db.key
        /\ meta.body.passkeys \subseteq {0, meta.body.vmk}
        /\ session /\ op.at \notin {"change_header", "change_load"} => vmk = db.key

(* A daemon that stops half way through an erasure, after the header was   *)
(* sanitised, never opens the database that is left, by whatever entry of  *)
(* the header.  The exception is a recovery key, whose copy of the VMK     *)
(* sanitise_header does not touch.                                         *)
ErasedIsOpaque ==
    meta # NoFile /\ db # NoFile /\ meta.body.vmk = 0 /\ meta.body.recovery = 0 => vmk = 0

(* A connection is only installed for a key that fits the database file    *)
(* and under which every audit row verifies, on each of the unlock paths.  *)
OnlyVerifiedKeysLoaded ==
    [][conn' /\ ~conn /\ db # NoFile =>
          db.key = vmk' /\ db.audit \subseteq {vmk'}]_vars
=============================================================================
