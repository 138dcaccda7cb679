---------------------------- MODULE VaultThreads ----------------------------
(***************************************************************************)
(* The vault in memory while handlers of several clients overlap.          *)
(*                                                                         *)
(* DaemonState keeps the vault key, the connection, the vault's id and the *)
(* sessions behind separate locks.  An unlock fills them and a lock clears *)
(* them one after the other, each in a statement that takes and releases   *)
(* one lock, so the steps of an unlock, a lock and a password change       *)
(* interleave.  VaultState models the same handlers one at a time and in   *)
(* full; here the sidecar is reduced to what an overlapping handler can    *)
(* disturb, and failure counters (Lockout) and the wipe ticket are left    *)
(* out.  Keys are numbered; 0 stands for no key, no file, no connection.   *)
(***************************************************************************)
EXTENDS Naturals, FiniteSets

CONSTANTS
    Clients,     \* clients; each has at most one request under way
    RequestKinds, \* requests that clients make, a subset of AllRequestKinds
    Totp,        \* TOTP is set up in the vault
    Present,     \* whether the vault may exist, or be missing, at the start
    MaxKeys,     \* bound on the number of vault keys
    Overlap      \* most requests under way at the same time

(* unlock: password and TOTP.  copy: a copy of the vault key in the        *)
(* sidecar (passkey, quick unlock, recovery key), with no TOTP.            *)
AllRequestKinds == {"unlock", "copy", "lock", "change_password"}

ASSUME RequestKindsAssumption == RequestKinds \subseteq AllRequestKinds
ASSUME FlagsAssumption == Totp \in BOOLEAN /\ Present \subseteq BOOLEAN /\ Present # {}
ASSUME OverlapBounds == MaxKeys \in Nat \ {0} /\ Overlap \in Nat \ {0}

VARIABLES
    meta,        \* the sidecar: key it wraps, key of its HMAC, key copies
    file,        \* key of the database file
    vmk,         \* key in memory
    conn,        \* key that the connection in memory was given
    uuid,        \* vault_uuid is set
    sessions,    \* clients with a live session
    task,        \* the request of each client: kind, next step, its key
    fresh,       \* next vault key
    origin,      \* history: the key by which each client's session came about
    proved,      \* history: clients whose last unlock checked its factors
    told,        \* history: clients that were sent the session they have
    quiet,       \* history: locks under way that nothing else has overlapped
    calm,        \* history: such a lock has ended and nothing was loaded since
    met          \* history: overlaps of requests, since such a lock for two of them

memory == <<vmk, conn, uuid, sessions>>
overlapHistory == <<origin, proved, told, quiet, calm>>
overlapVars == <<meta, file, memory, task, fresh, overlapHistory, met>>

NoTask == [kind |-> "none", at |-> "idle", key |-> 0]

InFlight == {c \in Clients : task[c] # NoTask}

(* Requests that load a key or a connection. *)
Loading == {c \in Clients : task[c].kind \in {"unlock", "copy", "change_password"}}

Closing == {c \in Clients : task[c].at \in {"clear_db", "clear_vmk", "clear_uuid", "revoke_all"}}

Creating == {c \in Clients : task[c].at \in {"create", "create_header", "create_open"}}

Changing == {c \in Clients : task[c].kind = "change_password"}

Several(S) == \E c, d \in S : c # d

(* The overlaps that the code does not exclude and that leave traces: two  *)
(* first unlocks; clearing and filling the memory at once; a password      *)
(* change while another request loads a key.                               *)
Overlaps ==
    (IF Several(Creating) THEN {"create_create"} ELSE {})
    \cup (IF Closing # {} /\ Loading \ Closing # {} THEN {"close_load"} ELSE {})
    \cup (IF Changing # {} /\ Several(Loading) THEN {"change_load"} ELSE {})

Goes(c, step) == task' = [task EXCEPT ![c].at = step]

Ends(c) == task' = [task EXCEPT ![c] = NoTask]

Starts(c, k, step, key) ==
    /\ Cardinality(InFlight) < Overlap
    /\ task[c] = NoTask
    /\ task' = [task EXCEPT ![c] = [kind |-> k, at |-> step, key |-> key]]

(* The number of a key that a request is going to generate. *)
TakesKey == fresh <= MaxKeys /\ fresh' = fresh + 1

Disturbs == quiet' = {} /\ calm' = FALSE

-----------------------------------------------------------------------------
(* Unlock *)

(* unlock: an existing vault is opened, a missing one created. *)
BeginUnlock(c, k) ==
    /\ c \notin sessions
    /\ IF file = 0
       THEN k = "unlock" /\ TakesKey /\ Starts(c, k, "create", fresh)
       ELSE UNCHANGED fresh /\ Starts(c, k, "read", 0)
    /\ proved' = proved \ {c}
    /\ told' = told \ {c}
    /\ Disturbs
    /\ UNCHANGED <<meta, file, memory, origin>>

(* The header is read and its key unwrapped.  A password unlock checks the *)
(* header's HMAC; the other ways need a copy of the key.                   *)
ReadHeader(c) ==
    /\ task[c].at = "read"
    /\ IF meta.key # 0 /\ (IF task[c].kind = "copy" THEN meta.copies ELSE meta.mac = meta.key)
       THEN task' = [task EXCEPT ![c].at = "open", ![c].key = meta.key]
       ELSE Ends(c)
    /\ UNCHANGED <<meta, file, memory, fresh, overlapHistory>>

(* open_vault on the existing file. *)
OpenVault(c) ==
    /\ task[c].at = "open"
    /\ IF file = task[c].key THEN Goes(c, "set_vmk") ELSE Ends(c)
    /\ UNCHANGED <<meta, file, memory, fresh, overlapHistory>>

(* create_and_unlock loads a new key before it writes anything. *)
CreateKey(c) ==
    /\ task[c].at = "create"
    /\ vmk' = task[c].key
    /\ Goes(c, "create_header")
    /\ UNCHANGED <<meta, file, conn, uuid, sessions, fresh, overlapHistory>>

(* write_header signs with the key that is in memory at that moment. *)
CreateHeader(c) ==
    /\ task[c].at = "create_header"
    /\ meta' = [key |-> task[c].key, mac |-> vmk, copies |-> FALSE]
    /\ Goes(c, "create_open")
    /\ UNCHANGED <<file, memory, fresh, overlapHistory>>

CreateOpen(c) ==
    /\ task[c].at = "create_open"
    /\ IF file \in {0, task[c].key}
       THEN file' = task[c].key /\ Goes(c, "set_db")
       ELSE Ends(c) /\ UNCHANGED file
    /\ UNCHANGED <<meta, memory, fresh, overlapHistory>>

SetVmk(c) ==
    /\ task[c].at = "set_vmk"
    /\ vmk' = task[c].key
    /\ Goes(c, "set_db")
    /\ UNCHANGED <<meta, file, conn, uuid, sessions, fresh, overlapHistory>>

SetDb(c) ==
    /\ task[c].at = "set_db"
    /\ conn' = task[c].key
    /\ Goes(c, "set_uuid")
    /\ UNCHANGED <<meta, file, vmk, uuid, sessions, fresh, overlapHistory>>

SetUuid(c) ==
    /\ task[c].at = "set_uuid"
    /\ uuid' = TRUE
    /\ Goes(c, "create_session")
    /\ UNCHANGED <<meta, file, vmk, conn, sessions, fresh, overlapHistory>>

(* The ways in that need no TOTP answer the client at once. *)
CreateSession(c) ==
    /\ task[c].at = "create_session"
    /\ sessions' = sessions \cup {c}
    /\ origin' = [origin EXCEPT ![c] = task[c].key]
    /\ IF task[c].kind = "copy"
       THEN /\ proved' = proved \cup {c}
            /\ told' = told \cup {c}
            /\ Ends(c)
       ELSE Goes(c, "gate") /\ UNCHANGED <<proved, told>>
    /\ UNCHANGED <<meta, file, vmk, conn, uuid, fresh, quiet, calm>>

(* Mutant of TotpGate: a wrong code is recorded but does not end the       *)
(* unlock.                                                                 *)
TotpGateAlwaysReplies(c) ==
    /\ task[c].at = "gate"
    /\ Goes(c, IF vmk = 0 THEN "clear_db" ELSE "reply")
    /\ proved' \in {proved, proved \cup {c}}
    /\ UNCHANGED <<meta, file, memory, fresh, origin, told, quiet, calm>>

(* The TOTP check of the unlock handler, under vmk.read() and db.lock().   *)
(* With no key in memory it fails.  With no connection, or with one that   *)
(* cannot read the database, is_active is false and it passes.  A failed   *)
(* check locks the vault (lock_keep_lockout).                              *)
TotpGate(c) ==
    /\ task[c].at = "gate"
    /\ \/ /\ vmk = 0
          /\ Goes(c, "clear_db")
          /\ UNCHANGED proved
       \/ /\ vmk # 0 /\ (conn = 0 \/ conn # file \/ ~Totp)
          /\ Goes(c, "reply")
          /\ proved' = IF Totp THEN proved ELSE proved \cup {c}
       \/ /\ vmk # 0 /\ conn # 0 /\ conn = file /\ Totp
          /\ \/ Goes(c, "reply") /\ proved' = proved \cup {c}
             \/ Goes(c, "clear_db") /\ UNCHANGED proved
    /\ UNCHANGED <<meta, file, memory, fresh, origin, told, quiet, calm>>

Reply(c) ==
    /\ task[c].at = "reply"
    /\ told' = told \cup {c}
    /\ Ends(c)
    /\ UNCHANGED <<meta, file, memory, fresh, origin, proved, quiet, calm>>

-----------------------------------------------------------------------------
(* Lock: lock_internal, one lock after the other.  A failed TOTP check     *)
(* goes through the same steps.                                            *)

BeginLock(c) ==
    /\ c \in sessions
    /\ Starts(c, "lock", "clear_db", 0)
    /\ UNCHANGED <<meta, file, memory, fresh, overlapHistory>>

ClearDb(c) ==
    /\ task[c].at = "clear_db"
    /\ conn' = 0
    /\ quiet' = IF Loading \subseteq {c} THEN quiet \cup {c} ELSE quiet
    /\ Goes(c, "clear_vmk")
    /\ UNCHANGED <<meta, file, vmk, uuid, sessions, fresh, origin, proved, told, calm>>

ClearVmk(c) ==
    /\ task[c].at = "clear_vmk"
    /\ vmk' = 0
    /\ Goes(c, "clear_uuid")
    /\ UNCHANGED <<meta, file, conn, uuid, sessions, fresh, overlapHistory>>

ClearUuid(c) ==
    /\ task[c].at = "clear_uuid"
    /\ uuid' = FALSE
    /\ Goes(c, "revoke_all")
    /\ UNCHANGED <<meta, file, vmk, conn, sessions, fresh, overlapHistory>>

RevokeAll(c) ==
    /\ task[c].at = "revoke_all"
    /\ sessions' = {}
    /\ calm' = (calm \/ c \in quiet)
    /\ quiet' = quiet \ {c}
    /\ Ends(c)
    /\ UNCHANGED <<meta, file, vmk, conn, uuid, fresh, origin, proved, told>>

-----------------------------------------------------------------------------
(* Change of the password *)

BeginChange(c) ==
    /\ c \in sessions
    /\ TakesKey
    /\ Starts(c, "change_password", "verify", fresh)
    /\ Disturbs
    /\ UNCHANGED <<meta, file, memory, origin, proved, told>>

(* verify_master_password_inner: the header's key is the one in memory. *)
VerifyPassword(c) ==
    /\ task[c].at = "verify"
    /\ IF meta.key = vmk THEN Goes(c, "current_vmk") ELSE Ends(c)
    /\ UNCHANGED <<meta, file, memory, fresh, overlapHistory>>

(* with_vmk again, after the key derivation for the new password. *)
CurrentVmk(c) ==
    /\ task[c].at = "current_vmk"
    /\ IF vmk # 0 THEN Goes(c, "rekey") ELSE Ends(c)
    /\ UNCHANGED <<meta, file, memory, fresh, overlapHistory>>

(* One db guard covers the rekey and the new header, which is signed with  *)
(* the key that is in memory.  An unlock that comes between the two finds  *)
(* what it finds when it reads the header before and opens the file after. *)
Rekey(c) ==
    /\ task[c].at = "rekey"
    /\ IF conn # 0 /\ conn = file
       THEN /\ file' = task[c].key
            /\ conn' = task[c].key
            /\ meta' = [key |-> task[c].key, mac |-> IF vmk # 0 THEN vmk ELSE meta.mac,
                        copies |-> FALSE]
            /\ Goes(c, "change_vmk")
       ELSE Ends(c) /\ UNCHANGED <<meta, file, conn>>
    /\ UNCHANGED <<vmk, uuid, sessions, fresh, overlapHistory>>

ChangeVmk(c) ==
    /\ task[c].at = "change_vmk"
    /\ vmk' = task[c].key
    /\ Goes(c, "revoke_others")
    /\ UNCHANGED <<meta, file, conn, uuid, sessions, fresh, overlapHistory>>

(* Mutant of RevokeOthers: no session is revoked. *)
RevokeOthersNone(c) ==
    /\ task[c].at = "revoke_others"
    /\ origin' = [origin EXCEPT ![c] = task[c].key]
    /\ Ends(c)
    /\ UNCHANGED <<meta, file, memory, fresh, proved, told, quiet, calm>>

(* revoke_all_except takes the user id from vault_uuid; after a lock it is *)
(* empty and matches no session.                                           *)
RevokeOthers(c) ==
    /\ task[c].at = "revoke_others"
    /\ sessions' = IF uuid THEN sessions \cap {c} ELSE sessions
    /\ origin' = [origin EXCEPT ![c] = task[c].key]
    /\ Ends(c)
    /\ UNCHANGED <<meta, file, vmk, conn, uuid, fresh, proved, told, quiet, calm>>

-----------------------------------------------------------------------------
OverlapInit ==
    /\ \/ /\ TRUE \in Present
          /\ meta = [key |-> 1, mac |-> 1, copies |-> TRUE]
          /\ file = 1
          /\ fresh = 2
       \/ /\ FALSE \in Present
          /\ meta = [key |-> 0, mac |-> 0, copies |-> FALSE]
          /\ file = 0
          /\ fresh = 1
    /\ vmk = 0 /\ conn = 0 /\ uuid = FALSE /\ sessions = {}
    /\ task = [c \in Clients |-> NoTask]
    /\ origin = [c \in Clients |-> 0]
    /\ proved = {} /\ told = {} /\ quiet = {} /\ calm = FALSE /\ met = {}

BeginRequest(c) ==
    \/ \E k \in RequestKinds \cap {"unlock", "copy"} : BeginUnlock(c, k)
    \/ "lock" \in RequestKinds /\ BeginLock(c)
    \/ "change_password" \in RequestKinds /\ BeginChange(c)

UnlockStep(c) ==
    \/ ReadHeader(c) \/ OpenVault(c) \/ SetVmk(c) \/ SetDb(c) \/ SetUuid(c)
    \/ CreateKey(c) \/ CreateHeader(c) \/ CreateOpen(c)
    \/ CreateSession(c) \/ TotpGate(c) \/ Reply(c)

LockStep(c) == ClearDb(c) \/ ClearVmk(c) \/ ClearUuid(c) \/ RevokeAll(c)

ChangeStep(c) ==
    \/ VerifyPassword(c) \/ CurrentVmk(c) \/ Rekey(c)
    \/ ChangeVmk(c) \/ RevokeOthers(c)

(* A lock that nothing overlaps leaves no trace of earlier overlaps in     *)
(* memory; the files keep theirs.                                          *)
OverlapNext ==
    /\ \E c \in Clients : BeginRequest(c) \/ UnlockStep(c) \/ LockStep(c) \/ ChangeStep(c)
    /\ met' = (IF calm' THEN met \cap {"create_create"} ELSE met) \cup Overlaps'

OverlapSpec == OverlapInit /\ [][OverlapNext]_overlapVars

-----------------------------------------------------------------------------
(* Properties *)

Keys == 0 .. MaxKeys

Steps ==
    {"idle", "create", "create_header", "create_open", "read", "open", "set_vmk",
     "set_db", "set_uuid", "create_session", "gate", "reply", "clear_db", "clear_vmk",
     "clear_uuid", "revoke_all", "verify", "current_vmk", "rekey", "change_vmk",
     "revoke_others"}

(* The type of the state; the key a task loads was generated before. *)
OverlapTypeOK ==
    /\ meta \in [key : Keys, mac : Keys, copies : BOOLEAN]
    /\ file \in Keys /\ vmk \in Keys /\ conn \in Keys
    /\ uuid \in BOOLEAN
    /\ sessions \subseteq Clients
    /\ task \in [Clients -> [kind : AllRequestKinds \cup {"none"}, at : Steps, key : Keys]]
    /\ \A c \in Clients : task[c].key < fresh
    /\ fresh \in 1 .. MaxKeys + 1
    /\ origin \in [Clients -> Keys]
    /\ proved \subseteq Clients /\ told \subseteq Clients /\ quiet \subseteq Clients
    /\ calm \in BOOLEAN
    /\ met \subseteq {"create_create", "close_load", "change_load"}

Quiescent == InFlight = {}

NeverMet(S) == met \cap S = {}

(* A client that was sent a session, and still has it when no request is   *)
(* under way, got it after its second factor was verified, whatever the    *)
(* requests of other clients did between the steps of its unlock.          *)
SecondFactor == Quiescent => sessions \cap told \subseteq proved

(* The same as long as no unlock met a lock or a password change: unlocks  *)
(* that overlap, with TOTP and without, do not open the gate for each      *)
(* other.                                                                  *)
SecondFactorKept == NeverMet({"close_load", "change_load"}) => SecondFactor

(* Lock closes the vault: once lock_internal has run and no unlock or      *)
(* password change overlapped it or began since, no key, connection or     *)
(* session is left, however many locks ran at the same time.               *)
LockHolds == calm => vmk = 0 /\ conn = 0 /\ ~uuid /\ sessions = {}

(* With no request under way the vault is locked or unlocked as a whole:   *)
(* the key is there if and only if the connection is, and nobody has a     *)
(* session of a locked vault.  Only a lock that meets an unlock or a       *)
(* password change breaks this, and the next lock mends it.                *)
LockedTogether ==
    Quiescent /\ NeverMet({"close_load"}) =>
        (vmk = 0 <=> conn = 0) /\ (sessions # {} => vmk # 0)

(* With no request under way every live session came about by the present  *)
(* password: change_password ended those of the old one, except where it   *)
(* met an unlock or a lock, or two first unlocks met.                      *)
OldSessionsEnded ==
    Quiescent /\ met = {} => \A c \in sessions : origin[c] = meta.key

(* With no request under way the sidecar wraps the key of the database, so *)
(* the master password opens the vault that is on the disk, whatever else  *)
(* overlapped, unless two first unlocks did.                               *)
FilesAgree ==
    Quiescent /\ file # 0 /\ NeverMet({"create_create"}) => meta.key = file

(* Memory, sessions and files of the vault stay consistent whichever two   *)
(* handlers run at once, save for the overlaps that each part names.       *)
VaultConsistent ==
    OverlapTypeOK /\ LockHolds /\ LockedTogether /\ OldSessionsEnded /\ FilesAgree
=============================================================================
