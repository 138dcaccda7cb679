---------------------------- MODULE KeyAuthority ----------------------------
(***************************************************************************)
(* The key authority behind the rows of the Postgres store: the providers  *)
(* of lib/kms, the script that provisions the key file of the self-hosted  *)
(* one (scripts/generate-selfhost-kms-key.js), and the processes (servers, *)
(* backfill) that build a provider at start and wrap and unwrap the data   *)
(* keys of users with it.                                                  *)
(*                                                                         *)
(* Keys are numbers, drawn in turn; a wrapped key names the key it is      *)
(* wrapped under and opens under that key only (AES-GCM is authenticated). *)
(* A file has 32 bytes ("raw"), 76 ("wrapped") or some other number        *)
(* ("torn").                                                               *)
(***************************************************************************)
EXTENDS Naturals

CONSTANTS
    KmsProcs,       \* processes
    KeyScripts,     \* runs of the provisioning script
    KmsUsers,       \* rows of users
    Phrases,        \* passphrases
    NoPhrase,       \* none configured
    KmsKinds,       \* values of KMS_PROVIDER
    KeyDraws        \* bound: keys drawn, versions of the Transit key

VARIABLES
    kmsKind,    \* KMS_PROVIDER of this deployment
    keyFile,    \* the file at SELF_HOST_KMS_KEY_PATH
    keysDrawn,  \* keys drawn; versions, with Vault
    script,     \* the runs of the script
    kmsProc,    \* what each process holds
    dekRow,     \* wrapped_dek of each user, 0 for no row
    kmsHist     \* history: a run of the script replaced a key file that was
                \* not there when it looked

kmsVars == <<kmsKind, keyFile, keysDrawn, script, kmsProc, dekRow, kmsHist>>

NoKeyFile == [size |-> "none", key |-> 0, phrase |-> NoPhrase, private |-> FALSE, own |-> FALSE]
KmsDown == [up |-> FALSE, key |-> 0]

-----------------------------------------------------------------------------
(* scripts/generate-selfhost-kms-key.js *)

(* Mutant of MayGenerate: the script does not look. *)
MayGenerateAlways == TRUE

(* "Refusing to overwrite existing file" *)
MayGenerate == keyFile.size = "none"

(* main up to the prompts for the passphrase. *)
ScriptLooks(s) ==
    /\ kmsKind = "selfhost" /\ script[s].at = "start"
    /\ script' = [script EXCEPT ![s] = [at |-> IF MayGenerate THEN "asks" ELSE "exit",
                                        saw |-> keyFile.size # "none"]]
    /\ UNCHANGED <<kmsKind, keyFile, keysDrawn, kmsProc, dekRow, kmsHist>>

(* The two passphrases differ, or are too short. *)
ScriptGivesUp(s) ==
    /\ script[s].at = "asks"
    /\ script' = [script EXCEPT ![s].at = "exit"]
    /\ UNCHANGED <<kmsKind, keyFile, keysDrawn, kmsProc, dekRow, kmsHist>>

(* generateSelfHostMasterKeyFile: whatever is at the path is replaced, and *)
(* the mode set.  The process may end in the middle of the write.          *)
generateSelfHostMasterKeyFile(s, p, whole) ==
    /\ script[s].at = "asks" /\ keysDrawn < KeyDraws
    /\ keysDrawn' = keysDrawn + 1
    /\ keyFile' = [size |-> IF ~whole THEN "torn" ELSE IF p = NoPhrase THEN "raw" ELSE "wrapped",
                   key |-> keysDrawn + 1, phrase |-> p,
                   private |-> TRUE, own |-> keyFile.size = "none" \/ keyFile.own]
    /\ kmsHist' = (kmsHist \/ (keyFile.size # "none" /\ ~script[s].saw))
    /\ script' = [script EXCEPT ![s].at = "exit"]
    /\ UNCHANGED <<kmsKind, kmsProc, dekRow>>

(* The administrator changes the mode or the owner of the file. *)
AdminTouches(private, own) ==
    /\ keyFile.size # "none" /\ <<private, own>> # <<keyFile.private, keyFile.own>>
    /\ keyFile' = [keyFile EXCEPT !.private = private, !.own = own]
    /\ UNCHANGED <<kmsKind, keysDrawn, script, kmsProc, dekRow, kmsHist>>

-----------------------------------------------------------------------------
(* A process starts: createKmsProvider *)

(* The keys _unwrapMasterKeyWithPassphrase may return: 76 bytes that the   *)
(* passphrase opens.                                                       *)
_unwrapMasterKeyWithPassphrase(file, p) ==
    IF file.size = "wrapped" /\ file.phrase = p THEN {file.key} ELSE {}

(* The keys loadSelfHostMasterKey may return; none when it throws. *)
loadSelfHostMasterKey(file, p) ==
    IF file.size = "none" \/ ~file.private \/ ~file.own THEN {}
    ELSE IF p = NoPhrase THEN IF file.size = "raw" THEN {file.key} ELSE {}
    ELSE _unwrapMasterKeyWithPassphrase(file, p)

(* createKmsProvider throws when the authority is not configured: no       *)
(* address, no 32-byte LOCAL_KMS_KEY, no readable key file, or a kind it   *)
(* does not know.  Vault and the local key are one key to the processes,   *)
(* number 1 here.                                                          *)
createKmsProvider(configured, p) ==
    IF ~configured THEN {}
    ELSE CASE kmsKind \in {"vault", "local"} -> {1}
           [] kmsKind = "selfhost" -> loadSelfHostMasterKey(keyFile, p)
           [] OTHER -> {}

KmsStarts(n, configured, p) ==
    /\ ~kmsProc[n].up
    /\ \E k \in createKmsProvider(configured, p) :
          kmsProc' = [kmsProc EXCEPT ![n] = [up |-> TRUE, key |-> k]]
    /\ UNCHANGED <<kmsKind, keyFile, keysDrawn, script, dekRow, kmsHist>>

KmsStops(n) ==
    /\ kmsProc[n].up
    /\ kmsProc' = [kmsProc EXCEPT ![n] = KmsDown]
    /\ UNCHANGED <<kmsKind, keyFile, keysDrawn, script, dekRow, kmsHist>>

-----------------------------------------------------------------------------
(* wrapDek and unwrapDek *)

(* Transit wraps under its newest version and says which. *)
TransitWrap == [key |-> 1, version |-> keysDrawn, keyId |-> keysDrawn]

(* Transit unwraps by the version the text itself names. *)
TransitOpens(w) == w.version <= keysDrawn

(* The other two wrap under the key they hold, and always say v1. *)
wrapDek(n) ==
    IF kmsKind = "vault" THEN TransitWrap
    ELSE [key |-> kmsProc[n].key, version |-> 1, keyId |-> 1]

(* Whether unwrapDek opens w; no provider consults keyId. *)
unwrapDek(n, w) == IF kmsKind = "vault" THEN TransitOpens(w) ELSE w.key = kmsProc[n].key

NoDek == [key |-> 0, version |-> 0, keyId |-> 0]

(* A user is inserted: a data key is drawn, wrapped and stored. *)
newUserDek(n, u) ==
    /\ kmsProc[n].up /\ dekRow[u] = NoDek
    /\ dekRow' = [dekRow EXCEPT ![u] = wrapDek(n)]
    /\ UNCHANGED <<kmsKind, keyFile, keysDrawn, script, kmsProc, kmsHist>>

(* The Transit key is rotated. *)
VaultRotates ==
    /\ kmsKind = "vault" /\ keysDrawn < KeyDraws
    /\ keysDrawn' = keysDrawn + 1
    /\ UNCHANGED <<kmsKind, keyFile, script, kmsProc, dekRow, kmsHist>>

-----------------------------------------------------------------------------
KmsInit ==
    /\ kmsKind \in KmsKinds
    /\ keyFile = NoKeyFile
    /\ keysDrawn = IF kmsKind = "vault" THEN 1 ELSE 0
    /\ script = [s \in KeyScripts |-> [at |-> "start", saw |-> FALSE]]
    /\ kmsProc = [n \in KmsProcs |-> KmsDown]
    /\ dekRow = [u \in KmsUsers |-> NoDek]
    /\ kmsHist = FALSE

KmsNext ==
    \/ \E s \in KeyScripts :
          \/ ScriptLooks(s)
          \/ ScriptGivesUp(s)
          \/ \E p \in Phrases \cup {NoPhrase}, whole \in BOOLEAN : generateSelfHostMasterKeyFile(s, p, whole)
    \/ \E private, own \in BOOLEAN : AdminTouches(private, own)
    \/ \E n \in KmsProcs :
          \/ \E configured \in BOOLEAN, p \in Phrases \cup {NoPhrase} : KmsStarts(n, configured, p)
          \/ KmsStops(n)
          \/ \E u \in KmsUsers : newUserDek(n, u)
    \/ VaultRotates

KmsSpec == KmsInit /\ [][KmsNext]_kmsVars

-----------------------------------------------------------------------------
(* Properties *)

(* "wrap(dek) then unwrap(wrapped, keyId) returns a Buffer byte-equal to   *)
(* dek" (kmsProvider.js), across processes, restarts, wrong or missing     *)
(* passphrases and rotations: a process that started opens every row any   *)
(* process wrapped, unless a run of the script that had looked before the  *)
(* key file was there replaced it.                                         *)
RowsOpen ==
    \A n \in KmsProcs, u \in KmsUsers :
        kmsProc[n].up /\ dekRow[u] # NoDek /\ ~kmsHist => unwrapDek(n, dekRow[u])
=============================================================================
