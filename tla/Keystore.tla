------------------------------ MODULE Keystore ------------------------------
(***************************************************************************)
(* The keys of a browser tab: crypto/keystore.ts and the local storage of  *)
(* utils/localCrypto.ts.  Keys live in memory and, sealed under a wrapping *)
(* key kept in IndexedDB, in the tab's session storage, so that a refresh  *)
(* does not sign the user out.  Persisting, restoring and deriving are     *)
(* asynchronous; clear() is not and waits for none of them.                *)
(*                                                                         *)
(* A key is the number of the sign-in that made it, 0 when there is none;  *)
(* the encryption and the signing key of a version are one.  The wrapping  *)
(* key, the salt and the legacy key, which is not persisted, are left out. *)
(***************************************************************************)
EXTENDS Naturals, FiniteSets

CONSTANTS
    PersistMax,   \* writes to session storage in the air at once
    KeyMenus      \* what a behaviour may use: [ops, logins], with ops among
                  \* "clear", "refresh", "restore", "write"

VARIABLES
    kmenu,        \* the member of KeyMenus in force
    signed,       \* number of the last sign-in
    mem,          \* the private fields of keyStore
    deriving,     \* sign-ins whose v2 keys the worker derives, in order
    v2Pending,    \* the one of them that was promised last, 0 for none
    entering,     \* a sign-in has stored its token and not yet its keys
    persists,     \* calls of persistToSessionStorage under way
    restore,      \* a call of restoreAsync or restoreFromSessionStorage
    session,      \* sessionStorage['_pwd_ks']
    local,        \* a value in local storage: the sign-in whose key seals it
    khist         \* cleared: sign-ins whose keys were cleared; late: those
                  \* cleared with work under way; swapped: writes to session
                  \* storage ended out of order; torn: a refresh cut work short;
                  \* failed: sign-ins whose v2 keys could not be derived

keyVars == <<kmenu, signed, mem, deriving, v2Pending, entering, persists, restore, session, local, khist>>

NoKeys == [token |-> 0, v1 |-> 0, v2 |-> 0]

NoSession == NoKeys

NoRestore == [step |-> "none", keys |-> NoKeys, fill |-> {}]

Busy == entering \/ deriving # {} \/ persists # {} \/ restore.step # "none"

(* persistToSessionStorage: what is in the fields now, of which the v2 key *)
(* is read again later                                                     *)
Persisted(m) ==
    persists \union
      {[keys |-> [m EXCEPT !.v2 = 0], read |-> FALSE,
        at |-> 1 + Cardinality(persists), overtaken |-> FALSE]}

Room == Cardinality(persists) < PersistMax

-----------------------------------------------------------------------------
(* Signing in: store(token), then the v1 key, then v2 in the background.   *)
(* With keys in the session storage the sign-in page is left for the vault, *)
(* unless they came there after it looked.                                 *)
StoreToken ==
    /\ signed < kmenu.logins /\ Room
    /\ mem.token = 0 /\ mem.v1 = 0
    /\ \/ session = NoSession
       \/ signed \in khist.late
    /\ signed' = signed + 1
    /\ mem' = [mem EXCEPT !.token = signed + 1]
    /\ persists' = Persisted(mem')
    /\ entering' = TRUE
    /\ UNCHANGED <<kmenu, deriving, v2Pending, restore, session, local, khist>>

StoreKeys ==
    /\ entering /\ Room
    /\ mem' = [mem EXCEPT !.v1 = signed]
    /\ persists' = Persisted(mem')
    /\ v2Pending' = signed /\ deriving' = deriving \union {signed}
    /\ entering' = FALSE
    /\ UNCHANGED <<kmenu, signed, restore, session, local, khist>>

(* The Argon2id master arrives from the worker and v2 is bound; a failure  *)
(* leaves the v1 key alone.                                                *)
DeriveV2 ==
    /\ \E n \in deriving :
         /\ \A m \in deriving : n <= m
         /\ deriving' = deriving \ {n}
         /\ v2Pending' = IF v2Pending = n THEN 0 ELSE v2Pending
         /\ \/ /\ Room
               /\ mem' = [mem EXCEPT !.v2 = n]
               /\ persists' = Persisted(mem')
               /\ UNCHANGED khist
            \/ /\ khist' = [khist EXCEPT !.failed = @ \union {n}]
               /\ UNCHANGED <<mem, persists>>
    /\ UNCHANGED <<kmenu, signed, entering, restore, session, local>>

-----------------------------------------------------------------------------
(* The v2 key is exported after the keys before it. *)
PersistReads(p) ==
    /\ ~p.read
    /\ persists' = (persists \ {p}) \union {[p EXCEPT !.read = TRUE, !.keys.v2 = mem.v2]}
    /\ UNCHANGED <<kmenu, signed, mem, deriving, v2Pending, entering, restore, session, local, khist>>

(* sealForSessionStorage and setItem, in the order the browser ends them *)
PersistEnds(p) ==
    /\ p.read
    /\ persists' = {IF q.at > p.at THEN [q EXCEPT !.at = @ - 1] ELSE [q EXCEPT !.overtaken = TRUE]
                      : q \in persists \ {p}}
    /\ session' = p.keys
    /\ khist' = [khist EXCEPT !.swapped = p.overtaken]
    /\ UNCHANGED <<kmenu, signed, mem, deriving, v2Pending, entering, restore, local>>

-----------------------------------------------------------------------------
(* restoreAsync and restoreFromSessionStorage: the getters call the one,   *)
(* a refresh, a sign-in page and the vault's reads the other               *)
RestoreStart ==
    /\ "restore" \in kmenu.ops
    /\ restore.step = "none" /\ session # NoSession
    /\ restore' = [NoRestore EXCEPT !.step = "unseal", !.keys = session]
    /\ UNCHANGED <<kmenu, signed, mem, deriving, v2Pending, entering, persists, session, local, khist>>

Or(a, b) == IF a # 0 THEN a ELSE b

(* The token of the session replaces the one in memory. *)
RestoreToken ==
    /\ restore.step = "unseal"
    /\ mem' = [mem EXCEPT !.token = Or(restore.keys.token, @)]
    /\ restore' = [restore EXCEPT !.step = "import", !.fill = {k \in {"v1", "v2"} : mem[k] = 0}]
    /\ UNCHANGED <<kmenu, signed, deriving, v2Pending, entering, persists, session, local, khist>>

RestoreKeys ==
    /\ restore.step = "import"
    /\ mem' = [k \in DOMAIN mem |-> IF k \in restore.fill /\ restore.keys[k] # 0
                                    THEN restore.keys[k] ELSE mem[k]]
    /\ restore' = NoRestore
    /\ UNCHANGED <<kmenu, signed, deriving, v2Pending, entering, persists, session, local, khist>>

-----------------------------------------------------------------------------
(* Mutant of clear: the sealed copy is left. *)
clearMemory ==
    /\ mem' = NoKeys
    /\ khist' = [khist EXCEPT !.cleared = @ \union 1..signed,
                              !.late = IF Busy THEN @ \union 1..signed ELSE @]
    /\ UNCHANGED session

(* clear: the fields and the sealed copy *)
clear ==
    /\ mem' = NoKeys
    /\ session' = NoSession
    /\ khist' = [khist EXCEPT !.cleared = @ \union 1..signed,
                              !.late = IF Busy THEN @ \union 1..signed ELSE @]

(* Signing out, a session the server refuses, the idle timer *)
ClearKeys ==
    /\ "clear" \in kmenu.ops
    /\ mem.token # 0 \/ mem.v1 # 0
    /\ clear
    /\ UNCHANGED <<kmenu, signed, deriving, v2Pending, entering, persists, restore, local>>

(* The tab stayed hidden for the grace period; showing it cancels the      *)
(* timer.                                                                  *)
GraceEnds ==
    /\ "clear" \in kmenu.ops
    /\ mem # NoKeys
    /\ clear
    /\ UNCHANGED <<kmenu, signed, deriving, v2Pending, entering, persists, restore, local>>

(* A refresh: memory and everything under way are gone. *)
RefreshTab ==
    /\ "refresh" \in kmenu.ops
    /\ mem # NoKeys
    /\ mem' = NoKeys
    /\ deriving' = {} /\ v2Pending' = 0 /\ entering' = FALSE /\ persists' = {} /\ restore' = NoRestore
    /\ khist' = [khist EXCEPT !.torn = @ \/ Busy]
    /\ UNCHANGED <<kmenu, signed, session, local>>

-----------------------------------------------------------------------------
(* The last sign-in that stored its keys *)
KeyCompleted == IF entering THEN signed - 1 ELSE signed

(* writeEncryptedLocal: after the derivation, and only with a v2 key *)
writeEncryptedLocal ==
    /\ v2Pending = 0
    /\ mem.v2 # 0
    /\ local' = [key |-> mem.v2, for |-> KeyCompleted]

WriteLocal ==
    /\ "write" \in kmenu.ops
    /\ writeEncryptedLocal
    /\ UNCHANGED <<kmenu, signed, mem, deriving, v2Pending, entering, persists, restore, session, khist>>

KeyInit ==
    /\ kmenu \in KeyMenus
    /\ signed = 0
    /\ mem = NoKeys
    /\ deriving = {} /\ v2Pending = 0 /\ entering = FALSE
    /\ persists = {}
    /\ restore = NoRestore
    /\ session = NoSession
    /\ local = [key |-> 0, for |-> 0]
    /\ khist = [cleared |-> {}, late |-> {}, swapped |-> FALSE, torn |-> FALSE, failed |-> {}]

KeyNext ==
    \/ StoreToken \/ StoreKeys \/ DeriveV2
    \/ \E p \in persists : PersistReads(p) \/ PersistEnds(p)
    \/ RestoreStart \/ RestoreToken \/ RestoreKeys
    \/ ClearKeys \/ GraceEnds \/ RefreshTab
    \/ WriteLocal

-----------------------------------------------------------------------------
(* Properties *)

Slots == {"token", "v1", "v2"}

(* "A tab that stays hidden for the full window gets its keys wiped from   *)
(* both memory and sessionStorage", as after signing out: unless work was  *)
(* under way when they were cleared, no key of a sign-in that was cleared  *)
(* comes back, whatever is persisted, restored or derived later.           *)
KeysStayCleared ==
    \A s \in khist.cleared \ khist.late, k \in Slots :
      mem[k] # s /\ session[k] # s

(* "A page refresh does not log the user out": with nothing under way, the *)
(* sealed copy holds the token and both keys that are in memory, unless    *)
(* two writes of it ended out of order or a refresh or clear() cut in.     *)
RefreshKeeps ==
    (~Busy /\ mem.token # 0 /\ mem.v1 # 0 /\ khist.late = {} /\ ~khist.swapped /\ ~khist.torn) =>
      \A k \in {"token", "v1", "v2"} : session[k] = mem[k]

(* A value in local storage is sealed with the keys of the sign-in that    *)
(* wrote it, also when the keys of the sign-in before arrive after it      *)
(* began, unless its own could not be derived.                             *)
LocalSealedByOwn == local.key = local.for \/ local.for \in khist.failed

(* The tab holds the keys of the account that is signed in, no others and  *)
(* no longer.                                                              *)
KeysHeld == KeysStayCleared /\ RefreshKeeps /\ LocalSealedByOwn
=============================================================================
