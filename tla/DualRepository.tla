--------------------------- MODULE DualRepository ---------------------------
(***************************************************************************)
(* VAULT_BACKEND=dual, the migration to Postgres:                          *)
(* lib/dualWriteVaultRepository.js over FileVaultRepository (the primary)  *)
(* and PostgresVaultRepository (the secondary), and the script             *)
(* scripts/backfill-to-postgres.js that copies what was there before.      *)
(*                                                                         *)
(* users.enc changes under its lock file and a resource file is replaced   *)
(* by one rename, so a call on the primary is one step (module SealedFiles *)
(* looks inside it); a statement of Postgres is one step.                  *)
(* A statement or the KMS may fail at any time.  wrappedDek and kmsKeyId,  *)
(* which the mirror leaves alone, are not part of an account's value.      *)
(***************************************************************************)
EXTENDS Repository

CONSTANTS
    DualMenus   \* the operations a behaviour offers: a set of sets of names

VARIABLES
    offer,      \* the member of DualMenus in force
    sUsers,     \* the accounts in Postgres
    sRes,       \* the resources in Postgres
    seen,       \* what the mirror of an update read back from the primary
    backfill,   \* the script: where it is, and what it still has to do
    history     \* whether calls overlapped, whether a mirror failed, and the
                \* ids that were drawn

dualVars == <<offer, users, res, call, sUsers, sRes, seen, backfill, history>>

Alone(c) == \A d \in Calls \ {c} : call[d] = Idle

Reads == {"findUserById", "getResource"}

-----------------------------------------------------------------------------
(* A call of the dual repository *)

(* register draws a new id; every other handler has found the account.     *)
DualBegin(c, r) ==
    /\ r.op \in offer
    /\ IF r.op = "insertUser" THEN r.id \notin history.ids ELSE users[r.id] # None
    /\ Begin(c, r)
    /\ history' = [history EXCEPT !.overlap = @ \/ ~Alone(c), !.ids = @ \cup {r.id}]
    /\ UNCHANGED <<offer, sUsers, sRes, seen, backfill>>

(* The call on the primary.  A read, and an insert that throws, ends here. *)
DualPrimary(c) ==
    LET r == call[c].req
    IN /\ call[c].at = "called"
       /\ users' = UsersAfter(users, r)
       /\ res' = ResAfter(res, r)
       /\ call' = [call EXCEPT
                     ![c].at = IF \/ r.op \in Reads
                                  \/ r.op = "insertUser" /\ EmailTaken(users, r.id)
                               THEN "answer" ELSE "mirror",
                     ![c].ans = Answer(users, res, r)]
       /\ UNCHANGED <<offer, sUsers, sRes, seen, backfill, history>>

Mirrored(c) ==
    /\ call' = [call EXCEPT ![c].at = "answer"]
    /\ UNCHANGED <<offer, users, res, backfill>>

(* PostgresVaultRepository refuses an address that has a row, and a        *)
(* resource of an account that has none; deleting a row cascades.          *)
MirrorRefused(r) ==
    \/ r.op = "insertUser" /\ (EmailTaken(sUsers, r.id) \/ sUsers[r.id] # None)
    \/ r.op = "setResource" /\ sUsers[r.id] = None

Cascade(rs, id) == [rs EXCEPT ![id] = [n \in Names |-> None]]

MirrorRes(rs, r) ==
    IF r.op = "deleteUserById" THEN Cascade(rs, r.id) ELSE ResAfter(rs, r)

MirrorWrite(c) ==
    LET r == call[c].req
    IN /\ call[c].at = "mirror"
       /\ r.op \notin {"updateUserById", "skipUpdate"}
       /\ ~MirrorRefused(r)
       /\ sUsers' = UsersAfter(sUsers, r)
       /\ sRes' = MirrorRes(sRes, r)
       /\ Mirrored(c)
       /\ UNCHANGED <<seen, history>>

(* The mirror of an update reads the account back from the primary ... *)
MirrorRead(c) ==
    LET r == call[c].req
    IN /\ call[c].at = "mirror"
       /\ r.op \in {"updateUserById", "skipUpdate"}
       /\ seen' = [seen EXCEPT ![c] = users[r.id]]
       /\ call' = [call EXCEPT ![c].at = IF users[r.id] = None THEN "answer" ELSE "copy"]
       /\ UNCHANGED <<offer, users, res, sUsers, sRes, backfill, history>>

(* ... and copies every field onto the row, if there is one. *)
MirrorCopy(c) ==
    LET id == call[c].req.id
    IN /\ call[c].at = "copy"
       /\ sUsers' = IF sUsers[id] = None THEN sUsers ELSE [sUsers EXCEPT ![id] = seen[c]]
       /\ seen' = [seen EXCEPT ![c] = None]
       /\ Mirrored(c)
       /\ UNCHANGED <<sRes, history>>

(* Mutant of MirrorFails: the error reaches the caller. *)
MirrorFailsThrows(c) ==
    /\ call[c].at \in {"mirror", "copy"}
    /\ call' = [call EXCEPT ![c].at = "answer", ![c].ans = "error"]
    /\ history' = [history EXCEPT !.failed = TRUE]
    /\ seen' = [seen EXCEPT ![c] = None]
    /\ UNCHANGED <<offer, users, res, sUsers, sRes, backfill>>

(* The secondary refuses or fails: logged, never thrown. *)
MirrorFails(c) ==
    /\ call[c].at \in {"mirror", "copy"}
    /\ history' = [history EXCEPT !.failed = TRUE]
    /\ seen' = [seen EXCEPT ![c] = None]
    /\ Mirrored(c)
    /\ UNCHANGED <<sUsers, sRes>>

DualReply(c) ==
    /\ call[c].at = "answer"
    /\ call' = [call EXCEPT ![c] = Idle]
    /\ UNCHANGED <<offer, users, res, sUsers, sRes, seen, backfill, history>>

-----------------------------------------------------------------------------
(* The backfill script.  It loads users.enc once, and then goes through    *)
(* the accounts one by one.                                                *)

BackfillVars(b) ==
    /\ backfill' = b
    /\ UNCHANGED <<offer, users, res, call, seen, history>>

BackfillLoad ==
    /\ "backfill" \in offer
    /\ backfill.at = "off"
    /\ BackfillVars([backfill EXCEPT
          !.at = "next", !.loaded = users, !.todo = {i \in Ids : users[i] # None}])
    /\ UNCHANGED <<sUsers, sRes>>

BackfillFind(i) ==
    /\ backfill.at = "next"
    /\ i \in backfill.todo
    /\ BackfillVars([backfill EXCEPT
          !.at = IF sUsers[i] = None THEN "insert" ELSE "names",
          !.id = i, !.todo = @ \ {i}, !.names = Names])
    /\ UNCHANGED <<sUsers, sRes>>

(* Mutant of BackfillInsert: a refused insert is skipped. *)
BackfillInsertSkips ==
    /\ backfill.at = "insert"
    /\ LET refused == sUsers[backfill.id] # None \/ EmailTaken(sUsers, backfill.id)
       IN /\ sUsers' = IF refused THEN sUsers
                       ELSE [sUsers EXCEPT ![backfill.id] = backfill.loaded[backfill.id]]
          /\ BackfillVars([backfill EXCEPT !.at = "names"])
    /\ UNCHANGED sRes

(* insertUser of the object loaded at the start; an error ends the script. *)
BackfillInsert ==
    /\ backfill.at = "insert"
    /\ LET refused == sUsers[backfill.id] # None \/ EmailTaken(sUsers, backfill.id)
       IN /\ sUsers' = IF refused THEN sUsers
                       ELSE [sUsers EXCEPT ![backfill.id] = backfill.loaded[backfill.id]]
          /\ BackfillVars([backfill EXCEPT !.at = IF refused THEN "failed" ELSE "names"])
    /\ UNCHANGED sRes

(* getResource of the file; only a value that is there is copied. *)
BackfillRead(n) ==
    /\ backfill.at = "names"
    /\ n \in backfill.names
    /\ BackfillVars(IF res[backfill.id][n] = None
                    THEN [backfill EXCEPT !.names = @ \ {n}]
                    ELSE [backfill EXCEPT !.names = @ \ {n}, !.at = "set",
                                          !.name = n, !.val = res[backfill.id][n]])
    /\ UNCHANGED <<sUsers, sRes>>

BackfillSet ==
    /\ backfill.at = "set"
    /\ LET refused == sUsers[backfill.id] = None
       IN /\ sRes' = IF refused THEN sRes
                     ELSE [sRes EXCEPT ![backfill.id][backfill.name] = backfill.val]
          /\ BackfillVars([backfill EXCEPT !.at = IF refused THEN "failed" ELSE "names",
                                           !.val = None])
    /\ UNCHANGED sUsers

BackfillAdvance ==
    \/ /\ backfill.at = "names" /\ backfill.names = {}
       /\ BackfillVars([backfill EXCEPT !.at = "next"])
       /\ UNCHANGED <<sUsers, sRes>>
    \/ /\ backfill.at = "next" /\ backfill.todo = {}
       /\ BackfillVars([backfill EXCEPT !.at = "done"])
       /\ UNCHANGED <<sUsers, sRes>>

-----------------------------------------------------------------------------
(* The accounts that exist before the deployment switches to dual are not  *)
(* in Postgres; a menu without the backfill starts from nothing.           *)
DualInit ==
    /\ offer \in DualMenus
    /\ users \in [Ids -> Vals \cup {None}]
    /\ \A i, j \in Ids : users[i] # None /\ users[j] # None /\ EmailOf[i] = EmailOf[j] => i = j
    /\ "backfill" \notin offer => users = [i \in Ids |-> None]
    /\ res = [i \in Ids |-> [n \in Names |-> IF users[i] = None THEN None ELSE users[i]]]
    /\ call = [c \in Calls |-> Idle]
    /\ sUsers = [i \in Ids |-> None]
    /\ sRes = [i \in Ids |-> [n \in Names |-> None]]
    /\ seen = [c \in Calls |-> None]
    /\ backfill = [at |-> "off", loaded |-> [i \in Ids |-> None], todo |-> {}, id |-> None,
                   names |-> {}, name |-> None, val |-> None]
    /\ history = [overlap |-> FALSE, failed |-> FALSE,
                  ids |-> {i \in Ids : users[i] # None}]

DualNext ==
    \/ \E c \in Calls :
          \/ \E r \in Requests : DualBegin(c, r)
          \/ DualPrimary(c) \/ DualReply(c)
          \/ MirrorWrite(c) \/ MirrorRead(c) \/ MirrorCopy(c) \/ MirrorFails(c)
    \/ BackfillLoad \/ BackfillInsert \/ BackfillSet \/ BackfillAdvance
    \/ \E i \in Ids : BackfillFind(i)
    \/ \E n \in Names : BackfillRead(n)

DualSpec == DualInit /\ [][DualNext]_dualVars

-----------------------------------------------------------------------------
(* Properties *)

DualTypeOK ==
    /\ users \in [Ids -> Vals \cup {None}]
    /\ res \in [Ids -> [Names -> Vals \cup {None}]]
    /\ call \in [Calls -> [at : {"idle", "called", "mirror", "copy", "answer"},
                          req : Requests \cup {None},
                          ans : Vals \cup Ids \cup {None, "USER_EXISTS", "false", "done"}]]
    /\ \A c \in Calls : call[c].at # "idle" => call[c].req \in Requests
    /\ seen \in [Calls -> Vals \cup {None}]

(* Once the primary has answered, the abstract call has taken effect. *)
AbstractCall ==
    [c \in Calls |-> IF call[c].at \in {"mirror", "copy", "answer"}
                     THEN [call[c] EXCEPT !.at = "taken"] ELSE call[c]]

Abstract == INSTANCE Repository WITH call <- AbstractCall

(* The routes cannot tell the dual repository from the file repository:    *)
(* every call still takes effect once, at one moment, and answers from it, *)
(* whatever the mirror and the backfill do and however they fail           *)
(* ("Mirror failures are logged, never thrown, so the live file path is    *)
(* never degraded").                                                       *)
FileSemanticsKept == Abstract!RepoSpec

Quiet == \A c \in Calls : call[c] = Idle

(* Calls made one after another, none of whose mirrors failed, leave       *)
(* Postgres with exactly the accounts and resources of the file store.     *)
SequentialParity ==
    (Quiet /\ ~history.overlap /\ ~history.failed /\ "backfill" \notin offer)
    => /\ sUsers = users
       /\ \A i \in Ids : sRes[i] = IF users[i] # None THEN res[i] ELSE [n \in Names |-> None]

(* A backfill that ends without an error has given a row to every account  *)
(* it started from that still exists, whatever ran beside it.              *)
BackfillCovers ==
    backfill.at = "done" =>
        \A i \in Ids : backfill.loaded[i] # None /\ users[i] # None => sUsers[i] # None

(* Postgres can take over: calls that were mirrored one after another left *)
(* what the files hold, and a backfill that ended missed no account.       *)
MirrorsAgree == SequentialParity /\ BackfillCovers
=============================================================================
