----------------------------- MODULE Repository -----------------------------
(***************************************************************************)
(* What the routes of the web server rely on when they call                *)
(* ctx.vaultRepository (the interface in the header of                     *)
(* lib/vaultRepository.js, which FileVaultRepository implements): every    *)
(* call takes effect at one moment between its start and its answer, and   *)
(* answers from that moment.                                               *)
(*                                                                         *)
(* An account is its id; its fields are one value, and so is a resource    *)
(* (credentials, folders, sessions, ...).  saveSessions and loadSessions   *)
(* are setResource and getResource of the name "sessions".                 *)
(***************************************************************************)
EXTENDS Naturals

CONSTANTS
    Calls,     \* calls that may be in progress together
    Ids,       \* account ids
    EmailOf,   \* the address each id registers with
    Names,     \* resource names
    Vals,      \* values of an account and of a resource
    None       \* no account, no resource, no answer

ASSUME NoneAssumption == None \notin Vals

VARIABLES users, res, call

repoVars == <<users, res, call>>

Requests ==
    [op : {"insertUser", "updateUserById"}, id : Ids, val : Vals]
    \cup [op : {"skipUpdate", "deleteUserById", "findUserById"}, id : Ids]
    \cup [op : {"setResource"}, id : Ids, name : Names, val : Vals]
    \cup [op : {"deleteResource", "getResource"}, id : Ids, name : Names]

Idle == [at |-> "idle", req |-> None, ans |-> None]

EmailTaken(us, id) == \E i \in Ids : us[i] # None /\ EmailOf[i] = EmailOf[id]

(* The accounts after a call, the resources after it, and its answer. *)
UsersAfter(us, r) ==
    CASE r.op = "insertUser" /\ ~EmailTaken(us, r.id) -> [us EXCEPT ![r.id] = r.val]
      [] r.op = "updateUserById" /\ us[r.id] # None -> [us EXCEPT ![r.id] = r.val]
      [] r.op = "deleteUserById" -> [us EXCEPT ![r.id] = None]
      [] OTHER -> us

ResAfter(rs, r) ==
    CASE r.op = "setResource" -> [rs EXCEPT ![r.id][r.name] = r.val]
      [] r.op = "deleteResource" -> [rs EXCEPT ![r.id][r.name] = None]
      [] OTHER -> rs

Answer(us, rs, r) ==
    CASE r.op = "insertUser" -> IF EmailTaken(us, r.id) THEN "USER_EXISTS" ELSE r.id
      [] r.op = "updateUserById" -> IF us[r.id] = None THEN None ELSE r.id
      [] r.op = "skipUpdate" -> IF us[r.id] = None THEN None ELSE "false"
      [] r.op = "findUserById" -> us[r.id]
      [] r.op = "getResource" -> rs[r.id][r.name]
      [] OTHER -> "done"

Begin(c, r) ==
    /\ call[c] = Idle
    /\ call' = [call EXCEPT ![c] = [at |-> "called", req |-> r, ans |-> None]]
    /\ UNCHANGED <<users, res>>

TakeEffect(c) ==
    /\ call[c].at = "called"
    /\ users' = UsersAfter(users, call[c].req)
    /\ res' = ResAfter(res, call[c].req)
    /\ call' = [call EXCEPT ![c].at = "taken",
                            ![c].ans = Answer(users, res, call[c].req)]

Reply(c) ==
    /\ call[c].at = "taken"
    /\ call' = [call EXCEPT ![c] = Idle]
    /\ UNCHANGED <<users, res>>

RepoInit ==
    /\ users \in [Ids -> Vals \cup {None}]
    /\ res \in [Ids -> [Names -> Vals \cup {None}]]
    /\ call = [c \in Calls |-> Idle]

RepoNext ==
    \E c \in Calls :
        \/ call'[c].at = "called" /\ \E r \in Requests : Begin(c, r)
        \/ TakeEffect(c)
        \/ Reply(c)

RepoSpec == RepoInit /\ [][RepoNext]_repoVars
=============================================================================
