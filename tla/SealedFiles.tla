----------------------------- MODULE SealedFiles -----------------------------
(***************************************************************************)
(* The encrypted files of the server (lib/fileCrypto.js) and the routes    *)
(* that store a blob in one (routes/vaultRoutes.js), with several server   *)
(* processes on one data directory and a process that can die at any step. *)
(*                                                                         *)
(* writeEncryptedFile opens FILE.tmp (truncating what is there), writes    *)
(* the sealed text and renames it over FILE; the name of the temporary     *)
(* file is the same for every writer.  Within one process the three steps  *)
(* run without a break.  A file is an inode; a sealed text is read back    *)
(* only if it is whole.  users.enc is written under a lock, a blob is not. *)
(* The lock of a dead process is taken over (its file goes stale).         *)
(***************************************************************************)
EXTENDS Naturals, FiniteSets

CONSTANTS
    Servers,    \* the server processes
    FileMenus,  \* what a behaviour has: [ops, crashes, missing]
    PutMax,     \* bound: writes
    Inodes      \* inode numbers

NoInode == 0

nobody == "nobody"

(* There is an inode left for a temporary file, however many processes     *)
(* have files open.                                                        *)
ASSUME InodesSuffice ==
    /\ IsFiniteSet(Servers) /\ IsFiniteSet(Inodes)
    /\ Cardinality(Inodes) > Cardinality(Servers) + 4
    /\ NoInode \notin Inodes /\ 1 \in Inodes

ASSUME LockNames == nobody \notin Servers

VARIABLES
    flmenu,  \* the behaviour's menu
    node,    \* the text of every inode
    name,    \* the inode each path names
    proc,    \* the request of each process
    usersLock, \* the holder of the lock on users.enc
    flhist   \* history: see below

fileVars == <<flmenu, node, name, proc, usersLock, flhist>>

(***************************************************************************)
(* A text is whole and holds a value, or is empty or torn.  The value of a *)
(* blob is a set with the number of its PUT (no number: the null that a    *)
(* DELETE stores); that of users.enc is the set of the updates in it.      *)
(***************************************************************************)
Whole(v) == [whole |-> TRUE, val |-> v]
Torn == [whole |-> FALSE, val |-> {}]
Paths == {"blob", "users"}
AtRest == [pc |-> "idle", path |-> "blob", val |-> {}, fd |-> NoInode, n |-> 0]

FilesInit ==
    /\ flmenu \in FileMenus
    /\ node = [i \in Inodes |-> IF i = 1 THEN Whole({}) ELSE Torn]
    /\ name = [p \in Paths |-> [at |-> IF p = "users" /\ ~flmenu.missing THEN 1 ELSE NoInode, tmp |-> NoInode]]
    /\ proc = [s \in Servers |-> AtRest]
    /\ usersLock = nobody
    \* n: writes begun; done: updates answered; put: values a blob write has
    \* begun to store; stored: one was stored; overlap: paths two processes
    \* have written at once; created: see CreatedLate; read: the last GET
    /\ flhist = [n |-> 0, crashes |-> 0, done |-> {}, put |-> {}, overlap |-> {}, created |-> FALSE,
                 read |-> {}, stored |-> FALSE]

(***************************************************************************)
(* Reading and writing an encrypted file.                                  *)
(***************************************************************************)
Exists(path) == name[path].at # NoInode

readEncryptedFile(path, fallback) ==
    IF Exists(path) /\ node[name[path].at].whole THEN node[name[path].at].val ELSE fallback

Named == {name[p].at : p \in Paths} \cup {name[p].tmp : p \in Paths} \cup {proc[s].fd : s \in Servers}
Free == CHOOSE i \in Inodes : i \notin Named

Writing(s, path) == proc[s].path = path /\ proc[s].pc \in {"write", "rename"}
Overlapping(s, path) == \E t \in Servers \ {s} : Writing(t, path)

(* users.enc is created by s while another process already has it, or is at it *)
CreatedLate(s) == proc[s].path = "users" /\ proc[s].n = 0
                    /\ (Exists("users") \/ \E t \in Servers \ {s} : proc[t].pc # "idle")

OpenTmp(s) ==
    /\ proc[s].pc = "open"
    /\ LET path == proc[s].path
           i == IF name[path].tmp # NoInode THEN name[path].tmp ELSE Free
       IN /\ node' = [node EXCEPT ![i] = Torn]
          /\ name' = [name EXCEPT ![path].tmp = i]
          /\ proc' = [proc EXCEPT ![s].pc = "write", ![s].fd = i]
          /\ flhist' = [flhist EXCEPT !.overlap = IF Overlapping(s, path) THEN @ \cup {path} ELSE @,
                                      !.created = @ \/ CreatedLate(s)]
    /\ UNCHANGED <<flmenu, usersLock>>

(* over a text another process wrote since: the longer one's end stays *)
WriteTmp(s) ==
    /\ proc[s].pc = "write"
    /\ \E text \in {Whole(proc[s].val)} \cup (IF node[proc[s].fd].whole THEN {Torn} ELSE {}) :
         node' = [node EXCEPT ![proc[s].fd] = text]
    /\ proc' = [proc EXCEPT ![s].pc = "rename"]
    /\ UNCHANGED <<flmenu, name, usersLock, flhist>>

(* the step after the rename; a rename that finds no file throws *)
Renamed(s, ok) ==
    CASE proc[s].n = 0 -> [AtRest EXCEPT !.pc = IF ok THEN "lock" ELSE "idle", !.path = "users", !.n = flhist.n + 1]
      [] OTHER -> AtRest

RenameTmp(s) ==
    /\ proc[s].pc = "rename"
    /\ LET path == proc[s].path
           ok == name[path].tmp # NoInode
       IN /\ name' = IF ok THEN [name EXCEPT ![path] = [at |-> name[path].tmp, tmp |-> NoInode]] ELSE name
          /\ proc' = [proc EXCEPT ![s] = Renamed(s, ok)]
          /\ flhist' = [flhist EXCEPT !.n = IF proc[s].n = 0 /\ ok THEN @ + 1 ELSE @,
                                      !.done = IF path = "users" /\ ok THEN @ \cup proc[s].val ELSE @,
                                      !.stored = @ \/ (path = "blob" /\ ok)]
          /\ usersLock' = IF usersLock = s THEN nobody ELSE usersLock
    /\ UNCHANGED <<flmenu, node>>

(***************************************************************************)
(* The routes of the blobs: a PUT stores its body, the DELETE of a mirror  *)
(* stores null, a GET answers the stored value or the route's default.     *)
(***************************************************************************)
Ready(s, op) == proc[s].pc = "idle" /\ op \in flmenu.ops /\ flhist.n < PutMax

setResource(s, v) ==
    /\ proc' = [proc EXCEPT ![s] = [AtRest EXCEPT !.pc = "open", !.val = v, !.n = flhist.n + 1]]
    /\ flhist' = [flhist EXCEPT !.n = @ + 1, !.put = @ \cup {v}]
    /\ UNCHANGED <<flmenu, node, name, usersLock>>

putBlob(s) == Ready(s, "put") /\ setResource(s, {flhist.n + 1})
deleteMirror(s) == Ready(s, "delete") /\ setResource(s, {})

getBlob(s) ==
    /\ proc[s].pc = "idle" /\ "get" \in flmenu.ops
    /\ flhist' = [flhist EXCEPT !.read = readEncryptedFile("blob", {})]
    /\ UNCHANGED <<flmenu, node, name, proc, usersLock>>

(***************************************************************************)
(* withUsersLock: a missing file is created outside the lock, then the     *)
(* file is read, changed and saved under it.                               *)
(***************************************************************************)
withUsersLock(s) ==
    /\ Ready(s, "update")
    /\ IF Exists("users")
       THEN /\ proc' = [proc EXCEPT ![s] = [AtRest EXCEPT !.pc = "lock", !.path = "users", !.n = flhist.n + 1]]
            /\ flhist' = [flhist EXCEPT !.n = @ + 1]
       ELSE /\ proc' = [proc EXCEPT ![s] = [AtRest EXCEPT !.pc = "open", !.path = "users"]]
            /\ UNCHANGED flhist
    /\ UNCHANGED <<flmenu, node, name, usersLock>>

LockFreeAny(s) == TRUE \* mutant
LockFree(s) == usersLock = nobody

UsersLocked(s) ==
    /\ proc[s].pc = "lock" /\ LockFree(s) /\ Exists("users")
    /\ usersLock' = s
    /\ proc' = [proc EXCEPT ![s].pc = "open", ![s].val = readEncryptedFile("users", {}) \cup {proc[s].n}]
    /\ UNCHANGED <<flmenu, node, name, flhist>>

(* the process dies; its descriptors close, its lock goes stale *)
ServerDies(s) ==
    /\ proc[s].pc # "idle" /\ flhist.crashes < flmenu.crashes
    /\ proc' = [proc EXCEPT ![s] = AtRest]
    /\ usersLock' = IF usersLock = s THEN nobody ELSE usersLock
    /\ flhist' = [flhist EXCEPT !.crashes = @ + 1]
    /\ UNCHANGED <<flmenu, node, name>>

FilesNext ==
    \E s \in Servers :
        \/ OpenTmp(s) \/ WriteTmp(s) \/ RenameTmp(s)
        \/ putBlob(s) \/ deleteMirror(s) \/ getBlob(s)
        \/ withUsersLock(s) \/ UsersLocked(s) \/ ServerDies(s)

FilesSpec == FilesInit /\ [][FilesNext]_fileVars

(***************************************************************************)
(* Properties.                                                             *)
(***************************************************************************)

(* Every change of users.enc that was answered is still in the file, which *)
(* is whole, whatever processes die and at whichever step: the file is     *)
(* replaced by a rename under the lock.  The one exception is the creation *)
(* of a missing file, which withUsersLock makes before it takes the lock,  *)
(* while another process is at the file too.                               *)
UpdatesKept ==
    ~flhist.created =>
        /\ Exists("users") => node[name["users"].at].whole
        /\ flhist.done \subseteq readEncryptedFile("users", {})

(* A stored blob is whole, and is one that a request put there, unless two *)
(* processes wrote the file at once, through the temporary name they share *)
(* (writeEncryptedFile takes no lock); a death mid-write leaves the old    *)
(* one.                                                                    *)
BlobWhole == Exists("blob") /\ "blob" \notin flhist.overlap =>
                node[name["blob"].at].whole /\ node[name["blob"].at].val \in flhist.put

(* What was answered is on the disk, whole, though processes die.          *)
FilesWhole == UpdatesKept /\ BlobWhole
=============================================================================
