----------------------------- MODULE ClientVault -----------------------------
(***************************************************************************)
(* The vault of a browser tab in server mode: the React state, optimistic  *)
(* edits and loading of context/VaultContext.tsx, the encrypted outbox of  *)
(* utils/offlineQueue.ts and travel mode (utils/securityModes.ts with its  *)
(* handlers in pages/Settings/SecurityModesSection.tsx).                   *)
(*                                                                         *)
(* Each collection is stored whole: a PUT replaces it.  An item is its id, *)
(* the folder it is in and its version.  Every collection that is written  *)
(* carries the number of the edit that made it, which no code reads: the   *)
(* properties do.  Encryption only asks whether the key is in memory.      *)
(***************************************************************************)
EXTENDS Naturals, Sequences, FiniteSets, TLC

CONSTANTS
    Folders,        \* ids of folders
    Creds,          \* ids of credentials
    NoFolder,       \* the folder of a folder
    VaultMenus,     \* what behaviours may do: [ops, faults, stored]
    EditMax,        \* bound: edits by the user
    ReloadMax       \* bound: reloads of the page

VARIABLES
    vmenu,     \* the menu of this behaviour
    server,    \* the stored collections, each with its edit number
    ui,        \* folders and credentials of the React state
    writes,    \* _writeChain: the writes of each collection, in order
    outbox,    \* vault_outbox
    flush,     \* the flush that runs
    load,      \* the performLoad that runs
    link,      \* network up, session valid, cookie there, key in memory
    travel,    \* travel mode: active, hidden folders, stash
    vhist      \* history: edits, items the user was told are saved, items
               \* taken away, ids, edits settled, known causes of loss, reloads

vaultVars == <<vmenu, server, ui, writes, outbox, flush, load, link, travel, vhist>>

Resources == {"folders", "credentials"}

Nothing == [num |-> 0, val |-> {}]
Empty == [r \in Resources |-> {}]
NoEntries == [r \in Resources |-> Nothing]

Allowed(x) == x \in vmenu.ops \cup vmenu.faults

Hurt(cause) == [vhist EXCEPT !.causes = @ \cup cause]

-----------------------------------------------------------------------------
(* Edits; the id of a new item is a fresh UUID. *)

(* An edit: new state at once, and a write per collection that changes.    *)
(* scope is what a failure puts back, saved and gone are the items the     *)
(* edit adds and takes away.                                               *)
Edit(new, scope, saved, gone) ==
    LET n == vhist.n + 1
        job(r) == [op |-> n, val |-> new[r], undo |-> [s \in scope |-> ui[s]], at |-> "new",
                   snap |-> NoEntries, saved |-> saved]
    IN /\ vhist.n < EditMax
       /\ ui' = new
       /\ writes' = [r \in Resources |->
                        IF new[r] # ui[r] THEN Append(writes[r], job(r)) ELSE writes[r]]
       /\ vhist' = [vhist EXCEPT !.n = n, !.acked = @ \ gone, !.gone = @ \cup gone,
                                 !.ids = @ \cup {x.id : x \in saved},
                                 !.causes = @ \cup IF travel.active THEN {"travel"} ELSE {}]
       /\ UNCHANGED <<vmenu, server, outbox, flush, load, link, travel>>

Item(i, f, v) == [id |-> i, in |-> f, v |-> v]

addFolder(f) ==
    /\ Allowed("addFolder") /\ f \notin vhist.ids
    /\ LET x == Item(f, NoFolder, 1)
       IN Edit([ui EXCEPT !["folders"] = @ \cup {x}], {"folders"}, {x}, {})

(* updateFolder, and reorderFolders, which stores the same items anew *)
updateFolder(x) ==
    /\ Allowed("updateFolder") /\ x.v = 1
    /\ LET y == [x EXCEPT !.v = 2]
       IN Edit([ui EXCEPT !["folders"] = (@ \ {x}) \cup {y}], {"folders"}, {y}, {x})

deleteFolder(x) ==
    LET inside == {c \in ui["credentials"] : c.in = x.id}
    IN /\ Allowed("deleteFolder")
       /\ Edit([folders |-> ui["folders"] \ {x}, credentials |-> ui["credentials"] \ inside],
               Resources, {}, {x} \cup inside)

addCredential(c, f) ==
    /\ Allowed("addCredential") /\ c \notin vhist.ids
    /\ \E x \in ui["folders"] : x.id = f
    /\ LET x == Item(c, f, 1)
       IN Edit([ui EXCEPT !["credentials"] = @ \cup {x}], {"credentials"}, {x}, {})

(* updateCredential, and moveCredentials, which changes the folder *)
updateCredential(x, f) ==
    /\ Allowed("updateCredential") /\ x.v = 1
    /\ \E y \in ui["folders"] : y.id = f
    /\ LET y == Item(x.id, f, 2)
       IN Edit([ui EXCEPT !["credentials"] = (@ \ {x}) \cup {y}], {"credentials"}, {y}, {x})

deleteCredential(x) ==
    /\ Allowed("deleteCredential")
    /\ Edit([ui EXCEPT !["credentials"] = @ \ {x}], {"credentials"}, {}, {x})

UserEdit ==
    \/ \E f \in Folders : addFolder(f)
    \/ \E x \in ui["folders"] : updateFolder(x) \/ deleteFolder(x)
    \/ \E c \in Creds, f \in Folders : addCredential(c, f)
    \/ \E x \in ui["credentials"] :
          deleteCredential(x) \/ \E f \in Folders : updateCredential(x, f)

-----------------------------------------------------------------------------
(* _localWrite *)

(* Mutant of Turn: writes of one collection overtake each other. *)
TurnAny(r) == DOMAIN writes[r]

(* serializedWrite: the writes of a collection are made in order. *)
Turn(r) == IF writes[r] = <<>> THEN {} ELSE {1}

Without(s, i) == SubSeq(s, 1, i - 1) \o SubSeq(s, i + 1, Len(s))

(* The write is over and the edit keeps its optimistic state. *)
Settled(r, i, told) ==
    /\ writes' = [writes EXCEPT ![r] = Without(@, i)]
    /\ UNCHANGED ui
    /\ vhist' = [told EXCEPT !.acked = @ \cup (writes[r][i].saved \ vhist.gone),
                             !.settled = @ \cup {writes[r][i].op}]

(* Mutant of Undone: the optimistic state stays. *)
UndoneNot(job) == ui

(* The state from before the edit *)
Undone(job) == job.undo @@ ui

(* The write failed: the state from before the edit is put back, unless a  *)
(* write of the same edit settled it before (Promise.all).                 *)
RolledBack(r, i) ==
    LET job == writes[r][i]
        first == job.op \notin vhist.settled
        later == \E s \in Resources : \E j \in DOMAIN writes[s] : writes[s][j].op > job.op
    IN /\ writes' = [writes EXCEPT ![r] = Without(@, i)]
       /\ ui' = IF first THEN Undone(job) ELSE ui
       /\ vhist' = [vhist EXCEPT
                      !.settled = @ \cup {job.op},
                      !.causes = @ \cup (IF first /\ (later \/ vhist.n > job.op)
                                         THEN {"rollback"} ELSE {})
                                   \cup (IF ~first \/ (\E s \in Resources \ {r} :
                                                \E j \in DOMAIN writes[s] : writes[s][j].op = job.op)
                                         THEN {"half"} ELSE {})]

(* Encryption: no key, no write.  Without the session cookie the write goes *)
(* to local storage, whose key went with the cookie, and is not made.       *)
WriteStart(r, i) ==
    /\ i \in Turn(r) /\ writes[r][i].at = "new"
    /\ \/ link.cookie /\ link.key
          /\ writes' = [writes EXCEPT ![r][i].at = "put"] /\ UNCHANGED <<ui, vhist>>
       \/ link.cookie /\ ~link.key /\ RolledBack(r, i)
       \/ ~link.cookie /\ Settled(r, i, Hurt({"signed out"}))
    /\ UNCHANGED <<vmenu, server, outbox, flush, load, link, travel>>

Store(r, job) ==
    server' = [server EXCEPT ![r] = [num |-> job.op, val |-> job.val]]

PutOk(r, i) ==
    /\ i \in Turn(r) /\ writes[r][i].at = "put"
    /\ link.up /\ link.valid
    /\ Store(r, writes[r][i])
    /\ Settled(r, i, vhist)
    /\ UNCHANGED <<vmenu, outbox, flush, load, link, travel>>

SignedOut == [link EXCEPT !.cookie = FALSE, !.key = FALSE]

(* 401: keys and cookie are dropped. *)
PutRefused(r, i) ==
    /\ i \in Turn(r) /\ writes[r][i].at = "put"
    /\ link.up /\ ~link.valid
    /\ link' = SignedOut
    /\ RolledBack(r, i)
    /\ UNCHANGED <<vmenu, server, outbox, flush, load, travel>>

(* Any other error status *)
PutFails(r, i) ==
    /\ Allowed("error")
    /\ i \in Turn(r) /\ writes[r][i].at = "put" /\ link.up
    /\ RolledBack(r, i)
    /\ UNCHANGED <<vmenu, server, outbox, flush, load, link, travel>>

(* fetch throws, and the outbox is read; the request may have been served. *)
PutOffline(r, i) ==
    /\ i \in Turn(r) /\ writes[r][i].at = "put" /\ ~link.up
    /\ \/ UNCHANGED server
       \/ Allowed("lost") /\ link.valid /\ Store(r, writes[r][i])
    /\ writes' = [writes EXCEPT ![r][i].at = "queue",
                                ![r][i].snap = IF link.key THEN outbox ELSE NoEntries]
    /\ UNCHANGED <<vmenu, ui, outbox, flush, load, link, travel, vhist>>

(* queueWrite: the outbox that was read is stored with the new entry; with  *)
(* no key it is not, and the user is told all the same.                     *)
queueWrite(r, i) ==
    LET job == writes[r][i]
        new == [job.snap EXCEPT ![r] = [num |-> job.op, val |-> job.val]]
    IN /\ i \in Turn(r) /\ job.at = "queue"
       /\ outbox' = IF link.key THEN new ELSE outbox
       /\ Settled(r, i, Hurt((IF link.key THEN {} ELSE {"no key"})
                             \cup (IF outbox # job.snap THEN {"overlap"} ELSE {})))
       /\ UNCHANGED <<vmenu, server, flush, load, link, travel>>

WriteStep(r) ==
    \E i \in Turn(r) : WriteStart(r, i) \/ PutOk(r, i) \/ PutRefused(r, i) \/ PutFails(r, i)
                       \/ PutOffline(r, i) \/ queueWrite(r, i)

-----------------------------------------------------------------------------
(* flushOutbox, run every minute and when the browser comes online *)

FlushIdle == [at |-> "idle", r |-> "folders", todo |-> {}, snap |-> NoEntries,
              box |-> NoEntries, any |-> FALSE]

Queued(box) == {r \in Resources : box[r] # Nothing}

FlushStart ==
    /\ flush.at = "idle" /\ link.key /\ Queued(outbox) # {}
    /\ flush' = [FlushIdle EXCEPT !.at = "next", !.todo = Queued(outbox), !.snap = outbox]
    /\ UNCHANGED <<vmenu, server, ui, writes, outbox, load, link, travel, vhist>>

(* The loop: the next entry, or the end. *)
FlushPick ==
    /\ flush.at = "next"
    /\ \/ \E r \in flush.todo :
             flush' = [flush EXCEPT !.at = "put", !.r = r, !.todo = @ \ {r}]
       \/ flush.todo = {} /\ flush' = [flush EXCEPT !.at = "done"]
    /\ UNCHANGED <<vmenu, server, ui, writes, outbox, load, link, travel, vhist>>

(* The first failure ends the flush; what was flushed is reloaded.         *)
FlushStops == flush' = [flush EXCEPT !.at = "done", !.todo = {}]

FlushPut ==
    LET r == flush.r
    IN /\ flush.at = "put"
       /\ \/ /\ link.up /\ link.valid
             /\ server' = [server EXCEPT ![r] = flush.snap[r]]
             /\ vhist' = Hurt(IF server[r].num > flush.snap[r].num THEN {"replay"} ELSE {})
             /\ flush' = [flush EXCEPT !.at = "clear", !.any = TRUE,
                                       !.box = IF link.key THEN outbox ELSE NoEntries]
          \/ /\ ~link.up \/ ~link.valid \/ Allowed("error")
             /\ FlushStops
             /\ UNCHANGED <<server, vhist>>
       /\ UNCHANGED <<vmenu, ui, writes, outbox, load, link, travel>>

(* The outbox that was read is stored without the entry. *)
clearQueuedWrite ==
    LET r == flush.r
        new == [flush.box EXCEPT ![r] = Nothing]
        writable == Queued(new) = {} \/ link.key
    IN /\ flush.at = "clear"
       /\ IF flush.box[r] # Nothing /\ writable
          THEN /\ outbox' = new
               /\ vhist' = Hurt(IF outbox # flush.box \/ flush.box[r] # flush.snap[r]
                                THEN {"overlap"} ELSE {})
          ELSE UNCHANGED <<outbox, vhist>>
       /\ flush' = [flush EXCEPT !.at = "next"]
       /\ UNCHANGED <<vmenu, server, ui, writes, load, link, travel>>

LoadIdle == [at |-> "idle", got |-> NoEntries, ok |-> [r \in Resources |-> "unread"]]

LoadStarted == [LoadIdle EXCEPT !.at = "read"]

(* attemptFlush: the server's copy is picked up. *)
FlushDone ==
    /\ flush.at = "done"
    /\ flush' = FlushIdle
    /\ load' = IF flush.any /\ load.at = "idle" THEN LoadStarted ELSE load
    /\ UNCHANGED <<vmenu, server, ui, writes, outbox, link, travel, vhist>>

FlushStep == FlushStart \/ FlushPick \/ FlushPut \/ clearQueuedWrite \/ FlushDone

-----------------------------------------------------------------------------
(* performLoad, _localRead and loadLocal* *)

(* A read: 401 signs out; any other failure reads as nothing; ciphertext   *)
(* without the key is "pending" and leaves the state alone.                *)
LoadRead(r) ==
    /\ load.at = "read" /\ load.ok[r] = "unread"
    /\ \/ /\ link.cookie /\ link.up /\ link.valid
          /\ load' = [load EXCEPT !.ok[r] = IF link.key THEN "read" ELSE "pending",
                                  !.got[r] = server[r]]
          /\ UNCHANGED link
       \/ /\ link.cookie /\ link.up /\ ~link.valid
          /\ load' = [load EXCEPT !.ok[r] = "blank"]
          /\ link' = SignedOut
       \/ /\ ~link.cookie \/ ~link.up \/ Allowed("error")
          /\ load' = [load EXCEPT !.ok[r] = "blank"]
          /\ UNCHANGED link
    /\ UNCHANGED <<vmenu, server, ui, writes, outbox, flush, travel, vhist>>

Visible(r, val) ==
    IF travel.active
    THEN {x \in val : (IF r = "folders" THEN x.id ELSE x.in) \notin travel.hidden}
    ELSE val

(* All reads settled: a collection that was read replaces the state. *)
LoadDone ==
    /\ load.at = "read" /\ \A r \in Resources : load.ok[r] # "unread"
    /\ load' = LoadIdle
    /\ IF link.cookie /\ ~link.key
       THEN UNCHANGED <<ui, vhist>>
       ELSE /\ ui' = [r \in Resources |->
                        IF load.ok[r] = "pending" THEN ui[r] ELSE Visible(r, load.got[r].val)]
            /\ vhist' = Hurt((IF \E r \in Resources : load.ok[r] = "blank" THEN {"blank"} ELSE {})
                             \cup (IF \E r \in Resources :
                                        \/ writes[r] # <<>> \/ outbox[r] # Nothing
                                        \/ load.got[r] # server[r]
                                   THEN {"reload"} ELSE {}))
    /\ UNCHANGED <<vmenu, server, writes, outbox, flush, link, travel>>

-----------------------------------------------------------------------------
(* Travel mode: the hidden items are stashed and the list is reloaded      *)
(* without them; nothing is stored anew.  Disabling erases the stash and   *)
(* reloads.                                                                *)

handleEnableTravel(f) ==
    /\ Allowed("travel") /\ ~travel.active /\ load.at = "idle" /\ link.key
    /\ \E x \in ui["folders"] : x.id = f
    /\ travel' = [active |-> TRUE, hidden |-> {f}, stash |->
                    [r \in Resources |-> {x \in ui[r] : f \in {x.id, x.in}}]]
    /\ load' = LoadStarted
    /\ UNCHANGED <<vmenu, server, ui, writes, outbox, flush, link, vhist>>

NoTravel == [active |-> FALSE, hidden |-> {}, stash |-> Empty]

handleDisableTravel ==
    /\ travel.active /\ load.at = "idle" /\ link.key
    /\ travel' = NoTravel
    /\ load' = LoadStarted
    /\ UNCHANGED <<vmenu, server, ui, writes, outbox, flush, link, vhist>>

-----------------------------------------------------------------------------
(* The world around the tab *)

NetDown == Allowed("offline") /\ link.up /\ link' = [link EXCEPT !.up = FALSE]

NetUp == ~link.up /\ link' = [link EXCEPT !.up = TRUE]

SessionExpires == Allowed("expire") /\ link.valid /\ link' = [link EXCEPT !.valid = FALSE]

(* The hidden-tab timer wipes the keys. *)
KeysWiped == Allowed("wipe") /\ link.key /\ link' = [link EXCEPT !.key = FALSE]

Around ==
    /\ NetDown \/ NetUp \/ SessionExpires \/ KeysWiped
    /\ UNCHANGED <<vmenu, server, ui, writes, outbox, flush, load, travel, vhist>>

(* A new login derives the same key; demoKeyAvailable reloads. *)
SignIn ==
    /\ link.up /\ (~link.valid \/ ~link.key \/ ~link.cookie)
    /\ load.at = "idle"
    /\ link' = [link EXCEPT !.valid = TRUE, !.key = TRUE, !.cookie = TRUE]
    /\ load' = LoadStarted
    /\ UNCHANGED <<vmenu, server, ui, writes, outbox, flush, travel, vhist>>

(* The page is reloaded, or the tab dies and is opened again. *)
PageReload ==
    /\ Allowed("reload") /\ vhist.reloads < ReloadMax
    /\ vhist' = [vhist EXCEPT !.reloads = @ + 1]
    /\ ui' = Empty
    /\ writes' = [r \in Resources |-> <<>>]
    /\ flush' = FlushIdle
    /\ load' = LoadStarted
    /\ UNCHANGED <<vmenu, server, outbox, link, travel>>

VaultInit ==
    /\ vmenu \in VaultMenus
    /\ server = [r \in Resources |-> [num |-> 0, val |-> vmenu.stored[r]]]
    /\ ui = Empty
    /\ writes = [r \in Resources |-> <<>>]
    /\ outbox = NoEntries
    /\ flush = FlushIdle
    /\ load = LoadStarted
    /\ link = [up |-> TRUE, valid |-> TRUE, cookie |-> TRUE, key |-> TRUE]
    /\ travel = NoTravel
    /\ vhist = [n |-> 0, acked |-> vmenu.stored["folders"] \cup vmenu.stored["credentials"],
                gone |-> {}, ids |-> {x.id : x \in vmenu.stored["folders"] \cup vmenu.stored["credentials"]},
                settled |-> {}, causes |-> {}, reloads |-> 0]

VaultNext ==
    \/ (load.at = "idle" /\ UserEdit)
    \/ \E r \in Resources : WriteStep(r) \/ LoadRead(r)
    \/ FlushStep
    \/ LoadDone
    \/ (\E f \in Folders : handleEnableTravel(f)) \/ handleDisableTravel
    \/ Around \/ SignIn \/ PageReload

-----------------------------------------------------------------------------
(* Properties *)

Kept == UNION {server[r].val \cup outbox[r].val : r \in Resources}

(* What the user was told is saved, on the server or on this device, and   *)
(* did not take away, is in one of the two, unless one of these happened:  *)
(* a rollback under a later edit, a half-failed deletion of a folder, a    *)
(* load that failed and showed an empty list, a reload under pending       *)
(* writes, an outbox read by two writers at once, a queued write replayed  *)
(* over a newer one, a write without key or cookie, or an edit in travel   *)
(* mode.  Each of them is a hazard of this code; there is no other.        *)
NothingElseLoses == vhist.causes = {} => vhist.acked \subseteq Kept

Quiet ==
    /\ load.at = "idle" /\ flush.at = "idle" /\ Queued(outbox) = {}
    /\ \A r \in Resources : writes[r] = <<>>

(* When nothing is under way, the list on the screen is the stored one,    *)
(* however edits failed and were rolled back before (same exceptions).     *)
ShowsStored ==
    Quiet /\ vhist.causes = {} /\ link.key =>
        \A r \in Resources : ui[r] = Visible(r, server[r].val)

(* Queued writes are sent in the end, once the network and the session     *)
(* stay: the flush is retried every minute, whatever failed before.        *)
Steady == link.up /\ link.valid /\ link.key

OutboxDrains ==
    ~Allowed("error") => (<>[]Steady => <>[](Queued(outbox) = {}))
=============================================================================
