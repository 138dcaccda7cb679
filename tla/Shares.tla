------------------------------- MODULE Shares -------------------------------
(***************************************************************************)
(* Secure sharing and emergency access (routes/vaultRoutes.js): one owner, *)
(* several requests at once, served by the processes of the cluster.       *)
(*                                                                         *)
(* A share is a file in the owner's directory and an entry of              *)
(* share_index.json; a request for emergency access is an entry of         *)
(* emergency_requests.enc.  A request runs from one await to the next; two *)
(* synchronous file operations are two steps where another process can     *)
(* come between them to an effect.  A lock file is taken when it is free;  *)
(* after its retries a request gives up and answers with an error.  What a *)
(* share holds, its label and the answers other than its content are left  *)
(* out; that a share has expired is a step.                                *)
(***************************************************************************)
EXTENDS Naturals, FiniteSets

CONSTANTS
    ShareReqs,    \* requests served at the same time
    Sids,         \* share ids, and ids of emergency requests
    ShareMenus,   \* [ops, crash, fresh]: operations, whether processes die,
                  \* and whether the index and the request file are yet to be made
    Nobody        \* in place of the holder of a lock, or of a share id

ASSUME NobodyAssumption == Nobody \notin ShareReqs

ASSUME ShareMenusAssumption ==
    ShareMenus \subseteq [ops : SUBSET {"create", "revoke", "view", "expire", "emergency"},
                          crash : BOOLEAN, fresh : BOOLEAN]

VARIABLES
    smenu,     \* the member of ShareMenus in force
    file,      \* share files: [Sids -> Absent or a record]
    index,     \* [there, torn, ids]: share_index.json
    locks,     \* who holds the lock of the index, of each record, of the requests
    sreq,      \* where each request is
    egy,       \* emergency access: whether it is set up, and the requests file
    shist      \* history: ids drawn, shares announced, revoked, times served,
               \* emergency requests and responses that were acknowledged, crashes

shareVars == <<smenu, file, index, locks, sreq, egy, shist>>

Absent == [there |-> FALSE, single |-> FALSE, viewed |-> FALSE, expired |-> FALSE]

NoRequests == [s \in {} |-> "pending"]

Rest == [at |-> "idle", sid |-> Nobody, add |-> FALSE, back |-> "idle",
         got |-> {}, list |-> NoRequests]

ShareGo(q, r) == sreq' = [sreq EXCEPT ![q] = r]

Offered(op, q) == op \in smenu.ops /\ sreq[q] = Rest

-----------------------------------------------------------------------------
(* updateShareIndex, called by a request that continues at sreq[q].back *)

ToIndex(s, add, back) ==
    [Rest EXCEPT !.at = "check", !.sid = s, !.add = add, !.back = back]

(* existsSync of the index, outside its lock *)
IndexCheck(q) ==
    /\ sreq[q].at = "check"
    /\ ShareGo(q, [sreq[q] EXCEPT !.at = IF index.there THEN "lock" ELSE "make"])
    /\ UNCHANGED <<smenu, file, index, locks, egy, shist>>

IndexMake(q) ==
    /\ sreq[q].at = "make"
    /\ index' = [there |-> TRUE, torn |-> FALSE, ids |-> {}]
    /\ ShareGo(q, [sreq[q] EXCEPT !.at = "lock"])
    /\ UNCHANGED <<smenu, file, locks, egy, shist>>

(* Mutant of IndexLock: the read-modify-write is not serialised. *)
IndexLockNone(q) ==
    /\ sreq[q].at = "lock"
    /\ ShareGo(q, [sreq[q] EXCEPT !.at = "open", !.got = IF index.torn THEN {} ELSE index.ids])
    /\ UNCHANGED <<smenu, file, index, locks, egy, shist>>

(* An index that does not parse is taken for an empty one. *)
IndexLock(q) ==
    /\ sreq[q].at = "lock"
    /\ locks.index = Nobody
    /\ locks' = [locks EXCEPT !.index = q]
    /\ ShareGo(q, [sreq[q] EXCEPT !.at = "open", !.got = IF index.torn THEN {} ELSE index.ids])
    /\ UNCHANGED <<smenu, file, index, egy, shist>>

(* writeFile truncates the file and then fills it. *)
IndexOpen(q) ==
    /\ sreq[q].at = "open"
    /\ index' = [index EXCEPT !.torn = TRUE]
    /\ ShareGo(q, [sreq[q] EXCEPT !.at = "fill"])
    /\ UNCHANGED <<smenu, file, locks, egy, shist>>

Drop(q) ==
    [index |-> IF locks.index = q THEN Nobody ELSE locks.index,
     egy |-> IF locks.egy = q THEN Nobody ELSE locks.egy,
     rec |-> [s \in Sids |-> IF locks.rec[s] = q THEN Nobody ELSE locks.rec[s]]]

IndexFill(q) ==
    LET r == sreq[q]
    IN /\ r.at = "fill"
       /\ index' = [there |-> TRUE, torn |-> FALSE,
                    ids |-> IF r.add THEN r.got \cup {r.sid} ELSE r.got \ {r.sid}]
       /\ locks' = Drop(q)
       /\ ShareGo(q, IF r.back = "idle" THEN Rest ELSE [r EXCEPT !.at = r.back, !.got = {}])
       /\ UNCHANGED <<smenu, file, egy, shist>>

(* proper-lockfile runs out of retries: the handler throws. *)
LockGivesUp(q) ==
    /\ \/ sreq[q].at = "lock" /\ locks.index # Nobody
       \/ sreq[q].at = "claim" /\ locks.rec[sreq[q].sid] # Nobody
       \/ sreq[q].at = "elock" /\ locks.egy # Nobody
    /\ locks' = Drop(q)
    /\ ShareGo(q, Rest)
    /\ UNCHANGED <<smenu, file, index, egy, shist>>

-----------------------------------------------------------------------------
(* Shares *)

CreateShare(q, s, single) ==
    /\ Offered("create", q)
    /\ s \notin shist.drawn
    /\ file' = [file EXCEPT ![s] = [there |-> TRUE, single |-> single,
                                    viewed |-> FALSE, expired |-> FALSE]]
    /\ shist' = [shist EXCEPT !.drawn = @ \cup {s}]
    /\ ShareGo(q, ToIndex(s, TRUE, "created"))
    /\ UNCHANGED <<smenu, index, locks, egy>>

CreateReply(q) ==
    /\ sreq[q].at = "created"
    /\ shist' = [shist EXCEPT !.announced = @ \cup {sreq[q].sid}]
    /\ ShareGo(q, Rest)
    /\ UNCHANGED <<smenu, file, index, locks, egy>>

(* Mutant of RevokeShare: only the entry of the index is removed. *)
RevokeShareEntry(q, s) ==
    /\ Offered("revoke", q)
    /\ s \in shist.drawn
    /\ ShareGo(q, ToIndex(s, FALSE, "revoked"))
    /\ UNCHANGED <<smenu, file, index, locks, egy, shist>>

(* The owner knows the ids of the files that GET /api/vault/shares lists. *)
RevokeShare(q, s) ==
    /\ Offered("revoke", q)
    /\ s \in shist.drawn
    /\ IF file[s].there
       THEN /\ file' = [file EXCEPT ![s].there = FALSE]
            /\ ShareGo(q, ToIndex(s, FALSE, "revoked"))
       ELSE /\ ShareGo(q, [Rest EXCEPT !.at = "revoked", !.sid = s])
            /\ file' = file
    /\ UNCHANGED <<smenu, index, locks, egy, shist>>

RevokeReply(q) ==
    /\ sreq[q].at = "revoked"
    /\ shist' = [shist EXCEPT !.revoked = @ \cup {sreq[q].sid}]
    /\ ShareGo(q, Rest)
    /\ UNCHANGED <<smenu, file, index, locks, egy>>

(* GET /api/share/:shareId.  Anything but an entry of a whole index that   *)
(* leads to a file is a 404.                                               *)
ViewLookup(q, s) ==
    /\ Offered("view", q)
    /\ s \in shist.drawn
    /\ index.there /\ ~index.torn /\ s \in index.ids /\ file[s].there
    /\ ShareGo(q, [Rest EXCEPT !.at = "claim", !.sid = s])
    /\ UNCHANGED <<smenu, file, index, locks, egy, shist>>

(* Mutant of ViewClaim: the record is read before it is locked. *)
ViewClaimEarly(q) ==
    LET s == sreq[q].sid
    IN /\ sreq[q].at = "claim"
       /\ locks' = locks
       /\ IF ~file[s].there \/ file[s].expired \/ (file[s].single /\ file[s].viewed)
          THEN ShareGo(q, Rest)
          ELSE ShareGo(q, [sreq[q] EXCEPT !.at = IF file[s].single THEN "mark" ELSE "serve"])
       /\ UNCHANGED <<smenu, file, index, egy, shist>>

(* Lock the record, read it, and decide; an expired one is removed.        *)
ViewClaim(q) ==
    LET s == sreq[q].sid
    IN /\ sreq[q].at = "claim"
       /\ locks.rec[s] = Nobody
       /\ \/ /\ ~file[s].there \/ (~file[s].expired /\ file[s].single /\ file[s].viewed)
             /\ ShareGo(q, Rest)
             /\ UNCHANGED <<file, locks>>
          \/ /\ file[s].there /\ file[s].expired
             /\ file' = [file EXCEPT ![s].there = FALSE]
             /\ locks' = [locks EXCEPT !.rec[s] = q]
             /\ ShareGo(q, ToIndex(s, FALSE, "idle"))
          \/ /\ file[s].there /\ ~file[s].expired /\ ~file[s].single
             /\ ShareGo(q, [sreq[q] EXCEPT !.at = "serve"])
             /\ UNCHANGED <<file, locks>>
          \/ /\ file[s].there /\ ~file[s].expired /\ file[s].single /\ ~file[s].viewed
             /\ locks' = [locks EXCEPT !.rec[s] = q]
             /\ ShareGo(q, [sreq[q] EXCEPT !.at = "mark"])
             /\ UNCHANGED file
       /\ UNCHANGED <<smenu, index, egy, shist>>

(* The copy marked as viewed replaces the record, also one that was        *)
(* revoked meanwhile.                                                      *)
ViewMark(q) ==
    LET s == sreq[q].sid
    IN /\ sreq[q].at = "mark"
       /\ file' = [file EXCEPT ![s].there = TRUE, ![s].viewed = TRUE]
       /\ locks' = Drop(q)
       /\ ShareGo(q, [sreq[q] EXCEPT !.at = "serve"])
       /\ UNCHANGED <<smenu, index, egy, shist>>

ViewServe(q) ==
    /\ sreq[q].at = "serve"
    /\ shist' = [shist EXCEPT !.served[sreq[q].sid] = IF @ < 2 THEN @ + 1 ELSE @]
    /\ ShareGo(q, Rest)
    /\ UNCHANGED <<smenu, file, index, locks, egy>>

ShareExpires(s) ==
    /\ "expire" \in smenu.ops
    /\ file[s].there /\ ~file[s].expired
    /\ file' = [file EXCEPT ![s].expired = TRUE]
    /\ UNCHANGED <<smenu, index, locks, sreq, egy, shist>>

-----------------------------------------------------------------------------
(* Emergency access.  egy.list maps the ids of requests to their status.   *)

EmergencySetup(on) ==
    /\ "emergency" \in smenu.ops
    /\ egy' = [egy EXCEPT !.on = on]
    /\ UNCHANGED <<smenu, file, index, locks, sreq, shist>>

(* A request by the public token, or the owner's answer to one: the token  *)
(* is looked up, the file is made if there is none, outside its lock.      *)
EmergencyCall(q, s, act) ==
    /\ Offered("emergency", q)
    /\ IF act = "pending" THEN egy.on /\ s \notin shist.drawn ELSE s \in shist.asked
    /\ shist' = [shist EXCEPT !.drawn = @ \cup {s}]
    /\ ShareGo(q, [Rest EXCEPT !.at = IF egy.there THEN "elock" ELSE "emake",
                          !.sid = s, !.back = act])
    /\ UNCHANGED <<smenu, file, index, locks, egy>>

EmergencyMake(q) ==
    /\ sreq[q].at = "emake"
    /\ egy' = [egy EXCEPT !.there = TRUE, !.list = NoRequests]
    /\ ShareGo(q, [sreq[q] EXCEPT !.at = "elock"])
    /\ UNCHANGED <<smenu, file, index, locks, shist>>

EmergencyLock(q) ==
    /\ sreq[q].at = "elock"
    /\ locks.egy = Nobody
    /\ locks' = [locks EXCEPT !.egy = q]
    /\ ShareGo(q, [sreq[q] EXCEPT !.at = "esave", !.list = egy.list])
    /\ UNCHANGED <<smenu, file, index, egy, shist>>

(* The entry is pushed, or its status set; an unknown id saves nothing. *)
EmergencySave(q) ==
    LET r == sreq[q]
        known == r.back = "pending" \/ r.sid \in DOMAIN r.list
    IN /\ r.at = "esave"
       /\ egy' = IF known
                 THEN [egy EXCEPT !.list = [i \in DOMAIN r.list \cup {r.sid} |->
                                              IF i = r.sid THEN r.back ELSE r.list[i]]]
                 ELSE egy
       /\ locks' = Drop(q)
       /\ ShareGo(q, Rest)
       /\ shist' = IF r.back = "pending" THEN [shist EXCEPT !.asked = @ \cup {r.sid}]
                   ELSE IF known THEN [shist EXCEPT !.answered = @ \cup {r.sid}]
                   ELSE shist
       /\ UNCHANGED <<smenu, file, index>>

-----------------------------------------------------------------------------
(* The process of a request dies; its lock files go stale. *)
ShareCrash(q) ==
    /\ smenu.crash
    /\ sreq[q] # Rest
    /\ locks' = Drop(q)
    /\ shist' = [shist EXCEPT !.crashed = TRUE]
    /\ ShareGo(q, Rest)
    /\ UNCHANGED <<smenu, file, index, egy>>

ShareInit ==
    /\ smenu \in ShareMenus
    /\ file = [s \in Sids |-> Absent]
    /\ index = [there |-> ~smenu.fresh, torn |-> FALSE, ids |-> {}]
    /\ locks = [index |-> Nobody, egy |-> Nobody, rec |-> [s \in Sids |-> Nobody]]
    /\ sreq = [q \in ShareReqs |-> Rest]
    /\ egy = [on |-> FALSE, there |-> ~smenu.fresh, list |-> NoRequests]
    /\ shist = [drawn |-> {}, announced |-> {}, revoked |-> {}, served |-> [s \in Sids |-> 0],
                asked |-> {}, answered |-> {}, crashed |-> FALSE]

ShareStep(q) ==
    \/ IndexCheck(q) \/ IndexMake(q) \/ IndexLock(q) \/ IndexOpen(q) \/ IndexFill(q)
    \/ LockGivesUp(q) \/ CreateReply(q) \/ RevokeReply(q)
    \/ ViewClaim(q) \/ ViewMark(q) \/ ViewServe(q)
    \/ EmergencyMake(q) \/ EmergencyLock(q) \/ EmergencySave(q) \/ ShareCrash(q)
    \/ \E s \in Sids :
          \/ \E single \in BOOLEAN : CreateShare(q, s, single)
          \/ RevokeShare(q, s) \/ ViewLookup(q, s)
          \/ \E act \in {"pending", "granted", "denied"} : EmergencyCall(q, s, act)

ShareNext ==
    \/ \E q \in ShareReqs : ShareStep(q)
    \/ \E s \in Sids : ShareExpires(s)
    \/ \E on \in BOOLEAN : EmergencySetup(on)

ShareSpec == ShareInit /\ [][ShareNext]_shareVars

-----------------------------------------------------------------------------
(* Properties *)

(* A single-view share is served at most once, to however many viewers at  *)
(* once, and also when it is revoked, expires or its server dies meanwhile *)
(* ("Lock enforced to prevent race condition in single-view claim").       *)
SingleViewOnce ==
    \A s \in Sids : file[s].single => shist.served[s] <= 1

(* A share whose creation was acknowledged can be looked up as long as its *)
(* file is there, unless a process died: concurrent creations and removals *)
(* do not lose each other's entries.  (Where the index is yet to be made,  *)
(* the check and the first write of it are outside the lock, and a first   *)
(* share can be lost; the property is about an index that is there.)  Only *)
(* a DELETE that is about to answer may have taken the entry out, of a     *)
(* file that a view it overlapped wrote back.                              *)
AnnouncedIndexed ==
    ~smenu.fresh /\ ~shist.crashed =>
        \A s \in shist.announced : file[s].there /\ s \notin shist.revoked
            => \/ s \in index.ids
               \/ \E q \in ShareReqs : sreq[q].at = "revoked" /\ sreq[q].sid = s

(* After DELETE has answered, no later view can be served: whatever views  *)
(* were under way, the record is gone, or was written back by one of them  *)
(* and marked as viewed.                                                   *)
RevokedUnreachable ==
    \A s \in shist.revoked : file[s].there => file[s].single /\ file[s].viewed

(* "grant/deny don't race a concurrent append, which would otherwise       *)
(* clobber a denial by resurrecting the request": acknowledged requests    *)
(* stay in the list, and answered ones are never pending again.            *)
RequestsKept ==
    ~smenu.fresh =>
        /\ shist.asked \subseteq DOMAIN egy.list
        /\ \A s \in shist.answered : egy.list[s] # "pending"

(* Acknowledged entries stay in the two lists that many requests rewrite:  *)
(* shares in the owner's index, requests in the emergency file.            *)
ListsKept == AnnouncedIndexed /\ RequestsKept
=============================================================================
