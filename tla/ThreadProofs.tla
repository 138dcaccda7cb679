---------------------------- MODULE ThreadProofs ----------------------------
(***************************************************************************)
(* Proofs about VaultThreads, for every number of clients and of requests  *)
(* under way at once.                                                      *)
(*                                                                         *)
(* ThreadInv says what holds between the lock acquisitions of the          *)
(* handlers.  For each kind of overlap that has not happened it has a part *)
(* of its own: two first unlocks (CreateInv), a lock and a load            *)
(* (MemoryInv), these and a password change with a load (LoadInv), none at *)
(* all (OriginInv).  QuietInv follows a lock that nothing overlaps, and    *)
(* OverlapInv ties the record of past overlaps to the requests under way.  *)
(***************************************************************************)
EXTENDS VaultThreads, TLAPS

(* The steps of each kind of request. *)
CreateStages == {"create", "create_header", "create_open"}
CloseStages == {"clear_db", "clear_vmk", "clear_uuid", "revoke_all"}
OpenStages == {"set_db", "set_uuid", "create_session", "gate", "reply"}
ChangeStages == {"verify", "current_vmk", "rekey", "change_vmk", "revoke_others"}

KindAt(k, a) ==
    \/ k = "unlock" /\ a \in CreateStages \cup {"read", "open", "set_vmk"} \cup OpenStages \cup CloseStages
    \/ k = "copy" /\ a \in {"read", "open", "set_vmk", "set_db", "set_uuid", "create_session"}
    \/ k = "lock" /\ a \in CloseStages
    \/ k = "change_password" /\ a \in ChangeStages

KeyedStages == CreateStages \cup {"open", "set_vmk"} \cup OpenStages \cup ChangeStages

(* A request is at a step of its kind, has a key once it has read or made  *)
(* one, and was not answered yet; before there is a file nothing but a     *)
(* first unlock is under way.                                              *)
Staged(c) ==
    /\ task[c] = NoTask \/ KindAt(task[c].kind, task[c].at)
    /\ task[c].at \in KeyedStages => task[c].key # 0
    /\ task[c].kind \in {"unlock", "copy"} => c \notin told

StageInv == meta.key < fresh /\ \A c \in Clients : Staged(c)

NoFileInv ==
    file = 0 => /\ conn = 0 /\ sessions = {}
                /\ \A c \in Clients : task[c] # NoTask => task[c].at \in CreateStages

(* While a lock is quiet it is past its first step and nothing else loads: *)
(* what it has cleared stays so.                                           *)
Cleared(c) ==
    /\ task[c].at \in {"clear_vmk", "clear_uuid", "revoke_all"} => conn = 0
    /\ task[c].at \in {"clear_uuid", "revoke_all"} => vmk = 0
    /\ task[c].at = "revoke_all" => ~uuid

QuietInv ==
    /\ \A c \in quiet : /\ task[c].at \in {"clear_vmk", "clear_uuid", "revoke_all"}
                        /\ Loading \subseteq {c} /\ Cleared(c)
    /\ calm => Loading = {} /\ vmk = 0 /\ conn = 0 /\ ~uuid /\ sessions = {}

(* What has not met is not under way together. *)
OverlapInv ==
    /\ "create_create" \notin met => \A c, d \in Creating : c = d
    /\ "close_load" \notin met => Closing = {} \/ Loading \subseteq Closing
    /\ "change_load" \notin met => Changing = {} \/ \A c, d \in Loading : c = d

(* No two first unlocks met: the one under way has no file yet, and the    *)
(* sidecar wraps the key of the file.                                      *)
CreateOK ==
    /\ file # 0 => meta.key = file
    /\ \A c \in Creating : /\ file = 0
                           /\ task[c].at = "create_open" => meta.key = task[c].key

CreateInv == "create_create" \notin met => CreateOK

(* No lock met a request that loads: what is missing in memory is about to *)
(* be filled, or to be cleared with the rest.                              *)
SomeoneAt(S) == \E c \in Clients : task[c].at \in S

NeedsMemory(c) ==
    /\ task[c].at \in {"create_header", "create_open", "change_vmk"} \cup OpenStages => vmk # 0
    /\ task[c].at \in {"create_session", "gate", "reply"} => uuid
    /\ task[c].at = "create" /\ file # 0 => vmk # 0

MemoryOK ==
    /\ vmk = 0 => conn = 0
    /\ vmk = 0 /\ sessions # {} => SomeoneAt({"clear_uuid", "revoke_all"})
    /\ ~uuid /\ sessions # {} => SomeoneAt({"revoke_all"})
    /\ vmk # 0 /\ conn = 0 => \/ SomeoneAt({"set_db", "clear_vmk"})
                              \/ file = 0 /\ SomeoneAt({"create_header", "create_open"})
    /\ \A c \in Clients : NeedsMemory(c) /\ Cleared(c)

MemoryInv == "close_load" \notin met => MemoryOK

(* Nor did a password change meet another load: a request loads the key of *)
(* the file, and the gate checks TOTP.                                     *)
LoadsFile(c) ==
    /\ task[c].at \in {"set_vmk"} \cup OpenStages => task[c].key = file
    /\ task[c].at \in {"set_uuid", "create_session", "gate"} => conn = file
    /\ task[c].at = "reply" => c \in proved

LoadOK == (\A c \in Clients : LoadsFile(c)) /\ sessions \cap told \subseteq proved

LoadInv == met \cap {"close_load", "change_load"} = {} => LoadOK

(* No requests met at all: sessions are of the present key, or a password  *)
(* change is about to end them.                                            *)
OfPresentKey(c) ==
    task[c].at \in {"open", "set_vmk", "change_vmk", "revoke_others"} \cup OpenStages => task[c].key = meta.key

OriginOK ==
    /\ \A c \in Clients : OfPresentKey(c)
    /\ \A c \in sessions : origin[c] = meta.key \/ SomeoneAt({"change_vmk", "revoke_others"})

OriginInv == met = {} => OriginOK

ThreadInv ==
    /\ OverlapTypeOK /\ StageInv /\ NoFileInv /\ QuietInv /\ OverlapInv
    /\ CreateInv /\ MemoryInv /\ LoadInv /\ OriginInv

Tasks == [kind : AllRequestKinds \cup {"none"}, at : Steps, key : Keys]

Others(c) == \A d \in Clients : d # c => task'[d] = task[d]

USE OverlapBounds, FlagsAssumption, RequestKindsAssumption

(* A request that is about to create a session is an unlock or a copy. *)
LEMMA SessionKinds ==
    ASSUME NEW k, KindAt(k, "create_session")
    PROVE  k \in {"unlock", "copy"}
BY DEF KindAt, CloseStages, ChangeStages

-----------------------------------------------------------------------------
(* What the three ways to move a request do to the tasks. *)
LEMMA GoesFacts ==
    ASSUME OverlapTypeOK, NEW c \in Clients, NEW step \in Steps, Goes(c, step)
    PROVE  /\ task' \in [Clients -> Tasks] /\ Others(c)
           /\ task'[c] = [kind |-> task[c].kind, at |-> step, key |-> task[c].key]
           /\ task'[c].kind = task[c].kind /\ task'[c].at = step /\ task'[c].key = task[c].key
<1> DEFINE y == [kind |-> task[c].kind, at |-> step, key |-> task[c].key]
<1>1. task \in [Clients -> Tasks] /\ task[c] \in Tasks
  BY DEF OverlapTypeOK, Tasks
<1>2. [task[c] EXCEPT !.at = step] = y
  BY <1>1 DEF Tasks
<1>3. y \in Tasks
  BY <1>1 DEF Tasks
<1>4. task' = [task EXCEPT ![c] = y]
  BY <1>2, Zenon DEF Goes
<1>5. task'[c] = y /\ Others(c)
  BY <1>1, <1>4, Zenon DEF Others
<1>6. task' \in [Clients -> Tasks]
  BY <1>1, <1>3, <1>4, Zenon
<1> QED
  BY <1>5, <1>6

LEMMA EndsFacts ==
    ASSUME OverlapTypeOK, NEW c \in Clients, Ends(c)
    PROVE  /\ task' \in [Clients -> Tasks] /\ Others(c)
           /\ task'[c] = NoTask /\ task'[c].kind = "none" /\ task'[c].at = "idle" /\ task'[c].key = 0
<1>1. task \in [Clients -> Tasks]
  BY DEF OverlapTypeOK, Tasks
<1>2. NoTask \in Tasks /\ NoTask.kind = "none" /\ NoTask.at = "idle" /\ NoTask.key = 0
  BY DEF NoTask, Tasks, Steps, Keys
<1>3. task'[c] = NoTask /\ Others(c)
  BY <1>1, Zenon DEF Ends, Others
<1>4. task' \in [Clients -> Tasks]
  BY <1>1, <1>2, Zenon DEF Ends
<1> QED
  BY <1>2, <1>3, <1>4

LEMMA StartsFacts ==
    ASSUME OverlapTypeOK, NEW c \in Clients, NEW k \in AllRequestKinds, NEW step \in Steps,
           NEW key \in Keys, Starts(c, k, step, key)
    PROVE  /\ task' \in [Clients -> Tasks] /\ Others(c)
           /\ task[c] = NoTask
           /\ task'[c] = [kind |-> k, at |-> step, key |-> key]
           /\ task'[c].kind = k /\ task'[c].at = step /\ task'[c].key = key
<1> DEFINE y == [kind |-> k, at |-> step, key |-> key]
<1>1. task \in [Clients -> Tasks]
  BY DEF OverlapTypeOK, Tasks
<1>2. y \in Tasks
  BY DEF Tasks
<1>3. task' = [task EXCEPT ![c] = y] /\ task[c] = NoTask
  BY Zenon DEF Starts
<1>4. task'[c] = y /\ Others(c)
  BY <1>1, <1>3, Zenon DEF Others
<1>5. task' \in [Clients -> Tasks]
  BY <1>1, <1>2, <1>3, Zenon
<1> QED
  BY <1>3, <1>4, <1>5

(* The request of c moves on from step a to step b, or ends at a. *)
Moved(c, a, b) ==
    /\ task' \in [Clients -> Tasks] /\ Others(c)
    /\ task[c].at = a /\ task'[c].at = b
    /\ task'[c].kind = task[c].kind /\ task'[c].key = task[c].key

Ended(c, a) ==
    /\ task' \in [Clients -> Tasks] /\ Others(c)
    /\ task[c].at = a /\ task'[c] = NoTask
    /\ task'[c].kind = "none" /\ task'[c].at = "idle" /\ task'[c].key = 0

Started(c, k, b, key) ==
    /\ task' \in [Clients -> Tasks] /\ Others(c)
    /\ task[c] = NoTask /\ task[c].at = "idle" /\ task[c].kind = "none"
    /\ task'[c].kind = k /\ task'[c].at = b /\ task'[c].key = key

LEMMA GoesMoves ==
    ASSUME OverlapTypeOK, NEW c \in Clients, NEW a, task[c].at = a, NEW b \in Steps, Goes(c, b)
    PROVE  Moved(c, a, b)
  BY GoesFacts, Zenon DEF Moved

LEMMA EndsMoves ==
    ASSUME OverlapTypeOK, NEW c \in Clients, NEW a, task[c].at = a, Ends(c)
    PROVE  Ended(c, a)
  BY EndsFacts, Zenon DEF Ended

LEMMA StartsMoves ==
    ASSUME OverlapTypeOK, NEW c \in Clients, NEW k \in AllRequestKinds, NEW b \in Steps,
           NEW key \in Keys, Starts(c, k, b, key)
    PROVE  Started(c, k, b, key)
<1>1. NoTask.at = "idle" /\ NoTask.kind = "none"
  BY DEF NoTask
<1>2. /\ task' \in [Clients -> Tasks] /\ Others(c) /\ task[c] = NoTask
      /\ task'[c].kind = k /\ task'[c].at = b /\ task'[c].key = key
  BY StartsFacts, Zenon
<1> QED
  BY <1>1, <1>2, Zenon DEF Started

LEMMA ReadMoves ==
    ASSUME OverlapTypeOK, NEW c \in Clients, ReadHeader(c)
    PROVE  \/ Ended(c, "read")
           \/ /\ task' \in [Clients -> Tasks] /\ Others(c)
              /\ task[c].at = "read" /\ task'[c].at = "open"
              /\ task'[c].kind = task[c].kind /\ task'[c].key = meta.key /\ meta.key # 0
<1>1. task \in [Clients -> Tasks] /\ task[c] \in Tasks /\ meta.key \in Keys
  BY DEF OverlapTypeOK, Tasks
<1>2. CASE Ends(c)
  <2>1. task[c].at = "read"
    BY DEF ReadHeader
  <2> QED
    BY <1>2, <2>1, EndsMoves, Zenon
<1>3. CASE ~Ends(c)
  <2> DEFINE q == [task[c] EXCEPT !.at = "open"]
             y == [kind |-> task[c].kind, at |-> "open", key |-> meta.key]
  <2>1. task' = [task EXCEPT ![c].at = "open", ![c].key = meta.key] /\ meta.key # 0 /\ task[c].at = "read"
    BY <1>3, Zenon DEF ReadHeader
  <2>2. q = [kind |-> task[c].kind, at |-> "open", key |-> task[c].key]
    BY <1>1 DEF Tasks
  <2>3. [[kind |-> task[c].kind, at |-> "open", key |-> task[c].key] EXCEPT !.key = meta.key] = y
    OBVIOUS
  <2>4. task' = [task EXCEPT ![c] = [q EXCEPT !.key = meta.key]]
    BY <1>1, <2>1, Zenon
  <2>5. task' = [task EXCEPT ![c] = y]
    BY <2>2, <2>3, <2>4, Zenon
  <2>6. y \in Tasks
    BY <1>1 DEF Tasks, Steps
  <2>7. task'[c] = y /\ Others(c)
    BY <1>1, <2>5, Zenon DEF Others
  <2>8. task' \in [Clients -> Tasks]
    BY <1>1, <2>5, <2>6, Zenon
  <2> QED
    BY <2>1, <2>7, <2>8
<1> QED
  BY <1>2, <1>3

LEMMA StepNames ==
    /\ {"create", "create_header", "create_open", "read", "open", "set_vmk", "set_db", "set_uuid"} \subseteq Steps
    /\ {"create_session", "gate", "reply", "clear_db", "clear_vmk", "clear_uuid", "revoke_all"} \subseteq Steps
    /\ {"verify", "current_vmk", "rekey", "change_vmk", "revoke_others"} \subseteq Steps
  BY DEF Steps

LEMMA BeginMoves ==
    ASSUME OverlapTypeOK, NEW c \in Clients
    PROVE  /\ \A k \in {"unlock", "copy"} : BeginUnlock(c, k) =>
                 \/ file = 0 /\ Started(c, "unlock", "create", fresh)
                 \/ file # 0 /\ Started(c, k, "read", 0)
           /\ BeginLock(c) => Started(c, "lock", "clear_db", 0)
           /\ BeginChange(c) => Started(c, "change_password", "verify", fresh)
<1>1. 0 \in Keys /\ (TakesKey => fresh \in Keys)
  BY DEF Keys, TakesKey, OverlapTypeOK
<1>2. {"unlock", "copy", "lock", "change_password"} \subseteq AllRequestKinds
  BY DEF AllRequestKinds
<1>3. ASSUME NEW k \in {"unlock", "copy"}, BeginUnlock(c, k)
      PROVE  \/ file = 0 /\ Started(c, "unlock", "create", fresh)
             \/ file # 0 /\ Started(c, k, "read", 0)
  <2>1. CASE file = 0
    <3>1. k = "unlock" /\ TakesKey /\ Starts(c, k, "create", fresh)
      BY <1>3, <2>1, Zenon DEF BeginUnlock
    <3>2. k \in AllRequestKinds /\ "create" \in Steps /\ fresh \in Keys
      BY <1>1, <1>2, <3>1, StepNames
    <3> QED
      BY <2>1, <3>1, <3>2, StartsMoves, Zenon
  <2>2. CASE file # 0
    <3>1. Starts(c, k, "read", 0)
      BY <1>3, <2>2, Zenon DEF BeginUnlock
    <3>2. k \in AllRequestKinds /\ "read" \in Steps
      BY <1>2, StepNames
    <3> QED
      BY <1>1, <2>2, <3>1, <3>2, StartsMoves, Zenon
  <2> QED
    BY <2>1, <2>2
<1>4. ASSUME BeginLock(c) PROVE Started(c, "lock", "clear_db", 0)
  <2>1. Starts(c, "lock", "clear_db", 0)
    BY <1>4, Zenon DEF BeginLock
  <2>2. "lock" \in AllRequestKinds /\ "clear_db" \in Steps
    BY <1>2, StepNames
  <2> QED
    BY <1>1, <2>1, <2>2, StartsMoves, Zenon
<1>5. ASSUME BeginChange(c) PROVE Started(c, "change_password", "verify", fresh)
  <2>1. Starts(c, "change_password", "verify", fresh) /\ TakesKey
    BY <1>5, Zenon DEF BeginChange
  <2>2. "change_password" \in AllRequestKinds /\ "verify" \in Steps
    BY <1>2, StepNames
  <2> QED
    BY <1>1, <2>1, <2>2, StartsMoves, Zenon
<1> QED
  BY <1>3, <1>4, <1>5, Zenon

(* How each step of a request moves it. *)
LEMMA StepMoves ==
    ASSUME OverlapTypeOK, NEW c \in Clients
    PROVE  /\ OpenVault(c) => \/ Ended(c, "open")
                              \/ Moved(c, "open", "set_vmk") /\ file = task[c].key
           /\ CreateKey(c) => Moved(c, "create", "create_header")
           /\ CreateHeader(c) => Moved(c, "create_header", "create_open")
           /\ CreateOpen(c) => \/ Ended(c, "create_open") /\ file # 0 /\ file' = file
                               \/ /\ Moved(c, "create_open", "set_db")
                                  /\ file \in {0, task[c].key} /\ file' = task[c].key
           /\ SetVmk(c) => Moved(c, "set_vmk", "set_db")
           /\ SetDb(c) => Moved(c, "set_db", "set_uuid")
           /\ SetUuid(c) => Moved(c, "set_uuid", "create_session")
           /\ CreateSession(c) => \/ Ended(c, "create_session") /\ task[c].kind = "copy"
                                  \/ Moved(c, "create_session", "gate") /\ task[c].kind # "copy"
           /\ TotpGate(c) => Moved(c, "gate", "clear_db") \/ Moved(c, "gate", "reply")
           /\ Reply(c) => Ended(c, "reply")
           /\ ClearDb(c) => Moved(c, "clear_db", "clear_vmk")
           /\ ClearVmk(c) => Moved(c, "clear_vmk", "clear_uuid")
           /\ ClearUuid(c) => Moved(c, "clear_uuid", "revoke_all")
           /\ RevokeAll(c) => Ended(c, "revoke_all")
           /\ VerifyPassword(c) => Ended(c, "verify") \/ Moved(c, "verify", "current_vmk")
           /\ CurrentVmk(c) => Ended(c, "current_vmk") \/ Moved(c, "current_vmk", "rekey")
           /\ Rekey(c) => \/ Ended(c, "rekey") /\ UNCHANGED <<meta, file, conn>>
                          \/ /\ Moved(c, "rekey", "change_vmk")
                             /\ conn # 0 /\ conn = file /\ file' = task[c].key /\ conn' = task[c].key
                             /\ meta'.key = task[c].key
           /\ ChangeVmk(c) => Moved(c, "change_vmk", "revoke_others")
           /\ RevokeOthers(c) => Ended(c, "revoke_others")
<1> USE GoesMoves, EndsMoves, StepNames
<1>1. OpenVault(c) => \/ Ended(c, "open")
                      \/ Moved(c, "open", "set_vmk") /\ file = task[c].key
  BY Zenon DEF OpenVault
<1>2. CreateKey(c) => Moved(c, "create", "create_header")
  BY Zenon DEF CreateKey
<1>3. CreateHeader(c) => Moved(c, "create_header", "create_open")
  BY Zenon DEF CreateHeader
<1>4. CreateOpen(c) => \/ Ended(c, "create_open") /\ file # 0 /\ file' = file
                       \/ /\ Moved(c, "create_open", "set_db")
                          /\ file \in {0, task[c].key} /\ file' = task[c].key
  BY Zenon DEF CreateOpen
<1>5. SetVmk(c) => Moved(c, "set_vmk", "set_db")
  BY Zenon DEF SetVmk
<1>6. SetDb(c) => Moved(c, "set_db", "set_uuid")
  BY Zenon DEF SetDb
<1>7. SetUuid(c) => Moved(c, "set_uuid", "create_session")
  BY Zenon DEF SetUuid
<1>8. CreateSession(c) => \/ Ended(c, "create_session") /\ task[c].kind = "copy"
                          \/ Moved(c, "create_session", "gate") /\ task[c].kind # "copy"
  BY Zenon DEF CreateSession
<1>9. TotpGate(c) => Moved(c, "gate", "clear_db") \/ Moved(c, "gate", "reply")
  BY Zenon DEF TotpGate
<1>10. Reply(c) => Ended(c, "reply")
  BY Zenon DEF Reply
<1>11. ClearDb(c) => Moved(c, "clear_db", "clear_vmk")
  BY Zenon DEF ClearDb
<1>12. ClearVmk(c) => Moved(c, "clear_vmk", "clear_uuid")
  BY Zenon DEF ClearVmk
<1>13. ClearUuid(c) => Moved(c, "clear_uuid", "revoke_all")
  BY Zenon DEF ClearUuid
<1>14. RevokeAll(c) => Ended(c, "revoke_all")
  BY Zenon DEF RevokeAll
<1>15. VerifyPassword(c) => Ended(c, "verify") \/ Moved(c, "verify", "current_vmk")
  BY Zenon DEF VerifyPassword
<1>16. CurrentVmk(c) => Ended(c, "current_vmk") \/ Moved(c, "current_vmk", "rekey")
  BY Zenon DEF CurrentVmk
<1>17. Rekey(c) => \/ Ended(c, "rekey") /\ UNCHANGED <<meta, file, conn>>
                   \/ /\ Moved(c, "rekey", "change_vmk")
                      /\ conn # 0 /\ conn = file /\ file' = task[c].key /\ conn' = task[c].key
                      /\ meta'.key = task[c].key
  <2>1. SUFFICES ASSUME Rekey(c) PROVE \/ Ended(c, "rekey") /\ UNCHANGED <<meta, file, conn>>
                   \/ /\ Moved(c, "rekey", "change_vmk")
                      /\ conn # 0 /\ conn = file /\ file' = task[c].key /\ conn' = task[c].key
                      /\ meta'.key = task[c].key
    OBVIOUS
  <2>2. CASE conn # 0 /\ conn = file
    <3>1. /\ file' = task[c].key /\ conn' = task[c].key /\ Goes(c, "change_vmk") /\ task[c].at = "rekey"
          /\ meta' = [key |-> task[c].key, mac |-> IF vmk # 0 THEN vmk ELSE meta.mac, copies |-> FALSE]
      BY <2>1, <2>2, Zenon DEF Rekey
    <3>2. meta'.key = task[c].key
      BY <3>1
    <3> QED
      BY <2>2, <3>1, <3>2, Zenon
  <2>3. CASE ~(conn # 0 /\ conn = file)
    BY <2>1, <2>3, Zenon DEF Rekey
  <2> QED
    BY <2>2, <2>3
<1>18. ChangeVmk(c) => Moved(c, "change_vmk", "revoke_others")
  BY Zenon DEF ChangeVmk
<1>19. RevokeOthers(c) => Ended(c, "revoke_others")
  BY Zenon DEF RevokeOthers
<1> HIDE GoesMoves, EndsMoves, StepNames
<1> QED
  BY <1>1, <1>2, <1>3, <1>4, <1>5, <1>6, <1>7, <1>8, <1>9, <1>10, <1>11, <1>12, <1>13, <1>14, <1>15,
     <1>16, <1>17, <1>18, <1>19, Zenon

Step(c) == BeginRequest(c) \/ UnlockStep(c) \/ LockStep(c) \/ ChangeStep(c)

(* The keys, and the types of what is not a key. *)
KeysOK ==
    /\ meta \in [key : Keys, mac : Keys, copies : BOOLEAN] /\ meta.key < fresh
    /\ file \in Keys /\ vmk \in Keys /\ conn \in Keys

SetsOK ==
    /\ uuid \in BOOLEAN /\ calm \in BOOLEAN
    /\ sessions \subseteq Clients /\ origin \in [Clients -> Keys]
    /\ proved \subseteq Clients /\ told \subseteq Clients /\ quiet \subseteq Clients

TasksOK ==
    /\ task \in [Clients -> Tasks]
    /\ \A c \in Clients : task[c].key < fresh
    /\ fresh \in 1 .. MaxKeys + 1

LEMMA KeysStep ==
    ASSUME OverlapTypeOK, StageInv, NEW c \in Clients, Step(c)
    PROVE  KeysOK'
<1>1. KeysOK /\ fresh \in Nat /\ task[c].key \in Keys /\ task[c].key < fresh
  BY DEF OverlapTypeOK, StageInv, KeysOK, Keys
<1>2. 0 \in Keys /\ \A k \in Keys : k \in Nat
  BY DEF Keys
<1>3. ASSUME NEW k \in {"unlock", "copy"}, BeginUnlock(c, k) PROVE KeysOK'
  BY <1>1, <1>2, <1>3 DEF BeginUnlock, KeysOK, TakesKey, memory
<1>4. CASE BeginLock(c)
  BY <1>1, <1>2, <1>4 DEF BeginLock, KeysOK, memory, overlapHistory
<1>5. CASE BeginChange(c)
  BY <1>1, <1>2, <1>5 DEF BeginChange, KeysOK, TakesKey, memory
<1>6. CASE ReadHeader(c)
  BY <1>1, <1>2, <1>6 DEF ReadHeader, KeysOK, memory, overlapHistory
<1>7. CASE OpenVault(c)
  BY <1>1, <1>2, <1>7 DEF OpenVault, KeysOK, memory, overlapHistory
<1>8. CASE CreateKey(c)
  BY <1>1, <1>2, <1>8 DEF CreateKey, KeysOK, memory, overlapHistory
<1>9. CASE CreateHeader(c)
  BY <1>1, <1>2, <1>9 DEF CreateHeader, KeysOK, memory, overlapHistory
<1>10. CASE CreateOpen(c)
  BY <1>1, <1>2, <1>10 DEF CreateOpen, KeysOK, memory, overlapHistory
<1>11. CASE SetVmk(c)
  BY <1>1, <1>2, <1>11 DEF SetVmk, KeysOK, memory, overlapHistory
<1>12. CASE SetDb(c)
  BY <1>1, <1>2, <1>12 DEF SetDb, KeysOK, memory, overlapHistory
<1>13. CASE SetUuid(c)
  BY <1>1, <1>2, <1>13 DEF SetUuid, KeysOK, memory, overlapHistory
<1>14. CASE CreateSession(c)
  BY <1>1, <1>2, <1>14 DEF CreateSession, KeysOK, memory, overlapHistory
<1>15. CASE TotpGate(c)
  BY <1>1, <1>2, <1>15 DEF TotpGate, KeysOK, memory, overlapHistory
<1>16. CASE Reply(c)
  BY <1>1, <1>2, <1>16 DEF Reply, KeysOK, memory, overlapHistory
<1>17. CASE ClearDb(c)
  BY <1>1, <1>2, <1>17 DEF ClearDb, KeysOK, memory, overlapHistory
<1>18. CASE ClearVmk(c)
  BY <1>1, <1>2, <1>18 DEF ClearVmk, KeysOK, memory, overlapHistory
<1>19. CASE ClearUuid(c)
  BY <1>1, <1>2, <1>19 DEF ClearUuid, KeysOK, memory, overlapHistory
<1>20. CASE RevokeAll(c)
  BY <1>1, <1>2, <1>20 DEF RevokeAll, KeysOK, memory, overlapHistory
<1>21. CASE VerifyPassword(c)
  BY <1>1, <1>2, <1>21 DEF VerifyPassword, KeysOK, memory, overlapHistory
<1>22. CASE CurrentVmk(c)
  BY <1>1, <1>2, <1>22 DEF CurrentVmk, KeysOK, memory, overlapHistory
<1>23. CASE Rekey(c)
  <2>1. vmk' = vmk /\ fresh' = fresh
    BY <1>23 DEF Rekey
  <2>2. CASE conn # 0 /\ conn = file
    <3>1. /\ file' = task[c].key /\ conn' = task[c].key
          /\ meta' = [key |-> task[c].key, mac |-> IF vmk # 0 THEN vmk ELSE meta.mac, copies |-> FALSE]
      BY <1>23, <2>2, Zenon DEF Rekey
    <3>2. (IF vmk # 0 THEN vmk ELSE meta.mac) \in Keys
      BY <1>1 DEF KeysOK
    <3>3. meta' \in [key : Keys, mac : Keys, copies : BOOLEAN] /\ meta'.key = task[c].key
      BY <1>1, <3>1, <3>2
    <3> QED
      BY <1>1, <2>1, <3>1, <3>3, Zenon DEF KeysOK
  <2>3. CASE ~(conn # 0 /\ conn = file)
    BY <1>1, <1>23, <2>1, <2>3, Zenon DEF Rekey, KeysOK
  <2> QED
    BY <2>2, <2>3
<1>24. CASE ChangeVmk(c)
  BY <1>1, <1>2, <1>24 DEF ChangeVmk, KeysOK, memory, overlapHistory
<1>25. CASE RevokeOthers(c)
  BY <1>1, <1>2, <1>25 DEF RevokeOthers, KeysOK, memory, overlapHistory
<1> QED
  BY <1>3, <1>4, <1>5, <1>6, <1>7, <1>8, <1>9, <1>10, <1>11, <1>12, <1>13, <1>14, <1>15, <1>16,
     <1>17, <1>18, <1>19, <1>20, <1>21, <1>22, <1>23, <1>24, <1>25, Zenon
     DEF Step, BeginRequest, UnlockStep, LockStep, ChangeStep

LEMMA SetsStep ==
    ASSUME OverlapTypeOK, NEW c \in Clients, Step(c)
    PROVE  SetsOK'
<1>1. SetsOK /\ task[c].key \in Keys
  BY DEF OverlapTypeOK, SetsOK
<1>3. ASSUME NEW k \in {"unlock", "copy"}, BeginUnlock(c, k) PROVE SetsOK'
  BY <1>1, <1>3, Zenon DEF BeginUnlock, SetsOK, Disturbs, memory
<1>4. CASE BeginLock(c)
  BY <1>1, <1>4 DEF BeginLock, SetsOK, memory, overlapHistory
<1>5. CASE BeginChange(c)
  BY <1>1, <1>5, Zenon DEF BeginChange, SetsOK, Disturbs, memory
<1>6. CASE ReadHeader(c)
  BY <1>1, <1>6 DEF ReadHeader, SetsOK, memory, overlapHistory
<1>7. CASE OpenVault(c)
  BY <1>1, <1>7 DEF OpenVault, SetsOK, memory, overlapHistory
<1>8. CASE CreateKey(c)
  BY <1>1, <1>8 DEF CreateKey, SetsOK, memory, overlapHistory
<1>9. CASE CreateHeader(c)
  BY <1>1, <1>9 DEF CreateHeader, SetsOK, memory, overlapHistory
<1>10. CASE CreateOpen(c)
  BY <1>1, <1>10 DEF CreateOpen, SetsOK, memory, overlapHistory
<1>11. CASE SetVmk(c)
  BY <1>1, <1>11 DEF SetVmk, SetsOK, memory, overlapHistory
<1>12. CASE SetDb(c)
  BY <1>1, <1>12 DEF SetDb, SetsOK, memory, overlapHistory
<1>13. CASE SetUuid(c)
  BY <1>1, <1>13 DEF SetUuid, SetsOK, memory, overlapHistory
<1>14. CASE CreateSession(c)
  BY <1>1, <1>14 DEF CreateSession, SetsOK, memory, overlapHistory
<1>15. CASE TotpGate(c)
  BY <1>1, <1>15 DEF TotpGate, SetsOK, memory, overlapHistory
<1>16. CASE Reply(c)
  BY <1>1, <1>16 DEF Reply, SetsOK, memory, overlapHistory
<1>17. CASE ClearDb(c)
  BY <1>1, <1>17 DEF ClearDb, SetsOK, memory, overlapHistory
<1>18. CASE ClearVmk(c)
  BY <1>1, <1>18 DEF ClearVmk, SetsOK, memory, overlapHistory
<1>19. CASE ClearUuid(c)
  BY <1>1, <1>19, Zenon DEF ClearUuid, SetsOK, memory, overlapHistory
<1>20. CASE RevokeAll(c)
  BY <1>1, <1>20 DEF RevokeAll, SetsOK, memory, overlapHistory
<1>21. CASE VerifyPassword(c)
  BY <1>1, <1>21 DEF VerifyPassword, SetsOK, memory, overlapHistory
<1>22. CASE CurrentVmk(c)
  BY <1>1, <1>22 DEF CurrentVmk, SetsOK, memory, overlapHistory
<1>23. CASE Rekey(c)
  BY <1>1, <1>23 DEF Rekey, SetsOK, memory, overlapHistory
<1>24. CASE ChangeVmk(c)
  BY <1>1, <1>24 DEF ChangeVmk, SetsOK, memory, overlapHistory
<1>25. CASE RevokeOthers(c)
  BY <1>1, <1>25 DEF RevokeOthers, SetsOK, memory, overlapHistory
<1> QED
  BY <1>3, <1>4, <1>5, <1>6, <1>7, <1>8, <1>9, <1>10, <1>11, <1>12, <1>13, <1>14, <1>15, <1>16,
     <1>17, <1>18, <1>19, <1>20, <1>21, <1>22, <1>23, <1>24, <1>25, Zenon
     DEF Step, BeginRequest, UnlockStep, LockStep, ChangeStep

(* Every step moves one request. *)
LEMMA StepTasks ==
    ASSUME OverlapTypeOK, NEW c \in Clients, Step(c)
    PROVE  /\ task' \in [Clients -> Tasks] /\ Others(c)
           /\ \/ fresh' = fresh /\ task'[c].key \in {0, task[c].key, meta.key}
              \/ fresh' = fresh + 1 /\ task'[c].key = fresh
           /\ told' \subseteq told \cup {c}
<1>1. CASE BeginRequest(c)
  <2>1. ASSUME NEW k \in {"unlock", "copy"}, BeginUnlock(c, k)
        PROVE  (IF file = 0 THEN fresh' = fresh + 1 ELSE fresh' = fresh) /\ told' \subseteq told
    BY <2>1, Zenon DEF BeginUnlock, TakesKey
  <2>2. BeginLock(c) => fresh' = fresh /\ told' = told
    BY Zenon DEF BeginLock, overlapHistory
  <2>3. BeginChange(c) => fresh' = fresh + 1 /\ told' = told
    BY Zenon DEF BeginChange, TakesKey
  <2> QED
    BY <1>1, <2>1, <2>2, <2>3, BeginMoves, Zenon DEF Started, BeginRequest
<1>2. CASE ReadHeader(c)
  <2>1. fresh' = fresh /\ told' = told
    BY <1>2 DEF ReadHeader, overlapHistory
  <2> QED
    BY <1>2, <2>1, ReadMoves, Zenon DEF Ended
<1>3. CASE OpenVault(c)
  <2>1. fresh' = fresh /\ told' \subseteq told \cup {c}
    BY <1>3 DEF OpenVault, overlapHistory
  <2> QED
    BY <1>3, <2>1, StepMoves, Zenon DEF Ended, Moved
<1>4. CASE CreateKey(c)
  <2>1. fresh' = fresh /\ told' \subseteq told \cup {c}
    BY <1>4 DEF CreateKey, overlapHistory
  <2> QED
    BY <1>4, <2>1, StepMoves, Zenon DEF Ended, Moved
<1>5. CASE CreateHeader(c)
  <2>1. fresh' = fresh /\ told' \subseteq told \cup {c}
    BY <1>5 DEF CreateHeader, overlapHistory
  <2> QED
    BY <1>5, <2>1, StepMoves, Zenon DEF Ended, Moved
<1>6. CASE CreateOpen(c)
  <2>1. fresh' = fresh /\ told' \subseteq told \cup {c}
    BY <1>6 DEF CreateOpen, overlapHistory
  <2> QED
    BY <1>6, <2>1, StepMoves, Zenon DEF Ended, Moved
<1>7. CASE SetVmk(c)
  <2>1. fresh' = fresh /\ told' \subseteq told \cup {c}
    BY <1>7 DEF SetVmk, overlapHistory
  <2> QED
    BY <1>7, <2>1, StepMoves, Zenon DEF Ended, Moved
<1>8. CASE SetDb(c)
  <2>1. fresh' = fresh /\ told' \subseteq told \cup {c}
    BY <1>8 DEF SetDb, overlapHistory
  <2> QED
    BY <1>8, <2>1, StepMoves, Zenon DEF Ended, Moved
<1>9. CASE SetUuid(c)
  <2>1. fresh' = fresh /\ told' \subseteq told \cup {c}
    BY <1>9 DEF SetUuid, overlapHistory
  <2> QED
    BY <1>9, <2>1, StepMoves, Zenon DEF Ended, Moved
<1>10. CASE CreateSession(c)
  <2>1. fresh' = fresh /\ told' \subseteq told \cup {c}
    BY <1>10 DEF CreateSession, overlapHistory
  <2> QED
    BY <1>10, <2>1, StepMoves, Zenon DEF Ended, Moved
<1>11. CASE TotpGate(c)
  <2>1. fresh' = fresh /\ told' \subseteq told \cup {c}
    BY <1>11 DEF TotpGate, overlapHistory
  <2> QED
    BY <1>11, <2>1, StepMoves, Zenon DEF Ended, Moved
<1>12. CASE Reply(c)
  <2>1. fresh' = fresh /\ told' \subseteq told \cup {c}
    BY <1>12 DEF Reply, overlapHistory
  <2> QED
    BY <1>12, <2>1, StepMoves, Zenon DEF Ended, Moved
<1>13. CASE ClearDb(c)
  <2>1. fresh' = fresh /\ told' \subseteq told \cup {c}
    BY <1>13 DEF ClearDb, overlapHistory
  <2> QED
    BY <1>13, <2>1, StepMoves, Zenon DEF Ended, Moved
<1>14. CASE ClearVmk(c)
  <2>1. fresh' = fresh /\ told' \subseteq told \cup {c}
    BY <1>14 DEF ClearVmk, overlapHistory
  <2> QED
    BY <1>14, <2>1, StepMoves, Zenon DEF Ended, Moved
<1>15. CASE ClearUuid(c)
  <2>1. fresh' = fresh /\ told' \subseteq told \cup {c}
    BY <1>15 DEF ClearUuid, overlapHistory
  <2> QED
    BY <1>15, <2>1, StepMoves, Zenon DEF Ended, Moved
<1>16. CASE RevokeAll(c)
  <2>1. fresh' = fresh /\ told' \subseteq told \cup {c}
    BY <1>16 DEF RevokeAll, overlapHistory
  <2> QED
    BY <1>16, <2>1, StepMoves, Zenon DEF Ended, Moved
<1>17. CASE VerifyPassword(c)
  <2>1. fresh' = fresh /\ told' \subseteq told \cup {c}
    BY <1>17 DEF VerifyPassword, overlapHistory
  <2> QED
    BY <1>17, <2>1, StepMoves, Zenon DEF Ended, Moved
<1>18. CASE CurrentVmk(c)
  <2>1. fresh' = fresh /\ told' \subseteq told \cup {c}
    BY <1>18 DEF CurrentVmk, overlapHistory
  <2> QED
    BY <1>18, <2>1, StepMoves, Zenon DEF Ended, Moved
<1>19. CASE Rekey(c)
  <2>1. fresh' = fresh /\ told' \subseteq told \cup {c}
    BY <1>19 DEF Rekey, overlapHistory
  <2> QED
    BY <1>19, <2>1, StepMoves, Zenon DEF Ended, Moved
<1>20. CASE ChangeVmk(c)
  <2>1. fresh' = fresh /\ told' \subseteq told \cup {c}
    BY <1>20 DEF ChangeVmk, overlapHistory
  <2> QED
    BY <1>20, <2>1, StepMoves, Zenon DEF Ended, Moved
<1>21. CASE RevokeOthers(c)
  <2>1. fresh' = fresh /\ told' \subseteq told \cup {c}
    BY <1>21 DEF RevokeOthers, overlapHistory
  <2> QED
    BY <1>21, <2>1, StepMoves, Zenon DEF Ended, Moved
<1> QED
  BY <1>1, <1>2, <1>3, <1>4, <1>5, <1>6, <1>7, <1>8, <1>9, <1>10, <1>11, <1>12, <1>13, <1>14,
     <1>15, <1>16, <1>17, <1>18, <1>19, <1>20, <1>21, Zenon
     DEF Step, UnlockStep, LockStep, ChangeStep

LEMMA TypeNext ==
    ASSUME OverlapTypeOK, StageInv, NEW c \in Clients, Step(c),
           met' = (IF calm' THEN met \cap {"create_create"} ELSE met) \cup Overlaps'
    PROVE  OverlapTypeOK' /\ meta'.key < fresh'
<1>1. KeysOK' /\ SetsOK'
  BY KeysStep, SetsStep
<1>2. TasksOK'
  <2>1. fresh \in 1 .. MaxKeys + 1 /\ meta.key < fresh /\ \A d \in Clients : task[d].key < fresh /\ task[d].key \in Nat
    BY DEF OverlapTypeOK, StageInv, Keys
  <2>2. fresh' \in 1 .. MaxKeys + 1
    <3>1. fresh' \in Nat /\ fresh' >= 1
      BY <2>1, StepTasks
    <3>2. fresh' <= MaxKeys + 1
      <4>1. CASE BeginRequest(c)
        <5>1. ASSUME NEW k \in {"unlock", "copy"}, BeginUnlock(c, k) PROVE fresh' <= MaxKeys + 1
          BY <2>1, <5>1 DEF BeginUnlock, TakesKey
        <5>2. BeginLock(c) \/ BeginChange(c) => fresh' <= MaxKeys + 1
          BY <2>1 DEF BeginLock, BeginChange, TakesKey
        <5> QED
          BY <4>1, <5>1, <5>2, Zenon DEF BeginRequest
      <4>2. CASE UnlockStep(c) \/ LockStep(c) \/ ChangeStep(c)
        <5>1. fresh' = fresh
          BY <4>2, Zenon DEF UnlockStep, LockStep, ChangeStep, ReadHeader, OpenVault, CreateKey,
             CreateHeader, CreateOpen, SetVmk, SetDb, SetUuid, CreateSession, TotpGate, Reply,
             ClearDb, ClearVmk, ClearUuid, RevokeAll, VerifyPassword, CurrentVmk, Rekey, ChangeVmk,
             RevokeOthers
        <5> QED
          BY <2>1, <5>1
      <4> QED
        BY <4>1, <4>2, Zenon DEF Step
    <3> QED
      BY <3>1, <3>2
  <2>3. ASSUME NEW d \in Clients PROVE task'[d].key < fresh'
    <3>1. CASE d = c
      BY <2>1, <2>2, <3>1, StepTasks
    <3>2. CASE d # c
      <4>1. task'[d] = task[d]
        BY <3>2, StepTasks, Zenon DEF Others
      <4>2. fresh' >= fresh
        BY <2>1, StepTasks
      <4> QED
        BY <2>1, <2>2, <4>1, <4>2
    <3> QED
      BY <3>1, <3>2
  <2> QED
    BY <2>2, <2>3, StepTasks, Zenon DEF TasksOK
<1>3. met' \subseteq {"create_create", "close_load", "change_load"}
  BY Zenon DEF OverlapTypeOK, Overlaps
<1> QED
  BY <1>1, <1>2, <1>3, Zenon DEF OverlapTypeOK, KeysOK, SetsOK, TasksOK, Tasks

(* A request that moves on stays at a step of its kind. *)
LEMMA KindsFollow ==
    ASSUME NEW k
    PROVE  /\ KindAt(k, "read") => KindAt(k, "open")
           /\ KindAt(k, "create") => KindAt(k, "create_header")
           /\ KindAt(k, "create_header") => KindAt(k, "create_open")
           /\ KindAt(k, "set_vmk") => KindAt(k, "set_db")
           /\ KindAt(k, "set_db") => KindAt(k, "set_uuid")
           /\ KindAt(k, "set_uuid") => KindAt(k, "create_session")
           /\ KindAt(k, "clear_db") => KindAt(k, "clear_vmk")
           /\ KindAt(k, "clear_vmk") => KindAt(k, "clear_uuid")
           /\ KindAt(k, "clear_uuid") => KindAt(k, "revoke_all")
           /\ KindAt(k, "change_vmk") => KindAt(k, "revoke_others")
           /\ KindAt(k, "open") => KindAt(k, "set_vmk")
           /\ KindAt(k, "create_open") => KindAt(k, "set_db")
           /\ KindAt(k, "verify") => KindAt(k, "current_vmk")
           /\ KindAt(k, "current_vmk") => KindAt(k, "rekey")
           /\ KindAt(k, "rekey") => KindAt(k, "change_vmk")
           /\ KindAt(k, "gate") => KindAt(k, "clear_db")
           /\ KindAt(k, "gate") => KindAt(k, "reply")
           /\ KindAt(k, "create_session") /\ k # "copy" => KindAt(k, "gate")
           /\ KindAt("unlock", "create") /\ KindAt("unlock", "read") /\ KindAt("copy", "read")
           /\ KindAt("lock", "clear_db") /\ KindAt("change_password", "verify")
  BY DEF KindAt, CreateStages, OpenStages, CloseStages, ChangeStages

LEMMA KeyedNames ==
    /\ {"create", "create_header", "create_open", "open", "set_vmk", "set_db", "set_uuid", "create_session", "gate", "reply"} \subseteq KeyedStages
    /\ {"verify", "current_vmk", "rekey", "change_vmk", "revoke_others"} \subseteq KeyedStages
    /\ \A a \in {"idle", "read", "clear_db", "clear_vmk", "clear_uuid", "revoke_all"} : a \notin KeyedStages
  BY DEF KeyedStages, CreateStages, OpenStages, ChangeStages

LEMMA StageStep ==
    ASSUME OverlapTypeOK, StageInv, NEW c \in Clients, Step(c)
    PROVE  \A d \in Clients : Staged(d)'
<1>1. Staged(c) /\ fresh # 0 /\ NoTask.at = "idle" /\ NoTask.kind = "none"
  BY DEF StageInv, OverlapTypeOK, NoTask
<1>2. ASSUME task'[c] = NoTask PROVE Staged(c)'
  BY <1>1, <1>2, KeyedNames DEF Staged
<1>3. ASSUME NEW a, NEW b, Moved(c, a, b), a # "idle", told' = told,
             KindAt(task[c].kind, a) => KindAt(task[c].kind, b),
             b \in KeyedStages => a \in KeyedStages
      PROVE  Staged(c)'
  BY <1>1, <1>3, Zenon DEF Moved, Staged
<1>4. ASSUME BeginRequest(c) PROVE Staged(c)'
  <2>1. ASSUME NEW k \in {"unlock", "copy"}, BeginUnlock(c, k) PROVE Staged(c)'
    <3>1. c \notin told'
      BY <2>1, Zenon DEF BeginUnlock
    <3> QED
      BY <1>1, <2>1, <3>1, BeginMoves, KindsFollow, KeyedNames, Zenon DEF Started, Staged
  <2>2. ASSUME BeginLock(c) \/ BeginChange(c) PROVE Staged(c)'
    BY <1>1, <2>2, BeginMoves, KindsFollow, KeyedNames, Zenon DEF Started, Staged
  <2> QED
    BY <1>4, <2>1, <2>2, Zenon DEF BeginRequest
<1>5. ASSUME ReadHeader(c) PROVE Staged(c)'
  <2>1. told' = told
    BY <1>5, Zenon DEF ReadHeader, overlapHistory
  <2> QED
    BY <1>1, <1>2, <1>5, <2>1, ReadMoves, KindsFollow DEF Ended, Staged
<1>6. ASSUME CreateKey(c) PROVE Staged(c)'
  <2>1. Moved(c, "create", "create_header") /\ told' = told
    BY <1>6, StepMoves, Zenon DEF CreateKey, overlapHistory
  <2> QED
    BY <1>3, <2>1, KindsFollow, KeyedNames
<1>7. ASSUME CreateHeader(c) PROVE Staged(c)'
  <2>1. Moved(c, "create_header", "create_open") /\ told' = told
    BY <1>7, StepMoves, Zenon DEF CreateHeader, overlapHistory
  <2> QED
    BY <1>3, <2>1, KindsFollow, KeyedNames
<1>8. ASSUME SetVmk(c) PROVE Staged(c)'
  <2>1. Moved(c, "set_vmk", "set_db") /\ told' = told
    BY <1>8, StepMoves, Zenon DEF SetVmk, overlapHistory
  <2> QED
    BY <1>3, <2>1, KindsFollow, KeyedNames
<1>9. ASSUME SetDb(c) PROVE Staged(c)'
  <2>1. Moved(c, "set_db", "set_uuid") /\ told' = told
    BY <1>9, StepMoves, Zenon DEF SetDb, overlapHistory
  <2> QED
    BY <1>3, <2>1, KindsFollow, KeyedNames
<1>10. ASSUME SetUuid(c) PROVE Staged(c)'
  <2>1. Moved(c, "set_uuid", "create_session") /\ told' = told
    BY <1>10, StepMoves, Zenon DEF SetUuid, overlapHistory
  <2> QED
    BY <1>3, <2>1, KindsFollow, KeyedNames
<1>11. ASSUME ClearDb(c) PROVE Staged(c)'
  <2>1. Moved(c, "clear_db", "clear_vmk") /\ told' = told
    BY <1>11, StepMoves, Zenon DEF ClearDb, overlapHistory
  <2> QED
    BY <1>3, <2>1, KindsFollow, KeyedNames
<1>12. ASSUME ClearVmk(c) PROVE Staged(c)'
  <2>1. Moved(c, "clear_vmk", "clear_uuid") /\ told' = told
    BY <1>12, StepMoves, Zenon DEF ClearVmk, overlapHistory
  <2> QED
    BY <1>3, <2>1, KindsFollow, KeyedNames
<1>13. ASSUME ClearUuid(c) PROVE Staged(c)'
  <2>1. Moved(c, "clear_uuid", "revoke_all") /\ told' = told
    BY <1>13, StepMoves, Zenon DEF ClearUuid, overlapHistory
  <2> QED
    BY <1>3, <2>1, KindsFollow, KeyedNames
<1>14. ASSUME ChangeVmk(c) PROVE Staged(c)'
  <2>1. Moved(c, "change_vmk", "revoke_others") /\ told' = told
    BY <1>14, StepMoves, Zenon DEF ChangeVmk, overlapHistory
  <2> QED
    BY <1>3, <2>1, KindsFollow, KeyedNames
<1>15. ASSUME OpenVault(c) PROVE Staged(c)'
  <2>1. (Ended(c, "open") \/ Moved(c, "open", "set_vmk")) /\ told' = told
    BY <1>15, StepMoves, Zenon DEF OpenVault, overlapHistory
  <2>2. CASE Moved(c, "open", "set_vmk")
    BY <1>3, <2>1, <2>2, KindsFollow, KeyedNames
  <2> QED
    BY <1>2, <2>1, <2>2, Zenon DEF Ended
<1>16. ASSUME CreateOpen(c) PROVE Staged(c)'
  <2>1. (Ended(c, "create_open") \/ Moved(c, "create_open", "set_db")) /\ told' = told
    BY <1>16, StepMoves, Zenon DEF CreateOpen, overlapHistory
  <2>2. CASE Moved(c, "create_open", "set_db")
    BY <1>3, <2>1, <2>2, KindsFollow, KeyedNames
  <2> QED
    BY <1>2, <2>1, <2>2, Zenon DEF Ended
<1>17. ASSUME VerifyPassword(c) PROVE Staged(c)'
  <2>1. (Ended(c, "verify") \/ Moved(c, "verify", "current_vmk")) /\ told' = told
    BY <1>17, StepMoves, Zenon DEF VerifyPassword, overlapHistory
  <2>2. CASE Moved(c, "verify", "current_vmk")
    BY <1>3, <2>1, <2>2, KindsFollow, KeyedNames
  <2> QED
    BY <1>2, <2>1, <2>2, Zenon DEF Ended
<1>18. ASSUME CurrentVmk(c) PROVE Staged(c)'
  <2>1. (Ended(c, "current_vmk") \/ Moved(c, "current_vmk", "rekey")) /\ told' = told
    BY <1>18, StepMoves, Zenon DEF CurrentVmk, overlapHistory
  <2>2. CASE Moved(c, "current_vmk", "rekey")
    BY <1>3, <2>1, <2>2, KindsFollow, KeyedNames
  <2> QED
    BY <1>2, <2>1, <2>2, Zenon DEF Ended
<1>19. ASSUME Rekey(c) PROVE Staged(c)'
  <2>1. (Ended(c, "rekey") \/ Moved(c, "rekey", "change_vmk")) /\ told' = told
    BY <1>19, StepMoves, Zenon DEF Rekey, overlapHistory
  <2>2. CASE Moved(c, "rekey", "change_vmk")
    BY <1>3, <2>1, <2>2, KindsFollow, KeyedNames
  <2> QED
    BY <1>2, <2>1, <2>2, Zenon DEF Ended
<1>20. ASSUME CreateSession(c) PROVE Staged(c)'
  <2>1. \/ Ended(c, "create_session")
        \/ Moved(c, "create_session", "gate") /\ task[c].kind # "copy" /\ told' = told
    BY <1>20, StepMoves, Zenon DEF CreateSession
  <2>2. CASE Moved(c, "create_session", "gate") /\ task[c].kind # "copy" /\ told' = told
    BY <1>3, <2>2, KindsFollow, KeyedNames
  <2> QED
    BY <1>2, <2>1, <2>2, Zenon DEF Ended
<1>21. ASSUME TotpGate(c) PROVE Staged(c)'
  <2>1. (Moved(c, "gate", "clear_db") \/ Moved(c, "gate", "reply")) /\ told' = told
    BY <1>21, StepMoves, Zenon DEF TotpGate
  <2>2. CASE Moved(c, "gate", "clear_db")
    BY <1>3, <2>1, <2>2, KindsFollow, KeyedNames, Zenon
  <2>3. CASE Moved(c, "gate", "reply")
    BY <1>3, <2>1, <2>3, KindsFollow, KeyedNames
  <2> QED
    BY <2>1, <2>2, <2>3
<1>22. ASSUME Reply(c) \/ RevokeAll(c) \/ RevokeOthers(c) PROVE Staged(c)'
  <2>1. task'[c] = NoTask
    BY <1>22, StepMoves, Zenon DEF Ended
  <2> QED
    BY <1>2, <2>1
<1>23. Staged(c)'
  BY <1>4, <1>5, <1>6, <1>7, <1>8, <1>9, <1>10, <1>11, <1>12, <1>13, <1>14, <1>15, <1>16, <1>17,
     <1>18, <1>19, <1>20, <1>21, <1>22, Zenon
     DEF Step, UnlockStep, LockStep, ChangeStep
<1>24. ASSUME NEW d \in Clients, d # c PROVE Staged(d)'
  <2>1. Staged(d) /\ task'[d] = task[d] /\ (d \in told' => d \in told)
    BY <1>24, StepTasks, Zenon DEF Others, StageInv
  <2> QED
    BY <2>1, Zenon DEF Staged
<1> QED
  BY <1>23, <1>24

-----------------------------------------------------------------------------
(* Which requests load, by what a step does to its own request. *)
LEMMA LoadingSame ==
    ASSUME NEW c \in Clients, Others(c), task'[c].kind = task[c].kind
    PROVE  Loading' = Loading /\ Changing' = Changing
  BY Zenon DEF Others, Loading, Changing

LEMMA LoadingLess ==
    ASSUME NEW c \in Clients, Others(c), task'[c].kind \in {"none", "lock"}
    PROVE  Loading' = Loading \ {c} /\ Changing' = Changing \ {c}
<1>1. c \notin Loading' /\ c \notin Changing'
  BY DEF Loading, Changing
<1>2. ASSUME NEW d \in Clients, d # c
      PROVE  (d \in Loading' <=> d \in Loading) /\ (d \in Changing' <=> d \in Changing)
  BY <1>2, Zenon DEF Others, Loading, Changing
<1>3. Loading \subseteq Clients /\ Changing \subseteq Clients /\ Loading' \subseteq Clients /\ Changing' \subseteq Clients
  BY Zenon DEF Loading, Changing
<1> QED
  BY <1>1, <1>2, <1>3, Zenon

(* A request that loads nothing, or is closing, only begins or clears. *)
LEMMA ClosersOnly ==
    ASSUME OverlapTypeOK, StageInv, NEW c \in Clients, Step(c),
           c \notin Loading \/ task[c].at \in CloseStages
    PROVE  \/ BeginLock(c) \/ ClearDb(c) \/ ClearVmk(c) \/ ClearUuid(c) \/ RevokeAll(c)
           \/ quiet' = {} /\ calm' = FALSE
<1>1. task[c].at \in {"idle", "clear_db", "clear_vmk", "clear_uuid", "revoke_all"}
  BY DEF StageInv, Staged, KindAt, CloseStages, Loading, NoTask
<1>2. CASE BeginRequest(c)
  BY <1>2, Zenon DEF BeginRequest, BeginUnlock, BeginChange, Disturbs
<1>3. ~UnlockStep(c)
  BY <1>1 DEF UnlockStep, ReadHeader, OpenVault, CreateKey, CreateHeader, CreateOpen, SetVmk,
     SetDb, SetUuid, CreateSession, TotpGate, Reply
<1>4. ~ChangeStep(c)
  BY <1>1 DEF ChangeStep, VerifyPassword, CurrentVmk, Rekey, ChangeVmk, RevokeOthers
<1> QED
  BY <1>2, <1>3, <1>4, Zenon DEF Step, LockStep

(* Before there is a file, only first unlocks are under way. *)
LEMMA NoFileStep ==
    ASSUME OverlapTypeOK, StageInv, NoFileInv, NEW c \in Clients, Step(c)
    PROVE  NoFileInv'
<1>1. SUFFICES ASSUME file' = 0
               PROVE  /\ conn' = 0 /\ sessions' = {}
                      /\ \A d \in Clients : task'[d] # NoTask => task'[d].at \in CreateStages
  BY Zenon DEF NoFileInv
<1>2. file = 0
  <2>1. CreateOpen(c) => file' = file \/ (file' = task[c].key /\ task[c].at = "create_open")
    BY StepMoves, Zenon DEF Moved
  <2>2. Rekey(c) => file' = file \/ (file' = task[c].key /\ task[c].at = "rekey")
    BY StepMoves, Zenon DEF Moved
  <2>3. task[c].at \in {"create_open", "rekey"} => task[c].key # 0
    BY KeyedNames DEF StageInv, Staged
  <2>4. file' = file \/ CreateOpen(c) \/ Rekey(c)
    BY Zenon DEF Step, BeginRequest, UnlockStep, LockStep, ChangeStep, BeginUnlock, BeginLock,
       BeginChange,
       ReadHeader, OpenVault, CreateKey, CreateHeader, SetVmk, SetDb, SetUuid, CreateSession,
       TotpGate, Reply, ClearDb, ClearVmk, ClearUuid, RevokeAll, VerifyPassword, CurrentVmk,
       ChangeVmk, RevokeOthers
  <2> QED
    BY <1>1, <2>1, <2>2, <2>3, <2>4
<1>3. /\ conn = 0 /\ sessions = {}
      /\ \A d \in Clients : task[d] # NoTask => task[d].at \in CreateStages
  BY <1>2, Zenon DEF NoFileInv
<1>4. task[c].at \in {"idle", "create", "create_header", "create_open"}
  BY <1>3 DEF CreateStages, NoTask
<1>5. (BeginRequest(c) /\ ~BeginLock(c) /\ ~BeginChange(c)) \/ CreateKey(c) \/ CreateHeader(c)
  <2>1. ~BeginLock(c) /\ ~BeginChange(c)
    BY <1>3, Zenon DEF BeginLock, BeginChange
  <2>2. ~LockStep(c)
    BY <1>4 DEF LockStep, ClearDb, ClearVmk, ClearUuid, RevokeAll
  <2>3. ~ChangeStep(c)
    BY <1>4 DEF ChangeStep, VerifyPassword, CurrentVmk, Rekey, ChangeVmk, RevokeOthers
  <2>4. UnlockStep(c) => CreateKey(c) \/ CreateHeader(c) \/ CreateOpen(c)
    BY <1>4 DEF UnlockStep, ReadHeader, OpenVault, SetVmk, SetDb, SetUuid, CreateSession, TotpGate,
       Reply
  <2>5. ~CreateOpen(c)
    <3>1. task[c].at = "create_open" => task[c].key # 0
      BY KeyedNames DEF StageInv, Staged
    <3> QED
      BY <1>1, <1>2, <3>1, StepMoves, Zenon DEF Moved
  <2> QED
    BY <2>1, <2>2, <2>3, <2>4, <2>5, Zenon DEF Step
<1>6. conn' = 0 /\ sessions' = {}
  BY <1>3, <1>5, Zenon DEF BeginRequest, BeginUnlock, CreateKey, CreateHeader, memory
<1>7. task'[c].at \in CreateStages
  <2>1. task'[c].at \in {"create", "create_header", "create_open"}
    BY <1>2, <1>5, BeginMoves, StepMoves, Zenon DEF Started, Moved, BeginRequest
  <2> QED
    BY <2>1 DEF CreateStages
<1> QED
  BY <1>3, <1>6, <1>7, StepTasks, Zenon DEF Others

(* Only a lock, and a request that loads, touch the record of quiet locks. *)
LEMMA QuietHistory ==
    ASSUME NEW c \in Clients, Step(c)
    PROVE  \/ quiet' = quiet /\ calm' = calm
           \/ quiet' = {} /\ calm' = FALSE
           \/ ClearDb(c) \/ RevokeAll(c)
  BY Zenon DEF Step, BeginRequest, UnlockStep, LockStep, ChangeStep, BeginUnlock, BeginLock,
     BeginChange,
       Disturbs, overlapHistory, ReadHeader, OpenVault, CreateKey, CreateHeader, CreateOpen,
       SetVmk, SetDb, SetUuid,
       CreateSession, TotpGate, Reply, ClearVmk, ClearUuid, VerifyPassword, CurrentVmk,
       Rekey, ChangeVmk, RevokeOthers

(* What a quiet lock has cleared stays so, and so does a closed vault. *)
LEMMA QuietStep ==
    ASSUME OverlapTypeOK, StageInv, QuietInv, NEW c \in Clients, Step(c)
    PROVE  QuietInv'
<1> DEFINE Past == {"clear_vmk", "clear_uuid", "revoke_all"}
<1>1. /\ \A d \in quiet : d \in Clients /\ task[d].at \in Past /\ Loading \subseteq {d} /\ Cleared(d)
      /\ calm => Loading = {} /\ vmk = 0 /\ conn = 0 /\ ~uuid /\ sessions = {}
  BY Zenon DEF QuietInv, OverlapTypeOK
<1>2. CASE quiet' = {} /\ calm' = FALSE
  BY <1>2, Zenon DEF QuietInv
<1>3. CASE BeginLock(c)
  <2>1. Started(c, "lock", "clear_db", 0)
    BY <1>3, BeginMoves, Zenon
  <2>2. quiet' = quiet /\ calm' = calm /\ vmk' = vmk /\ conn' = conn /\ uuid' = uuid /\ sessions' = sessions
    BY <1>3 DEF BeginLock, memory, overlapHistory
  <2>3. Loading' \subseteq Loading
    BY <2>1, LoadingLess, Zenon DEF Started
  <2>4. ASSUME NEW d \in quiet PROVE task'[d] = task[d]
    <3>1. d # c
      BY <1>1, <2>1 DEF Started
    <3> QED
      BY <1>1, <2>1, <3>1, Zenon DEF Started, Others
  <2> QED
    BY <1>1, <2>2, <2>3, <2>4, Zenon DEF QuietInv, Cleared
<1>4. CASE ClearDb(c)
  <2>1. Moved(c, "clear_db", "clear_vmk")
    BY <1>4, StepMoves, Zenon
  <2>2. /\ quiet' = (IF Loading \subseteq {c} THEN quiet \cup {c} ELSE quiet) /\ calm' = calm
        /\ vmk' = vmk /\ conn' = 0 /\ uuid' = uuid /\ sessions' = sessions
    BY <1>4, Zenon DEF ClearDb
  <2>3. Loading' = Loading
    BY <2>1, LoadingSame, Zenon DEF Moved
  <2>4. ASSUME NEW d \in quiet, d # c PROVE task'[d] = task[d]
    BY <1>1, <2>1, <2>4, Zenon DEF Moved, Others
  <2>5. c \notin quiet
    BY <1>1, <2>1 DEF Moved
  <2>6. task'[c].at = "clear_vmk"
    BY <2>1, Zenon DEF Moved
  <2>7. ASSUME NEW d \in quiet' PROVE task'[d].at \in Past /\ Loading' \subseteq {d} /\ Cleared(d)'
    <3>1. CASE d = c
      BY <2>2, <2>3, <2>5, <2>6, <2>7, <3>1 DEF Cleared
    <3>2. CASE d # c
      <4>1. d \in quiet /\ task'[d] = task[d]
        BY <2>2, <2>4, <2>7, <3>2, Zenon
      <4> QED
        BY <1>1, <2>2, <2>3, <4>1, Zenon DEF Cleared
    <3> QED
      BY <3>1, <3>2
  <2> QED
    BY <1>1, <2>2, <2>3, <2>7, Zenon DEF QuietInv
<1>5. CASE ClearVmk(c) \/ ClearUuid(c)
  <2>1. Moved(c, "clear_vmk", "clear_uuid") \/ Moved(c, "clear_uuid", "revoke_all")
    BY <1>5, StepMoves, Zenon
  <2>2. /\ quiet' = quiet /\ calm' = calm /\ conn' = conn /\ sessions' = sessions
        /\ vmk' \in {0, vmk} /\ (ClearVmk(c) => vmk' = 0) /\ (uuid' = uuid \/ ~uuid') /\ (ClearUuid(c) => ~uuid')
    BY <1>5 DEF ClearVmk, ClearUuid, overlapHistory
  <2>3. Loading' = Loading
    BY <2>1, LoadingSame, Zenon DEF Moved
  <2>4. ASSUME NEW d \in quiet PROVE task'[d].at \in Past /\ Cleared(d)'
    <3>1. CASE d = c
      <4>1. ClearVmk(c) => task[c].at = "clear_vmk" /\ task'[c].at = "clear_uuid"
        BY StepMoves, Zenon DEF Moved
      <4>2. ClearUuid(c) => task[c].at = "clear_uuid" /\ task'[c].at = "revoke_all"
        BY StepMoves, Zenon DEF Moved
      <4>3. Cleared(c)
        BY <1>1, <2>4, <3>1, Zenon
      <4>4. CASE ClearVmk(c)
        BY <2>2, <3>1, <4>1, <4>3, <4>4 DEF Cleared
      <4>5. CASE ClearUuid(c)
        BY <2>2, <3>1, <4>2, <4>3, <4>5 DEF Cleared
      <4> QED
        BY <1>5, <4>4, <4>5
    <3>2. CASE d # c
      <4>1. task'[d] = task[d]
        BY <1>1, <2>1, <2>4, <3>2, Zenon DEF Moved, Others
      <4>2. task[d].at \in Past /\ Cleared(d)
        BY <1>1, <2>4, Zenon
      <4> QED
        BY <2>2, <4>1, <4>2 DEF Cleared
    <3> QED
      BY <3>1, <3>2
  <2>5. calm' => vmk' = 0 /\ ~uuid'
    BY <1>1, <2>2
  <2> QED
    BY <1>1, <2>2, <2>3, <2>4, <2>5, Zenon DEF QuietInv
<1>6. CASE RevokeAll(c)
  <2>1. Ended(c, "revoke_all")
    BY <1>6, StepMoves, Zenon
  <2>2. /\ quiet' = quiet \ {c} /\ calm' = (calm \/ c \in quiet)
        /\ vmk' = vmk /\ conn' = conn /\ uuid' = uuid /\ sessions' = {}
    BY <1>6, Zenon DEF RevokeAll
  <2>3. Loading' = Loading \ {c}
    BY <2>1, LoadingLess, Zenon DEF Ended
  <2>4. ASSUME NEW d \in quiet' PROVE d \in quiet /\ task'[d] = task[d]
    BY <1>1, <2>1, <2>2, <2>4, Zenon DEF Ended, Others
  <2>5. ASSUME c \in quiet PROVE Loading' = {} /\ vmk' = 0 /\ conn' = 0 /\ ~uuid'
    <3>1. Loading \subseteq {c} /\ Cleared(c) /\ task[c].at = "revoke_all"
      BY <1>1, <2>1, <2>5, Zenon DEF Ended
    <3>2. vmk = 0 /\ conn = 0 /\ ~uuid
      BY <3>1 DEF Cleared
    <3> QED
      BY <2>2, <2>3, <3>1, <3>2
  <2>6. ASSUME NEW d \in quiet' PROVE task'[d].at \in Past /\ Loading' \subseteq {d} /\ Cleared(d)'
    <3>1. d \in quiet /\ task'[d] = task[d]
      BY <2>4, <2>6
    <3> QED
      BY <1>1, <2>2, <2>3, <3>1, Zenon DEF Cleared
  <2>7. calm' => Loading' = {} /\ vmk' = 0 /\ conn' = 0 /\ ~uuid' /\ sessions' = {}
    BY <1>1, <2>2, <2>3, <2>5, Zenon
  <2> QED
    BY <2>6, <2>7, Zenon DEF QuietInv
<1>7. CASE quiet # {} \/ calm
  <2>1. c \notin Loading \/ task[c].at \in CloseStages
    BY <1>1, <1>7 DEF CloseStages
  <2> QED
    BY <1>2, <1>3, <1>4, <1>5, <1>6, <2>1, ClosersOnly, Zenon
<1>8. CASE quiet = {} /\ ~calm
  <2>1. ASSUME quiet' = quiet, calm' = calm PROVE QuietInv'
    BY <1>8, <2>1, Zenon DEF QuietInv
  <2> QED
    BY <1>2, <1>4, <1>6, <2>1, QuietHistory, Zenon
<1> QED
  BY <1>7, <1>8, Zenon

-----------------------------------------------------------------------------
(* What has met *)

(* While no lock met a load, everyone at work closes as soon as one does.  *)
NoClash ==
    \A d, e \in Clients : task[d].at \in CloseStages => task[e].at \in CloseStages \cup {"idle"}

(* While no password change met a load, its request is the only one that   *)
(* loads.                                                                  *)
Alone == \A d, e \in Clients : task[d].kind = "change_password" /\ e # d => e \notin Loading

LEMMA MetStep ==
    ASSUME ThreadInv, NEW c \in Clients,
           met' = (IF calm' THEN met \cap {"create_create"} ELSE met) \cup Overlaps'
    PROVE  /\ OverlapInv'
           /\ "create_create" \notin met' => "create_create" \notin met
           /\ ~calm' => met \subseteq met'
<1>1. "create_create" \notin met' => "create_create" \notin met
  OBVIOUS
<1>2. ~calm' => met \subseteq met'
  OBVIOUS
<1>3. Overlaps' \subseteq met'
  OBVIOUS
<1>5. ASSUME "create_create" \notin met' PROVE \A x, y \in Creating' : x = y
  <2>1. "create_create" \notin Overlaps'
    BY <1>3, <1>5
  <2>2. ~Several(Creating')
    BY <2>1, Zenon DEF Overlaps
  <2> QED
    BY <2>2, Zenon DEF Several
<1>6. ASSUME "close_load" \notin met' PROVE Closing' = {} \/ Loading' \subseteq Closing'
  <2>1. "close_load" \notin Overlaps'
    BY <1>3, <1>6
  <2>2. ~(Closing' # {} /\ Loading' \ Closing' # {})
    BY <2>1, Zenon DEF Overlaps
  <2> QED
    BY <2>2
<1>7. ASSUME "change_load" \notin met' PROVE Changing' = {} \/ \A x, y \in Loading' : x = y
  <2>1. "change_load" \notin Overlaps'
    BY <1>3, <1>7
  <2>2. ~(Changing' # {} /\ Several(Loading'))
    BY <2>1, Zenon DEF Overlaps
  <2> QED
    BY <2>2, Zenon DEF Several
<1>8. OverlapInv'
  BY <1>5, <1>6, <1>7, Zenon DEF OverlapInv
<1> QED
  BY <1>1, <1>2, <1>8

LEMMA NotClashing ==
    ASSUME OverlapTypeOK, StageInv, OverlapInv
    PROVE  ("close_load" \notin met => NoClash) /\ ("change_load" \notin met => Alone)
<1>1. ASSUME NEW e \in Clients, e \notin Loading PROVE task[e].at \in CloseStages \cup {"idle"}
  <2>1. task[e].kind \in {"unlock", "copy", "lock", "change_password", "none"}
    BY DEF OverlapTypeOK, AllRequestKinds
  <2>2. task[e].kind \in {"lock", "none"}
    BY <1>1, <2>1 DEF Loading
  <2>3. task[e] = NoTask \/ KindAt(task[e].kind, task[e].at)
    BY DEF StageInv, Staged
  <2> QED
    BY <2>2, <2>3 DEF KindAt, NoTask, CloseStages
<1>2. ASSUME "close_load" \notin met, NEW d \in Clients, NEW e \in Clients, task[d].at \in CloseStages
      PROVE  task[e].at \in CloseStages \cup {"idle"}
  <2>1. \A x \in Clients : x \in Closing <=> task[x].at \in CloseStages
    BY DEF Closing, CloseStages
  <2>2. Loading \subseteq Closing
    BY <1>2, <2>1, Zenon DEF OverlapInv
  <2>3. CASE e \in Loading
    BY <2>1, <2>2, <2>3
  <2> QED
    BY <1>1, <2>3
<1>3. ASSUME "change_load" \notin met, NEW d \in Clients, NEW e \in Clients, task[d].kind = "change_password", e # d
      PROVE  e \notin Loading
  <2>1. d \in Changing /\ d \in Loading
    BY <1>3 DEF Changing, Loading
  <2> QED
    BY <1>3, <2>1, Zenon DEF OverlapInv
<1> QED
  BY <1>2, <1>3, Zenon DEF NoClash, Alone

LEMMA NotClashingNext ==
    ASSUME OverlapTypeOK', StageInv', OverlapInv'
    PROVE  ("close_load" \notin met' => NoClash') /\ ("change_load" \notin met' => Alone')
<1>1. ASSUME NEW e \in Clients, e \notin Loading' PROVE task'[e].at \in CloseStages \cup {"idle"}
  <2>1. task'[e].kind \in {"unlock", "copy", "lock", "change_password", "none"}
    BY DEF OverlapTypeOK, AllRequestKinds
  <2>2. task'[e].kind \in {"lock", "none"}
    BY <1>1, <2>1 DEF Loading
  <2>3. task'[e] = NoTask \/ KindAt(task'[e].kind, task'[e].at)
    BY DEF StageInv, Staged
  <2> QED
    BY <2>2, <2>3 DEF KindAt, NoTask, CloseStages
<1>2. ASSUME "close_load" \notin met', NEW d \in Clients, NEW e \in Clients, task'[d].at \in CloseStages
      PROVE  task'[e].at \in CloseStages \cup {"idle"}
  <2>1. \A x \in Clients : x \in Closing' <=> task'[x].at \in CloseStages
    BY DEF Closing, CloseStages
  <2>2. Loading' \subseteq Closing'
    BY <1>2, <2>1, Zenon DEF OverlapInv
  <2>3. CASE e \in Loading'
    BY <2>1, <2>2, <2>3
  <2> QED
    BY <1>1, <2>3
<1>3. ASSUME "change_load" \notin met', NEW d \in Clients, NEW e \in Clients, task'[d].kind = "change_password", e # d
      PROVE  e \notin Loading'
  <2>1. d \in Changing' /\ d \in Loading'
    BY <1>3 DEF Changing, Loading
  <2> QED
    BY <1>3, <2>1, Zenon DEF OverlapInv
<1> QED
  BY <1>2, <1>3, Zenon DEF NoClash, Alone

-----------------------------------------------------------------------------
(* The files *)

LEMMA CreatingIs ==
    /\ \A c \in Clients : c \in Creating <=> task[c].at \in CreateStages
    /\ \A c \in Clients : c \in Creating' <=> task'[c].at \in CreateStages
    /\ Creating \subseteq Clients /\ Creating' \subseteq Clients
  BY DEF Creating, CreateStages

(* Only a first unlock that opens the file, and a rekey, change the key of *)
(* the file; and only they and the writing of the first header the sidecar.*)
LEMMA FilesHistory ==
    ASSUME NEW c \in Clients, Step(c)
    PROVE  \/ meta' = meta /\ file' = file
           \/ CreateHeader(c) \/ CreateOpen(c) \/ Rekey(c)
  BY Zenon DEF Step, BeginRequest, UnlockStep, LockStep, ChangeStep, BeginUnlock, BeginLock,
     BeginChange,
       ReadHeader, OpenVault, CreateKey, SetVmk, SetDb, SetUuid, CreateSession, TotpGate, Reply,
       ClearDb, ClearVmk, ClearUuid, RevokeAll, VerifyPassword, CurrentVmk, ChangeVmk, RevokeOthers

(* A request gets to the steps that create a vault only from one to the    *)
(* next, and to the first of them only while there is no file.             *)
LEMMA CreatesOnly ==
    ASSUME OverlapTypeOK, NEW c \in Clients, Step(c), task'[c].at \in CreateStages
    PROVE  \/ file = 0 /\ task'[c].at = "create"
           \/ CreateKey(c) /\ Moved(c, "create", "create_header")
           \/ CreateHeader(c) /\ Moved(c, "create_header", "create_open")
<1>1. ASSUME NEW b \in {"idle", "read", "open", "set_vmk", "set_db", "set_uuid", "create_session", "gate", "reply",
                        "clear_db", "clear_vmk", "clear_uuid", "revoke_all", "verify", "current_vmk",
                        "rekey", "change_vmk", "revoke_others"}
      PROVE  b # task'[c].at
  BY DEF CreateStages
<1>2. ASSUME BeginRequest(c) PROVE file = 0 /\ task'[c].at = "create"
  <2>1. ASSUME NEW k \in {"unlock", "copy"}, BeginUnlock(c, k) PROVE file = 0 /\ task'[c].at = "create"
    BY <1>1, <2>1, BeginMoves, Zenon DEF Started
  <2>2. ~BeginLock(c) /\ ~BeginChange(c)
    BY <1>1, BeginMoves, Zenon DEF Started
  <2> QED
    BY <1>2, <2>1, <2>2, Zenon DEF BeginRequest
<1>3. ~ReadHeader(c)
  BY <1>1, ReadMoves, Zenon DEF Ended
<1>4. ~LockStep(c) /\ ~ChangeStep(c)
  BY <1>1, StepMoves, Zenon DEF LockStep, ChangeStep, Moved, Ended
<1>5. UnlockStep(c) => \/ CreateKey(c) /\ Moved(c, "create", "create_header")
                       \/ CreateHeader(c) /\ Moved(c, "create_header", "create_open")
  BY <1>1, <1>3, StepMoves, Zenon DEF UnlockStep, Moved, Ended
<1> QED
  BY <1>2, <1>4, <1>5, Zenon DEF Step

LEMMA CreateStep ==
    ASSUME ThreadInv, NEW c \in Clients, Step(c), "create_create" \notin met
    PROVE  CreateOK'
<1> USE DEF CreateOK
<1> DEFINE Goal == CreateOK'
<1>1. /\ OverlapTypeOK /\ StageInv /\ \A x, y \in Creating : x = y
      /\ file # 0 => meta.key = file
      /\ \A d \in Creating : file = 0 /\ (task[d].at = "create_open" => meta.key = task[d].key)
  BY Zenon DEF ThreadInv, OverlapInv, CreateInv
<1>2. /\ \A d \in Clients : d # c => task'[d] = task[d]
      /\ \A d \in Creating' : d \in Clients /\ (d # c => d \in Creating)
  <2>1. \A d \in Clients : d # c => task'[d] = task[d]
    BY <1>1, StepTasks, Zenon DEF Others
  <2> QED
    BY <2>1, CreatingIs, Zenon
<1>3. CASE CreateHeader(c)
  <2>1. Moved(c, "create_header", "create_open") /\ file' = file
    BY <1>1, <1>3, StepMoves, Zenon DEF CreateHeader
  <2>2. meta'.key = task[c].key
    BY <1>3, Zenon DEF CreateHeader
  <2>3. c \in Creating /\ file = 0
    BY <1>1, <2>1, CreatingIs DEF Moved, CreateStages
  <2>4. \A d \in Creating' : d = c
    BY <1>1, <1>2, <2>3, Zenon
  <2> QED
    BY <2>1, <2>2, <2>3, <2>4, Zenon DEF Moved
<1>4. CASE CreateOpen(c)
  <2>1. task[c].at = "create_open" /\ meta' = meta
    BY <1>4, Zenon DEF CreateOpen
  <2>2. c \in Creating /\ file = 0 /\ meta.key = task[c].key
    BY <1>1, <2>1, CreatingIs DEF CreateStages
  <2>3. Moved(c, "create_open", "set_db") /\ file' = task[c].key
    BY <1>1, <1>4, <2>2, StepMoves, Zenon
  <2>4. c \notin Creating'
    BY <2>3, CreatingIs DEF Moved, CreateStages
  <2>5. Creating' = {}
    BY <1>1, <1>2, <2>2, <2>4, Zenon
  <2> QED
    BY <2>1, <2>2, <2>3, <2>5, Zenon
<1>5. ASSUME meta' = meta, file' = file PROVE Goal
  <2>1. ASSUME NEW d \in Creating' PROVE file' = 0 /\ (task'[d].at = "create_open" => meta'.key = task'[d].key)
    <3>1. CASE d # c
      BY <1>1, <1>2, <1>5, <2>1, <3>1, Zenon
    <3>2. CASE d = c
      <4>1. task'[c].at \in CreateStages
        BY <2>1, <3>2, CreatingIs, Zenon
      <4>2. CASE file = 0 /\ task'[c].at = "create"
        BY <1>5, <3>2, <4>2
      <4>3. CASE Moved(c, "create", "create_header")
        <5>1. c \in Creating /\ task'[c].at # "create_open"
          BY <4>3, CreatingIs DEF Moved, CreateStages
        <5> QED
          BY <1>1, <1>5, <3>2, <5>1, Zenon
      <4> QED
        BY <1>1, <1>3, <3>2, <2>1, <4>1, <4>2, <4>3, CreatesOnly, Zenon
    <3> QED
      BY <3>1, <3>2
  <2> QED
    BY <1>1, <1>5, <2>1, Zenon
<1>6. CASE Rekey(c)
  <2>1. CASE Moved(c, "rekey", "change_vmk") /\ conn # 0 /\ conn = file /\ file' = task[c].key /\ meta'.key = task[c].key
    <3>1. Creating = {}
      BY <1>1, <2>1, Zenon
    <3>2. c \notin Creating'
      BY <2>1, CreatingIs DEF Moved, CreateStages
    <3>3. Creating' = {}
      BY <1>2, <3>1, <3>2, Zenon
    <3> QED
      BY <2>1, <3>3, Zenon
  <2> QED
    BY <1>1, <1>5, <1>6, <2>1, StepMoves, Zenon
<1> QED
  BY <1>3, <1>4, <1>5, <1>6, FilesHistory, Zenon

-----------------------------------------------------------------------------
(* The memory *)

LEMMA SomeoneStays ==
    ASSUME NEW c \in Clients, Others(c), NEW S, task[c].at \notin S, SomeoneAt(S)
    PROVE  \E d \in Clients : task'[d].at \in S
<1>1. PICK d \in Clients : task[d].at \in S
  BY DEF SomeoneAt
<1>2. d # c
  BY <1>1
<1> QED
  BY <1>1, <1>2, Zenon DEF Others

(* The steps at which a missing part of the memory is explained. *)
Explained ==
    /\ ~uuid /\ sessions # {} => SomeoneAt({"revoke_all"})
    /\ vmk = 0 /\ sessions # {} => SomeoneAt({"clear_uuid", "revoke_all"})
    /\ vmk # 0 /\ conn = 0 => \/ SomeoneAt({"set_db", "clear_vmk"})
                              \/ file = 0 /\ SomeoneAt({"create_header", "create_open"})

(* A request that is at none of them leaves the explanations of the others.*)
LEMMA ExplainedStays ==
    ASSUME NEW c \in Clients, Others(c), Explained,
           task[c].at \notin {"clear_uuid", "revoke_all", "set_db", "clear_vmk"},
           \/ task[c].at \notin {"create_header", "create_open"}
           \/ task'[c].at \in {"create_header", "create_open"}
           \/ file # 0
    PROVE  /\ ~uuid /\ sessions # {} => SomeoneAt({"revoke_all"})'
           /\ vmk = 0 /\ sessions # {} => SomeoneAt({"clear_uuid", "revoke_all"})'
           /\ vmk # 0 /\ conn = 0 => \/ SomeoneAt({"set_db", "clear_vmk"})'
                                     \/ file = 0 /\ SomeoneAt({"create_header", "create_open"})'
<1>1. SomeoneAt({"revoke_all"}) => SomeoneAt({"revoke_all"})'
  <2>1. task[c].at \notin {"revoke_all"}
    OBVIOUS
  <2> QED
    BY <2>1, SomeoneStays, Zenon DEF SomeoneAt
<1>2. SomeoneAt({"clear_uuid", "revoke_all"}) => SomeoneAt({"clear_uuid", "revoke_all"})'
  <2>1. task[c].at \notin {"clear_uuid", "revoke_all"}
    OBVIOUS
  <2> QED
    BY <2>1, SomeoneStays, Zenon DEF SomeoneAt
<1>3. SomeoneAt({"set_db", "clear_vmk"}) => SomeoneAt({"set_db", "clear_vmk"})'
  <2>1. task[c].at \notin {"set_db", "clear_vmk"}
    OBVIOUS
  <2> QED
    BY <2>1, SomeoneStays, Zenon DEF SomeoneAt
<1>4. file = 0 /\ SomeoneAt({"create_header", "create_open"}) => SomeoneAt({"create_header", "create_open"})'
  <2>1. CASE task'[c].at \in {"create_header", "create_open"}
    BY <2>1, Zenon DEF SomeoneAt
  <2>2. CASE task[c].at \notin {"create_header", "create_open"}
    BY <2>2, SomeoneStays, Zenon DEF SomeoneAt
  <2> QED
    BY <2>1, <2>2
<1> QED
  BY <1>1, <1>2, <1>3, <1>4, Zenon DEF Explained

(* A step that leaves memory and file alone. *)
LEMMA MemoryFrame ==
    ASSUME MemoryOK, NEW c \in Clients, Others(c), UNCHANGED <<vmk, conn, uuid, sessions, file>>,
           task[c].at \notin {"clear_uuid", "revoke_all", "set_db", "clear_vmk"},
           \/ task[c].at \notin {"create_header", "create_open"}
           \/ task'[c].at \in {"create_header", "create_open"}
           \/ file # 0,
           NeedsMemory(c)', task'[c].at \notin {"clear_vmk", "clear_uuid", "revoke_all"}
    PROVE  MemoryOK'
<1>1. Explained /\ (vmk = 0 => conn = 0) /\ \A d \in Clients : NeedsMemory(d) /\ Cleared(d)
  BY Zenon DEF MemoryOK, Explained
<1>2. /\ ~uuid' /\ sessions' # {} => SomeoneAt({"revoke_all"})'
      /\ vmk' = 0 /\ sessions' # {} => SomeoneAt({"clear_uuid", "revoke_all"})'
      /\ vmk' # 0 /\ conn' = 0 => \/ SomeoneAt({"set_db", "clear_vmk"})'
                                  \/ file' = 0 /\ SomeoneAt({"create_header", "create_open"})'
  BY <1>1, ExplainedStays, Zenon
<1>3. Cleared(c)'
  BY DEF Cleared
<1>4. ASSUME NEW d \in Clients, d # c PROVE NeedsMemory(d)' /\ Cleared(d)'
  <2>1. task'[d] = task[d]
    BY <1>4, Zenon DEF Others
  <2> QED
    BY <1>1, <2>1, Zenon DEF NeedsMemory, Cleared
<1> QED
  BY <1>1, <1>2, <1>3, <1>4, Zenon DEF MemoryOK

(* The request that fills a part of the memory is not closing; no other    *)
(* one is, then.                                                           *)
LEMMA NooneCloses ==
    ASSUME NEW c \in Clients, NoClash', task'[c].at \notin CloseStages \cup {"idle"}
    PROVE  \A d \in Clients : task'[d].at \notin CloseStages /\ Cleared(d)'
<1>1. \A d \in Clients : task'[d].at \notin CloseStages
  BY Zenon DEF NoClash
<1> QED
  BY <1>1 DEF Cleared, CloseStages

(* The request that clears a part of the memory is closing; every other    *)
(* one that is under way is, then.                                         *)
LEMMA NooneNeeds ==
    ASSUME NEW c \in Clients, NoClash', task'[c].at \in CloseStages
    PROVE  \A d \in Clients : NeedsMemory(d)'
<1>1. \A d \in Clients : task'[d].at \in CloseStages \cup {"idle"}
  BY Zenon DEF NoClash
<1> QED
  BY <1>1 DEF NeedsMemory, CloseStages, OpenStages

(* Steps that need nothing of the memory. *)
PlainSteps == {"idle", "read", "open", "set_vmk", "clear_db", "verify", "current_vmk", "rekey"}

LEMMA PlainNeeds ==
    ASSUME NEW c, task'[c].at \in PlainSteps
    PROVE  NeedsMemory(c)' /\ task'[c].at \notin {"clear_vmk", "clear_uuid", "revoke_all"}
  BY DEF PlainSteps, NeedsMemory, OpenStages

LEMMA PlainStep ==
    ASSUME MemoryOK, NEW c \in Clients, Others(c), UNCHANGED <<vmk, conn, uuid, sessions, file>>,
           task[c].at \in PlainSteps \cup {"gate", "reply"}, task'[c].at \in PlainSteps
    PROVE  MemoryOK'
<1>1. /\ task[c].at \notin {"clear_uuid", "revoke_all", "set_db", "clear_vmk"}
      /\ task[c].at \notin {"create_header", "create_open"}
  BY DEF PlainSteps
<1>2. NeedsMemory(c)' /\ task'[c].at \notin {"clear_vmk", "clear_uuid", "revoke_all"}
  BY PlainNeeds, Zenon
<1> QED
  BY <1>1, <1>2, MemoryFrame, Zenon

(* Requests begin, read and check without touching the memory. *)
LEMMA MemoryKept ==
    ASSUME OverlapTypeOK, MemoryOK, NEW c \in Clients,
           \/ BeginRequest(c) \/ ReadHeader(c) \/ OpenVault(c) \/ TotpGate(c) \/ Reply(c)
           \/ VerifyPassword(c) \/ CurrentVmk(c) \/ CreateHeader(c)
    PROVE  MemoryOK'
<1>1. /\ {"idle", "read", "open", "set_vmk", "clear_db", "verify", "current_vmk", "rekey"} \subseteq PlainSteps
      /\ {"idle", "read", "open", "gate", "reply", "verify", "current_vmk"} \subseteq PlainSteps \cup {"gate", "reply"}
  BY DEF PlainSteps
<1>2. UNCHANGED <<vmk, conn, uuid, sessions, file>>
  BY Zenon DEF BeginRequest, BeginUnlock, BeginLock, BeginChange, ReadHeader, OpenVault, TotpGate,
     Reply,
       VerifyPassword, CurrentVmk, CreateHeader, memory
<1>3. ASSUME NEW k \in {"unlock", "copy"}, BeginUnlock(c, k) PROVE MemoryOK'
  <2>1. CASE Started(c, k, "read", 0)
    BY <1>1, <1>2, <2>1, PlainStep, Zenon DEF Started
  <2>2. CASE file = 0 /\ Started(c, "unlock", "create", fresh)
    <3>1. Others(c) /\ task[c].at = "idle" /\ task'[c].at = "create" /\ file' = 0
      BY <1>2, <2>2, Zenon DEF Started
    <3>2. NeedsMemory(c)'
      BY <3>1, Zenon DEF NeedsMemory, OpenStages
    <3>3. /\ task[c].at \notin {"clear_uuid", "revoke_all", "set_db", "clear_vmk"}
          /\ task[c].at \notin {"create_header", "create_open"}
          /\ task'[c].at \notin {"clear_vmk", "clear_uuid", "revoke_all"}
      BY <3>1
    <3> QED
      BY <1>2, <3>1, <3>2, <3>3, MemoryFrame, Zenon
  <2> QED
    BY <1>3, <2>1, <2>2, BeginMoves, Zenon
<1>4. ASSUME BeginLock(c) \/ BeginChange(c) PROVE MemoryOK'
  BY <1>1, <1>2, <1>4, BeginMoves, PlainStep, Zenon DEF Started
<1>5. CASE BeginRequest(c)
  BY <1>3, <1>4, <1>5, Zenon DEF BeginRequest
<1>6. CASE ReadHeader(c)
  BY <1>1, <1>2, <1>6, ReadMoves, PlainStep, Zenon DEF Ended
<1>7. CASE OpenVault(c) \/ Reply(c) \/ VerifyPassword(c) \/ CurrentVmk(c)
  BY <1>1, <1>2, <1>7, StepMoves, PlainStep, Zenon DEF Moved, Ended
<1>8. CASE TotpGate(c)
  <2>1. CASE Moved(c, "gate", "clear_db")
    BY <1>1, <1>2, <2>1, PlainStep, Zenon DEF Moved
  <2>2. CASE Moved(c, "gate", "reply")
    <3>1. Others(c) /\ task[c].at = "gate" /\ task'[c].at = "reply" /\ NeedsMemory(c)
      BY <2>2, Zenon DEF Moved, MemoryOK
    <3>2. NeedsMemory(c)'
      BY <1>2, <3>1, Zenon DEF NeedsMemory, OpenStages
    <3>3. /\ task[c].at \notin {"clear_uuid", "revoke_all", "set_db", "clear_vmk"}
          /\ task[c].at \notin {"create_header", "create_open"}
          /\ task'[c].at \notin {"clear_vmk", "clear_uuid", "revoke_all"}
      BY <3>1
    <3> QED
      BY <1>2, <3>1, <3>2, <3>3, MemoryFrame, Zenon
  <2> QED
    BY <1>8, <2>1, <2>2, StepMoves, Zenon
<1>9. CASE CreateHeader(c)
  <2>1. Moved(c, "create_header", "create_open")
    BY <1>9, StepMoves, Zenon
  <2>2. Others(c) /\ task[c].at = "create_header" /\ task'[c].at = "create_open" /\ NeedsMemory(c)
    BY <2>1, Zenon DEF Moved, MemoryOK
  <2>3. NeedsMemory(c)'
    BY <1>2, <2>2, Zenon DEF NeedsMemory, OpenStages
  <2>4. /\ task[c].at \notin {"clear_uuid", "revoke_all", "set_db", "clear_vmk"}
        /\ task'[c].at \in {"create_header", "create_open"}
        /\ task'[c].at \notin {"clear_vmk", "clear_uuid", "revoke_all"}
    BY <2>2
  <2> QED
    BY <1>2, <2>2, <2>3, <2>4, MemoryFrame, Zenon
<1> QED
  BY <1>5, <1>6, <1>7, <1>8, <1>9

(* A vault key comes into the memory: by the first unlock, by a later one, *)
(* or after the password changed.                                          *)
LEMMA KeyLoaded ==
    ASSUME OverlapTypeOK, StageInv, MemoryOK, NoClash', NEW c \in Clients,
           CreateKey(c) \/ SetVmk(c) \/ ChangeVmk(c)
    PROVE  MemoryOK'
<1>1. /\ Others(c) /\ task'[c].at \notin CloseStages \cup {"idle"}
      /\ \/ task[c].at = "create" /\ task'[c].at = "create_header"
         \/ task[c].at = "set_vmk" /\ task'[c].at = "set_db"
         \/ task[c].at = "change_vmk" /\ task'[c].at = "revoke_others"
  <2>1. /\ Others(c)
        /\ \/ task[c].at = "create" /\ task'[c].at = "create_header"
           \/ task[c].at = "set_vmk" /\ task'[c].at = "set_db"
           \/ task[c].at = "change_vmk" /\ task'[c].at = "revoke_others"
    BY StepMoves, Zenon DEF Moved
  <2> QED
    BY <2>1 DEF CloseStages
<1>2. vmk' = task[c].key /\ conn' = conn /\ uuid' = uuid /\ sessions' = sessions /\ file' = file
  BY Zenon DEF CreateKey, SetVmk, ChangeVmk
<1>3. task[c].key # 0
  BY <1>1, KeyedNames DEF StageInv, Staged
<1>4. Explained /\ NeedsMemory(c) /\ \A d \in Clients : NeedsMemory(d)
  BY Zenon DEF MemoryOK, Explained
<1>5. \A d \in Clients : Cleared(d)'
  BY <1>1, NooneCloses, Zenon
<1>6. ASSUME NEW d \in Clients PROVE NeedsMemory(d)'
  <2>1. CASE d = c
    BY <1>1, <1>2, <1>3, <2>1 DEF NeedsMemory, OpenStages
  <2>2. CASE d # c
    <3>1. task'[d] = task[d]
      BY <1>1, <2>2, Zenon DEF Others
    <3> QED
      BY <1>2, <1>3, <1>4, <3>1, Zenon DEF NeedsMemory
  <2> QED
    BY <2>1, <2>2
<1>7. /\ task[c].at \notin {"clear_uuid", "revoke_all", "set_db", "clear_vmk"}
      /\ task[c].at \notin {"create_header", "create_open"}
  BY <1>1
<1>8. /\ ~uuid /\ sessions # {} => SomeoneAt({"revoke_all"})'
      /\ vmk # 0 /\ conn = 0 => \/ SomeoneAt({"set_db", "clear_vmk"})'
                                \/ file = 0 /\ SomeoneAt({"create_header", "create_open"})'
  BY <1>1, <1>4, <1>7, ExplainedStays, Zenon
<1>9. conn = 0 => \/ SomeoneAt({"set_db", "clear_vmk"})'
                  \/ file = 0 /\ SomeoneAt({"create_header", "create_open"})'
  <2>1. CASE vmk # 0
    BY <1>8, <2>1, Zenon
  <2>2. CASE vmk = 0 /\ task'[c].at = "set_db"
    <3>1. task'[c].at \in {"set_db", "clear_vmk"}
      BY <2>2
    <3> QED
      BY <3>1, Zenon DEF SomeoneAt
  <2>3. CASE vmk = 0 /\ task'[c].at = "create_header" /\ file = 0
    <3>1. task'[c].at \in {"create_header", "create_open"}
      BY <2>3
    <3> QED
      BY <2>3, <3>1, Zenon DEF SomeoneAt
  <2>4. task[c].at \in {"create", "change_vmk"} => vmk # 0 \/ (file = 0 /\ task[c].at = "create")
    BY <1>4 DEF NeedsMemory
  <2>5. CASE task[c].at \in {"create", "change_vmk"}
    <3>1. vmk # 0 \/ (vmk = 0 /\ file = 0 /\ task'[c].at = "create_header")
      BY <1>1, <2>4, <2>5
    <3> QED
      BY <2>1, <2>3, <3>1, Zenon
  <2>6. CASE task[c].at = "set_vmk"
    <3>1. task'[c].at = "set_db"
      BY <1>1, <2>6
    <3> QED
      BY <2>1, <2>2, <3>1, Zenon
  <2> QED
    BY <1>1, <2>5, <2>6
<1> QED
  BY <1>2, <1>3, <1>5, <1>6, <1>8, <1>9, Zenon DEF MemoryOK

(* The connection, the id and the session of an unlock, the file of the    *)
(* first one, and the rekey of a password change.                          *)
LEMMA PartLoaded ==
    ASSUME OverlapTypeOK, StageInv, MemoryOK, NoClash', NEW c \in Clients,
           \/ SetDb(c) \/ SetUuid(c) \/ CreateSession(c) \/ CreateOpen(c) \/ Rekey(c)
    PROVE  MemoryOK'
<1>1. Explained /\ (vmk = 0 => conn = 0) /\ \A d \in Clients : NeedsMemory(d) /\ Cleared(d)
  BY Zenon DEF MemoryOK, Explained
<1>2. Others(c)
  BY StepMoves, Zenon DEF Moved, Ended
<1>3. ASSUME NEW d \in Clients, d # c, vmk' # 0, uuid => uuid' PROVE NeedsMemory(d)'
  <2>1. task'[d] = task[d]
    BY <1>2, <1>3, Zenon DEF Others
  <2> QED
    BY <1>1, <1>3, <2>1, Zenon DEF NeedsMemory
<1>4. /\ task[c].at \in KeyedStages => task[c].key # 0
      /\ {"set_db", "rekey", "create_open"} \subseteq KeyedStages
  BY KeyedNames DEF StageInv, Staged
<1>5. ASSUME task[c].at \notin {"clear_uuid", "revoke_all", "clear_vmk"}
      PROVE  ~uuid /\ sessions # {} => SomeoneAt({"revoke_all"})'
  <2>1. task[c].at \notin {"revoke_all"}
    BY <1>5
  <2> QED
    BY <1>1, <1>2, <2>1, SomeoneStays, Zenon DEF Explained, SomeoneAt
<1>6. CASE SetDb(c)
  <2>1. Moved(c, "set_db", "set_uuid")
    BY <1>6, StepMoves, Zenon
  <2>2. task[c].at = "set_db" /\ task'[c].at = "set_uuid" /\ task[c].key # 0
    BY <1>4, <2>1 DEF Moved
  <2>3. vmk' = vmk /\ conn' = task[c].key /\ uuid' = uuid /\ sessions' = sessions /\ file' = file
    BY <1>6, Zenon DEF SetDb
  <2>4. vmk # 0
    BY <1>1, <2>2 DEF NeedsMemory, OpenStages
  <2>5. \A d \in Clients : Cleared(d)'
    <3>1. task'[c].at \notin CloseStages \cup {"idle"}
      BY <2>2, Zenon DEF CloseStages
    <3> QED
      BY <3>1, NooneCloses, Zenon
  <2>6. NeedsMemory(c)'
    BY <2>2, <2>3, <2>4 DEF NeedsMemory
  <2>7. ~uuid /\ sessions # {} => SomeoneAt({"revoke_all"})'
    <3>1. task[c].at \notin {"clear_uuid", "revoke_all", "clear_vmk"}
      BY <2>2
    <3> QED
      BY <1>5, <3>1, Zenon
  <2> QED
    BY <1>3, <2>2, <2>3, <2>4, <2>5, <2>6, <2>7, Zenon DEF MemoryOK
<1>7. CASE SetUuid(c)
  <2>1. Moved(c, "set_uuid", "create_session")
    BY <1>7, StepMoves, Zenon
  <2>2. task[c].at = "set_uuid" /\ task'[c].at = "create_session"
    BY <2>1 DEF Moved
  <2>3. vmk' = vmk /\ conn' = conn /\ uuid' = TRUE /\ sessions' = sessions /\ file' = file
    BY <1>7, Zenon DEF SetUuid
  <2>4. vmk # 0
    BY <1>1, <2>2 DEF NeedsMemory, OpenStages
  <2>5. \A d \in Clients : Cleared(d)'
    <3>1. task'[c].at \notin CloseStages \cup {"idle"}
      BY <2>2, Zenon DEF CloseStages
    <3> QED
      BY <3>1, NooneCloses, Zenon
  <2>6. NeedsMemory(c)'
    BY <2>2, <2>3, <2>4 DEF NeedsMemory
  <2>7. vmk # 0 /\ conn = 0 => \/ SomeoneAt({"set_db", "clear_vmk"})'
                               \/ file = 0 /\ SomeoneAt({"create_header", "create_open"})'
    <3>1. /\ task[c].at \notin {"clear_uuid", "revoke_all", "set_db", "clear_vmk"}
          /\ task[c].at \notin {"create_header", "create_open"}
      BY <2>2
    <3> QED
      BY <1>1, <1>2, <3>1, ExplainedStays, Zenon
  <2> QED
    BY <1>3, <2>3, <2>4, <2>5, <2>6, <2>7, Zenon DEF MemoryOK
<1>8. CASE CreateSession(c)
  <2>1. Ended(c, "create_session") \/ Moved(c, "create_session", "gate")
    BY <1>8, StepMoves, Zenon
  <2>2. task[c].at = "create_session" /\ task'[c].at \in {"idle", "gate"}
    BY <2>1 DEF Moved, Ended
  <2>3. vmk' = vmk /\ conn' = conn /\ uuid' = uuid /\ file' = file
    BY <1>8, Zenon DEF CreateSession
  <2>4. vmk # 0 /\ uuid
    BY <1>1, <2>2, Zenon DEF NeedsMemory, OpenStages
  <2>5. NeedsMemory(c)' /\ Cleared(c)'
    BY <2>2, <2>3, <2>4 DEF NeedsMemory, OpenStages, Cleared
  <2>6. ASSUME NEW d \in Clients, d # c PROVE Cleared(d)'
    <3>1. task'[d] = task[d]
      BY <1>2, <2>6, Zenon DEF Others
    <3> QED
      BY <1>1, <2>3, <3>1, Zenon DEF Cleared
  <2>7. vmk # 0 /\ conn = 0 => \/ SomeoneAt({"set_db", "clear_vmk"})'
                               \/ file = 0 /\ SomeoneAt({"create_header", "create_open"})'
    <3>1. /\ task[c].at \notin {"clear_uuid", "revoke_all", "set_db", "clear_vmk"}
          /\ task[c].at \notin {"create_header", "create_open"}
      BY <2>2
    <3> QED
      BY <1>1, <1>2, <3>1, ExplainedStays, Zenon
  <2> QED
    BY <1>3, <2>3, <2>4, <2>5, <2>6, <2>7, Zenon DEF MemoryOK
<1>9. CASE CreateOpen(c)
  <2>1. vmk' = vmk /\ conn' = conn /\ uuid' = uuid /\ sessions' = sessions /\ task[c].at = "create_open"
    BY <1>9, Zenon DEF CreateOpen, memory
  <2>2. vmk # 0
    BY <1>1, <2>1 DEF NeedsMemory
  <2>3. CASE Ended(c, "create_open") /\ file # 0 /\ file' = file
    <3>1. task'[c].at = "idle"
      BY <2>3, Zenon DEF Ended
    <3>2. NeedsMemory(c)' /\ task'[c].at \notin {"clear_vmk", "clear_uuid", "revoke_all"}
      BY <3>1 DEF NeedsMemory, OpenStages
    <3>3. task[c].at \notin {"clear_uuid", "revoke_all", "set_db", "clear_vmk"}
      BY <2>1
    <3> QED
      BY <1>2, <2>1, <2>3, <3>2, <3>3, MemoryFrame, Zenon
  <2>4. CASE Moved(c, "create_open", "set_db")
    <3>1. task'[c].at = "set_db" /\ task'[c].at \in {"set_db", "clear_vmk"} /\ task'[c].at \notin CloseStages \cup {"idle"}
      BY <2>4 DEF Moved, CloseStages
    <3>2. SomeoneAt({"set_db", "clear_vmk"})'
      BY <3>1, Zenon DEF SomeoneAt
    <3>3. \A d \in Clients : Cleared(d)'
      BY <3>1, NooneCloses, Zenon
    <3>4. NeedsMemory(c)'
      BY <2>1, <2>2, <3>1 DEF NeedsMemory
    <3>5. ~uuid /\ sessions # {} => SomeoneAt({"revoke_all"})'
      <4>1. task[c].at \notin {"clear_uuid", "revoke_all", "clear_vmk"}
        BY <2>1
      <4> QED
        BY <1>5, <4>1, Zenon
    <3> QED
      BY <1>3, <2>1, <2>2, <3>2, <3>3, <3>4, <3>5, Zenon DEF MemoryOK
  <2> QED
    BY <1>9, <2>3, <2>4, StepMoves, Zenon
<1>10. CASE Rekey(c)
  <2>1. vmk' = vmk /\ uuid' = uuid /\ sessions' = sessions /\ task[c].at = "rekey"
    BY <1>10, Zenon DEF Rekey
  <2>2. CASE Ended(c, "rekey") /\ UNCHANGED <<meta, file, conn>>
    <3>1. "rekey" \in PlainSteps \cup {"gate", "reply"} /\ "idle" \in PlainSteps
      BY DEF PlainSteps
    <3> QED
      BY <1>2, <2>1, <2>2, <3>1, PlainStep, Zenon DEF Ended
  <2>3. CASE Moved(c, "rekey", "change_vmk") /\ conn # 0 /\ conn' = task[c].key
    <3>1. task'[c].at = "change_vmk" /\ task'[c].at \notin CloseStages \cup {"idle"} /\ vmk # 0 /\ conn' # 0
      BY <1>1, <1>4, <2>1, <2>3 DEF Moved, CloseStages
    <3>3. \A d \in Clients : Cleared(d)'
      BY <3>1, NooneCloses, Zenon
    <3>4. NeedsMemory(c)'
      BY <2>1, <3>1, Zenon DEF NeedsMemory
    <3>5. ~uuid /\ sessions # {} => SomeoneAt({"revoke_all"})'
      <4>1. task[c].at \notin {"clear_uuid", "revoke_all", "clear_vmk"}
        BY <2>1
      <4> QED
        BY <1>5, <4>1, Zenon
    <3> QED
      BY <1>3, <2>1, <3>1, <3>3, <3>4, <3>5, Zenon DEF MemoryOK
  <2> QED
    BY <1>10, <2>2, <2>3, StepMoves, Zenon
<1> QED
  BY <1>6, <1>7, <1>8, <1>9, <1>10

(* The steps of a lock, and the end of a password change. *)
LEMMA PartCleared ==
    ASSUME OverlapTypeOK, MemoryOK, NoClash', NEW c \in Clients,
           ClearDb(c) \/ ClearVmk(c) \/ ClearUuid(c) \/ RevokeAll(c) \/ RevokeOthers(c)
    PROVE  MemoryOK'
<1>1. Explained /\ (vmk = 0 => conn = 0) /\ \A d \in Clients : NeedsMemory(d) /\ Cleared(d)
  BY Zenon DEF MemoryOK, Explained
<1>2. Others(c)
  BY StepMoves, Zenon DEF Moved, Ended
<1>3. \A d \in Clients : d # c => task'[d] = task[d]
  BY <1>2, Zenon DEF Others
<1>4. ASSUME NEW d \in Clients, d # c, vmk' \in {0, vmk}, conn' \in {0, conn}, uuid' => uuid PROVE Cleared(d)'
  BY <1>1, <1>3, <1>4 DEF Cleared
<1>5. CASE ClearDb(c)
  <2>1. Moved(c, "clear_db", "clear_vmk")
    BY <1>5, StepMoves, Zenon
  <2>2. task[c].at = "clear_db" /\ task'[c].at = "clear_vmk"
    BY <2>1 DEF Moved
  <2>3. vmk' = vmk /\ conn' = 0 /\ uuid' = uuid /\ sessions' = sessions /\ file' = file
    BY <1>5, Zenon DEF ClearDb
  <2>4. \A d \in Clients : NeedsMemory(d)'
    <3>1. task'[c].at \in CloseStages
      BY <2>2, Zenon DEF CloseStages
    <3> QED
      BY <3>1, NooneNeeds, Zenon
  <2>5. Cleared(c)'
    BY <2>2, <2>3 DEF Cleared
  <2>6. SomeoneAt({"set_db", "clear_vmk"})'
    <3>1. task'[c].at \in {"set_db", "clear_vmk"}
      BY <2>2
    <3> QED
      BY <3>1, Zenon DEF SomeoneAt
  <2>7. /\ ~uuid /\ sessions # {} => SomeoneAt({"revoke_all"})'
        /\ vmk = 0 /\ sessions # {} => SomeoneAt({"clear_uuid", "revoke_all"})'
    <3>1. /\ task[c].at \notin {"clear_uuid", "revoke_all", "set_db", "clear_vmk"}
          /\ task[c].at \notin {"create_header", "create_open"}
      BY <2>2
    <3> QED
      BY <1>1, <1>2, <3>1, ExplainedStays, Zenon
  <2>8. vmk' \in {0, vmk} /\ conn' \in {0, conn} /\ (uuid' => uuid)
    BY <2>3
  <2> QED
    BY <1>4, <2>3, <2>4, <2>5, <2>6, <2>7, <2>8, Zenon DEF MemoryOK
<1>6. CASE ClearVmk(c)
  <2>1. Moved(c, "clear_vmk", "clear_uuid")
    BY <1>6, StepMoves, Zenon
  <2>2. task[c].at = "clear_vmk" /\ task'[c].at = "clear_uuid"
    BY <2>1 DEF Moved
  <2>3. vmk' = 0 /\ conn' = conn /\ uuid' = uuid /\ sessions' = sessions /\ file' = file
    BY <1>6, Zenon DEF ClearVmk
  <2>4. \A d \in Clients : NeedsMemory(d)'
    <3>1. task'[c].at \in CloseStages
      BY <2>2, Zenon DEF CloseStages
    <3> QED
      BY <3>1, NooneNeeds, Zenon
  <2>5. conn = 0 /\ Cleared(c)'
    BY <1>1, <2>2, <2>3 DEF Cleared
  <2>6. SomeoneAt({"clear_uuid", "revoke_all"})'
    <3>1. task'[c].at \in {"clear_uuid", "revoke_all"}
      BY <2>2
    <3> QED
      BY <3>1, Zenon DEF SomeoneAt
  <2>7. ~uuid /\ sessions # {} => SomeoneAt({"revoke_all"})'
    <3>1. task[c].at \notin {"revoke_all"}
      BY <2>2
    <3> QED
      BY <1>1, <1>2, <3>1, SomeoneStays, Zenon DEF Explained, SomeoneAt
  <2>8. vmk' \in {0, vmk} /\ conn' \in {0, conn} /\ (uuid' => uuid)
    BY <2>3
  <2> QED
    BY <1>4, <2>3, <2>4, <2>5, <2>6, <2>7, <2>8, Zenon DEF MemoryOK
<1>7. CASE ClearUuid(c)
  <2>1. Moved(c, "clear_uuid", "revoke_all")
    BY <1>7, StepMoves, Zenon
  <2>2. task[c].at = "clear_uuid" /\ task'[c].at = "revoke_all"
    BY <2>1 DEF Moved
  <2>3. vmk' = vmk /\ conn' = conn /\ uuid' = FALSE /\ sessions' = sessions /\ file' = file
    BY <1>7, Zenon DEF ClearUuid
  <2>4. \A d \in Clients : NeedsMemory(d)'
    <3>1. task'[c].at \in CloseStages
      BY <2>2, Zenon DEF CloseStages
    <3> QED
      BY <3>1, NooneNeeds, Zenon
  <2>5. conn = 0 /\ vmk = 0 /\ Cleared(c)'
    BY <1>1, <2>2, <2>3 DEF Cleared
  <2>6. SomeoneAt({"clear_uuid", "revoke_all"})' /\ SomeoneAt({"revoke_all"})'
    <3>1. task'[c].at \in {"clear_uuid", "revoke_all"} /\ task'[c].at \in {"revoke_all"}
      BY <2>2
    <3> QED
      BY <3>1, Zenon DEF SomeoneAt
  <2>8. vmk' \in {0, vmk} /\ conn' \in {0, conn} /\ (uuid' => uuid)
    BY <2>3
  <2> QED
    BY <1>4, <2>3, <2>4, <2>5, <2>6, <2>8, Zenon DEF MemoryOK
<1>8. ASSUME vmk' = vmk, conn' = conn, uuid' = uuid, file' = file, NEW a, Ended(c, a)
      PROVE  \A d \in Clients : NeedsMemory(d)' /\ Cleared(d)'
  <2>1. task'[c].at = "idle"
    BY <1>8, Zenon DEF Ended
  <2>2. NeedsMemory(c)' /\ Cleared(c)'
    BY <2>1 DEF NeedsMemory, Cleared, OpenStages
  <2>3. ASSUME NEW d \in Clients, d # c PROVE NeedsMemory(d)' /\ Cleared(d)'
    BY <1>1, <1>3, <1>8, <2>3, Zenon DEF NeedsMemory, Cleared
  <2> QED
    BY <2>2, <2>3
<1>9. CASE RevokeAll(c)
  <2>1. Ended(c, "revoke_all")
    BY <1>9, StepMoves, Zenon
  <2>2. vmk' = vmk /\ conn' = conn /\ uuid' = uuid /\ sessions' = {} /\ file' = file
    BY <1>9, Zenon DEF RevokeAll
  <2>3. vmk = 0
    BY <1>1, <2>1 DEF Ended, Cleared
  <2> QED
    BY <1>1, <1>8, <2>1, <2>2, <2>3, Zenon DEF MemoryOK
<1>10. CASE RevokeOthers(c)
  <2>1. Ended(c, "revoke_others")
    BY <1>10, StepMoves, Zenon
  <2>2. vmk' = vmk /\ conn' = conn /\ uuid' = uuid /\ file' = file
    BY <1>10, Zenon DEF RevokeOthers
  <2>3. sessions' # {} => sessions # {}
    BY <1>10, Zenon DEF RevokeOthers
  <2>4. /\ ~uuid /\ sessions # {} => SomeoneAt({"revoke_all"})'
        /\ vmk = 0 /\ sessions # {} => SomeoneAt({"clear_uuid", "revoke_all"})'
        /\ vmk # 0 /\ conn = 0 => \/ SomeoneAt({"set_db", "clear_vmk"})'
                                  \/ file = 0 /\ SomeoneAt({"create_header", "create_open"})'
    <3>1. /\ task[c].at \notin {"clear_uuid", "revoke_all", "set_db", "clear_vmk"}
          /\ task[c].at \notin {"create_header", "create_open"}
      BY <2>1 DEF Ended
    <3> QED
      BY <1>1, <1>2, <3>1, ExplainedStays, Zenon
  <2> QED
    BY <1>1, <1>8, <2>1, <2>2, <2>3, <2>4, Zenon DEF MemoryOK
<1> QED
  BY <1>5, <1>6, <1>7, <1>9, <1>10

LEMMA MemoryStep ==
    ASSUME OverlapTypeOK, StageInv, MemoryOK, NoClash', NEW c \in Clients, Step(c)
    PROVE  MemoryOK'
  BY MemoryKept, KeyLoaded, PartLoaded, PartCleared, Zenon DEF Step, UnlockStep, LockStep, ChangeStep

-----------------------------------------------------------------------------
(* The key of the file and the second factor *)

(* Steps at which a request has no key of the file yet, or no more. *)
KeylessSteps ==
    {"idle", "create", "create_header", "create_open", "read", "open"} \cup CloseStages \cup ChangeStages

LEMMA KeylessLoads ==
    ASSUME NEW c, task'[c].at \in KeylessSteps
    PROVE  LoadsFile(c)'
  BY DEF KeylessSteps, LoadsFile, OpenStages, CloseStages, ChangeStages

LEMMA KeylessNames ==
    /\ {"idle", "create", "create_header", "create_open", "read", "open"} \subseteq KeylessSteps
    /\ {"clear_db", "clear_vmk", "clear_uuid", "revoke_all"} \subseteq KeylessSteps
    /\ {"verify", "current_vmk", "rekey", "change_vmk", "revoke_others"} \subseteq KeylessSteps
  BY DEF KeylessSteps, CloseStages, ChangeStages

(* The others, while file and connection stay as they are. *)
LEMMA OthersLoad ==
    ASSUME LoadOK, NEW c \in Clients, Others(c), file' = file, conn' = conn,
           \A d \in Clients : d # c /\ d \in proved => d \in proved'
    PROVE  \A d \in Clients : d # c => LoadsFile(d)'
<1>1. ASSUME NEW d \in Clients, d # c PROVE LoadsFile(d)'
  <2>1. task'[d] = task[d] /\ LoadsFile(d)
    BY <1>1, Zenon DEF Others, LoadOK
  <2> QED
    BY <1>1, <2>1, Zenon DEF LoadsFile
<1> QED
  BY <1>1

(* Steps that leave file, connection, sessions and answers alone. *)
LEMMA LoadFrame ==
    ASSUME LoadOK, NEW c \in Clients, Others(c), UNCHANGED <<file, conn, sessions, told, proved>>, LoadsFile(c)'
    PROVE  LoadOK'
<1>1. \A d \in Clients : d # c => LoadsFile(d)'
  BY OthersLoad, Zenon
<1> QED
  BY <1>1, Zenon DEF LoadOK

LEMMA LoadKept ==
    ASSUME OverlapTypeOK, LoadOK, NEW c \in Clients,
           \/ BeginLock(c) \/ BeginChange(c) \/ ReadHeader(c) \/ CreateKey(c) \/ CreateHeader(c)
           \/ ClearVmk(c) \/ ClearUuid(c) \/ VerifyPassword(c) \/ CurrentVmk(c) \/ ChangeVmk(c)
    PROVE  LoadOK'
<1>1. UNCHANGED <<file, conn, sessions, told, proved>>
  BY Zenon DEF BeginLock, BeginChange, ReadHeader, CreateKey, CreateHeader, ClearVmk, ClearUuid,
       VerifyPassword, CurrentVmk, ChangeVmk, memory, overlapHistory
<1>2. Others(c) /\ task'[c].at \in KeylessSteps
  <2>1. BeginLock(c) \/ BeginChange(c) => Others(c) /\ task'[c].at \in KeylessSteps
    BY BeginMoves, KeylessNames, Zenon DEF Started
  <2>2. ReadHeader(c) => Others(c) /\ task'[c].at \in KeylessSteps
    BY ReadMoves, KeylessNames, Zenon DEF Ended
  <2>3. CreateKey(c) \/ CreateHeader(c) \/ ClearVmk(c) \/ ClearUuid(c)
          => Others(c) /\ \E b \in {"create_header", "create_open", "clear_uuid", "revoke_all"} : task'[c].at = b
    BY StepMoves, Zenon DEF Moved
  <2>4. VerifyPassword(c) \/ CurrentVmk(c) \/ ChangeVmk(c)
          => Others(c) /\ \E b \in {"idle", "current_vmk", "rekey", "revoke_others"} : task'[c].at = b
    BY StepMoves, Zenon DEF Moved, Ended
  <2> QED
    BY <2>1, <2>2, <2>3, <2>4, KeylessNames, Zenon
<1>3. LoadsFile(c)'
  BY <1>2, KeylessLoads, Zenon
<1> QED
  BY <1>1, <1>2, <1>3, LoadFrame, Zenon

LEMMA LoadUnlock ==
    ASSUME OverlapTypeOK, StageInv, NoFileInv, LoadOK, NEW c \in Clients,
           \/ OpenVault(c) \/ CreateOpen(c) \/ SetVmk(c) \/ SetDb(c) \/ SetUuid(c)
    PROVE  LoadOK'
<1>1. Others(c) /\ LoadsFile(c) /\ sessions' = sessions /\ told' = told /\ proved' = proved
  <2>1. Others(c)
    BY StepMoves, Zenon DEF Moved, Ended
  <2> QED
    BY <2>1, Zenon DEF LoadOK, OpenVault, CreateOpen, SetVmk, SetDb, SetUuid, memory, overlapHistory
<1>2. CASE OpenVault(c)
  <2>1. file' = file /\ conn' = conn
    BY <1>2, Zenon DEF OpenVault, memory
  <2>2. CASE Ended(c, "open")
    BY <1>1, <2>1, <2>2, KeylessNames, KeylessLoads, LoadFrame, Zenon DEF Ended
  <2>3. CASE Moved(c, "open", "set_vmk") /\ file = task[c].key
    <3>1. task'[c].at = "set_vmk" /\ task'[c].key = file
      BY <2>3, Zenon DEF Moved
    <3>2. LoadsFile(c)'
      BY <2>1, <3>1, Zenon DEF LoadsFile
    <3> QED
      BY <1>1, <2>1, <3>2, LoadFrame, Zenon
  <2> QED
    BY <1>2, <2>2, <2>3, StepMoves, Zenon
<1>3. CASE CreateOpen(c)
  <2>1. conn' = conn
    BY <1>3, Zenon DEF CreateOpen, memory
  <2>2. CASE Ended(c, "create_open") /\ file' = file
    BY <1>1, <2>1, <2>2, KeylessNames, KeylessLoads, LoadFrame DEF Ended
  <2>3. CASE Moved(c, "create_open", "set_db") /\ file \in {0, task[c].key} /\ file' = task[c].key
    <3>1. task'[c].at = "set_db" /\ task'[c].key = file'
      BY <2>3, Zenon DEF Moved
    <3>2. LoadsFile(c)'
      BY <3>1 DEF LoadsFile
    <3>3. CASE file = task[c].key
      BY <1>1, <2>1, <2>3, <3>2, <3>3, LoadFrame, Zenon
    <3>4. CASE file = 0
      <4>1. ASSUME NEW d \in Clients, d # c PROVE LoadsFile(d)'
        <5>1. task'[d] = task[d]
          BY <1>1, <4>1, Zenon DEF Others
        <5>2. task[d].at \in CreateStages \/ task[d] = NoTask
          BY <3>4, Zenon DEF NoFileInv
        <5>3. task'[d].at \in KeylessSteps
          BY <5>1, <5>2 DEF NoTask, CreateStages, KeylessSteps
        <5> QED
          BY <5>3, KeylessLoads, Zenon
      <4> QED
        BY <1>1, <3>2, <4>1, Zenon DEF LoadOK
    <3> QED
      BY <2>3, <3>3, <3>4
  <2> QED
    BY <1>3, <2>2, <2>3, StepMoves, Zenon
<1>4. CASE SetVmk(c)
  <2>1. Moved(c, "set_vmk", "set_db") /\ file' = file /\ conn' = conn
    BY <1>4, StepMoves, Zenon DEF SetVmk
  <2>2. LoadsFile(c)'
    BY <1>1, <2>1 DEF LoadsFile, Moved
  <2> QED
    BY <1>1, <2>1, <2>2, LoadFrame, Zenon
<1>5. CASE SetDb(c)
  <2>1. Moved(c, "set_db", "set_uuid") /\ file' = file /\ conn' = task[c].key
    BY <1>5, StepMoves, Zenon DEF SetDb
  <2>2. task[c].key = file /\ conn' = file'
    BY <1>1, <2>1 DEF LoadsFile, Moved, OpenStages
  <2>3. ASSUME NEW d \in Clients PROVE LoadsFile(d)'
    <3>1. CASE d = c
      BY <2>1, <2>2, <3>1 DEF LoadsFile, Moved
    <3>2. CASE d # c
      <4>1. task'[d] = task[d] /\ LoadsFile(d)
        BY <1>1, <3>2, Zenon DEF Others, LoadOK
      <4> QED
        BY <1>1, <2>1, <2>2, <4>1, Zenon DEF LoadsFile
    <3> QED
      BY <3>1, <3>2, Zenon
  <2> QED
    BY <1>1, <2>3, Zenon DEF LoadOK
<1>6. CASE SetUuid(c)
  <2>1. Moved(c, "set_uuid", "create_session") /\ file' = file /\ conn' = conn
    BY <1>6, StepMoves, Zenon DEF SetUuid
  <2>2. LoadsFile(c)'
    BY <1>1, <2>1 DEF LoadsFile, Moved, OpenStages
  <2> QED
    BY <1>1, <2>1, <2>2, LoadFrame, Zenon
<1> QED
  BY <1>2, <1>3, <1>4, <1>5, <1>6

(* A session, the check of the second factor, and the answer. *)
LEMMA LoadAnswer ==
    ASSUME OverlapTypeOK, StageInv, LoadOK, NEW c \in Clients,
           \/ \E k \in {"unlock", "copy"} : BeginUnlock(c, k)
           \/ CreateSession(c) \/ TotpGate(c) \/ Reply(c)
    PROVE  LoadOK'
<1>1. file' = file /\ conn' = conn /\ LoadsFile(c) /\ sessions \cap told \subseteq proved
  BY Zenon DEF LoadOK, BeginUnlock, CreateSession, TotpGate, Reply, memory
<1>2. Others(c)
  BY BeginMoves, StepMoves, Zenon DEF Started, Moved, Ended
<1>3. \A d \in Clients : d # c => (d \in proved => d \in proved')
  BY Zenon DEF BeginUnlock, CreateSession, TotpGate, Reply
<1>4. \A d \in Clients : d # c => LoadsFile(d)'
  BY <1>1, <1>2, <1>3, OthersLoad, Zenon
<1>5. ASSUME NEW k \in {"unlock", "copy"}, BeginUnlock(c, k) PROVE LoadOK'
  <2>1. \E b \in {"create", "read"} : task'[c].at = b
    BY <1>5, BeginMoves, Zenon DEF Started
  <2>2. LoadsFile(c)'
    BY <2>1, KeylessNames, KeylessLoads
  <2>3. sessions' = sessions /\ c \notin sessions /\ proved' = proved \ {c} /\ told' = told \ {c}
    BY <1>5, Zenon DEF BeginUnlock, memory
  <2>4. sessions' \cap told' \subseteq proved'
    BY <1>1, <2>3
  <2> QED
    BY <1>4, <2>2, <2>4, Zenon DEF LoadOK
<1>6. CASE CreateSession(c)
  <2>1. task[c].at = "create_session" /\ sessions' = sessions \cup {c}
    BY <1>6, Zenon DEF CreateSession
  <2>2. CASE task[c].kind = "copy"
    <3>1. proved' = proved \cup {c} /\ told' = told \cup {c}
      BY <1>6, <2>2, Zenon DEF CreateSession
    <3>2. Ended(c, "create_session")
      BY <1>6, <2>2, StepMoves, Zenon
    <3>3. LoadsFile(c)'
      BY <3>2, KeylessNames, KeylessLoads, Zenon DEF Ended
    <3>4. sessions' \cap told' \subseteq proved'
      BY <1>1, <2>1, <3>1
    <3> QED
      BY <1>4, <3>3, <3>4, Zenon DEF LoadOK
  <2>3. CASE task[c].kind # "copy"
    <3>1. proved' = proved /\ told' = told
      BY <1>6, <2>3, Zenon DEF CreateSession
    <3>2. Moved(c, "create_session", "gate")
      BY <1>6, <2>3, StepMoves, Zenon
    <3>3. LoadsFile(c)'
      BY <1>1, <2>1, <3>2, Zenon DEF LoadsFile, Moved, OpenStages
    <3>4. c \notin told
      <4>1. Staged(c)
        BY Zenon DEF StageInv
      <4>2. task[c].kind = "unlock"
        <5>1. task[c] # NoTask
          BY <2>1 DEF NoTask
        <5>2. KindAt(task[c].kind, "create_session")
          BY <2>1, <4>1, <5>1, Zenon DEF Staged
        <5> QED
          BY <2>3, <5>2, SessionKinds, Zenon
      <4> QED
        BY <4>1, <4>2 DEF Staged
    <3>5. sessions' \cap told' \subseteq proved'
      BY <1>1, <2>1, <3>1, <3>4
    <3> QED
      BY <1>4, <3>3, <3>5, Zenon DEF LoadOK
  <2> QED
    BY <2>2, <2>3
<1>7. CASE TotpGate(c)
  <2>1. sessions' = sessions /\ told' = told /\ task[c].at = "gate"
    BY <1>7, Zenon DEF TotpGate, memory
  <2>2. conn = file /\ task[c].key = file /\ task[c].key # 0
    BY <1>1, <2>1, KeyedNames, Zenon DEF LoadsFile, OpenStages, StageInv, Staged
  <2>3. /\ proved \subseteq proved'
        /\ c \in proved' \/ Goes(c, "clear_db")
    BY <1>7, <2>2, Zenon DEF TotpGate
  <2>4. CASE Moved(c, "gate", "clear_db")
    <3>1. LoadsFile(c)'
      BY <2>4, KeylessNames, KeylessLoads, Zenon DEF Moved
    <3> QED
      BY <1>1, <1>4, <2>1, <2>3, <3>1, Zenon DEF LoadOK
  <2>5. CASE Moved(c, "gate", "reply")
    <3>1. ~Goes(c, "clear_db")
      <4>1. "clear_db" \in Steps
        BY DEF Steps
      <4>2. Goes(c, "clear_db") => Moved(c, "gate", "clear_db")
        BY <2>1, <4>1, GoesMoves, Zenon
      <4> QED
        BY <2>5, <4>2 DEF Moved
    <3>2. LoadsFile(c)'
      BY <1>1, <2>2, <2>3, <2>5, <3>1 DEF LoadsFile, Moved
    <3> QED
      BY <1>1, <1>4, <2>1, <2>3, <3>2, Zenon DEF LoadOK
  <2> QED
    BY <1>7, <2>4, <2>5, StepMoves, Zenon
<1>8. CASE Reply(c)
  <2>1. sessions' = sessions /\ told' = told \cup {c} /\ proved' = proved /\ task[c].at = "reply"
    BY <1>8, Zenon DEF Reply, memory
  <2>2. c \in proved
    BY <1>1, <2>1 DEF LoadsFile
  <2>3. Ended(c, "reply")
    BY <1>8, StepMoves, Zenon
  <2>4. LoadsFile(c)'
    BY <2>3, KeylessNames, KeylessLoads, Zenon DEF Ended
  <2>5. sessions' \cap told' \subseteq proved'
    BY <1>1, <2>1, <2>2, Zenon
  <2> QED
    BY <1>4, <2>4, <2>5, Zenon DEF LoadOK
<1> QED
  BY <1>5, <1>6, <1>7, <1>8, Zenon

(* A lock and a rekey take the connection or the file away from no other   *)
(* request that loads.                                                     *)
LEMMA NotLoading ==
    ASSUME OverlapTypeOK', StageInv', NEW d \in Clients, d \notin Loading'
    PROVE  task'[d].at \in CloseStages \cup {"idle"}
<1>1. task'[d].kind \in {"unlock", "copy", "lock", "change_password", "none"}
  BY DEF OverlapTypeOK, AllRequestKinds
<1>2. task'[d].kind \in {"lock", "none"}
  BY <1>1 DEF Loading
<1>3. task'[d] = NoTask \/ KindAt(task'[d].kind, task'[d].at)
  BY DEF StageInv, Staged
<1> QED
  BY <1>2, <1>3 DEF KindAt, NoTask, CloseStages

LEMMA ChangerAlone ==
    ASSUME OverlapTypeOK', StageInv', Alone', NEW c \in Clients, task'[c].at = "change_vmk"
    PROVE  \A d \in Clients : d # c => task'[d].at \in CloseStages \cup {"idle"}
<1>1. task'[c].kind = "change_password"
  <2>1. task'[c] = NoTask \/ KindAt(task'[c].kind, task'[c].at)
    BY DEF StageInv, Staged
  <2> QED
    BY <2>1 DEF KindAt, NoTask, CreateStages, OpenStages, CloseStages
<1> QED
  BY <1>1, NotLoading, Zenon DEF Alone

LEMMA LoadStep ==
    ASSUME OverlapTypeOK, StageInv, NoFileInv, LoadOK, OverlapTypeOK', StageInv', NoClash', Alone',
           NEW c \in Clients, Step(c)
    PROVE  LoadOK'
<1>1. sessions \cap told \subseteq proved
  BY DEF LoadOK
<1>2. CASE ClearDb(c)
  <2>1. Moved(c, "clear_db", "clear_vmk") /\ UNCHANGED <<sessions, told, proved>>
    BY <1>2, StepMoves, Zenon DEF ClearDb
  <2>2. task'[c].at \in CloseStages
    BY <2>1 DEF Moved, CloseStages
  <2>3. \A d \in Clients : task'[d].at \in CloseStages \cup {"idle"}
    BY <2>2, Zenon DEF NoClash
  <2>4. \A d \in Clients : LoadsFile(d)'
    BY <2>3, KeylessLoads DEF KeylessSteps
  <2> QED
    BY <1>1, <2>1, <2>4, Zenon DEF LoadOK
<1>3. CASE Rekey(c)
  <2>1. UNCHANGED <<sessions, told, proved>>
    BY <1>3, Zenon DEF Rekey, overlapHistory
  <2>2. CASE Ended(c, "rekey") /\ UNCHANGED <<meta, file, conn>>
    BY <2>1, <2>2, KeylessNames, KeylessLoads, LoadFrame DEF Ended
  <2>3. CASE Moved(c, "rekey", "change_vmk")
    <3>1. \A d \in Clients : d # c => task'[d].at \in CloseStages \cup {"idle"}
      BY <2>3, ChangerAlone, Zenon DEF Moved
    <3>2. \A d \in Clients : d # c => LoadsFile(d)'
      BY <3>1, KeylessLoads DEF KeylessSteps
    <3>3. LoadsFile(c)'
      BY <2>3, KeylessNames, KeylessLoads DEF Moved
    <3> QED
      BY <1>1, <2>1, <3>2, <3>3, Zenon DEF LoadOK
  <2> QED
    BY <1>3, <2>2, <2>3, StepMoves, Zenon
<1>4. CASE RevokeAll(c) \/ RevokeOthers(c)
  <2>1. \E a \in {"revoke_all", "revoke_others"} : Ended(c, a)
    BY <1>4, StepMoves, Zenon
  <2>2. file' = file /\ conn' = conn /\ told' = told /\ proved' = proved
    BY <1>4, Zenon DEF RevokeAll, RevokeOthers
  <2>3. sessions' \subseteq sessions
    BY <1>4, Zenon DEF RevokeAll, RevokeOthers
  <2>4. LoadsFile(c)' /\ Others(c)
    BY <2>1, KeylessNames, KeylessLoads DEF Ended
  <2>5. \A d \in Clients : d # c => LoadsFile(d)'
    BY <2>2, <2>4, OthersLoad, Zenon
  <2>6. sessions' \cap told' \subseteq proved'
    BY <1>1, <2>2, <2>3
  <2> QED
    BY <2>4, <2>5, <2>6, Zenon DEF LoadOK
<1> QED
  BY <1>2, <1>3, <1>4, LoadKept, LoadUnlock, LoadAnswer, Zenon
     DEF Step, BeginRequest, UnlockStep, LockStep, ChangeStep

-----------------------------------------------------------------------------
(* The sessions of the present key *)

KeyfreeSteps ==
    {"idle", "create", "create_header", "create_open", "read", "verify", "current_vmk", "rekey"} \cup CloseStages

LEMMA KeyfreeOf ==
    ASSUME NEW c, task'[c].at \in KeyfreeSteps
    PROVE  OfPresentKey(c)'
  BY DEF KeyfreeSteps, OfPresentKey, OpenStages, CloseStages

LEMMA OriginFrame ==
    ASSUME OriginOK, NEW c \in Clients, Others(c), UNCHANGED <<meta, sessions, origin>>, OfPresentKey(c)',
           task[c].at # "revoke_others", task[c].at = "change_vmk" => task'[c].at = "revoke_others"
    PROVE  OriginOK'
<1>1. ASSUME NEW d \in Clients PROVE OfPresentKey(d)'
  <2>1. CASE d # c
    <3>1. task'[d] = task[d] /\ OfPresentKey(d)
      BY <2>1, Zenon DEF Others, OriginOK
    <3> QED
      BY <3>1, Zenon DEF OfPresentKey
  <2> QED
    BY <2>1
<1>2. SomeoneAt({"change_vmk", "revoke_others"}) => SomeoneAt({"change_vmk", "revoke_others"})'
  <2>1. CASE task[c].at = "change_vmk"
    <3>1. task'[c].at \in {"change_vmk", "revoke_others"}
      BY <2>1
    <3> QED
      BY <3>1, Zenon DEF SomeoneAt
  <2>2. CASE task[c].at \notin {"change_vmk", "revoke_others"}
    BY <2>2, SomeoneStays, Zenon DEF SomeoneAt
  <2> QED
    BY <2>1, <2>2
<1> QED
  BY <1>1, <1>2, Zenon DEF OriginOK

(* A request that goes on with its key. *)
LEMMA SameKey ==
    ASSUME OriginOK, NEW c \in Clients, meta' = meta, NEW a, NEW b, Moved(c, a, b),
           a \in {"open", "set_vmk", "change_vmk"} \cup OpenStages
    PROVE  OfPresentKey(c)'
<1>1. task[c].key = meta.key
  BY DEF OriginOK, OfPresentKey, Moved
<1>2. task'[c].key = meta'.key
  BY <1>1, Zenon DEF Moved
<1> QED
  BY <1>2, Zenon DEF OfPresentKey

LEMMA OriginStep ==
    ASSUME OverlapTypeOK, StageInv, NoFileInv, CreateOK, MemoryOK, OriginOK, NoClash,
           OverlapTypeOK', StageInv', Alone', NEW c \in Clients, Step(c)
    PROVE  OriginOK'
<1>1. /\ {"idle", "create", "create_header", "read", "verify", "current_vmk", "rekey"} \subseteq KeyfreeSteps
      /\ {"clear_db", "clear_vmk", "clear_uuid", "revoke_all"} \subseteq KeyfreeSteps
      /\ \A a \in {"idle", "create", "read", "open", "set_vmk", "set_db", "set_uuid", "gate", "reply", "verify",
                   "current_vmk", "rekey", "clear_db", "clear_vmk", "clear_uuid", "create_open"} :
            a # "revoke_others" /\ a # "change_vmk"
  BY DEF KeyfreeSteps, CloseStages
<1>2. CASE BeginRequest(c)
  <2>1. UNCHANGED <<meta, sessions, origin>>
    BY <1>2, Zenon DEF BeginRequest, BeginUnlock, BeginLock, BeginChange, memory, overlapHistory
  <2>2. Others(c) /\ task[c].at = "idle" /\ \E b \in {"create", "read", "clear_db", "verify"} : task'[c].at = b
    BY <1>2, BeginMoves, Zenon DEF BeginRequest, Started
  <2>3. OfPresentKey(c)'
    BY <1>1, <2>2, KeyfreeOf
  <2> QED
    BY <1>1, <2>1, <2>2, <2>3, OriginFrame, Zenon
<1>3. CASE ReadHeader(c)
  <2>1. UNCHANGED <<meta, sessions, origin>>
    BY <1>3, Zenon DEF ReadHeader, memory, overlapHistory
  <2>2. CASE Ended(c, "read")
    BY <1>1, <2>1, <2>2, KeyfreeOf, OriginFrame, Zenon DEF Ended
  <2>3. CASE Others(c) /\ task[c].at = "read" /\ task'[c].at = "open" /\ task'[c].key = meta.key
    <3>1. OfPresentKey(c)'
      BY <2>1, <2>3, Zenon DEF OfPresentKey
    <3> QED
      BY <1>1, <2>1, <2>3, <3>1, OriginFrame, Zenon
  <2> QED
    BY <1>3, <2>2, <2>3, ReadMoves, Zenon
<1>4. CASE OpenVault(c) \/ SetVmk(c) \/ SetDb(c) \/ SetUuid(c) \/ TotpGate(c) \/ Reply(c) \/ ChangeVmk(c)
  <2>1. UNCHANGED <<meta, sessions, origin>>
    BY <1>4, Zenon DEF OpenVault, SetVmk, SetDb, SetUuid, TotpGate, Reply, ChangeVmk, memory,
       overlapHistory
  <2>2. CASE Ended(c, "open") \/ Ended(c, "reply")
    BY <1>1, <2>1, <2>2, KeyfreeOf, OriginFrame, Zenon DEF Ended
  <2>3. ASSUME NEW a \in {"open", "set_vmk", "set_db", "set_uuid", "gate", "change_vmk"}, NEW b, Moved(c, a, b),
               a = "change_vmk" => b = "revoke_others"
        PROVE  OriginOK'
    <3>1. OfPresentKey(c)'
      <4>1. a \in {"open", "set_vmk", "change_vmk"} \cup OpenStages
        BY Zenon DEF OpenStages
      <4> QED
        BY <2>1, <2>3, <4>1, SameKey, Zenon
    <3>2. /\ Others(c) /\ task[c].at # "revoke_others"
          /\ task[c].at = "change_vmk" => task'[c].at = "revoke_others"
      BY <2>3 DEF Moved
    <3> QED
      BY <2>1, <3>1, <3>2, OriginFrame, Zenon
  <2>4. \/ Ended(c, "open") \/ Ended(c, "reply") \/ Moved(c, "open", "set_vmk")
        \/ Moved(c, "set_vmk", "set_db") \/ Moved(c, "set_db", "set_uuid")
        \/ Moved(c, "set_uuid", "create_session") \/ Moved(c, "gate", "clear_db") \/ Moved(c, "gate", "reply")
        \/ Moved(c, "change_vmk", "revoke_others")
    BY <1>4, StepMoves, Zenon
  <2> QED
    BY <2>2, <2>3, <2>4, Zenon
<1>5. CASE CreateKey(c) \/ VerifyPassword(c) \/ CurrentVmk(c) \/ ClearDb(c) \/ ClearVmk(c) \/ ClearUuid(c)
  <2>1. UNCHANGED <<meta, sessions, origin>>
    BY <1>5, Zenon DEF CreateKey, VerifyPassword, CurrentVmk, ClearDb, ClearVmk, ClearUuid, memory,
       overlapHistory
  <2>2. /\ Others(c)
        /\ \E a \in {"create", "verify", "current_vmk", "clear_db", "clear_vmk", "clear_uuid"} : task[c].at = a
        /\ \E b \in {"create_header", "idle", "current_vmk", "rekey", "clear_vmk", "clear_uuid", "revoke_all"} :
              task'[c].at = b
    BY <1>5, StepMoves, Zenon DEF Moved, Ended
  <2>3. OfPresentKey(c)'
    BY <1>1, <2>2, KeyfreeOf
  <2> QED
    BY <1>1, <2>1, <2>2, <2>3, OriginFrame, Zenon
<1>6. ASSUME sessions' = {}, \A d \in Clients : OfPresentKey(d)' PROVE OriginOK'
  BY <1>6, Zenon DEF OriginOK
<1>7. CASE CreateHeader(c)
  <2>1. Moved(c, "create_header", "create_open") /\ file' = file /\ sessions' = sessions
    BY <1>7, StepMoves, Zenon DEF CreateHeader, memory
  <2>2. file = 0
    BY <2>1, CreatingIs DEF CreateOK, Moved, CreateStages
  <2>3. sessions' = {}
    BY <2>1, <2>2, Zenon DEF NoFileInv
  <2>4. ASSUME NEW d \in Clients PROVE OfPresentKey(d)'
    <3>1. CASE d = c
      <4>1. task'[d].at \in KeyfreeSteps
        BY <2>1, <3>1 DEF Moved, KeyfreeSteps
      <4> QED
        BY <4>1, KeyfreeOf, Zenon
    <3>2. CASE d # c
      <4>1. task'[d] = task[d] /\ (task[d].at \in CreateStages \/ task[d] = NoTask)
        BY <2>1, <2>2, <3>2, Zenon DEF Moved, Others, NoFileInv
      <4>2. task'[d].at \in KeyfreeSteps
        BY <4>1 DEF NoTask, CreateStages, KeyfreeSteps
      <4> QED
        BY <4>2, KeyfreeOf, Zenon
    <3> QED
      BY <3>1, <3>2
  <2> QED
    BY <1>6, <2>3, <2>4
<1>8. CASE CreateOpen(c)
  <2>1. UNCHANGED <<meta, sessions, origin>>
    BY <1>8, Zenon DEF CreateOpen, memory, overlapHistory
  <2>2. CASE Ended(c, "create_open")
    BY <1>1, <2>1, <2>2, KeyfreeOf, OriginFrame, Zenon DEF Ended
  <2>3. CASE Moved(c, "create_open", "set_db")
    <3>1. task[c].key = meta.key
      BY <2>3, CreatingIs DEF CreateOK, Moved, CreateStages
    <3>2. OfPresentKey(c)'
      BY <2>1, <2>3, <3>1, Zenon DEF OfPresentKey, Moved
    <3> QED
      BY <1>1, <2>1, <2>3, <3>2, OriginFrame, Zenon DEF Moved
  <2> QED
    BY <1>8, <2>2, <2>3, StepMoves, Zenon
<1>9. CASE CreateSession(c)
  <2>1. /\ meta' = meta /\ sessions' = sessions \cup {c} /\ task[c].at = "create_session"
        /\ origin' = [origin EXCEPT ![c] = task[c].key]
    BY <1>9, Zenon DEF CreateSession
  <2>2. task[c].key = meta.key /\ origin \in [Clients -> Keys]
    BY <2>1, Zenon DEF OriginOK, OfPresentKey, OpenStages, OverlapTypeOK
  <2>3. origin'[c] = meta.key /\ \A d \in Clients : d # c => origin'[d] = origin[d]
    BY <2>1, <2>2
  <2>4. Others(c) /\ OfPresentKey(c)'
    <3>1. CASE Ended(c, "create_session")
      BY <1>1, <3>1, KeyfreeOf, Zenon DEF Ended
    <3>2. CASE Moved(c, "create_session", "gate")
      <4>1. "create_session" \in {"open", "set_vmk", "change_vmk"} \cup OpenStages
        BY DEF OpenStages
      <4> QED
        BY <2>1, <3>2, <4>1, SameKey, Zenon DEF Moved
    <3> QED
      BY <1>9, <3>1, <3>2, StepMoves, Zenon
  <2>5. ASSUME NEW d \in Clients PROVE OfPresentKey(d)'
    <3>1. CASE d # c
      <4>1. task'[d] = task[d] /\ OfPresentKey(d)
        BY <2>4, <3>1, Zenon DEF Others, OriginOK
      <4> QED
        BY <2>1, <4>1, Zenon DEF OfPresentKey
    <3> QED
      BY <2>4, <3>1
  <2>6. SomeoneAt({"change_vmk", "revoke_others"}) => SomeoneAt({"change_vmk", "revoke_others"})'
    <3>1. task[c].at \notin {"change_vmk", "revoke_others"}
      BY <2>1, Zenon
    <3> QED
      BY <2>4, <3>1, SomeoneStays, Zenon DEF SomeoneAt
  <2>7. ASSUME NEW d \in sessions' PROVE origin'[d] = meta'.key \/ SomeoneAt({"change_vmk", "revoke_others"})'
    <3>1. CASE d = c
      BY <2>1, <2>3, <3>1, Zenon
    <3>2. CASE d # c
      <4>1. d \in sessions /\ d \in Clients
        BY <2>1, <2>7, <3>2 DEF OverlapTypeOK
      <4> QED
        BY <2>1, <2>3, <2>6, <3>2, <4>1, Zenon DEF OriginOK
    <3> QED
      BY <3>1, <3>2
  <2> QED
    BY <2>5, <2>7, Zenon DEF OriginOK
<1>10. ASSUME NEW a, Ended(c, a), meta' = meta PROVE \A d \in Clients : OfPresentKey(d)'
  <2>1. OfPresentKey(c)'
    BY <1>1, <1>10, KeyfreeOf, Zenon DEF Ended
  <2>2. ASSUME NEW d \in Clients, d # c PROVE OfPresentKey(d)'
    <3>1. task'[d] = task[d] /\ OfPresentKey(d)
      BY <1>10, <2>2, Zenon DEF Ended, Others, OriginOK
    <3> QED
      BY <1>10, <3>1, Zenon DEF OfPresentKey
  <2> QED
    BY <2>1, <2>2
<1>11. CASE RevokeAll(c)
  <2>1. Ended(c, "revoke_all") /\ meta' = meta /\ sessions' = {}
    BY <1>11, StepMoves, Zenon DEF RevokeAll
  <2> QED
    BY <1>6, <1>10, <2>1, Zenon
<1>12. CASE Rekey(c)
  <2>1. sessions' = sessions /\ origin' = origin
    BY <1>12, Zenon DEF Rekey, overlapHistory
  <2>2. CASE Ended(c, "rekey") /\ UNCHANGED <<meta, file, conn>>
    BY <1>1, <2>1, <2>2, KeyfreeOf, OriginFrame, Zenon DEF Ended
  <2>3. CASE Moved(c, "rekey", "change_vmk") /\ meta'.key = task[c].key
    <3>1. \A d \in Clients : d # c => task'[d].at \in CloseStages \cup {"idle"}
      BY <2>3, ChangerAlone, Zenon DEF Moved
    <3>2. \A d \in Clients : d # c => OfPresentKey(d)'
      BY <3>1, KeyfreeOf DEF KeyfreeSteps
    <3>3. OfPresentKey(c)'
      BY <2>3, Zenon DEF OfPresentKey, Moved
    <3>4. task'[c].at \in {"change_vmk", "revoke_others"}
      BY <2>3 DEF Moved
    <3>5. SomeoneAt({"change_vmk", "revoke_others"})'
      BY <3>4, Zenon DEF SomeoneAt
    <3> QED
      BY <3>2, <3>3, <3>5, Zenon DEF OriginOK
  <2> QED
    BY <1>12, <2>2, <2>3, StepMoves, Zenon
<1>13. CASE RevokeOthers(c)
  <2>1. /\ Ended(c, "revoke_others") /\ meta' = meta /\ origin' = [origin EXCEPT ![c] = task[c].key]
        /\ sessions' = IF uuid THEN sessions \cap {c} ELSE sessions
    BY <1>13, StepMoves, Zenon DEF RevokeOthers
  <2>2. task[c].at = "revoke_others"
    BY <2>1, Zenon DEF Ended
  <2>3. task[c].key = meta.key /\ origin \in [Clients -> Keys]
    BY <2>2, Zenon DEF OriginOK, OfPresentKey, OverlapTypeOK
  <2>4. origin'[c] = meta'.key
    BY <2>1, <2>3
  <2>5. CASE uuid
    <3>1. \A d \in sessions' : d = c
      BY <2>1, <2>5
    <3> QED
      BY <1>10, <2>1, <2>4, <3>1, Zenon DEF OriginOK
  <2>6. CASE ~uuid
    <3>1. \A d \in Clients : task[d].at \notin CloseStages
      <4>1. task[c].at \notin CloseStages \cup {"idle"}
        BY <2>2 DEF CloseStages
      <4> QED
        BY <4>1, Zenon DEF NoClash
    <3>2. ~SomeoneAt({"revoke_all"})
      BY <3>1 DEF SomeoneAt, CloseStages
    <3>3. sessions = {}
      BY <2>6, <3>2, Zenon DEF MemoryOK
    <3>4. sessions' = {}
      BY <2>1, <2>6, <3>3
    <3> QED
      BY <1>6, <1>10, <2>1, <3>4, Zenon
  <2> QED
    BY <2>5, <2>6
<1> QED
  BY <1>2, <1>3, <1>4, <1>5, <1>7, <1>8, <1>9, <1>11, <1>12, <1>13, Zenon
     DEF Step, UnlockStep, LockStep, ChangeStep

-----------------------------------------------------------------------------
(* The invariant *)

(* After a lock that nothing overlapped there is nothing left to explain. *)
LEMMA CalmLeaves ==
    ASSUME OverlapTypeOK', StageInv', QuietInv', calm'
    PROVE  MemoryOK' /\ LoadOK' /\ OriginOK'
<1>1. Loading' = {} /\ vmk' = 0 /\ conn' = 0 /\ ~uuid' /\ sessions' = {}
  BY Zenon DEF QuietInv
<1>2. \A d \in Clients : task'[d].at \in CloseStages \cup {"idle"}
  BY <1>1, NotLoading, Zenon
<1>3. \A d \in Clients : NeedsMemory(d)'
  BY <1>2 DEF NeedsMemory, CloseStages, OpenStages
<1>4. \A d \in Clients : Cleared(d)'
  BY <1>1, Zenon DEF Cleared
<1>5. \A d \in Clients : LoadsFile(d)'
  BY <1>2, KeylessLoads, Zenon DEF KeylessSteps
<1>6. \A d \in Clients : OfPresentKey(d)'
  BY <1>2, KeyfreeOf DEF KeyfreeSteps
<1>7. sessions' \cap told' \subseteq proved'
  BY <1>1
<1> QED
  BY <1>1, <1>3, <1>4, <1>5, <1>6, <1>7, Zenon DEF MemoryOK, LoadOK, OriginOK

LEMMA ThreadInvInit == OverlapInit => ThreadInv
<1>1. SUFFICES ASSUME OverlapInit PROVE ThreadInv
  BY Zenon
<1>2. \A c \in Clients : /\ task[c] = NoTask /\ task[c].kind = "none" /\ task[c].at = "idle" /\ task[c].key = 0
  BY <1>1 DEF OverlapInit, NoTask
<1>3. vmk = 0 /\ conn = 0 /\ ~uuid /\ sessions = {} /\ quiet = {} /\ ~calm /\ met = {} /\ proved = {} /\ told = {}
  BY <1>1 DEF OverlapInit
<1>4. /\ meta \in [key : Keys, mac : Keys, copies : BOOLEAN] /\ file \in Keys /\ fresh \in 1 .. MaxKeys + 1
      /\ meta.key < fresh /\ meta.key = file
  <2>1. CASE meta = [key |-> 1, mac |-> 1, copies |-> TRUE] /\ file = 1 /\ fresh = 2
    BY <2>1 DEF Keys
  <2>2. CASE meta = [key |-> 0, mac |-> 0, copies |-> FALSE] /\ file = 0 /\ fresh = 1
    BY <2>2 DEF Keys
  <2> QED
    BY <1>1, <2>1, <2>2, Zenon DEF OverlapInit
<1>5. NoTask \in Tasks
  BY DEF NoTask, Tasks, Steps, Keys
<1>6. task \in [Clients -> Tasks] /\ origin \in [Clients -> Keys]
  <2>1. 0 \in Keys
    BY DEF Keys
  <2> QED
    BY <1>1, <1>5, <2>1 DEF OverlapInit
<1>7. OverlapTypeOK
  <2>1. \A c \in Clients : task[c].key < fresh
    BY <1>2, <1>4
  <2>2. uuid \in BOOLEAN /\ calm \in BOOLEAN
    BY <1>1, Zenon DEF OverlapInit
  <2>4. 0 \in Keys
    BY DEF Keys
  <2>3. task \in [Clients -> [kind : AllRequestKinds \cup {"none"}, at : Steps, key : Keys]]
    BY <1>6, Zenon DEF Tasks
  <2> QED
    BY <1>3, <1>4, <1>6, <2>1, <2>2, <2>3, <2>4, Zenon DEF OverlapTypeOK
<1>8. StageInv
  BY <1>2, <1>3, <1>4, Zenon DEF StageInv, Staged, KeyedStages, CreateStages, OpenStages, ChangeStages
<1>9. Loading = {} /\ Closing = {} /\ Creating = {} /\ Changing = {}
  BY <1>2 DEF Loading, Closing, Creating, Changing
<1>10. NoFileInv /\ QuietInv /\ OverlapInv /\ CreateInv
  BY <1>2, <1>3, <1>4, <1>9, Zenon DEF NoFileInv, QuietInv, OverlapInv, CreateInv, CreateOK
<1>11. \A c \in Clients : NeedsMemory(c) /\ Cleared(c) /\ LoadsFile(c) /\ OfPresentKey(c)
  BY <1>2 DEF NeedsMemory, Cleared, LoadsFile, OfPresentKey, OpenStages
<1>12. MemoryOK /\ LoadOK /\ OriginOK
  BY <1>3, <1>11 DEF MemoryOK, LoadOK, OriginOK
<1> QED
  BY <1>7, <1>8, <1>10, <1>12, Zenon DEF ThreadInv, MemoryInv, LoadInv, OriginInv

LEMMA ThreadInvNext ==
    ASSUME ThreadInv, OverlapNext
    PROVE  ThreadInv'
<1>1. PICK c \in Clients : Step(c)
  BY Zenon DEF OverlapNext, Step
<1>2. /\ OverlapTypeOK /\ StageInv /\ NoFileInv /\ QuietInv /\ OverlapInv
      /\ CreateInv /\ MemoryInv /\ LoadInv /\ OriginInv
  BY DEF ThreadInv
<1>3. met' = (IF calm' THEN met \cap {"create_create"} ELSE met) \cup Overlaps'
  BY DEF OverlapNext
<1>4. OverlapTypeOK' /\ meta'.key < fresh'
  BY <1>1, <1>2, <1>3, TypeNext, Zenon
<1>5. StageInv'
  BY <1>1, <1>2, <1>4, StageStep, Zenon DEF StageInv
<1>6. NoFileInv' /\ QuietInv'
  BY <1>1, <1>2, NoFileStep, QuietStep, Zenon
<1>7. /\ OverlapInv' /\ ("create_create" \notin met' => "create_create" \notin met)
      /\ ~calm' => met \subseteq met'
  BY <1>1, <1>3, MetStep, Zenon
<1>8. CreateInv'
  BY <1>1, <1>7, CreateStep, Zenon DEF CreateInv
<1>9. /\ "close_load" \notin met => NoClash
      /\ "close_load" \notin met' => NoClash'
      /\ "change_load" \notin met' => Alone'
  BY <1>2, <1>4, <1>5, <1>7, NotClashing, NotClashingNext, Zenon
<1>10. CASE calm'
  BY <1>4, <1>5, <1>6, <1>7, <1>8, <1>10, CalmLeaves, Zenon DEF ThreadInv, MemoryInv, LoadInv, OriginInv
<1>11. CASE ~calm'
  <2>1. ASSUME "close_load" \notin met' PROVE MemoryOK'
    <3>1. "close_load" \notin met
      BY <1>7, <1>11, <2>1
    <3> QED
      BY <1>1, <1>2, <1>9, <2>1, <3>1, MemoryStep, Zenon DEF MemoryInv
  <2>2. ASSUME met' \cap {"close_load", "change_load"} = {} PROVE LoadOK'
    <3>1. "close_load" \notin met' /\ "change_load" \notin met' /\ met \cap {"close_load", "change_load"} = {}
      BY <1>7, <1>11, <2>2
    <3> QED
      BY <1>1, <1>2, <1>4, <1>5, <1>9, <3>1, LoadStep, Zenon DEF LoadInv
  <2>3. ASSUME met' = {} PROVE OriginOK'
    <3>1. "change_load" \notin met' /\ "close_load" \notin met /\ "create_create" \notin met /\ met = {}
      BY <1>7, <1>11, <2>3
    <3> QED
      BY <1>1, <1>2, <1>4, <1>5, <1>9, <3>1, OriginStep, Zenon DEF OriginInv, MemoryInv, CreateInv
  <2> QED
    BY <1>4, <1>5, <1>6, <1>7, <1>8, <2>1, <2>2, <2>3, Zenon DEF ThreadInv, MemoryInv, LoadInv,
       OriginInv
<1> QED
  BY <1>10, <1>11

LEMMA ThreadInvStutter ==
    ASSUME ThreadInv, UNCHANGED overlapVars
    PROVE  ThreadInv'
<1>1. /\ meta' = meta /\ file' = file /\ vmk' = vmk /\ conn' = conn /\ uuid' = uuid /\ sessions' = sessions
      /\ task' = task /\ fresh' = fresh /\ origin' = origin /\ proved' = proved /\ told' = told
      /\ quiet' = quiet /\ calm' = calm /\ met' = met
  BY DEF overlapVars, overlapHistory, memory
<1>2. Loading' = Loading /\ Closing' = Closing /\ Creating' = Creating /\ Changing' = Changing
  BY <1>1, Zenon DEF Loading, Closing, Creating, Changing
<1>3. OverlapTypeOK' /\ StageInv' /\ NoFileInv'
  BY <1>1, Zenon DEF ThreadInv, OverlapTypeOK, StageInv, Staged, NoFileInv
<1>4. QuietInv' /\ OverlapInv' /\ CreateInv'
  BY <1>1, <1>2, Zenon DEF ThreadInv, QuietInv, Cleared, OverlapInv, CreateInv, CreateOK
<1>5. MemoryInv'
  BY <1>1, Zenon DEF ThreadInv, MemoryInv, MemoryOK, SomeoneAt, NeedsMemory, Cleared
<1>6. LoadInv'
  BY <1>1, Zenon DEF ThreadInv, LoadInv, LoadOK, LoadsFile
<1>7. OriginInv'
  BY <1>1, Zenon DEF ThreadInv, OriginInv, OriginOK, OfPresentKey, SomeoneAt
<1> QED
  BY <1>3, <1>4, <1>5, <1>6, <1>7, Zenon DEF ThreadInv

LEMMA ThreadInvAlways == OverlapSpec => []ThreadInv
<1>1. ThreadInv /\ [OverlapNext]_overlapVars => ThreadInv'
  BY ThreadInvNext, ThreadInvStutter
<1> QED
  BY <1>1, ThreadInvInit, PTL DEF OverlapSpec

(* With no request under way nobody is at a step. *)
LEMMA NooneAt ==
    ASSUME Quiescent
    PROVE  \A c \in Clients : task[c].at = "idle"
<1>1. \A c \in Clients : task[c] = NoTask
  BY DEF Quiescent, InFlight
<1> QED
  BY <1>1 DEF NoTask

(* However many clients there are, and however their requests overlap, a   *)
(* client that was sent a session got it after its second factor was       *)
(* verified, as long as no unlock met a lock or a password change: the     *)
(* steps of other unlocks between CreateSession and the TOTP check of an   *)
(* unlock do not open its gate.                                            *)
THEOREM SecondFactorAlwaysKept == OverlapSpec => []SecondFactorKept
<1>1. ThreadInv => SecondFactorKept
  BY Zenon DEF ThreadInv, LoadInv, LoadOK, SecondFactorKept, SecondFactor, NeverMet
<1> QED
  BY <1>1, ThreadInvAlways, PTL

(* However many clients there are, and however their requests overlap, a   *)
(* lock that nothing overlapped leaves nothing in memory; and with no      *)
(* request under way key, connection and sessions are there together, the  *)
(* sessions are those of the present password, and the sidecar wraps the   *)
(* key of the database file, unless the overlaps that each part names      *)
(* happened.                                                               *)
THEOREM VaultAlwaysConsistent == OverlapSpec => []VaultConsistent
<1>1. ASSUME ThreadInv PROVE VaultConsistent
  <2>1. OverlapTypeOK /\ LockHolds
    BY <1>1, Zenon DEF ThreadInv, QuietInv, LockHolds
  <2>2. ASSUME Quiescent, NEW S, "idle" \notin S PROVE ~SomeoneAt(S)
    BY <2>2, NooneAt, Zenon DEF SomeoneAt
  <2>3. ASSUME Quiescent
        PROVE  /\ ~SomeoneAt({"clear_uuid", "revoke_all"}) /\ ~SomeoneAt({"set_db", "clear_vmk"})
               /\ ~SomeoneAt({"create_header", "create_open"}) /\ ~SomeoneAt({"change_vmk", "revoke_others"})
    <3>1. /\ "idle" \notin {"clear_uuid", "revoke_all"} /\ "idle" \notin {"set_db", "clear_vmk"}
          /\ "idle" \notin {"create_header", "create_open"} /\ "idle" \notin {"change_vmk", "revoke_others"}
      OBVIOUS
    <3> QED
      BY <2>2, <2>3, <3>1, Zenon
  <2>4. LockedTogether
    <3>1. SUFFICES ASSUME Quiescent, NeverMet({"close_load"})
                   PROVE  (vmk = 0 <=> conn = 0) /\ (sessions # {} => vmk # 0)
      BY Zenon DEF LockedTogether
    <3>2. "close_load" \notin met
      BY <3>1 DEF NeverMet
    <3>3. MemoryOK
      BY <1>1, <3>2, Zenon DEF ThreadInv, MemoryInv
    <3> QED
      BY <2>3, <3>1, <3>3, Zenon DEF MemoryOK
  <2>5. OldSessionsEnded
    BY <1>1, <2>3, Zenon DEF ThreadInv, OriginInv, OriginOK, OldSessionsEnded
  <2>6. FilesAgree
    <3>1. NeverMet({"create_create"}) => "create_create" \notin met
      BY DEF NeverMet
    <3> QED
      BY <1>1, <3>1, Zenon DEF ThreadInv, CreateInv, CreateOK, FilesAgree
  <2> QED
    BY <2>1, <2>4, <2>5, <2>6 DEF VaultConsistent
<1> QED
  BY <1>1, ThreadInvAlways, PTL
=============================================================================
