------------------------ MODULE DualRepositoryProofs ------------------------
(***************************************************************************)
(* The dual repository implements the repository that the routes expect,   *)
(* for every set of accounts, resources, values and concurrent calls.  The *)
(* mapping turns the phases after the primary has answered into one; the   *)
(* only fact about reachable states that it needs is DualTypeOK.           *)
(***************************************************************************)
EXTENDS DualRepository, TLAPS

(* A call whose phase and answer change is otherwise as it was.            *)
LEMMA CallChanged ==
    ASSUME DualTypeOK, NEW c \in Calls, NEW t, NEW a
    PROVE  [call[c] EXCEPT !.at = t, !.ans = a] = [at |-> t, req |-> call[c].req, ans |-> a]
<1> DEFINE x == call[c]
           y == [x EXCEPT !.at = t, !.ans = a]
<1>1. x \in [at : {x.at}, req : {x.req}, ans : {x.ans}]
  BY Zenon DEF DualTypeOK
<1> HIDE DEF x
<1>2. y \in [at : {t}, req : {x.req}, ans : {a}]
  BY <1>1, Zenon
<1> HIDE DEF y
<1>3. y = [at |-> t, req |-> x.req, ans |-> a]
  BY <1>2, Zenon
<1> QED
  BY <1>3, Zenon DEF x, y

(* A request changes a typed store into a typed store and has an answer.   *)
LEMMA RequestTyped ==
    ASSUME NEW r \in Requests,
           users \in [Ids -> Vals \cup {None}],
           res \in [Ids -> [Names -> Vals \cup {None}]]
    PROVE  /\ UsersAfter(users, r) \in [Ids -> Vals \cup {None}]
           /\ ResAfter(res, r) \in [Ids -> [Names -> Vals \cup {None}]]
           /\ Answer(users, res, r)
                \in Vals \cup Ids \cup {None, "USER_EXISTS", "false", "done"}
<1>1. UsersAfter(users, r) \in [Ids -> Vals \cup {None}]
  BY DEF UsersAfter, Requests
<1>2. ResAfter(res, r) \in [Ids -> [Names -> Vals \cup {None}]]
  BY DEF ResAfter, Requests
<1>3. Answer(users, res, r) \in Vals \cup Ids \cup {None, "USER_EXISTS", "false", "done"}
  BY DEF Answer, Requests
<1> QED
  BY <1>1, <1>2, <1>3

(* The type invariant holds at first. *)
LEMMA TypeInit == DualInit => DualTypeOK
  BY DEF DualInit, DualTypeOK, Idle

(* Every step preserves it. *)
LEMMA TypeNext == DualTypeOK /\ [DualNext]_dualVars => DualTypeOK'
<1> SUFFICES ASSUME DualTypeOK, [DualNext]_dualVars PROVE DualTypeOK'
  OBVIOUS
<1> USE DEF DualTypeOK
<1>1. ASSUME NEW c \in Calls, NEW r \in Requests, DualBegin(c, r) PROVE DualTypeOK'
  BY <1>1 DEF DualBegin, Begin, Idle
<1>2. ASSUME NEW c \in Calls, DualPrimary(c) PROVE DualTypeOK'
  <2>1. call[c].req \in Requests
    BY <1>2 DEF DualPrimary
  <2> DEFINE a == Answer(users, res, call[c].req)
  <2>2. /\ users' \in [Ids -> Vals \cup {None}]
        /\ res' \in [Ids -> [Names -> Vals \cup {None}]]
        /\ a \in Vals \cup Ids \cup {None, "USER_EXISTS", "false", "done"}
    BY <1>2, <2>1, RequestTyped DEF DualPrimary
  <2>3. PICK t \in {"mirror", "answer"} : call' = [call EXCEPT ![c].at = t, ![c].ans = a]
    BY <1>2, Zenon DEF DualPrimary
  <2> HIDE DEF a
  <2>4. seen' = seen
    BY <1>2 DEF DualPrimary
  <2>5. call' \in [Calls -> [at : {"idle", "called", "mirror", "copy", "answer"},
                            req : Requests \cup {None},
                            ans : Vals \cup Ids \cup {None, "USER_EXISTS", "false", "done"}]]
    <3>1. [call[c] EXCEPT !.at = t, !.ans = a]
            \in [at : {"idle", "called", "mirror", "copy", "answer"},
                req : Requests \cup {None},
                ans : Vals \cup Ids \cup {None, "USER_EXISTS", "false", "done"}]
      <4>1. [call[c] EXCEPT !.at = t, !.ans = a] = [at |-> t, req |-> call[c].req, ans |-> a]
        <5> HIDE DEF DualTypeOK
        <5> QED
          BY CallChanged, Zenon
      <4> QED
        BY <2>1, <2>2, <4>1
    <3> QED
      BY <2>3, <3>1
  <2>6. \A d \in Calls : call'[d].req = call[d].req /\ (d # c => call'[d].at = call[d].at)
    BY <2>3
  <2> QED
    BY <2>1, <2>2, <2>4, <2>5, <2>6
<1>3. ASSUME NEW c \in Calls, DualReply(c) PROVE DualTypeOK'
  BY <1>3 DEF DualReply, Idle
<1>4. ASSUME NEW c \in Calls, MirrorWrite(c) PROVE DualTypeOK'
  BY <1>4 DEF MirrorWrite, Mirrored
<1>5. ASSUME NEW c \in Calls, MirrorRead(c) PROVE DualTypeOK'
  <2>1. call[c].req \in Requests
    BY <1>5 DEF MirrorRead
  <2>2. users[call[c].req.id] \in Vals \cup {None}
    BY <2>1 DEF Requests
  <2> QED
    BY <1>5, <2>1, <2>2 DEF MirrorRead
<1>6. ASSUME NEW c \in Calls, MirrorCopy(c) PROVE DualTypeOK'
  <2>1. call[c].req \in Requests
    BY <1>6 DEF MirrorCopy
  <2>2. call' = [call EXCEPT ![c].at = "answer"] /\ seen' = [seen EXCEPT ![c] = None]
        /\ users' = users /\ res' = res
    BY <1>6 DEF MirrorCopy, Mirrored
  <2> QED
    BY <2>1, <2>2
<1>7. ASSUME NEW c \in Calls, MirrorFails(c) PROVE DualTypeOK'
  BY <1>7 DEF MirrorFails, Mirrored
<1>8. CASE BackfillLoad \/ BackfillInsert \/ BackfillSet \/ BackfillAdvance
           \/ (\E i \in Ids : BackfillFind(i)) \/ (\E n \in Names : BackfillRead(n))
  BY <1>8, Zenon DEF BackfillLoad, BackfillInsert, BackfillSet, BackfillAdvance, BackfillFind,
              BackfillRead, BackfillVars
<1>9. CASE UNCHANGED dualVars
  BY <1>9 DEF dualVars
<1> QED
  BY <1>1, <1>2, <1>3, <1>4, <1>5, <1>6, <1>7, <1>8, <1>9 DEF DualNext

(* Stores, calls and answers keep their types. *)
THEOREM TypeCorrect == DualSpec => []DualTypeOK
  BY TypeInit, TypeNext, PTL DEF DualSpec

(* An initial state of the dual repository is one of the abstract one. *)
LEMMA InitImplements == DualInit => Abstract!RepoInit
<1> SUFFICES ASSUME DualInit PROVE Abstract!RepoInit
  OBVIOUS
<1>1. AbstractCall = [c \in Calls |-> Idle]
  BY DEF DualInit, AbstractCall, Idle
<1>2. Abstract!Idle = Idle
  BY DEF Abstract!Idle, Idle
<1>3. res \in [Ids -> [Names -> Vals \cup {None}]]
  BY DEF DualInit
<1> QED
  BY <1>1, <1>2, <1>3 DEF DualInit, Abstract!RepoInit

(* The call on the primary is the moment at which the call takes effect. *)
LEMMA PrimaryImplements ==
    ASSUME DualTypeOK, NEW c \in Calls, DualPrimary(c)
    PROVE  Abstract!TakeEffect(c)
<1> DEFINE r == call[c].req
           a == Answer(users, res, r)
<1>1. AbstractCall[c] = call[c] /\ call[c].at = "called"
  BY DEF DualPrimary, AbstractCall
<1>2. AbstractCall' = [AbstractCall EXCEPT ![c].at = "taken", ![c].ans = a]
  <2>1. PICK t \in {"mirror", "answer"} : call' = [call EXCEPT ![c].at = t, ![c].ans = a]
    BY Zenon DEF DualPrimary
  <2>2. \A d \in Calls : d # c => call'[d] = call[d]
    BY DEF DualPrimary, DualTypeOK
  <2>3. AbstractCall'[c] = [at |-> "taken", req |-> r, ans |-> a]
    <3>1. call'[c] = [at |-> t, req |-> r, ans |-> a]
      <4>1. call'[c] = [call[c] EXCEPT !.at = t, !.ans = a]
        BY <2>1, Zenon DEF DualTypeOK
      <4> QED
        BY <4>1, CallChanged, Zenon
    <3> HIDE DEF r, a
    <3> QED
      BY <3>1 DEF AbstractCall
  <2>4. \A d \in Calls : d # c => AbstractCall'[d] = AbstractCall[d]
    BY <2>2 DEF AbstractCall
  <2>5. [AbstractCall[c] EXCEPT !.at = "taken", !.ans = a]
          = [at |-> "taken", req |-> r, ans |-> a]
    <3>1. call[c] \in [at : {"idle", "called", "mirror", "copy", "answer"},
                       req : Requests \cup {None},
                       ans : Vals \cup Ids \cup {None, "USER_EXISTS", "false", "done"}]
      BY DEF DualTypeOK
    <3> DEFINE e == [call[c] EXCEPT !.at = "taken", !.ans = a]
    <3> HIDE DEF a
    <3>2. e \in [at : {"taken"}, req : {r}, ans : {a}]
      BY <3>1, Zenon
    <3> HIDE DEF e, r
    <3>3. e = [at |-> "taken", req |-> r, ans |-> a]
      BY <3>2
    <3> QED
      BY <1>1, <3>3 DEF e
  <2>6. AbstractCall = [d \in Calls |-> AbstractCall[d]]
        /\ AbstractCall' = [d \in Calls |-> AbstractCall'[d]]
    BY DEF AbstractCall
  <2> DEFINE f == AbstractCall
             g == AbstractCall'
             x == [at |-> "taken", req |-> r, ans |-> a]
  <2> HIDE DEF f, g, x
  <2>7. g = [f EXCEPT ![c] = x]
    BY <2>3, <2>4, <2>6 DEF f, g, x
  <2>8. [f EXCEPT ![c] = x] = [f EXCEPT ![c].at = "taken", ![c].ans = a]
    BY <2>5, <2>6, Zenon DEF f, x
  <2> QED
    BY <2>7, <2>8 DEF f, g
<1>3. users' = Abstract!UsersAfter(users, r) /\ res' = Abstract!ResAfter(res, r)
      /\ a = Abstract!Answer(users, res, r)
  BY Zenon DEF DualPrimary, Abstract!UsersAfter, Abstract!ResAfter, Abstract!Answer,
         Abstract!EmailTaken, UsersAfter, ResAfter, Answer, EmailTaken
<1> QED
  BY <1>1, <1>2, <1>3 DEF Abstract!TakeEffect

(* A step after the primary has answered shows nothing. *)
LEMMA MirrorStutters ==
    ASSUME DualTypeOK, NEW c \in Calls,
           call[c].at \in {"mirror", "copy"},
           NEW at \in {"mirror", "copy", "answer"},
           call' = [call EXCEPT ![c].at = at]
    PROVE  AbstractCall' = AbstractCall
<1>1. \A d \in Calls : d # c => call'[d] = call[d]
  BY DEF DualTypeOK
<1>2. AbstractCall'[c] = AbstractCall[c]
  BY Zenon DEF AbstractCall, DualTypeOK
<1> QED
  BY <1>1, <1>2 DEF AbstractCall

(* Every step of the dual repository is a step of the abstract one, or     *)
(* leaves what the routes see as it was.                                   *)
LEMMA NextImplements ==
    DualTypeOK /\ [DualNext]_dualVars
    => [Abstract!RepoNext]_Abstract!repoVars
<1> SUFFICES ASSUME DualTypeOK, [DualNext]_dualVars
             PROVE  Abstract!RepoNext \/ UNCHANGED <<users, res, AbstractCall>>
  BY DEF Abstract!repoVars
<1>1. ASSUME NEW c \in Calls, NEW r \in Requests, DualBegin(c, r)
      PROVE  Abstract!RepoNext
  <2>1. AbstractCall[c] = Idle
    BY <1>1 DEF DualBegin, Begin, AbstractCall, Idle
  <2>2. AbstractCall' = [AbstractCall EXCEPT ![c] =
                           [at |-> "called", req |-> r, ans |-> None]]
    BY <1>1, Zenon DEF DualBegin, Begin, AbstractCall, DualTypeOK
  <2>3. Abstract!Begin(c, r)
    BY <1>1, <2>1, <2>2 DEF DualBegin, Begin, Abstract!Begin, Abstract!Idle, Idle
  <2>4. r \in Abstract!Requests
    BY DEF Requests, Abstract!Requests
  <2>5. AbstractCall'[c].at = "called"
    BY <2>2 DEF AbstractCall
  <2> QED
    BY <2>3, <2>4, <2>5 DEF Abstract!RepoNext
<1>2. ASSUME NEW c \in Calls, DualPrimary(c) PROVE Abstract!RepoNext
  BY <1>2, PrimaryImplements DEF Abstract!RepoNext
<1>3. ASSUME NEW c \in Calls, DualReply(c) PROVE Abstract!RepoNext
  <2>1. AbstractCall[c].at = "taken"
    BY <1>3 DEF DualReply, AbstractCall, DualTypeOK
  <2>2. AbstractCall' = [AbstractCall EXCEPT ![c] = Idle]
    BY <1>3, Zenon DEF DualReply, AbstractCall, DualTypeOK, Idle
  <2> QED
    BY <1>3, <2>1, <2>2, Zenon DEF DualReply, Abstract!Reply, Abstract!RepoNext, Abstract!Idle, Idle
<1>4. ASSUME NEW c \in Calls, MirrorWrite(c) \/ MirrorRead(c) \/ MirrorCopy(c) \/ MirrorFails(c)
      PROVE  UNCHANGED <<users, res, AbstractCall>>
  <2>1. /\ call[c].at \in {"mirror", "copy"} /\ UNCHANGED <<users, res>>
        /\ \E at \in {"copy", "answer"} : call' = [call EXCEPT ![c].at = at]
    BY <1>4 DEF MirrorWrite, MirrorRead, MirrorCopy, MirrorFails, Mirrored
  <2> QED
    BY <2>1, MirrorStutters, Zenon
<1>5. CASE BackfillLoad \/ BackfillInsert \/ BackfillSet \/ BackfillAdvance
           \/ (\E i \in Ids : BackfillFind(i)) \/ (\E n \in Names : BackfillRead(n))
  BY <1>5, Zenon DEF BackfillLoad, BackfillInsert, BackfillSet, BackfillAdvance, BackfillFind,
              BackfillRead, BackfillVars, AbstractCall
<1>6. CASE UNCHANGED dualVars
  BY <1>6 DEF dualVars, AbstractCall
<1> QED
  BY <1>1, <1>2, <1>3, <1>4, <1>5, <1>6 DEF DualNext

(* The routes cannot tell the dual repository from the file repository,    *)
(* whatever the mirror and the backfill do.                                *)
THEOREM DualImplementsRepository == DualSpec => FileSemanticsKept
  BY TypeCorrect, InitImplements, NextImplements, PTL
  DEF DualSpec, FileSemanticsKept, Abstract!RepoSpec
-----------------------------------------------------------------------------
(* Why the mirrors agree *)

Updates == {"updateUserById", "skipUpdate"}

Nothing == [n \in Names |-> None]

(* What Postgres should hold for the resources of an account. *)
Shown(i) == IF users[i] # None THEN res[i] ELSE Nothing

BackfillOK ==
    /\ backfill \in [at : {"off", "next", "insert", "names", "set", "failed", "done"},
                     loaded : [Ids -> Vals \cup {None}], todo : SUBSET Ids,
                     id : Ids \cup {None}, names : SUBSET Names,
                     name : Names \cup {None}, val : Vals \cup {None}]
    /\ backfill.at \in {"insert", "names", "set"} => backfill.id \in Ids
    /\ "backfill" \notin offer => backfill.at = "off"
    /\ backfill.at = "done" => backfill.todo = {}

(* An id that was not drawn has nothing, and an account whose insertion    *)
(* has not reached the primary is nobody else's and has nothing yet.       *)
IdsInv ==
    /\ history \in [overlap : BOOLEAN, failed : BOOLEAN, ids : SUBSET Ids]
    /\ \A i \in Ids \ history.ids :
          users[i] = None /\ res[i] = Nothing /\ backfill.loaded[i] = None
    /\ \A c \in Calls : call[c].at # "idle" => call[c].req.id \in history.ids
    /\ \A c \in Calls : call[c].at = "called" /\ call[c].req.op = "insertUser" =>
          LET i == call[c].req.id
          IN /\ users[i] = None /\ res[i] = Nothing /\ backfill.loaded[i] = None
             /\ \A d \in Calls \ {c} : call[d].at # "idle" => call[d].req.id # i

(* A row is deleted only once its account is, and an update writes a value. *)
RowsInv ==
    /\ sUsers \in [Ids -> Vals \cup {None}]
    /\ \A c \in Calls :
          /\ call[c].at = "mirror" /\ call[c].req.op = "deleteUserById" =>
                users[call[c].req.id] = None
          /\ call[c].at = "copy" => seen[c] # None

(* The accounts the backfill has dealt with have a row, if they exist. *)
CoverInv ==
    backfill.at \notin {"off", "failed"} =>
        \A i \in Ids \ backfill.todo :
            /\ backfill.loaded[i] # None
            /\ users[i] # None
            /\ ~(backfill.at = "insert" /\ backfill.id = i)
            => sUsers[i] # None

Sequential == ~history.overlap /\ ~history.failed /\ "backfill" \notin offer

(* Postgres holds what the files hold, or will once it has served r. *)
Level == sUsers = users /\ \A i \in Ids : sRes[i] = Shown(i)

Behind(r) ==
    ~MirrorRefused(r) =>
        users = UsersAfter(sUsers, r) /\ \A i \in Ids : MirrorRes(sRes, r)[i] = Shown(i)

(* Between the primary and the mirror of a call, Postgres is one call      *)
(* behind; otherwise it is level with the files.                           *)
ParityInv ==
    Sequential =>
        /\ sRes \in [Ids -> [Names -> Vals \cup {None}]]
        /\ \A c, d \in Calls : call[c].at # "idle" /\ call[d].at # "idle" => c = d
        /\ (\A c \in Calls : call[c].at \notin {"mirror", "copy"}) => Level
        /\ \A c \in Calls :
              /\ call[c].at \in {"mirror", "copy"} => Behind(call[c].req)
              /\ call[c].at = "copy" =>
                    /\ call[c].req.op \in Updates
                    /\ seen[c] = users[call[c].req.id] /\ users[call[c].req.id] # None

MirrorInv == DualTypeOK /\ BackfillOK /\ IdsInv /\ RowsInv /\ CoverInv /\ ParityInv

(* A step of a call leaves the other calls alone.                          *)
LEMMA CallMoves ==
    ASSUME DualTypeOK, NEW c \in Calls, NEW t, call' = [call EXCEPT ![c].at = t]
    PROVE  /\ \A d \in Calls \ {c} : call'[d] = call[d]
           /\ call'[c].at = t
           /\ call'[c].req = call[c].req
  BY DEF DualTypeOK

(* So does the call on the primary, and it goes on to the mirror unless it *)
(* was a read or an insert that threw.                                     *)
LEMMA PrimaryMoves ==
    ASSUME DualTypeOK, NEW c \in Calls, DualPrimary(c)
    PROVE  /\ \A d \in Calls \ {c} : call'[d] = call[d]
           /\ call[c].at = "called" /\ call[c].req \in Requests
           /\ call'[c].at \in {"mirror", "answer"}
           /\ call'[c].at = "answer" <=>
                 \/ call[c].req.op \in Reads
                 \/ call[c].req.op = "insertUser" /\ EmailTaken(users, call[c].req.id)
           /\ call'[c].req = call[c].req
           /\ users' = UsersAfter(users, call[c].req)
           /\ res' = ResAfter(res, call[c].req)
           /\ UNCHANGED <<offer, sUsers, sRes, seen, backfill, history>>
<1> DEFINE ended == \/ call[c].req.op \in Reads
                    \/ call[c].req.op = "insertUser" /\ EmailTaken(users, call[c].req.id)
           t == IF ended THEN "answer" ELSE "mirror"
           a == Answer(users, res, call[c].req)
<1>1. call' = [call EXCEPT ![c].at = t, ![c].ans = a]
  BY Zenon DEF DualPrimary
<1>2. t \in {"mirror", "answer"} /\ (t = "answer" <=> ended)
  OBVIOUS
<1> HIDE DEF t, a, ended
<1>3. /\ \A d \in Calls \ {c} : call'[d] = call[d]
      /\ call'[c].at = t /\ call'[c].req = call[c].req
  BY <1>1, Zenon DEF DualTypeOK
<1>4. call[c].at = "called" /\ call[c].req \in Requests
  BY DEF DualPrimary, DualTypeOK
<1>5. /\ users' = UsersAfter(users, call[c].req)
      /\ res' = ResAfter(res, call[c].req)
      /\ UNCHANGED <<offer, sUsers, sRes, seen, backfill, history>>
  BY Zenon DEF DualPrimary
<1> QED
  BY <1>2, <1>3, <1>4, <1>5, Zenon DEF ended

(* A request changes nothing but what belongs to its account, and only an  *)
(* insert gives a row to an account that had none.                         *)
LEMMA OwnAccountOnly ==
    ASSUME NEW r \in Requests, NEW us \in [Ids -> Vals \cup {None}]
    PROVE  /\ r.id \in Ids
           /\ UsersAfter(us, r) \in [Ids -> Vals \cup {None}]
           /\ \A i \in Ids \ {r.id} : UsersAfter(us, r)[i] = us[i]
           /\ r.op # "insertUser" /\ us[r.id] = None => UsersAfter(us, r)[r.id] = None
           /\ r.op = "deleteUserById" => UsersAfter(us, r)[r.id] = None
           /\ r.op # "deleteUserById" /\ us[r.id] # None => UsersAfter(us, r)[r.id] # None
<1>1. r.id \in Ids /\ (r.op \in {"insertUser", "updateUserById"} => r.val \in Vals)
  BY DEF Requests
<1>2. UsersAfter(us, r) \in [Ids -> Vals \cup {None}]
      /\ \A i \in Ids \ {r.id} : UsersAfter(us, r)[i] = us[i]
  BY <1>1 DEF UsersAfter
<1>3. /\ r.op # "insertUser" /\ us[r.id] = None => UsersAfter(us, r)[r.id] = None
      /\ r.op = "deleteUserById" => UsersAfter(us, r)[r.id] = None
      /\ r.op # "deleteUserById" /\ us[r.id] # None => UsersAfter(us, r)[r.id] # None
  BY <1>1, NoneAssumption DEF UsersAfter
<1> QED
  BY <1>1, <1>2, <1>3

(* The same of the resources. *)
LEMMA OwnResourcesOnly ==
    ASSUME NEW r \in Requests, NEW rs \in [Ids -> [Names -> Vals \cup {None}]]
    PROVE  /\ ResAfter(rs, r) \in [Ids -> [Names -> Vals \cup {None}]]
           /\ \A i \in Ids \ {r.id} : ResAfter(rs, r)[i] = rs[i]
<1>1. ResAfter(rs, r) \in [Ids -> [Names -> Vals \cup {None}]]
  BY DEF ResAfter, Requests
<1>2. \A i \in Ids \ {r.id} : ResAfter(rs, r)[i] = rs[i]
  BY DEF ResAfter, Requests
<1> QED
  BY <1>1, <1>2

BackfillStep ==
    \/ BackfillLoad \/ BackfillInsert \/ BackfillSet \/ BackfillAdvance
    \/ \E i \in Ids : BackfillFind(i)
    \/ \E n \in Names : BackfillRead(n)

(* The script touches neither the files nor the calls, and looks at        *)
(* users.enc only when it loads it.                                        *)
LEMMA BackfillFrame ==
    ASSUME BackfillOK, BackfillStep
    PROVE  /\ UNCHANGED <<offer, users, res, call, seen, history>>
           /\ backfill'.loaded \in {backfill.loaded, users}
           /\ "backfill" \in offer
<1>1. /\ UNCHANGED <<offer, users, res, call, seen, history>>
      /\ backfill.at # "off" \/ "backfill" \in offer
  BY Zenon DEF BackfillStep, BackfillLoad, BackfillInsert, BackfillSet, BackfillAdvance,
               BackfillFind, BackfillRead, BackfillVars
<1>2. backfill'.loaded \in {backfill.loaded, users}
  <2>1. CASE BackfillLoad
    BY <2>1, Zenon DEF BackfillLoad, BackfillVars, BackfillOK
  <2>2. CASE BackfillInsert \/ BackfillSet \/ BackfillAdvance
             \/ (\E i \in Ids : BackfillFind(i)) \/ (\E n \in Names : BackfillRead(n))
    <3>1. backfill'.loaded = backfill.loaded
      BY <2>2, Zenon DEF BackfillInsert, BackfillSet, BackfillAdvance, BackfillFind,
                         BackfillRead, BackfillVars, BackfillOK
    <3> QED BY <3>1
  <2> QED BY <2>1, <2>2 DEF BackfillStep
<1> QED
  BY <1>1, <1>2 DEF BackfillOK

(* Steps of calls leave the script and what it has loaded alone.           *)
LEMMA CallFrame ==
    ASSUME NEW c \in Calls,
           \/ \E r \in Requests : DualBegin(c, r)
           \/ DualPrimary(c) \/ DualReply(c)
           \/ MirrorWrite(c) \/ MirrorRead(c) \/ MirrorCopy(c) \/ MirrorFails(c)
    PROVE  UNCHANGED <<offer, backfill>>
  BY Zenon DEF DualBegin, DualPrimary, DualReply, MirrorWrite, MirrorRead, MirrorCopy,
               MirrorFails, Mirrored

(* The script's own variables keep their types. *)
LEMMA BackfillNext ==
    ASSUME DualTypeOK, BackfillOK, [DualNext]_dualVars
    PROVE  BackfillOK'
<1> DEFINE Ats == {"off", "next", "insert", "names", "set", "failed", "done"}
           Type == [at : Ats, loaded : [Ids -> Vals \cup {None}], todo : SUBSET Ids,
                    id : Ids \cup {None}, names : SUBSET Names,
                    name : Names \cup {None}, val : Vals \cup {None}]
<1>0. backfill \in Type
  BY DEF BackfillOK
<1>1. CASE BackfillLoad
  <2>1. {i \in Ids : users[i] # None} \in SUBSET Ids
    OBVIOUS
  <2>2. backfill' \in Type /\ backfill'.at = "next" /\ "backfill" \in offer'
    BY <1>0, <1>1, <2>1, Zenon DEF BackfillLoad, BackfillVars, DualTypeOK
  <2> QED
    BY <2>2 DEF BackfillOK
<1>2. ASSUME NEW i \in Ids, BackfillFind(i) PROVE BackfillOK'
  <2>1. backfill.todo \ {i} \in SUBSET Ids
    BY <1>0
  <2>2. /\ backfill' \in Type /\ backfill'.id = i /\ offer' = offer
        /\ backfill'.at \in {"insert", "names"}
    BY <1>0, <1>2, <2>1, Zenon DEF BackfillFind, BackfillVars
  <2>3. "backfill" \in offer
    BY <1>2 DEF BackfillFind, BackfillOK
  <2> QED
    BY <2>2, <2>3 DEF BackfillOK
<1>3. CASE BackfillInsert
  <2>1. backfill' \in Type /\ backfill'.at \in {"failed", "names"} /\ offer' = offer
    BY <1>0, <1>3, Zenon DEF BackfillInsert, BackfillVars
  <2>2. "backfill" \in offer /\ backfill.id \in Ids
    BY <1>3 DEF BackfillInsert, BackfillOK
  <2>3. backfill'.id = backfill.id
    BY <1>0, <1>3, Zenon DEF BackfillInsert, BackfillVars
  <2> QED
    BY <2>1, <2>2, <2>3 DEF BackfillOK
<1>4. ASSUME NEW n \in Names, BackfillRead(n) PROVE BackfillOK'
  <2>1. backfill.names \ {n} \in SUBSET Names
    BY <1>0
  <2>2. "backfill" \in offer /\ backfill.id \in Ids
    BY <1>4 DEF BackfillRead, BackfillOK
  <2>3. backfill' \in Type /\ backfill'.at \in {"names", "set"} /\ offer' = offer
    <3>1. CASE res[backfill.id][n] = None
      BY <1>0, <1>4, <2>1, <3>1, Zenon DEF BackfillRead, BackfillVars
    <3>2. CASE res[backfill.id][n] # None
      <4>1. res[backfill.id][n] \in Vals \cup {None}
        BY <2>2 DEF DualTypeOK
      <4> QED
        BY <1>0, <1>4, <2>1, <3>2, <4>1, Zenon DEF BackfillRead, BackfillVars
    <3> QED BY <3>1, <3>2
  <2>4. backfill'.id = backfill.id
    BY <1>0, <1>4, Zenon DEF BackfillRead, BackfillVars
  <2> QED
    BY <2>2, <2>3, <2>4 DEF BackfillOK
<1>5. CASE BackfillSet
  <2>1. backfill' \in Type /\ backfill'.at \in {"failed", "names"} /\ offer' = offer
    BY <1>0, <1>5, Zenon DEF BackfillSet, BackfillVars
  <2>2. "backfill" \in offer /\ backfill.id \in Ids
    BY <1>5 DEF BackfillSet, BackfillOK
  <2>3. backfill'.id = backfill.id
    BY <1>5, Zenon DEF BackfillSet, BackfillVars, BackfillOK
  <2> QED
    BY <2>1, <2>2, <2>3 DEF BackfillOK
<1>6. CASE BackfillAdvance
  <2>1. backfill' \in Type /\ backfill'.at \in {"next", "done"} /\ offer' = offer
    BY <1>0, <1>6, Zenon DEF BackfillAdvance, BackfillVars
  <2>2. "backfill" \in offer
    BY <1>6 DEF BackfillAdvance, BackfillOK
  <2>3. backfill'.at = "done" => backfill'.todo = {}
    BY <1>0, <1>6, Zenon DEF BackfillAdvance, BackfillVars
  <2> QED
    BY <2>1, <2>2, <2>3 DEF BackfillOK
<1>7. CASE UNCHANGED dualVars
  BY <1>7 DEF dualVars, BackfillOK
<1>8. ASSUME NEW c \in Calls, UNCHANGED <<offer, backfill>> PROVE BackfillOK'
  BY <1>8 DEF BackfillOK
<1> QED
  BY <1>1, <1>2, <1>3, <1>4, <1>5, <1>6, <1>7, <1>8, CallFrame, Zenon DEF DualNext

(* A call past the primary.                                                *)
MirrorStep(c) == MirrorWrite(c) \/ MirrorRead(c) \/ MirrorCopy(c) \/ MirrorFails(c)

(* It changes neither the files nor any other call, and draws no id.       *)
LEMMA MirrorMoves ==
    ASSUME DualTypeOK, NEW c \in Calls, MirrorStep(c)
    PROVE  /\ \A d \in Calls \ {c} : call'[d] = call[d]
           /\ call[c].at \in {"mirror", "copy"} /\ call[c].req \in Requests
           /\ call'[c].at \in {"copy", "answer"}
           /\ call'[c].req = call[c].req
           /\ UNCHANGED <<offer, users, res, backfill>>
<1>1. /\ call[c].at \in {"mirror", "copy"} /\ UNCHANGED <<offer, users, res, backfill>>
      /\ \E at \in {"copy", "answer"} : call' = [call EXCEPT ![c].at = at]
  BY DEF MirrorStep, MirrorWrite, MirrorRead, MirrorCopy, MirrorFails, Mirrored
<1> QED
  BY <1>1, CallMoves DEF DualTypeOK

(* So does the answer. *)
LEMMA ReplyMoves ==
    ASSUME DualTypeOK, NEW c \in Calls, DualReply(c)
    PROVE  /\ \A d \in Calls \ {c} : call'[d] = call[d]
           /\ call[c].at = "answer" /\ call'[c].at = "idle"
           /\ UNCHANGED <<offer, users, res, sUsers, sRes, seen, backfill, history>>
  BY DEF DualReply, Idle, DualTypeOK

(* Nobody works on an account before its insertion has reached the files.  *)
LEMMA IdsNext ==
    ASSUME DualTypeOK, BackfillOK, IdsInv, [DualNext]_dualVars
    PROVE  IdsInv'
<1>1. ASSUME NEW c \in Calls, NEW r \in Requests, DualBegin(c, r) PROVE IdsInv'
  <2>1. r.id \in Ids
    BY DEF Requests
  <2>2. /\ \A d \in Calls \ {c} : call'[d] = call[d]
        /\ call'[c].at = "called" /\ call'[c].req = r
        /\ UNCHANGED <<users, res, backfill>>
        /\ IF r.op = "insertUser" THEN r.id \notin history.ids ELSE users[r.id] # None
    BY <1>1 DEF DualBegin, Begin, DualTypeOK
  <2>3. /\ history' \in [overlap : BOOLEAN, failed : BOOLEAN, ids : SUBSET Ids]
        /\ history'.ids = history.ids \cup {r.id}
    <3>1. history.ids \cup {r.id} \in SUBSET Ids /\ (history.overlap \/ ~Alone(c)) \in BOOLEAN
      BY <2>1 DEF IdsInv
    <3> QED
      BY <1>1, <3>1, Zenon DEF DualBegin, IdsInv
  <2> QED
    BY <2>1, <2>2, <2>3 DEF IdsInv
<1>2. ASSUME NEW c \in Calls, DualPrimary(c) PROVE IdsInv'
  <2> DEFINE r == call[c].req
  <2>1. /\ \A d \in Calls \ {c} : call'[d] = call[d]
        /\ call[c].at = "called" /\ r \in Requests
        /\ call'[c].at \in {"mirror", "answer"} /\ call'[c].req = r
        /\ users' = UsersAfter(users, r) /\ res' = ResAfter(res, r)
        /\ UNCHANGED <<backfill, history>>
    BY <1>2, PrimaryMoves
  <2>2. r.id \in history.ids
    BY <2>1 DEF IdsInv
  <2> HIDE DEF r
  <2>3. \A i \in Ids \ {r.id} : users'[i] = users[i] /\ res'[i] = res[i]
    BY <2>1, OwnAccountOnly, OwnResourcesOnly DEF DualTypeOK
  <2>4. \A i \in Ids \ history.ids : users'[i] = users[i] /\ res'[i] = res[i]
    BY <2>2, <2>3
  <2>5. \A d \in Calls : call'[d].at # "idle" => call[d].at # "idle" /\ call'[d].req = call[d].req
    BY <2>1 DEF r
  <2>6. ASSUME NEW d \in Calls, call'[d].at = "called", call'[d].req.op = "insertUser"
        PROVE  LET i == call'[d].req.id
               IN /\ users'[i] = None /\ res'[i] = Nothing /\ backfill'.loaded[i] = None
                  /\ \A e \in Calls \ {d} : call'[e].at # "idle" => call'[e].req.id # i
    <3>1. d # c /\ call'[d] = call[d]
      BY <2>1, <2>6
    <3>2. call[d].req.id \in Ids \ {r.id}
      BY <2>1, <2>6, <3>1 DEF IdsInv, r, DualTypeOK, Requests
    <3>3. LET i == call[d].req.id
          IN /\ users[i] = None /\ res[i] = Nothing /\ backfill.loaded[i] = None
             /\ \A e \in Calls \ {d} : call[e].at # "idle" => call[e].req.id # i
      BY <2>6, <3>1, Zenon DEF IdsInv
    <3>4. LET i == call[d].req.id
          IN users'[i] = None /\ res'[i] = Nothing /\ backfill'.loaded[i] = None
      BY <2>1, <2>3, <3>2, <3>3, Zenon
    <3>5. \A e \in Calls \ {d} : call'[e].at # "idle" => call'[e].req.id # call[d].req.id
      BY <2>5, <3>3, Zenon
    <3> QED
      BY <3>1, <3>4, <3>5, Zenon
  <2> QED
    BY <2>1, <2>4, <2>5, <2>6 DEF IdsInv, Nothing
<1>3. ASSUME NEW c \in Calls, DualReply(c) PROVE IdsInv'
  BY <1>3, ReplyMoves DEF IdsInv
<1>4. ASSUME NEW c \in Calls, MirrorStep(c) PROVE IdsInv'
  <2>1. /\ history' \in [overlap : BOOLEAN, failed : BOOLEAN, ids : SUBSET Ids]
        /\ history'.ids = history.ids
    BY <1>4, Zenon DEF MirrorStep, MirrorWrite, MirrorRead, MirrorCopy, MirrorFails, IdsInv
  <2> QED
    BY <1>4, <2>1, MirrorMoves DEF IdsInv
<1>5. CASE BackfillStep
  BY <1>5, BackfillFrame DEF IdsInv
<1>6. CASE UNCHANGED dualVars
  BY <1>6 DEF dualVars, IdsInv
<1> QED
  BY <1>1, <1>2, <1>3, <1>4, <1>5, <1>6, Zenon DEF DualNext, MirrorStep, BackfillStep

(* A row disappears only after its account, and no update empties one.     *)
LEMMA RowsNext ==
    ASSUME DualTypeOK, BackfillOK, IdsInv, RowsInv, [DualNext]_dualVars
    PROVE  RowsInv'
<1>1. ASSUME NEW c \in Calls, NEW r \in Requests, DualBegin(c, r) PROVE RowsInv'
  BY <1>1 DEF DualBegin, Begin, DualTypeOK, RowsInv
<1>2. ASSUME NEW c \in Calls, DualPrimary(c) PROVE RowsInv'
  <2> DEFINE r == call[c].req
  <2>1. /\ \A d \in Calls \ {c} : call'[d] = call[d]
        /\ call[c].at = "called" /\ r \in Requests
        /\ call'[c].at \in {"mirror", "answer"} /\ call'[c].req = r
        /\ users' = UsersAfter(users, r)
        /\ UNCHANGED <<sUsers, seen>>
    BY <1>2, PrimaryMoves
  <2>2. /\ r.op = "deleteUserById" => users'[r.id] = None
        /\ \A i \in Ids \ {r.id} : users'[i] = users[i]
        /\ r.op # "insertUser" /\ users[r.id] = None => users'[r.id] = None
    BY <2>1, OwnAccountOnly DEF DualTypeOK
  <2>3. \A d \in Calls \ {c} : call[d].at = "mirror" /\ r.op = "insertUser"
                               => call[d].req.id # r.id
    BY <2>1 DEF IdsInv
  <2>4. \A d \in Calls : call[d].at = "mirror" => call[d].req.id \in Ids
    BY DEF DualTypeOK, Requests
  <2> HIDE DEF r
  <2> QED
    BY <2>1, <2>2, <2>3, <2>4 DEF RowsInv
<1>3. ASSUME NEW c \in Calls, DualReply(c) PROVE RowsInv'
  BY <1>3, ReplyMoves DEF RowsInv
<1>4. ASSUME NEW c \in Calls, MirrorStep(c) PROVE RowsInv'
  <2>1. /\ \A d \in Calls \ {c} : call'[d] = call[d]
        /\ call'[c].at \in {"copy", "answer"} /\ call[c].req \in Requests
        /\ users' = users
    BY <1>4, MirrorMoves
  <2>2. sUsers' \in [Ids -> Vals \cup {None}]
    <3>1. CASE MirrorWrite(c)
      BY <2>1, <3>1, OwnAccountOnly, Zenon DEF MirrorWrite, RowsInv, DualTypeOK
    <3>2. CASE MirrorCopy(c)
      BY <2>1, <3>2, Zenon DEF MirrorCopy, RowsInv, DualTypeOK
    <3>3. CASE MirrorRead(c) \/ MirrorFails(c)
      BY <3>3 DEF MirrorRead, MirrorFails, RowsInv
    <3> QED BY <1>4, <3>1, <3>2, <3>3 DEF MirrorStep
  <2>3. /\ \A d \in Calls \ {c} : seen'[d] = seen[d]
        /\ call'[c].at = "copy" => seen'[c] # None
    BY <1>4 DEF MirrorStep, MirrorWrite, MirrorRead, MirrorCopy, MirrorFails, Mirrored, DualTypeOK
  <2> QED
    BY <2>1, <2>2, <2>3 DEF RowsInv
<1>5. CASE BackfillStep
  <2>1. sUsers' \in [Ids -> Vals \cup {None}]
    <3>1. CASE BackfillInsert
      BY <3>1 DEF BackfillInsert, BackfillOK, RowsInv
    <3>2. CASE ~BackfillInsert
      BY <1>5, <3>2, Zenon DEF BackfillStep, BackfillLoad, BackfillSet, BackfillAdvance, BackfillFind,
                        BackfillRead, RowsInv
    <3> QED BY <3>1, <3>2
  <2> QED
    BY <1>5, <2>1, BackfillFrame DEF RowsInv
<1>6. CASE UNCHANGED dualVars
  BY <1>6 DEF dualVars, RowsInv
<1> QED
  BY <1>1, <1>2, <1>3, <1>4, <1>5, <1>6, Zenon DEF DualNext, MirrorStep, BackfillStep

(* The accounts the script has dealt with keep their rows.                 *)
LEMMA CoverNext ==
    ASSUME DualTypeOK, BackfillOK, IdsInv, RowsInv, CoverInv, [DualNext]_dualVars
    PROVE  CoverInv'
<1>1. ASSUME NEW c \in Calls, NEW r \in Requests, DualBegin(c, r) PROVE CoverInv'
  BY <1>1 DEF DualBegin, Begin, CoverInv
<1>2. ASSUME NEW c \in Calls, DualPrimary(c) PROVE CoverInv'
  <2> DEFINE r == call[c].req
  <2>1. /\ call[c].at = "called" /\ r \in Requests
        /\ users' = UsersAfter(users, r)
        /\ UNCHANGED <<sUsers, backfill>>
    BY <1>2, PrimaryMoves
  <2>2. /\ \A i \in Ids \ {r.id} : users'[i] = users[i]
        /\ r.op # "insertUser" /\ users[r.id] = None => users'[r.id] = None
    BY <2>1, OwnAccountOnly DEF DualTypeOK
  <2>3. r.op = "insertUser" => backfill.loaded[r.id] = None
    BY <2>1 DEF IdsInv
  <2> HIDE DEF r
  <2> QED
    BY <2>1, <2>2, <2>3 DEF CoverInv
<1>3. ASSUME NEW c \in Calls, DualReply(c) PROVE CoverInv'
  BY <1>3, ReplyMoves DEF CoverInv
<1>4. ASSUME NEW c \in Calls, MirrorStep(c) PROVE CoverInv'
  <2> DEFINE r == call[c].req
  <2>1. r \in Requests /\ UNCHANGED <<users, backfill>>
    BY <1>4, MirrorMoves
  <2>2. \A i \in Ids : sUsers[i] # None /\ users[i] # None => sUsers'[i] # None
    <3>1. CASE MirrorWrite(c)
      <4>1. sUsers' = UsersAfter(sUsers, r) /\ call[c].at = "mirror"
        BY <3>1 DEF MirrorWrite
      <4>2. /\ \A i \in Ids \ {r.id} : sUsers'[i] = sUsers[i]
            /\ r.op # "deleteUserById" /\ sUsers[r.id] # None => sUsers'[r.id] # None
        BY <2>1, <4>1, OwnAccountOnly DEF RowsInv
      <4>3. r.op = "deleteUserById" => users[r.id] = None
        BY <4>1 DEF RowsInv
      <4> HIDE DEF r
      <4> QED
        BY <4>2, <4>3
    <3>2. CASE MirrorCopy(c)
      <4>1. seen[c] # None
        BY <3>2 DEF MirrorCopy, RowsInv
      <4> QED
        BY <3>2, <4>1, Zenon DEF MirrorCopy, RowsInv
    <3>3. CASE MirrorRead(c) \/ MirrorFails(c)
      BY <3>3 DEF MirrorRead, MirrorFails
    <3> QED BY <1>4, <3>1, <3>2, <3>3 DEF MirrorStep
  <2> QED
    BY <2>1, <2>2 DEF CoverInv
<1>5. CASE BackfillLoad
  <2>1. backfill'.todo = {i \in Ids : users[i] # None} /\ users' = users
    BY <1>5, Zenon DEF BackfillLoad, BackfillVars, BackfillOK
  <2> QED
    BY <2>1 DEF CoverInv
<1>6. ASSUME NEW j \in Ids, BackfillFind(j) PROVE CoverInv'
  <2>1. /\ backfill'.at = IF sUsers[j] = None THEN "insert" ELSE "names"
        /\ backfill'.todo = backfill.todo \ {j} /\ backfill'.id = j
        /\ backfill'.loaded = backfill.loaded /\ backfill.at = "next"
        /\ UNCHANGED <<users, sUsers>>
    BY <1>6, Zenon DEF BackfillFind, BackfillVars, BackfillOK
  <2> QED
    BY <2>1 DEF CoverInv
<1>7. CASE BackfillInsert
  <2> DEFINE b == backfill.id
             refused == sUsers[b] # None \/ EmailTaken(sUsers, b)
  <2>1. /\ backfill.at = "insert" /\ b \in Ids
        /\ backfill'.at = IF refused THEN "failed" ELSE "names"
        /\ backfill'.todo = backfill.todo /\ backfill'.loaded = backfill.loaded
        /\ users' = users
    BY <1>7, Zenon DEF BackfillInsert, BackfillVars, BackfillOK
  <2>2. sUsers' = IF refused THEN sUsers ELSE [sUsers EXCEPT ![b] = backfill.loaded[b]]
    BY <1>7, Zenon DEF BackfillInsert
  <2> HIDE DEF refused
  <2> QED
    BY <2>1, <2>2 DEF CoverInv, RowsInv
<1>8. CASE BackfillSet \/ BackfillAdvance \/ \E n \in Names : BackfillRead(n)
  <2>1. /\ backfill.at \in {"next", "names", "set"} /\ backfill'.at # "insert"
        /\ backfill'.todo = backfill.todo /\ backfill'.loaded = backfill.loaded
        /\ UNCHANGED <<users, sUsers>>
    <3>1. CASE BackfillSet
      BY <3>1, Zenon DEF BackfillSet, BackfillVars, BackfillOK
    <3>2. CASE BackfillAdvance
      BY <3>2, Zenon DEF BackfillAdvance, BackfillVars, BackfillOK
    <3>3. CASE \E n \in Names : BackfillRead(n)
      BY <3>3, ZenonT(40) DEF BackfillRead, BackfillVars, BackfillOK
    <3> QED BY <1>8, <3>1, <3>2, <3>3
  <2> QED
    BY <2>1 DEF CoverInv
<1>9. CASE UNCHANGED dualVars
  BY <1>9 DEF dualVars, CoverInv
<1> QED
  BY <1>1, <1>2, <1>3, <1>4, <1>5, <1>6, <1>7, <1>8, <1>9, Zenon DEF DualNext, MirrorStep

(* With Postgres level with the files, the mirror of a call would bring it *)
(* level with what the call leaves in the files.                           *)
LEMMA MirrorFollows ==
    ASSUME DualTypeOK, NEW c \in Calls, call[c].at = "called",
           sUsers = users, sRes \in [Ids -> [Names -> Vals \cup {None}]],
           \A i \in Ids : sRes[i] = Shown(i),
           call[c].req.op = "insertUser" =>
               users[call[c].req.id] = None /\ res[call[c].req.id] = Nothing,
           ~MirrorRefused(call[c].req),
           users' = UsersAfter(users, call[c].req), res' = ResAfter(res, call[c].req)
    PROVE  \A i \in Ids : MirrorRes(sRes, call[c].req)[i] = Shown(i)'
<1> DEFINE r == call[c].req
           shown(i) == IF users'[i] # None THEN res'[i] ELSE Nothing
<1>1. r \in Requests /\ r.id \in Ids
  BY DEF DualTypeOK, Requests
<1>2. users \in [Ids -> Vals \cup {None}] /\ res \in [Ids -> [Names -> Vals \cup {None}]]
  BY DEF DualTypeOK
<1>3. \A i \in Ids \ {r.id} : users'[i] = users[i] /\ res'[i] = res[i]
  BY <1>1, <1>2, OwnAccountOnly, OwnResourcesOnly, Zenon
<1>4. \A i \in Ids \ {r.id} : MirrorRes(sRes, r)[i] = sRes[i]
  BY <1>1, OwnResourcesOnly DEF MirrorRes, Cascade
<1>5. \A i \in Ids : sRes[i] = IF users[i] # None THEN res[i] ELSE Nothing
  BY ZenonT(40) DEF Shown
<1>6. MirrorRes(sRes, r)[r.id] = shown(r.id)
  <2>1. CASE r.op = "insertUser"
    <3>1. users[r.id] = None /\ res[r.id] = Nothing
      BY <2>1
    <3>2. res' = res /\ MirrorRes(sRes, r) = sRes
      BY <2>1 DEF ResAfter, MirrorRes
    <3> QED
      BY <1>1, <1>5, <3>1, <3>2
  <2>2. CASE r.op = "deleteUserById"
    <3>1. users'[r.id] = None
      BY <1>1, <1>2, <2>2, OwnAccountOnly
    <3> QED
      BY <1>1, <2>2, <3>1 DEF MirrorRes, Cascade, Nothing
  <2>3. CASE r.op \in {"updateUserById", "skipUpdate", "findUserById", "getResource"}
    <3>1. (users'[r.id] = None) <=> (users[r.id] = None)
      <4>1. r.op # "insertUser" /\ r.op # "deleteUserById" /\ users' = UsersAfter(users, r)
        BY <2>3
      <4> HIDE DEF r
      <4> QED
        BY <1>1, <1>2, <4>1, OwnAccountOnly
    <3>2. res' = res /\ MirrorRes(sRes, r) = sRes
      BY <2>3 DEF ResAfter, MirrorRes
    <3> QED
      BY <1>1, <1>5, <3>1, <3>2
  <2>4. CASE r.op = "setResource"
    <3>1. users' = users /\ users[r.id] # None
      BY <2>4 DEF UsersAfter, MirrorRefused
    <3>2. sRes[r.id] = res[r.id]
      BY <1>1, <1>5, <3>1
    <3>3. /\ res' = [res EXCEPT ![r.id][r.name] = r.val]
          /\ MirrorRes(sRes, r) = [sRes EXCEPT ![r.id][r.name] = r.val]
      BY <2>4 DEF ResAfter, MirrorRes
    <3> HIDE DEF r
    <3> QED
      BY <1>1, <1>2, <3>1, <3>2, <3>3
  <2>5. CASE r.op = "deleteResource"
    <3>1. users' = users
      BY <2>5 DEF UsersAfter
    <3>2. /\ res' = [res EXCEPT ![r.id][r.name] = None]
          /\ MirrorRes(sRes, r) = [sRes EXCEPT ![r.id][r.name] = None]
      BY <2>5 DEF ResAfter, MirrorRes
    <3> HIDE DEF r
    <3>3. CASE users[r.id] # None
      <4>1. sRes[r.id] = res[r.id]
        BY <1>1, <1>5, <3>3
      <4> QED
        BY <1>1, <1>2, <3>1, <3>2, <3>3, <4>1
    <3>4. CASE users[r.id] = None
      <4>1. MirrorRes(sRes, r)[r.id] = [Nothing EXCEPT ![r.name] = None]
        BY <1>1, <1>5, <3>2, <3>4
      <4>2. [Nothing EXCEPT ![r.name] = None] = Nothing
        BY DEF Nothing
      <4> QED
        BY <3>1, <3>4, <4>1, <4>2
    <3> QED BY <3>3, <3>4
  <2> QED
    BY <1>1, <2>1, <2>2, <2>3, <2>4, <2>5 DEF Requests
<1>7. \A i \in Ids : Shown(i)' = shown(i)
  BY DEF Shown, Nothing
<1> HIDE DEF r, shown
<1>8. \A i \in Ids \ {r.id} : MirrorRes(sRes, r)[i] = shown(i)
  BY <1>3, <1>4, <1>5 DEF shown
<1>9. \A i \in Ids : MirrorRes(sRes, r)[i] = shown(i)
  BY <1>6, <1>8, Zenon
<1> QED
  BY <1>7, <1>9 DEF r

(* What there is to show after a step of the only call in progress.        *)
LEMMA ParityOf ==
    ASSUME NEW c \in Calls, \A d \in Calls \ {c} : call'[d].at = "idle",
           sRes' \in [Ids -> [Names -> Vals \cup {None}]],
           call'[c].at \in {"mirror", "copy"} => Behind(call[c].req)',
           call'[c].at \notin {"mirror", "copy"} => Level',
           call'[c].at = "copy" =>
               LET r == call'[c].req
               IN r.op \in Updates /\ seen'[c] = users'[r.id] /\ users'[r.id] # None
    PROVE  ParityInv'
  BY DEF ParityInv

(* Calls one at a time: a call that starts finds Postgres level, ...       *)
LEMMA ParityBegin ==
    ASSUME DualTypeOK, IdsInv, ParityInv, Sequential',
           NEW c \in Calls, NEW r \in Requests, DualBegin(c, r)
    PROVE  ParityInv'
<1>1. /\ \A d \in Calls \ {c} : call'[d] = call[d]
      /\ call[c].at = "idle" /\ call'[c].at = "called"
      /\ UNCHANGED <<offer, users, res, sUsers, sRes, seen>>
  BY DEF DualBegin, Begin, Idle, DualTypeOK
<1>2. history'.overlap = (history.overlap \/ ~Alone(c)) /\ history'.failed = history.failed
  BY Zenon DEF DualBegin, IdsInv
<1>3. Sequential /\ \A d \in Calls \ {c} : call[d].at = "idle"
  <2>1. Sequential /\ Alone(c)
    BY <1>1, <1>2, Zenon DEF Sequential
  <2> QED
    BY <2>1 DEF Alone, Idle
<1>4. Level /\ sRes \in [Ids -> [Names -> Vals \cup {None}]]
  BY <1>1, <1>3 DEF ParityInv
<1>5. Level'
  BY <1>1, <1>4 DEF Level, Shown, Nothing
<1> QED
  BY <1>1, <1>3, <1>4, <1>5, ParityOf, Zenon

(* ... leaves it one call behind once it has changed the files, ...        *)
LEMMA ParityPrimary ==
    ASSUME DualTypeOK, IdsInv, ParityInv, Sequential', NEW c \in Calls, DualPrimary(c)
    PROVE  ParityInv'
<1> DEFINE r == call[c].req
<1>1. /\ \A d \in Calls \ {c} : call'[d] = call[d]
      /\ call[c].at = "called" /\ r \in Requests
      /\ call'[c].at \in {"mirror", "answer"} /\ call'[c].req = r
      /\ call'[c].at = "answer" <=>
            r.op \in Reads \/ (r.op = "insertUser" /\ EmailTaken(users, r.id))
      /\ users' = UsersAfter(users, r) /\ res' = ResAfter(res, r)
      /\ UNCHANGED <<offer, sUsers, sRes, seen, history>>
  BY PrimaryMoves
<1>2. Sequential
  BY <1>1, Zenon DEF Sequential
<1>3. \A d \in Calls \ {c} : call[d].at = "idle"
  BY <1>1, <1>2, Zenon DEF ParityInv
<1>4. Level /\ sRes \in [Ids -> [Names -> Vals \cup {None}]]
  BY <1>1, <1>2, <1>3, Zenon DEF ParityInv
<1>5. CASE call'[c].at = "answer"
  <2>1. users' = users /\ res' = res
    BY <1>1, <1>5, Zenon DEF UsersAfter, ResAfter, Reads
  <2>2. Level'
    BY <1>1, <1>4, <2>1, Zenon DEF Level, Shown, Nothing
  <2> QED
    BY <1>1, <1>3, <1>4, <1>5, <2>2, ParityOf, Zenon
<1>6. CASE call'[c].at = "mirror"
  <2>1. r.op = "insertUser" => users[r.id] = None /\ res[r.id] = Nothing
    BY <1>1, Zenon DEF IdsInv
  <2>2. ~MirrorRefused(r) => \A i \in Ids : MirrorRes(sRes, r)[i] = Shown(i)'
    BY <1>1, <1>4, <2>1, MirrorFollows, Zenon DEF Level
  <2>3. users' = UsersAfter(sUsers, r)
    BY <1>1, <1>4, Zenon DEF Level
  <2>4. Behind(r)' /\ call'[c].req = r'
    BY <1>1, <2>2, <2>3 DEF Behind, MirrorRefused, MirrorRes
  <2> QED
    BY <1>1, <1>3, <1>4, <1>6, <2>4, ParityOf, Zenon
<1> QED BY <1>1, <1>5, <1>6

(* ... and brings it level again when its mirror succeeds, ...             *)
LEMMA ParityMirror ==
    ASSUME DualTypeOK, IdsInv, RowsInv, ParityInv, Sequential', NEW c \in Calls, MirrorStep(c)
    PROVE  ParityInv'
<1>0. /\ users \in [Ids -> Vals \cup {None}] /\ sUsers \in [Ids -> Vals \cup {None}]
  BY DEF DualTypeOK, RowsInv
<1> DEFINE r == call[c].req
<1>1. /\ \A d \in Calls \ {c} : call'[d] = call[d]
      /\ call[c].at \in {"mirror", "copy"} /\ r \in Requests
      /\ call'[c].at \in {"copy", "answer"} /\ call'[c].req = r
      /\ UNCHANGED <<offer, users, res>>
  BY MirrorMoves
<1>2. ~MirrorFails(c)
  BY DEF MirrorFails, IdsInv, Sequential
<1>3. history' = history /\ Sequential
  BY <1>1, <1>2 DEF MirrorStep, MirrorWrite, MirrorRead, MirrorCopy, Sequential
<1>4. /\ \A d \in Calls \ {c} : call[d].at = "idle"
      /\ sRes \in [Ids -> [Names -> Vals \cup {None}]]
      /\ Behind(r)
  BY <1>1, <1>3 DEF ParityInv
<1>5. \A i \in Ids : Shown(i)' = Shown(i)
  BY <1>1, ZenonT(40) DEF Shown, Nothing
<1>6. ASSUME call'[c].at = "answer", sUsers' = users, \A i \in Ids : sRes'[i] = Shown(i),
             sRes' \in [Ids -> [Names -> Vals \cup {None}]]
      PROVE  ParityInv'
  <2>1. Level'
    BY <1>1, <1>5, <1>6 DEF Level
  <2> QED
    BY <1>1, <1>4, <1>6, <2>1 DEF ParityInv
<1>7. CASE MirrorWrite(c)
  <2>1. /\ ~MirrorRefused(r) /\ sUsers' = UsersAfter(sUsers, r) /\ sRes' = MirrorRes(sRes, r)
        /\ call'[c].at = "answer"
    BY <1>7, CallMoves, Zenon DEF MirrorWrite, Mirrored
  <2>2. sRes' \in [Ids -> [Names -> Vals \cup {None}]]
    BY <1>1, <1>4, <2>1, OwnResourcesOnly, Zenon DEF MirrorRes, Cascade
  <2> QED
    BY <1>4, <1>6, <2>1, <2>2 DEF Behind
<1>8. ASSUME r.op \in Updates
      PROVE  /\ \A i \in Ids : sRes[i] = Shown(i)
             /\ users = IF r.op = "updateUserById" /\ sUsers[r.id] # None
                        THEN [sUsers EXCEPT ![r.id] = r.val] ELSE sUsers
             /\ r.id \in Ids /\ (r.op = "updateUserById" => r.val \in Vals)
  <2>1. ~MirrorRefused(r) /\ MirrorRes(sRes, r) = sRes
    BY <1>8 DEF Updates, MirrorRefused, MirrorRes, ResAfter
  <2>2. users = UsersAfter(sUsers, r) /\ \A i \in Ids : sRes[i] = Shown(i)
    BY <1>4, <2>1 DEF Behind
  <2>3. users = IF r.op = "updateUserById" /\ sUsers[r.id] # None
                THEN [sUsers EXCEPT ![r.id] = r.val] ELSE sUsers
    BY <1>8, <2>2 DEF UsersAfter, Updates
  <2>4. r.id \in Ids /\ (r.op = "updateUserById" => r.val \in Vals)
    BY <1>1 DEF Requests
  <2> QED
    BY <2>2, <2>3, <2>4
<1>9. CASE MirrorRead(c)
  <2>1. /\ r.op \in Updates /\ sUsers' = sUsers /\ sRes' = sRes
        /\ seen' = [seen EXCEPT ![c] = users[r.id]]
        /\ call'[c].at = IF users[r.id] = None THEN "answer" ELSE "copy"
    BY <1>9, CallMoves, ZenonT(40) DEF MirrorRead, Updates
  <2>2. CASE users[r.id] = None
    <3>1. sUsers = users
      <4> HIDE DEF r
      <4> QED
        BY <1>0, <1>8, <2>1, <2>2, NoneAssumption
    <3> QED
      BY <1>4, <1>6, <1>8, <2>1, <2>2, <3>1
  <2>3. CASE users[r.id] # None
    <3>1. seen'[c] = users[r.id]
      BY <2>1, ZenonT(40) DEF DualTypeOK
    <3>2. Behind(r)'
      BY <1>1, <1>4, <1>5, <2>1 DEF Behind, MirrorRefused, MirrorRes
    <3>3. r' = r /\ call'[c].at = "copy"
      BY <1>1, <2>1, <2>3
    <3> QED
      BY <1>1, <1>4, <2>1, <2>3, <3>1, <3>2, <3>3, ParityOf, ZenonT(40)
  <2> QED BY <2>2, <2>3
<1>10. CASE MirrorCopy(c)
  <2>1. /\ call[c].at = "copy" /\ sRes' = sRes /\ call'[c].at = "answer"
        /\ sUsers' = IF sUsers[r.id] = None THEN sUsers ELSE [sUsers EXCEPT ![r.id] = seen[c]]
    BY <1>10, CallMoves, ZenonT(40) DEF MirrorCopy, Mirrored
  <2>2. r.op \in Updates /\ seen[c] = users[r.id]
    BY <1>3, <2>1 DEF ParityInv
  <2>3. sUsers' = users
    <3> HIDE DEF r
    <3> QED
      BY <1>0, <1>8, <2>1, <2>2
  <2> QED
    BY <1>4, <1>6, <1>8, <2>1, <2>2, <2>3
<1> QED
  BY <1>2, <1>7, <1>9, <1>10 DEF MirrorStep

(* ... before it answers.                                                  *)
LEMMA ParityReply ==
    ASSUME DualTypeOK, ParityInv, Sequential', NEW c \in Calls, DualReply(c)
    PROVE  ParityInv'
<1>1. /\ \A d \in Calls \ {c} : call'[d] = call[d]
      /\ call[c].at = "answer" /\ call'[c].at = "idle"
      /\ UNCHANGED <<offer, users, res, sUsers, sRes, seen, history>>
  BY ReplyMoves
<1>2. Sequential
  BY <1>1, Zenon DEF Sequential
<1>3. \A d \in Calls \ {c} : call[d].at = "idle"
  BY <1>1, <1>2 DEF ParityInv
<1>4. Level /\ sRes \in [Ids -> [Names -> Vals \cup {None}]]
  BY <1>1, <1>2, <1>3 DEF ParityInv
<1>5. Level'
  BY <1>1, <1>4 DEF Level, Shown, Nothing
<1> QED
  BY <1>1, <1>3, <1>4, <1>5, ParityOf, Zenon

(* So Postgres is at most the present call behind.                         *)
LEMMA ParityNext ==
    ASSUME DualTypeOK, BackfillOK, IdsInv, RowsInv, ParityInv, [DualNext]_dualVars
    PROVE  ParityInv'
<1> SUFFICES ASSUME Sequential' PROVE ParityInv'
  BY DEF ParityInv
<1>1. ~BackfillStep
  BY BackfillFrame, ZenonT(40) DEF Sequential
<1>2. CASE UNCHANGED dualVars
  <2>1. UNCHANGED <<offer, users, res, call, sUsers, sRes, seen, backfill, history>>
    BY <1>2 DEF dualVars
  <2>2. Sequential
    BY <2>1 DEF Sequential
  <2>3. Level => Level'
    BY <2>1, ZenonT(40) DEF Level, Shown, Nothing
  <2>4. ASSUME NEW c \in Calls, Behind(call[c].req) PROVE Behind(call[c].req)'
    BY <2>1, <2>4 DEF Behind, MirrorRefused, MirrorRes, Shown, Nothing
  <2> QED
    BY <2>1, <2>2, <2>3, <2>4 DEF ParityInv
<1> QED
  BY <1>1, <1>2, ParityBegin, ParityPrimary, ParityReply, ParityMirror, Zenon
     DEF DualNext, MirrorStep, BackfillStep

(* Before the first call nothing is due; a menu with the backfill makes no *)
(* claim on what calls mirror.                                             *)
LEMMA MirrorInit == DualInit => MirrorInv
<1> SUFFICES ASSUME DualInit PROVE MirrorInv
  OBVIOUS
<1>1. DualTypeOK
  BY TypeInit, Zenon
<1>2. BackfillOK
  BY Zenon DEF DualInit, BackfillOK
<1>3. IdsInv
  BY Zenon DEF DualInit, IdsInv, Idle, Nothing
<1>4. RowsInv /\ CoverInv
  BY ZenonT(40) DEF DualInit, RowsInv, CoverInv, Idle
<1>5. ParityInv
  BY ZenonT(40) DEF DualInit, ParityInv, Sequential, Level, Shown, Nothing, Idle
<1> QED
  BY <1>1, <1>2, <1>3, <1>4, <1>5 DEF MirrorInv

(* Every step preserves all of it together. *)
LEMMA MirrorNext == MirrorInv /\ [DualNext]_dualVars => MirrorInv'
  BY TypeNext, BackfillNext, IdsNext, RowsNext, CoverNext, ParityNext DEF MirrorInv

(* The invariant says what is wanted of Postgres. *)
LEMMA MirrorInvSuffices == MirrorInv => MirrorsAgree
<1> SUFFICES ASSUME MirrorInv PROVE MirrorsAgree
  BY Zenon
<1>1. SequentialParity
  <2>1. Quiet => \A c \in Calls : call[c].at \notin {"mirror", "copy"}
    <3>1. Idle.at \notin {"mirror", "copy"}
      BY DEF Idle
    <3> QED
      BY <3>1, ZenonT(40) DEF Quiet
  <2>2. Quiet /\ Sequential => Level
    BY <2>1, ZenonT(40) DEF MirrorInv, ParityInv
  <2> QED
    BY <2>2, ZenonT(40) DEF SequentialParity, Sequential, Level, Shown, Nothing
<1>2. BackfillCovers
  <2>1. backfill.at = "done" => backfill.todo = {} /\ backfill.at \notin {"off", "insert", "failed"}
    BY ZenonT(40) DEF MirrorInv, BackfillOK
  <2> QED
    BY <2>1, ZenonT(40) DEF MirrorInv, CoverInv, BackfillCovers
<1> QED
  BY <1>1, <1>2 DEF MirrorsAgree

(* Postgres can take over from the files: sequential calls whose mirrors   *)
(* succeeded left the same accounts and resources in both, and a backfill  *)
(* that ended without an error has missed no account that still exists,    *)
(* whatever calls ran beside it.                                           *)
THEOREM MirrorsAlwaysAgree == DualSpec => []MirrorsAgree
  BY MirrorInit, MirrorNext, MirrorInvSuffices, PTL DEF DualSpec
=============================================================================
