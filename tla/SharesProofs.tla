---------------------------- MODULE SharesProofs ----------------------------
(***************************************************************************)
(* Proofs about Shares, for every number of requests at once and of        *)
(* shares, every menu of operations, and with processes that die.          *)
(*                                                                         *)
(* ShareInv has one part per property.  ViewInv: who is about to mark a    *)
(* record holds its lock and nobody was served yet; who is about to be     *)
(* served a single view is alone and the record is marked.  RevokeInv: a   *)
(* record whose file a DELETE removed can only come back marked.           *)
(* EmergencyInv and IndexInv: who rewrites a list holds its lock and read  *)
(* what is still in the file; IndexInv also says why an acknowledged share *)
(* may be missing from the index.                                          *)
(***************************************************************************)
EXTENDS Shares, TLAPS

Statuses == {"pending", "granted", "denied"}

Lists == UNION { [D -> Statuses] : D \in SUBSET Sids }

IndexStages == {"check", "make", "lock", "open", "fill"}

ViewStages == {"claim", "mark", "serve"}

EmergencyStages == {"emake", "elock", "esave"}

AllStages == {"idle", "created", "revoked"} \cup IndexStages \cup ViewStages \cup EmergencyStages

ShareRequest ==
    [at : AllStages,
     sid : Sids \cup {Nobody}, add : BOOLEAN,
     back : {"idle", "created", "revoked"} \cup Statuses, got : SUBSET Sids, list : Lists]

ShareHistory ==
    [drawn : SUBSET Sids, announced : SUBSET Sids, revoked : SUBSET Sids,
     served : [Sids -> 0 .. 2], asked : SUBSET Sids, answered : SUBSET Sids,
     crashed : BOOLEAN]

LockFiles ==
    [index : ShareReqs \cup {Nobody}, egy : ShareReqs \cup {Nobody},
     rec : [Sids -> ShareReqs \cup {Nobody}]]

(* The type of the state, and what the stage of a request says about it. *)
ShareTypeOK ==
    /\ smenu \in [ops : SUBSET {"create", "revoke", "view", "expire", "emergency"},
                  crash : BOOLEAN, fresh : BOOLEAN]
    /\ file \in [Sids -> [there : BOOLEAN, single : BOOLEAN, viewed : BOOLEAN,
                          expired : BOOLEAN]]
    /\ index \in [there : BOOLEAN, torn : BOOLEAN, ids : SUBSET Sids]
    /\ locks \in LockFiles
    /\ sreq \in [ShareReqs -> ShareRequest]
    /\ egy \in [on : BOOLEAN, there : BOOLEAN, list : Lists]
    /\ shist \in ShareHistory

StageInv ==
    \A q \in ShareReqs :
        LET r == sreq[q] IN
        /\ r.at # "idle" => r.sid \in shist.drawn
        /\ r.at = "idle" => r = Rest
        /\ r.at \in IndexStages => r.back \in {"idle", "created", "revoked"}
        /\ r.at \in EmergencyStages => r.back \in Statuses

ViewInv ==
    /\ \A s \in Sids :
          /\ s \notin shist.drawn => file[s] = Absent /\ shist.served[s] = 0
          /\ file[s].single /\ shist.served[s] # 0 =>
                file[s].viewed /\ shist.served[s] = 1
    /\ \A q \in ShareReqs :
          LET s == sreq[q].sid IN
          /\ sreq[q].at = "mark" =>
                /\ locks.rec[s] = q
                /\ file[s].single /\ ~file[s].viewed
          /\ sreq[q].at = "serve" /\ file[s].single =>
                /\ file[s].viewed /\ shist.served[s] = 0
                /\ \A p \in ShareReqs : sreq[p].at = "serve" /\ sreq[p].sid = s => p = q

(* s was removed by a DELETE that has answered or is going to. *)
Revoking(s) ==
    \/ s \in shist.revoked
    \/ \E q \in ShareReqs :
          /\ sreq[q].sid = s
          /\ sreq[q].at = "revoked" \/ (sreq[q].at \in IndexStages /\ sreq[q].back = "revoked")

RevokeInv ==
    /\ shist.revoked \subseteq shist.drawn
    /\ \A s \in Sids : Revoking(s) /\ file[s].there => file[s].single /\ file[s].viewed

EmergencyInv ==
    ~smenu.fresh =>
        /\ egy.there
        /\ shist.answered \subseteq shist.asked
        /\ shist.asked \subseteq DOMAIN egy.list \cap shist.drawn
        /\ \A s \in shist.answered : egy.list[s] # "pending"
        /\ \A q \in ShareReqs :
              LET r == sreq[q] IN
              /\ r.at # "emake"
              /\ r.at = "esave" => locks.egy = q /\ r.list = egy.list
              /\ r.at \in EmergencyStages /\ r.back # "pending" => r.sid \in shist.asked
              /\ r.at \in EmergencyStages /\ r.back = "pending" =>
                    /\ r.sid \notin shist.asked
                    /\ \A p \in ShareReqs :
                          sreq[p].at \in EmergencyStages /\ sreq[p].sid = r.sid => p = q

(* An acknowledged share that is not in the index was revoked, is being    *)
(* revoked, or has no file and nobody who could write it back.             *)
Missing(s) ==
    \/ s \in shist.revoked
    \/ \E q \in ShareReqs : sreq[q].at = "revoked" /\ sreq[q].sid = s
    \/ ~file[s].there /\ \A q \in ShareReqs : ~(sreq[q].at = "mark" /\ sreq[q].sid = s)

Acknowledged(s) ==
    s \in shist.announced \/ \E q \in ShareReqs : sreq[q].at = "created" /\ sreq[q].sid = s

IndexInv ==
    ~smenu.fresh /\ ~shist.crashed =>
        /\ index.there
        /\ shist.announced \subseteq shist.drawn
        /\ index.torn => \E q \in ShareReqs : sreq[q].at = "fill"
        /\ \A q \in ShareReqs :
              LET r == sreq[q] IN
              /\ r.at # "make"
              /\ r.at \in {"open", "fill"} => locks.index = q /\ r.got = index.ids
              /\ r.at \in IndexStages => (r.add <=> r.back = "created")
              /\ r.at \in IndexStages /\ r.back = "idle" =>
                    locks.rec[r.sid] = q /\ ~file[r.sid].there
        /\ \A s \in Sids : Acknowledged(s) /\ s \notin index.ids => Missing(s)

ShareInv ==
    ShareTypeOK /\ StageInv /\ ViewInv /\ RevokeInv /\ EmergencyInv /\ IndexInv

USE NobodyAssumption

-----------------------------------------------------------------------------
(* Types *)

LEMMA RestType == Rest \in ShareRequest /\ NoRequests \in Lists
  <1>1. NoRequests \in [{} -> Statuses]
    BY DEF NoRequests
  <1>2. NoRequests \in Lists
    BY <1>1 DEF Lists
  <1> QED BY <1>2 DEF Rest, ShareRequest, AllStages

(* Dropping locks takes only those of the request. *)
LEMMA DropFacts ==
  ASSUME ShareTypeOK, NEW q \in ShareReqs
  PROVE  /\ Drop(q) \in LockFiles
         /\ \A p \in ShareReqs \ {q} :
               /\ locks.index = p => Drop(q).index = p
               /\ locks.egy = p => Drop(q).egy = p
               /\ \A s \in Sids : locks.rec[s] = p => Drop(q).rec[s] = p
  BY DEF ShareTypeOK, LockFiles, Drop

(* The request q goes on as r, the others stay. *)
LEMMA GoFacts ==
  ASSUME ShareTypeOK, NEW q \in ShareReqs, NEW r \in ShareRequest, ShareGo(q, r)
  PROVE  /\ sreq' \in [ShareReqs -> ShareRequest]
         /\ sreq'[q] = r
         /\ \A p \in ShareReqs \ {q} : sreq'[p] = sreq[p]
  BY DEF ShareTypeOK, ShareGo

(* The fields of a request. *)
LEMMA RequestFields ==
  ASSUME NEW r \in ShareRequest
  PROVE  /\ r.at \in AllStages
         /\ r.sid \in Sids \cup {Nobody} /\ r.add \in BOOLEAN
         /\ r.back \in {"idle", "created", "revoked"} \cup Statuses
         /\ r.got \in SUBSET Sids /\ r.list \in Lists
  BY DEF ShareRequest

(* Changing the stage of a request changes nothing else. *)
LEMMA AtFacts ==
  ASSUME NEW r \in ShareRequest, NEW at \in AllStages
  PROVE  LET n == [r EXCEPT !.at = at] IN
           /\ n \in ShareRequest /\ n.at = at /\ n.sid = r.sid /\ n.add = r.add
           /\ n.back = r.back /\ n.got = r.got /\ n.list = r.list
  BY DEF ShareRequest

-----------------------------------------------------------------------------
(* What a step of q may do without disturbing a part of the invariant *)

Others(q) ==
    /\ sreq' \in [ShareReqs -> ShareRequest]
    /\ \A p \in ShareReqs \ {q} : sreq'[p] = sreq[p]
    /\ shist.drawn \subseteq shist'.drawn

LEMMA StageFrame ==
  ASSUME ShareInv, NEW q \in ShareReqs, Others(q),
         sreq'[q].at # "idle" => sreq'[q].sid \in shist'.drawn,
         sreq'[q].at = "idle" => sreq'[q] = Rest,
         sreq'[q].at \in IndexStages => sreq'[q].back \in {"idle", "created", "revoked"},
         sreq'[q].at \in EmergencyStages => sreq'[q].back \in Statuses
  PROVE  StageInv'
  BY DEF ShareInv, StageInv, Others

LEMMA ViewFrame ==
  ASSUME ShareInv, NEW q \in ShareReqs, Others(q),
         sreq'[q].at \notin {"mark", "serve"},
         shist'.served = shist.served,
         \A s \in Sids : /\ file'[s].single = file[s].single
                         /\ file'[s].viewed = file[s].viewed
                         /\ s \notin shist'.drawn => file'[s] = file[s],
         \A p \in ShareReqs \ {q}, s \in Sids : locks.rec[s] = p => locks'.rec[s] = p
  PROVE  ViewInv'
  <1>1. \A s \in Sids :
          /\ s \notin shist'.drawn => file'[s] = Absent /\ shist'.served[s] = 0
          /\ file'[s].single /\ shist'.served[s] # 0 =>
                file'[s].viewed /\ shist'.served[s] = 1
    BY DEF ShareInv, ViewInv, Others
  <1>2. ASSUME NEW p \in ShareReqs, sreq'[p].at \in {"mark", "serve"}
        PROVE  sreq'[p] = sreq[p] /\ p # q /\ sreq[p].sid \in Sids
    BY <1>2 DEF Others, ShareInv, ShareTypeOK, StageInv, ShareHistory
  <1>3. ASSUME NEW p \in ShareReqs, sreq'[p].at = "mark"
        PROVE  /\ locks'.rec[sreq'[p].sid] = p
               /\ file'[sreq'[p].sid].single /\ ~file'[sreq'[p].sid].viewed
    BY <1>2, <1>3 DEF ShareInv, ViewInv
  <1>4. ASSUME NEW p \in ShareReqs, sreq'[p].at = "serve", file'[sreq'[p].sid].single
        PROVE  /\ file'[sreq'[p].sid].viewed /\ shist'.served[sreq'[p].sid] = 0
               /\ \A o \in ShareReqs : sreq'[o].at = "serve" /\ sreq'[o].sid = sreq'[p].sid => o = p
    BY <1>2, <1>4 DEF ShareInv, ViewInv
  <1> QED BY <1>1, <1>3, <1>4 DEF ViewInv

RevokingRequest(r) ==
    r.at = "revoked" \/ (r.at \in IndexStages /\ r.back = "revoked")

LEMMA RevokeFrame ==
  ASSUME ShareInv, NEW q \in ShareReqs, Others(q),
         RevokingRequest(sreq'[q]) => RevokingRequest(sreq[q]) /\ sreq'[q].sid = sreq[q].sid,
         shist'.revoked = shist.revoked,
         \A s \in Sids : file'[s].there => file[s].there /\ file'[s].single = file[s].single
                                            /\ file'[s].viewed = file[s].viewed
  PROVE  RevokeInv'
  <1>1. \A s \in Sids : Revoking(s)' => Revoking(s)
    BY DEF Revoking, RevokingRequest, Others
  <1> QED BY <1>1 DEF ShareInv, RevokeInv, Others

LEMMA EmergencyFrame ==
  ASSUME ShareInv, NEW q \in ShareReqs, Others(q),
         sreq'[q].at \notin EmergencyStages,
         egy' = egy, smenu' = smenu,
         shist'.asked = shist.asked, shist'.answered = shist.answered,
         \A p \in ShareReqs \ {q} : locks.egy = p => locks'.egy = p
  PROVE  EmergencyInv'
  <1> SUFFICES ASSUME ~smenu.fresh
               PROVE  EmergencyInv'
    BY DEF EmergencyInv
  <1>1. ASSUME NEW p \in ShareReqs, sreq'[p].at \in EmergencyStages
        PROVE  sreq'[p] = sreq[p] /\ p # q
    BY <1>1 DEF Others
  <1> QED BY <1>1 DEF ShareInv, EmergencyInv, Others, EmergencyStages

LEMMA IndexFrame ==
  ASSUME ShareInv, NEW q \in ShareReqs, Others(q),
         sreq'[q].at \notin IndexStages \cup {"mark", "created"},
         sreq[q].at # "fill",
         sreq[q].at = "revoked" => sreq[q].sid \in shist'.revoked,
         \A s \in shist'.announced : Acknowledged(s),
         index' = index, smenu' = smenu, shist'.announced \subseteq Sids,
         shist.revoked \subseteq shist'.revoked,
         ~shist'.crashed => ~shist.crashed,
         \A s \in Sids : file'[s].there => file[s].there,
         \A p \in ShareReqs \ {q} : /\ locks.index = p => locks'.index = p
                                    /\ \A s \in Sids : locks.rec[s] = p => locks'.rec[s] = p
  PROVE  IndexInv'
  <1> SUFFICES ASSUME ~smenu.fresh, ~shist.crashed
               PROVE  IndexInv'
    BY DEF IndexInv
  <1>1. ASSUME NEW p \in ShareReqs, sreq'[p].at \in IndexStages \cup {"mark", "created"}
        PROVE  sreq'[p] = sreq[p] /\ p # q /\ sreq[p].sid \in Sids
    BY <1>1 DEF Others, ShareInv, ShareTypeOK, StageInv, IndexStages, ShareHistory
  <1>2. index'.there /\ (index'.torn => \E p \in ShareReqs : sreq'[p].at = "fill")
    BY DEF ShareInv, IndexInv, Others
  <1>3. shist'.announced \subseteq shist'.drawn
    BY DEF ShareInv, IndexInv, StageInv, Acknowledged, Others
  <1>4. ASSUME NEW p \in ShareReqs
        PROVE  LET r == sreq'[p] IN
               /\ r.at # "make"
               /\ r.at \in {"open", "fill"} => locks'.index = p /\ r.got = index'.ids
               /\ r.at \in IndexStages => (r.add <=> r.back = "created")
               /\ r.at \in IndexStages /\ r.back = "idle" =>
                     locks'.rec[r.sid] = p /\ ~file'[r.sid].there
    BY <1>1 DEF ShareInv, IndexInv, IndexStages
  <1>5. ASSUME NEW s \in Sids, Acknowledged(s)', s \notin index'.ids
        PROVE  Missing(s)'
    <2>1. Acknowledged(s)
      BY <1>1, <1>5 DEF Acknowledged
    <2>2. Missing(s)
      BY <1>5, <2>1 DEF ShareInv, IndexInv
    <2>3. CASE s \in shist.revoked
      BY <2>3 DEF Missing
    <2>4. ASSUME NEW p \in ShareReqs, sreq[p].at = "revoked", sreq[p].sid = s
          PROVE  Missing(s)'
      <3>1. CASE p = q
        BY <2>4, <3>1 DEF Missing
      <3>2. CASE p # q
        BY <2>4, <3>2 DEF Missing, Others
      <3> QED BY <3>1, <3>2
    <2>5. CASE ~file[s].there /\ \A p \in ShareReqs : ~(sreq[p].at = "mark" /\ sreq[p].sid = s)
      BY <1>1, <2>5 DEF Missing
    <2> QED BY <2>2, <2>3, <2>4, <2>5 DEF Missing
  <1> QED BY <1>2, <1>3, <1>4, <1>5 DEF IndexInv

-----------------------------------------------------------------------------
(* The steps of updateShareIndex *)

(* What the steps that lead to the write of the index have in common. *)
LEMMA IndexMoveInv ==
  ASSUME ShareInv, NEW q \in ShareReqs, NEW r \in ShareRequest, ShareGo(q, r),
         sreq[q].at \in IndexStages, r.at \in IndexStages, r.sid = sreq[q].sid,
         r.add = sreq[q].add, r.back = sreq[q].back,
         UNCHANGED <<smenu, file, egy, shist>>,
         index' \in [there : BOOLEAN, torn : BOOLEAN, ids : SUBSET Sids],
         locks' \in LockFiles,
         locks'.egy = locks.egy, locks'.rec = locks.rec,
         \A p \in ShareReqs \ {q} : locks.index = p => locks'.index = p,
         ~smenu.fresh /\ ~shist.crashed =>
            /\ index'.there /\ index'.ids = index.ids /\ r.at # "make"
            /\ index'.torn => r.at = "fill" \/ \E p \in ShareReqs \ {q} : sreq[p].at = "fill"
            /\ r.at \in {"open", "fill"} => locks'.index = q /\ r.got = index.ids
  PROVE  ShareInv'
  <1>1. sreq'[q] = r /\ Others(q)
    BY GoFacts DEF Others, ShareInv
  <1>2. ShareTypeOK'
    BY <1>1 DEF ShareInv, ShareTypeOK, Others
  <1>3. StageInv'
    BY <1>1, StageFrame DEF ShareInv, StageInv, IndexStages, EmergencyStages
  <1>4. ViewInv'
    BY <1>1, ViewFrame DEF IndexStages
  <1>5. RevokeInv'
    BY <1>1, RevokeFrame DEF RevokingRequest, IndexStages
  <1>6. EmergencyInv'
    BY <1>1, EmergencyFrame DEF EmergencyStages, IndexStages
  <1>7. IndexInv'
    <2> SUFFICES ASSUME ~smenu.fresh, ~shist.crashed PROVE IndexInv'
      BY DEF IndexInv
    <2>1. \A s \in Sids : /\ Acknowledged(s)' => Acknowledged(s)
                          /\ Missing(s) => Missing(s)'
      BY <1>1 DEF Acknowledged, Missing, Others, IndexStages
    <2>2. index'.torn => \E p \in ShareReqs : sreq'[p].at = "fill"
      BY <1>1 DEF Others
    <2>3. ASSUME NEW p \in ShareReqs
          PROVE  LET n == sreq'[p] IN
                 /\ n.at # "make"
                 /\ n.at \in {"open", "fill"} => locks'.index = p /\ n.got = index'.ids
                 /\ n.at \in IndexStages => (n.add <=> n.back = "created")
                 /\ n.at \in IndexStages /\ n.back = "idle" =>
                       locks'.rec[n.sid] = p /\ ~file'[n.sid].there
      <3>1. CASE p = q
        BY <1>1, <3>1 DEF ShareInv, IndexInv
      <3>2. CASE p # q
        BY <1>1, <3>2 DEF ShareInv, IndexInv, Others
      <3> QED BY <3>1, <3>2
    <2> QED BY <2>1, <2>2, <2>3 DEF ShareInv, IndexInv
  <1> QED BY <1>2, <1>3, <1>4, <1>5, <1>6, <1>7 DEF ShareInv

LEMMA IndexPrepareInv ==
  ASSUME ShareInv, NEW q \in ShareReqs,
         IndexCheck(q) \/ IndexMake(q) \/ IndexLock(q) \/ IndexOpen(q)
  PROVE  ShareInv'
  <1>1. sreq[q] \in ShareRequest /\ UNCHANGED <<smenu, file, egy, shist>>
        /\ sreq[q].got \in SUBSET Sids
    BY RequestFields
       DEF IndexCheck, IndexMake, IndexLock, IndexOpen, ShareInv, ShareTypeOK
  <1>2. index \in [there : BOOLEAN, torn : BOOLEAN, ids : SUBSET Sids]
        /\ locks \in LockFiles
    BY DEF ShareInv, ShareTypeOK
  <1>3. {"check", "make", "lock", "open", "fill"} \subseteq IndexStages /\ IndexStages \subseteq AllStages
    BY DEF IndexStages, AllStages
  <1>4. ~smenu.fresh /\ ~shist.crashed =>
           /\ index.there /\ sreq[q].at # "make"
           /\ index.torn => \E p \in ShareReqs : sreq[p].at = "fill"
           /\ \A p \in ShareReqs : sreq[p].at \in {"open", "fill"} =>
                  locks.index = p /\ sreq[p].got = index.ids
    BY DEF ShareInv, IndexInv
  <1>5. CASE IndexCheck(q)
    <2> DEFINE at == IF index.there THEN "lock" ELSE "make"
               r == [sreq[q] EXCEPT !.at = at]
    <2>1. ShareGo(q, r) /\ sreq[q].at = "check" /\ UNCHANGED <<index, locks>>
      BY <1>5 DEF IndexCheck
    <2>2. at \in IndexStages /\ at \in AllStages /\ (index.there => at = "lock")
      BY <1>3
    <2> HIDE DEF at
    <2>3. r \in ShareRequest /\ r.at = at /\ r.sid = sreq[q].sid /\ r.add = sreq[q].add
          /\ r.back = sreq[q].back
      BY <1>1, <2>2, AtFacts
    <2> HIDE DEF r
    <2>4. index'.torn /\ ~smenu.fresh /\ ~shist.crashed =>
             \E p \in ShareReqs \ {q} : sreq[p].at = "fill"
      BY <1>4, <2>1
    <2> QED BY <1>1, <1>2, <1>3, <1>4, <2>1, <2>2, <2>3, <2>4, IndexMoveInv
  <1>6. CASE IndexMake(q)
    <2> DEFINE r == [sreq[q] EXCEPT !.at = "lock"]
    <2>1. ShareGo(q, r) /\ sreq[q].at = "make" /\ UNCHANGED locks
          /\ index' \in [there : BOOLEAN, torn : BOOLEAN, ids : SUBSET Sids]
      BY <1>6 DEF IndexMake
    <2>2. r \in ShareRequest /\ r.at = "lock" /\ r.sid = sreq[q].sid /\ r.add = sreq[q].add
          /\ r.back = sreq[q].back
      BY <1>1, <1>3, AtFacts
    <2> HIDE DEF r
    <2> QED BY <1>1, <1>2, <1>3, <1>4, <2>1, <2>2, IndexMoveInv
  <1>7. CASE IndexLock(q)
    <2>0. PICK got \in SUBSET Sids : got = IF index.torn THEN {} ELSE index.ids
      BY <1>2, Zenon
    <2> DEFINE r == [sreq[q] EXCEPT !.at = "open", !.got = got]
    <2>1. ShareGo(q, r) /\ sreq[q].at = "lock" /\ UNCHANGED index /\ locks.index = Nobody
          /\ locks' = [locks EXCEPT !.index = q]
      BY <1>7, <2>0 DEF IndexLock
    <2>3. ~smenu.fresh /\ ~shist.crashed => ~index.torn /\ got = index.ids
      BY <1>4, <2>0, <2>1
    <2>4. r \in ShareRequest /\ r.at = "open" /\ r.sid = sreq[q].sid /\ r.add = sreq[q].add
          /\ r.back = sreq[q].back /\ r.got = got
      <3>1. "open" \in AllStages
        BY <1>3
      <3> QED BY <1>1, <2>0, <3>1, Zenon DEF ShareRequest
    <2> HIDE DEF r
    <2>5. /\ locks' \in LockFiles
          /\ locks'.index = q /\ locks'.egy = locks.egy /\ locks'.rec = locks.rec
      BY <1>2, <2>1 DEF LockFiles
    <2> QED BY <1>1, <1>2, <1>3, <1>4, <2>1, <2>3, <2>4, <2>5, IndexMoveInv
  <1>8. CASE IndexOpen(q)
    <2> DEFINE r == [sreq[q] EXCEPT !.at = "fill"]
    <2>1. ShareGo(q, r) /\ sreq[q].at = "open" /\ UNCHANGED locks
          /\ index' \in [there : BOOLEAN, torn : BOOLEAN, ids : SUBSET Sids]
          /\ index'.there = index.there /\ index'.ids = index.ids
      BY <1>2, <1>8, Zenon DEF IndexOpen
    <2>2. r \in ShareRequest /\ r.at = "fill" /\ r.sid = sreq[q].sid /\ r.add = sreq[q].add
          /\ r.back = sreq[q].back /\ r.got = sreq[q].got
      BY <1>1, <1>3, AtFacts
    <2> HIDE DEF r
    <2> QED BY <1>1, <1>2, <1>3, <1>4, <2>1, <2>2, IndexMoveInv
  <1> QED BY <1>5, <1>6, <1>7, <1>8

LEMMA IndexFillInv ==
  ASSUME ShareInv, NEW q \in ShareReqs, IndexFill(q)
  PROVE  ShareInv'
  <1> DEFINE r == sreq[q]
             n == IF r.back = "idle" THEN Rest ELSE [r EXCEPT !.at = r.back, !.got = {}]
  <1>1. /\ r \in ShareRequest /\ r.at = "fill" /\ r.sid \in Sids
        /\ r.back \in {"idle", "created", "revoked"} /\ r.sid \in shist.drawn
    BY DEF IndexFill, ShareInv, ShareTypeOK, StageInv, IndexStages, ShareHistory
  <1>2. /\ ShareGo(q, n) /\ locks' = Drop(q) /\ UNCHANGED <<smenu, file, egy, shist>>
        /\ index' = [there |-> TRUE, torn |-> FALSE,
                     ids |-> IF r.add THEN r.got \cup {r.sid} ELSE r.got \ {r.sid}]
    BY DEF IndexFill
  <1>3. n \in ShareRequest /\ n.at = r.back /\ (n.at = "idle" => n = Rest)
        /\ (n.at # "idle" => n.sid = r.sid)
    <2>1. CASE r.back = "idle"
      BY <2>1, RestType DEF Rest
    <2>2. CASE r.back # "idle"
      BY <1>1, <2>2, Zenon DEF ShareRequest, AllStages
    <2> QED BY <2>1, <2>2
  <1> HIDE DEF n
  <1>4. sreq'[q] = n /\ Others(q)
    BY <1>2, <1>3, GoFacts DEF Others, ShareInv
  <1>5. index' \in [there : BOOLEAN, torn : BOOLEAN, ids : SUBSET Sids]
    BY <1>1, <1>2, RequestFields
  <1>6. ShareTypeOK'
    BY <1>2, <1>4, <1>5, DropFacts DEF ShareInv, ShareTypeOK, Others
  <1>7. StageInv'
    BY <1>1, <1>2, <1>3, <1>4, StageFrame DEF IndexStages, EmergencyStages
  <1>8. ViewInv'
    BY <1>1, <1>2, <1>3, <1>4, DropFacts, ViewFrame DEF ShareInv
  <1>9. RevokeInv'
    BY <1>1, <1>2, <1>3, <1>4, RevokeFrame DEF RevokingRequest, IndexStages
  <1>10. EmergencyInv'
    BY <1>1, <1>2, <1>3, <1>4, DropFacts, EmergencyFrame DEF EmergencyStages, ShareInv
  <1>11. IndexInv'
    <2> SUFFICES ASSUME ~smenu.fresh, ~shist.crashed PROVE IndexInv'
      BY <1>2, Zenon DEF IndexInv
    <2>1. locks.index = q /\ r.got = index.ids /\ (r.add <=> r.back = "created")
          /\ (r.back = "idle" => locks.rec[r.sid] = q /\ ~file[r.sid].there)
      BY <1>1 DEF ShareInv, IndexInv, IndexStages
    <2>2. ASSUME NEW p \in ShareReqs, p # q
          PROVE  LET o == sreq'[p] IN
                 /\ o.at \notin {"make", "open", "fill"}
                 /\ o.at \in IndexStages => (o.add <=> o.back = "created")
                 /\ o.at \in IndexStages /\ o.back = "idle" =>
                       locks'.rec[o.sid] = p /\ ~file'[o.sid].there
      <3>1. sreq'[p] = sreq[p]
        BY <1>4, <2>2 DEF Others
      <3>2. sreq[p].at \in IndexStages => sreq[p].sid \in Sids
        BY DEF ShareInv, StageInv, ShareTypeOK, IndexStages, ShareHistory
      <3> QED BY <1>2, <2>1, <2>2, <3>1, <3>2, DropFacts DEF ShareInv, IndexInv
    <2>3. n.at \notin IndexStages
      BY <1>1, <1>3 DEF IndexStages
    <2>4. ASSUME NEW s \in Sids, s # r.sid, Acknowledged(s)', s \notin index'.ids
          PROVE  Missing(s)'
      <3>1. Acknowledged(s) /\ s \notin index.ids
        BY <1>2, <1>3, <1>4, <2>1, <2>4 DEF Acknowledged, Others
      <3>2. Missing(s)
        BY <3>1 DEF ShareInv, IndexInv
      <3> QED BY <1>1, <1>2, <1>3, <1>4, <3>2 DEF Missing, Others
    <2>5. ASSUME NEW s \in Sids, s = r.sid, s \notin index'.ids
          PROVE  Missing(s)'
      <3>1. r.back \in {"idle", "revoked"}
        BY <1>1, <1>2, <2>1, <2>5
      <3>2. CASE r.back = "revoked"
        BY <1>3, <1>4, <2>5, <3>2 DEF Missing
      <3>3. CASE r.back = "idle"
        <4>1. ASSUME NEW p \in ShareReqs, sreq'[p].at = "mark" PROVE sreq'[p].sid # s
          <5>1. p # q
            BY <1>1, <1>3, <1>4, <4>1
          <5>2. sreq[p].at = "mark" /\ sreq'[p] = sreq[p]
            BY <1>4, <4>1, <5>1 DEF Others
          <5> QED BY <2>1, <2>5, <3>3, <5>1, <5>2 DEF ShareInv, ViewInv
        <4> QED BY <1>2, <2>1, <2>5, <3>3, <4>1 DEF Missing
      <3> QED BY <3>1, <3>2, <3>3
    <2>6. \A s \in Sids : Acknowledged(s)' /\ s \notin index'.ids => Missing(s)'
      BY <2>4, <2>5
    <2>7. index'.there /\ ~index'.torn /\ shist'.announced \subseteq shist'.drawn
      BY <1>2 DEF ShareInv, IndexInv
    <2> QED BY <1>4, <2>2, <2>3, <2>6, <2>7 DEF IndexInv, IndexStages
  <1> QED BY <1>6, <1>7, <1>8, <1>9, <1>10, <1>11 DEF ShareInv

-----------------------------------------------------------------------------
(* Requests that end *)

(* A request ends, and its locks with it: nothing else is disturbed. *)
LEMMA EndInv ==
  ASSUME ShareInv, NEW q \in ShareReqs, ShareGo(q, Rest),
         UNCHANGED <<smenu, file, index, egy>>,
         locks' \in {locks, Drop(q)},
         shist' \in ShareHistory,
         shist'.drawn = shist.drawn, shist'.asked = shist.asked,
         shist'.answered = shist.answered
  PROVE  /\ ShareTypeOK' /\ StageInv' /\ EmergencyInv'
         /\ shist'.served = shist.served => ViewInv'
         /\ shist'.revoked = shist.revoked => RevokeInv'
         /\ /\ sreq[q].at # "fill"
            /\ sreq[q].at = "revoked" => sreq[q].sid \in shist'.revoked
            /\ \A s \in shist'.announced : Acknowledged(s)
            /\ shist.revoked \subseteq shist'.revoked
            /\ ~shist'.crashed => ~shist.crashed
            => IndexInv'
         /\ shist'.crashed => IndexInv'
         /\ sreq'[q] = Rest /\ Others(q) /\ Rest.at = "idle"
  <1>1. sreq'[q] = Rest /\ Others(q) /\ Rest.at = "idle"
    BY RestType, GoFacts DEF Others, ShareInv, Rest
  <1>2. /\ locks' \in LockFiles
        /\ \A p \in ShareReqs \ {q} : /\ locks.index = p => locks'.index = p
                                      /\ locks.egy = p => locks'.egy = p
                                      /\ \A s \in Sids : locks.rec[s] = p => locks'.rec[s] = p
    <2>1. CASE locks' = locks
      BY <2>1 DEF ShareInv, ShareTypeOK
    <2>2. CASE locks' = Drop(q)
      BY <2>2, DropFacts DEF ShareInv
    <2> QED BY <2>1, <2>2
  <1>3. ShareTypeOK'
    BY <1>1, <1>2 DEF ShareInv, ShareTypeOK, Others
  <1>4. StageInv'
    BY <1>1, StageFrame DEF IndexStages, EmergencyStages
  <1>5. EmergencyInv'
    BY <1>1, <1>2, EmergencyFrame DEF EmergencyStages
  <1>6. ASSUME shist'.served = shist.served PROVE ViewInv'
    BY <1>1, <1>2, <1>6, ViewFrame
  <1>7. ASSUME shist'.revoked = shist.revoked PROVE RevokeInv'
    BY <1>1, <1>7, RevokeFrame DEF RevokingRequest, IndexStages
  <1>8. ASSUME sreq[q].at # "fill",
               sreq[q].at = "revoked" => sreq[q].sid \in shist'.revoked,
               \A s \in shist'.announced : Acknowledged(s),
               shist.revoked \subseteq shist'.revoked, ~shist'.crashed => ~shist.crashed
        PROVE  IndexInv'
    <2>1. Rest.at \notin IndexStages \cup {"mark", "created"} /\ shist'.announced \subseteq Sids
      BY <1>1 DEF IndexStages, ShareHistory
    <2> QED BY <1>1, <1>2, <1>8, <2>1, IndexFrame
  <1>9. shist'.crashed => IndexInv'
    BY Zenon DEF IndexInv
  <1> QED BY <1>1, <1>3, <1>4, <1>5, <1>6, <1>7, <1>8, <1>9

LEMMA LeaveInv ==
  ASSUME ShareInv, NEW q \in ShareReqs, LockGivesUp(q) \/ ShareCrash(q)
  PROVE  ShareInv'
  <1>1. CASE LockGivesUp(q)
    <2>1. /\ ShareGo(q, Rest) /\ UNCHANGED <<smenu, file, index, egy, shist>>
          /\ locks' = Drop(q) /\ sreq[q].at \notin {"fill", "revoked"}
      BY <1>1 DEF LockGivesUp
    <2>2. \A s \in shist.announced : Acknowledged(s)
      BY DEF Acknowledged
    <2>3. shist \in ShareHistory
      BY DEF ShareInv, ShareTypeOK
    <2> QED BY <2>1, <2>2, <2>3, EndInv DEF ShareInv
  <1>2. CASE ShareCrash(q)
    <2>1. /\ ShareGo(q, Rest) /\ UNCHANGED <<smenu, file, index, egy>>
          /\ locks' = Drop(q) /\ shist' = [shist EXCEPT !.crashed = TRUE]
      BY <1>2 DEF ShareCrash
    <2>2. shist' \in ShareHistory
          /\ shist'.drawn = shist.drawn /\ shist'.asked = shist.asked
          /\ shist'.answered = shist.answered /\ shist'.crashed
          /\ shist'.revoked = shist.revoked /\ shist'.served = shist.served
      BY <2>1, Zenon DEF ShareInv, ShareTypeOK, ShareHistory
    <2> QED BY <2>1, <2>2, EndInv, Zenon DEF ShareInv
  <1> QED BY <1>1, <1>2

LEMMA ReplyInv ==
  ASSUME ShareInv, NEW q \in ShareReqs, CreateReply(q) \/ RevokeReply(q)
  PROVE  ShareInv'
  <1>1. ShareGo(q, Rest) /\ UNCHANGED <<smenu, file, index, locks, egy>>
    BY DEF CreateReply, RevokeReply
  <1>2. sreq[q].at \in {"created", "revoked"} /\ sreq[q].sid \in shist.drawn
        /\ sreq[q].sid \in Sids /\ shist \in ShareHistory
    BY DEF CreateReply, RevokeReply, ShareInv, StageInv, ShareTypeOK, ShareHistory
  <1>3. CASE CreateReply(q)
    <2>1. shist' = [shist EXCEPT !.announced = @ \cup {sreq[q].sid}] /\ sreq[q].at = "created"
      BY <1>3 DEF CreateReply
    <2>2. shist' \in ShareHistory
          /\ shist'.drawn = shist.drawn /\ shist'.asked = shist.asked
          /\ shist'.answered = shist.answered /\ shist'.crashed = shist.crashed
          /\ shist'.revoked = shist.revoked /\ shist'.served = shist.served
          /\ shist'.announced = shist.announced \cup {sreq[q].sid}
      BY <1>2, <2>1 DEF ShareHistory
    <2>3. \A s \in shist'.announced : Acknowledged(s)
      BY <2>1, <2>2 DEF Acknowledged
    <2> QED BY <1>1, <2>1, <2>2, <2>3, EndInv DEF ShareInv
  <1>4. CASE RevokeReply(q)
    <2>1. shist' = [shist EXCEPT !.revoked = @ \cup {sreq[q].sid}] /\ sreq[q].at = "revoked"
      BY <1>4 DEF RevokeReply
    <2>2. shist' \in ShareHistory
          /\ shist'.drawn = shist.drawn /\ shist'.asked = shist.asked
          /\ shist'.answered = shist.answered /\ shist'.crashed = shist.crashed
          /\ shist'.announced = shist.announced /\ shist'.served = shist.served
          /\ shist'.revoked = shist.revoked \cup {sreq[q].sid}
      BY <1>2, <2>1 DEF ShareHistory
    <2>3. \A s \in shist'.announced : Acknowledged(s)
      BY <2>2 DEF Acknowledged
    <2>4. /\ ShareTypeOK' /\ StageInv' /\ EmergencyInv' /\ ViewInv' /\ IndexInv'
          /\ sreq'[q] = Rest /\ Others(q) /\ Rest.at = "idle"
      BY <1>1, <2>1, <2>2, <2>3, EndInv
    <2>5. ASSUME NEW s \in Sids, Revoking(s)' PROVE Revoking(s)
      <3>1. CASE s \in shist'.revoked
        BY <2>1, <2>2, <3>1 DEF Revoking
      <3>2. CASE s \notin shist'.revoked
        BY <2>2, <2>4, <2>5, <3>2 DEF Revoking, Others, IndexStages
      <3> QED BY <3>1, <3>2
    <2>6. RevokeInv'
      BY <1>1, <1>2, <2>2, <2>5 DEF ShareInv, RevokeInv
    <2> QED BY <2>4, <2>6 DEF ShareInv
  <1> QED BY <1>3, <1>4

(* Serving a single view is the first and the last time. *)
LEMMA ViewServeInv ==
  ASSUME ShareInv, NEW q \in ShareReqs, ViewServe(q)
  PROVE  ShareInv'
  <1>1. PICK s \in Sids : s = sreq[q].sid /\ s \in shist.drawn
    BY DEF ViewServe, ShareInv, StageInv, ShareTypeOK, ShareHistory
  <1>2. /\ sreq[q].at = "serve" /\ ShareGo(q, Rest) /\ UNCHANGED <<smenu, file, index, locks, egy>>
        /\ shist' = [shist EXCEPT !.served[s] = IF @ < 2 THEN @ + 1 ELSE @]
    BY <1>1 DEF ViewServe
  <1>3. shist' \in ShareHistory
        /\ shist'.drawn = shist.drawn /\ shist'.asked = shist.asked
        /\ shist'.answered = shist.answered /\ shist'.crashed = shist.crashed
        /\ shist'.announced = shist.announced /\ shist'.revoked = shist.revoked
        /\ \A t \in Sids \ {s} : shist'.served[t] = shist.served[t]
        /\ shist.served[s] = 0 => shist'.served[s] = 1
    <2>1. shist \in ShareHistory
      BY DEF ShareInv, ShareTypeOK
    <2>2. PICK n \in 0 .. 2 : /\ n = (IF shist.served[s] < 2 THEN shist.served[s] + 1 ELSE shist.served[s])
                              /\ shist.served[s] = 0 => n = 1
      BY <2>1 DEF ShareHistory
    <2>3. shist' = [shist EXCEPT !.served = [shist.served EXCEPT ![s] = n]]
      BY <1>2, <2>1, <2>2 DEF ShareHistory
    <2> QED BY <2>1, <2>2, <2>3 DEF ShareHistory
  <1>4. \A t \in shist'.announced : Acknowledged(t)
    BY <1>3 DEF Acknowledged
  <1>5. /\ ShareTypeOK' /\ StageInv' /\ EmergencyInv' /\ RevokeInv' /\ IndexInv'
        /\ sreq'[q] = Rest /\ Others(q) /\ Rest.at = "idle"
    BY <1>2, <1>3, <1>4, EndInv
  <1>6. ViewInv'
    <2>1. file[s].single => file[s].viewed /\ shist.served[s] = 0
      BY <1>1, <1>2 DEF ShareInv, ViewInv
    <2>2. ASSUME NEW t \in Sids
          PROVE  /\ t \notin shist'.drawn => file'[t] = Absent /\ shist'.served[t] = 0
                 /\ file'[t].single /\ shist'.served[t] # 0 =>
                       file'[t].viewed /\ shist'.served[t] = 1
      <3>1. CASE t = s
        BY <1>1, <1>2, <1>3, <2>1, <3>1
      <3>2. CASE t # s
        BY <1>2, <1>3, <3>2 DEF ShareInv, ViewInv
      <3> QED BY <3>1, <3>2
    <2>3. ASSUME NEW p \in ShareReqs, sreq'[p].at \in {"mark", "serve"}
          PROVE  sreq'[p] = sreq[p] /\ p # q /\ sreq[p].sid \in Sids
      BY <1>5, <2>3 DEF Others, ShareInv, ShareTypeOK, StageInv, ShareHistory
    <2>4. ASSUME NEW p \in ShareReqs, sreq'[p].at = "serve", file'[sreq'[p].sid].single
          PROVE  /\ file'[sreq'[p].sid].viewed /\ shist'.served[sreq'[p].sid] = 0
                 /\ \A o \in ShareReqs :
                       sreq'[o].at = "serve" /\ sreq'[o].sid = sreq'[p].sid => o = p
      <3>1. sreq[p].sid # s
        BY <1>1, <1>2, <2>3, <2>4 DEF ShareInv, ViewInv
      <3> QED BY <1>2, <1>3, <2>3, <2>4, <3>1 DEF ShareInv, ViewInv
    <2>5. ASSUME NEW p \in ShareReqs, sreq'[p].at = "mark"
          PROVE  /\ locks'.rec[sreq'[p].sid] = p
                 /\ file'[sreq'[p].sid].single /\ ~file'[sreq'[p].sid].viewed
      BY <1>2, <2>3, <2>5 DEF ShareInv, ViewInv
    <2> QED BY <2>2, <2>4, <2>5 DEF ViewInv
  <1> QED BY <1>5, <1>6 DEF ShareInv

-----------------------------------------------------------------------------
(* Creating, revoking and viewing shares *)

(* A request has the id of a share that was drawn. *)
LEMMA SidDrawn ==
  ASSUME ShareInv, NEW q \in ShareReqs, sreq[q].at # "idle"
  PROVE  sreq[q].sid \in shist.drawn /\ sreq[q].sid \in Sids
  BY DEF ShareInv, ShareTypeOK, StageInv, ShareHistory

(* As IndexFrame, for a step that may come to updateShareIndex or to the   *)
(* marking of a record.                                                    *)
LEMMA IndexStart ==
  ASSUME ShareInv, NEW q \in ShareReqs, Others(q),
         sreq[q].at \notin {"fill", "revoked"},
         sreq'[q].at \notin {"created", "make", "lock", "open", "fill"},
         sreq'[q].at = "check" =>
            /\ sreq'[q].add <=> sreq'[q].back = "created"
            /\ sreq'[q].back = "idle" =>
                  locks'.rec[sreq'[q].sid] = q /\ ~file'[sreq'[q].sid].there,
         index' = index, smenu' = smenu, shist'.announced = shist.announced,
         shist'.revoked = shist.revoked, shist'.crashed = shist.crashed,
         \A s \in shist.drawn :
            ~file[s].there /\ (\A p \in ShareReqs : ~(sreq[p].at = "mark" /\ sreq[p].sid = s))
               => ~file'[s].there /\ ~(sreq'[q].at = "mark" /\ sreq'[q].sid = s),
         \A p \in ShareReqs \ {q}, s \in shist.drawn :
            locks.rec[s] = p /\ ~file[s].there => locks'.rec[s] = p /\ ~file'[s].there,
         \A p \in ShareReqs \ {q} : locks.index = p => locks'.index = p
  PROVE  IndexInv'
  <1> SUFFICES ASSUME ~smenu.fresh, ~shist.crashed
               PROVE  IndexInv'
    BY DEF IndexInv
  <1>1. index'.there /\ (index'.torn => \E p \in ShareReqs : sreq'[p].at = "fill")
        /\ shist'.announced \subseteq shist'.drawn /\ shist.announced \subseteq shist.drawn
    BY DEF ShareInv, IndexInv, Others
  <1>2. ASSUME NEW p \in ShareReqs
        PROVE  LET r == sreq'[p] IN
               /\ r.at # "make"
               /\ r.at \in {"open", "fill"} => locks'.index = p /\ r.got = index'.ids
               /\ r.at \in IndexStages => (r.add <=> r.back = "created")
               /\ r.at \in IndexStages /\ r.back = "idle" =>
                     locks'.rec[r.sid] = p /\ ~file'[r.sid].there
    <2>1. CASE p = q
      BY <2>1 DEF IndexStages
    <2>2. CASE p # q
      <3>1. sreq'[p] = sreq[p]
        BY <2>2, ZenonT(40) DEF Others
      <3>2. sreq[p].at \in IndexStages => sreq[p].sid \in shist.drawn
        BY SidDrawn DEF IndexStages
      <3> QED BY <2>2, <3>1, <3>2 DEF ShareInv, IndexInv
    <2> QED BY <2>1, <2>2
  <1>3. ASSUME NEW s \in Sids, Acknowledged(s)', s \notin index'.ids
        PROVE  Missing(s)'
    <2>1. Acknowledged(s)
      BY <1>3 DEF Acknowledged, Others
    <2>2. Missing(s)
      BY <1>3, <2>1 DEF ShareInv, IndexInv
    <2>3. s \in shist.drawn
      BY <1>1, <2>1, SidDrawn, ZenonT(40) DEF Acknowledged
    <2>4. CASE s \in shist.revoked
      BY <2>4 DEF Missing
    <2>5. ASSUME NEW p \in ShareReqs, sreq[p].at = "revoked", sreq[p].sid = s
          PROVE  Missing(s)'
      BY <2>5 DEF Missing, Others
    <2>6. CASE ~file[s].there /\ \A p \in ShareReqs : ~(sreq[p].at = "mark" /\ sreq[p].sid = s)
      <3>1. ~file'[s].there /\ ~(sreq'[q].at = "mark" /\ sreq'[q].sid = s)
        BY <2>3, <2>6
      <3> QED BY <2>6, <3>1 DEF Missing, Others
    <2> QED BY <2>2, <2>4, <2>5, <2>6 DEF Missing
  <1> QED BY <1>1, <1>2, <1>3 DEF IndexInv

LEMMA CreateShareInv ==
  ASSUME ShareInv, NEW q \in ShareReqs, NEW s \in Sids, NEW single \in BOOLEAN,
         CreateShare(q, s, single)
  PROVE  ShareInv'
  <1> DEFINE n == ToIndex(s, TRUE, "created")
             new == [there |-> TRUE, single |-> single, viewed |-> FALSE, expired |-> FALSE]
  <1>1. /\ sreq[q] = Rest /\ s \notin shist.drawn /\ file' = [file EXCEPT ![s] = new]
        /\ shist' = [shist EXCEPT !.drawn = @ \cup {s}] /\ ShareGo(q, n)
        /\ UNCHANGED <<smenu, index, locks, egy>>
    BY Zenon DEF CreateShare, Offered
  <1>2. n \in ShareRequest /\ n.at = "check" /\ n.sid = s /\ n.add = TRUE /\ n.back = "created"
        /\ Rest.at = "idle"
    BY RestType, Zenon DEF ToIndex, Rest, ShareRequest, AllStages, IndexStages
  <1> HIDE DEF n
  <1>3. shist' \in ShareHistory /\ shist'.drawn = shist.drawn \cup {s}
        /\ shist'.announced = shist.announced /\ shist'.revoked = shist.revoked
        /\ shist'.served = shist.served /\ shist'.asked = shist.asked
        /\ shist'.answered = shist.answered /\ shist'.crashed = shist.crashed
    BY <1>1, Zenon DEF ShareInv, ShareTypeOK, ShareHistory
  <1>4. sreq'[q] = n /\ Others(q)
    BY <1>1, <1>2, <1>3, GoFacts DEF Others, ShareInv
  <1>5. file' \in [Sids -> [there : BOOLEAN, single : BOOLEAN, viewed : BOOLEAN, expired : BOOLEAN]]
        /\ (\A t \in Sids \ {s} : file'[t] = file[t]) /\ file'[s] = new
    BY <1>1 DEF ShareInv, ShareTypeOK
  <1>6. ShareTypeOK'
    BY <1>1, <1>3, <1>4, <1>5 DEF ShareInv, ShareTypeOK, Others
  <1>7. StageInv'
    BY <1>2, <1>3, <1>4, StageFrame DEF EmergencyStages
  <1>8. EmergencyInv'
    BY <1>1, <1>2, <1>3, <1>4, EmergencyFrame DEF EmergencyStages
  <1>9. \A p \in ShareReqs : sreq'[p].at \notin {"idle", "check"} =>
           p # q /\ sreq'[p] = sreq[p] /\ sreq[p].sid \in Sids \ {s}
    BY <1>1, <1>2, <1>4, SidDrawn DEF Others
  <1>10. ViewInv'
    <2>1. ASSUME NEW t \in Sids
          PROVE  /\ t \notin shist'.drawn => file'[t] = Absent /\ shist'.served[t] = 0
                 /\ file'[t].single /\ shist'.served[t] # 0 =>
                       file'[t].viewed /\ shist'.served[t] = 1
      BY <1>1, <1>3, <1>5 DEF ShareInv, ViewInv
    <2> QED BY <1>1, <1>3, <1>5, <1>9, <2>1 DEF ShareInv, ViewInv
  <1>11. RevokeInv'
    <2>1. ASSUME NEW t \in Sids, Revoking(t)' PROVE Revoking(t) /\ t # s
      <3>1. CASE t \in shist'.revoked
        BY <1>1, <1>3, <3>1 DEF Revoking, ShareInv, RevokeInv
      <3>2. ASSUME NEW p \in ShareReqs, sreq'[p].sid = t,
                   RevokingRequest(sreq'[p])
            PROVE  Revoking(t) /\ t # s
        <4>1. p # q
          BY <1>2, <1>4, <3>2 DEF RevokingRequest, IndexStages
        <4>2. sreq'[p] = sreq[p] /\ sreq[p].at # "idle"
          BY <1>4, <3>2, <4>1 DEF Others, RevokingRequest, IndexStages
        <4> QED BY <1>1, <3>2, <4>2, SidDrawn DEF Revoking, RevokingRequest
      <3> QED BY <2>1, <3>1, <3>2, Zenon DEF Revoking, RevokingRequest
    <2> QED BY <1>3, <1>5, <2>1, Zenon DEF ShareInv, RevokeInv
  <1>12. IndexInv'
    <2>1. shist.drawn \subseteq Sids \ {s}
      BY <1>1 DEF ShareInv, ShareTypeOK, ShareHistory
    <2>2. \A t \in shist.drawn : file'[t] = file[t]
      BY <1>5, <2>1
    <2>3. sreq[q].at = "idle" /\ sreq'[q].at = "check" /\ sreq'[q].add /\ sreq'[q].back = "created"
      BY <1>1, <1>2, <1>4
    <2> QED BY <1>1, <1>3, <1>4, <2>2, <2>3, IndexStart
  <1> QED BY <1>6, <1>7, <1>8, <1>10, <1>11, <1>12 DEF ShareInv

(* What the steps of a DELETE and of a view have in common. *)
LEMMA ShareMoveInv ==
  ASSUME ShareInv, NEW q \in ShareReqs, NEW n \in ShareRequest, ShareGo(q, n),
         UNCHANGED <<smenu, index, egy, shist>>,
         n.at \in {"check", "revoked"} \cup ViewStages, n.sid \in shist.drawn,
         n.back \in {"idle", "revoked"}, ~n.add,
         file' \in [Sids -> [there : BOOLEAN, single : BOOLEAN, viewed : BOOLEAN,
                            expired : BOOLEAN]],
         locks' \in LockFiles,
         \A p \in ShareReqs \ {q} :
            /\ locks.index = p => locks'.index = p
            /\ locks.egy = p => locks'.egy = p
  PROVE  /\ ShareTypeOK' /\ StageInv' /\ EmergencyInv'
         /\ sreq'[q] = n /\ Others(q)
  <1>1. sreq'[q] = n /\ Others(q)
    BY GoFacts DEF Others, ShareInv
  <1>2. ShareTypeOK'
    BY <1>1, Zenon DEF ShareInv, ShareTypeOK, Others
  <1>3. StageInv'
    BY <1>1, StageFrame DEF ViewStages, EmergencyStages
  <1>4. EmergencyInv'
    BY <1>1, EmergencyFrame DEF ViewStages, EmergencyStages
  <1> QED BY <1>1, <1>2, <1>3, <1>4

LEMMA RevokeShareInv ==
  ASSUME ShareInv, NEW q \in ShareReqs, NEW s \in Sids, RevokeShare(q, s)
  PROVE  ShareInv'
  <1> DEFINE n == IF file[s].there THEN ToIndex(s, FALSE, "revoked")
                  ELSE [Rest EXCEPT !.at = "revoked", !.sid = s]
  <1>1. /\ sreq[q] = Rest /\ s \in shist.drawn /\ ShareGo(q, n)
        /\ UNCHANGED <<smenu, index, locks, egy, shist>>
        /\ file' = IF file[s].there THEN [file EXCEPT ![s].there = FALSE] ELSE file
    BY Zenon DEF RevokeShare, Offered
  <1>2. n \in ShareRequest /\ n.sid = s /\ n.add = FALSE /\ n.back \in {"idle", "revoked"}
        /\ n.at = (IF file[s].there THEN "check" ELSE "revoked")
        /\ (n.at = "check" => n.back = "revoked") /\ Rest.at = "idle"
    BY RestType, Zenon DEF ToIndex, Rest, ShareRequest, AllStages, IndexStages
  <1> HIDE DEF n
  <1>3. file' \in [Sids -> [there : BOOLEAN, single : BOOLEAN, viewed : BOOLEAN, expired : BOOLEAN]]
        /\ (\A t \in Sids \ {s} : file'[t] = file[t]) /\ ~file'[s].there
        /\ file'[s].single = file[s].single /\ file'[s].viewed = file[s].viewed
    BY <1>1, ZenonT(40) DEF ShareInv, ShareTypeOK
  <1>4. locks \in LockFiles /\ shist.drawn \subseteq Sids
    BY DEF ShareInv, ShareTypeOK, ShareHistory
  <1>5. ShareTypeOK' /\ StageInv' /\ EmergencyInv' /\ sreq'[q] = n /\ Others(q)
    <2>1. n.at \in {"check", "revoked"} \cup ViewStages /\ n.sid \in shist.drawn /\ ~n.add
      BY <1>1, <1>2
    <2> QED BY <1>1, <1>2, <1>3, <1>4, <2>1, ShareMoveInv, Zenon
  <1>6. \A t \in Sids : /\ file'[t].single = file[t].single /\ file'[t].viewed = file[t].viewed
                        /\ t \notin shist'.drawn => file'[t] = file[t]
                        /\ file'[t].there => file[t].there
    BY <1>1, <1>3
  <1>7. ViewInv'
    BY <1>1, <1>2, <1>5, <1>6, ViewFrame
  <1>8. RevokeInv'
    <2>1. ASSUME NEW t \in Sids, Revoking(t)', t # s PROVE Revoking(t)
      BY <1>1, <1>2, <1>5, <2>1 DEF Revoking, Others
    <2> QED BY <1>1, <1>3, <2>1 DEF ShareInv, RevokeInv
  <1>9. IndexInv'
    <2>1. /\ sreq[q].at \notin {"fill", "revoked"}
          /\ sreq'[q].at \notin {"created", "make", "lock", "open", "fill", "mark"}
          /\ ~sreq'[q].add /\ sreq'[q].back # "created"
          /\ sreq'[q].at = "check" => sreq'[q].back # "idle"
      BY <1>1, <1>2, <1>5
    <2>2. \A t \in shist.drawn : ~file[t].there => ~file'[t].there
      BY <1>4, <1>6
    <2> QED BY <1>1, <1>5, <2>1, <2>2, IndexStart
  <1> QED BY <1>5, <1>7, <1>8, <1>9 DEF ShareInv

LEMMA ViewLookupInv ==
  ASSUME ShareInv, NEW q \in ShareReqs, NEW s \in Sids, ViewLookup(q, s)
  PROVE  ShareInv'
  <1> DEFINE n == [Rest EXCEPT !.at = "claim", !.sid = s]
  <1>1. /\ sreq[q] = Rest /\ s \in shist.drawn /\ ShareGo(q, n)
        /\ UNCHANGED <<smenu, file, index, locks, egy, shist>>
    BY DEF ViewLookup, Offered
  <1>2. n \in ShareRequest /\ n.sid = s /\ n.add = FALSE /\ n.back = "idle"
        /\ n.at = "claim" /\ Rest.at = "idle"
    BY RestType, Zenon DEF Rest, ShareRequest, AllStages, ViewStages
  <1> HIDE DEF n
  <1>3. locks \in LockFiles
        /\ file \in [Sids -> [there : BOOLEAN, single : BOOLEAN, viewed : BOOLEAN, expired : BOOLEAN]]
    BY DEF ShareInv, ShareTypeOK
  <1>4. ShareTypeOK' /\ StageInv' /\ EmergencyInv' /\ sreq'[q] = n /\ Others(q)
    BY <1>1, <1>2, <1>3, ShareMoveInv DEF ViewStages
  <1>5. ViewInv'
    BY <1>1, <1>2, <1>4, ViewFrame, Zenon
  <1>6. RevokeInv'
    BY <1>1, <1>2, <1>4, RevokeFrame, Zenon DEF RevokingRequest, IndexStages
  <1>7. IndexInv'
    <2>1. sreq[q].at = "idle" /\ sreq'[q].at = "claim"
      BY <1>1, <1>2, <1>4
    <2> QED BY <1>1, <1>4, <2>1, IndexStart, Zenon
  <1> QED BY <1>4, <1>5, <1>6, <1>7 DEF ShareInv

(* The lock of the record is taken by who marks it or removes it. *)
LEMMA ViewClaimInv ==
  ASSUME ShareInv, NEW q \in ShareReqs, ViewClaim(q)
  PROVE  ShareInv'
  <1>1. PICK s \in Sids : s = sreq[q].sid /\ s \in shist.drawn
    BY SidDrawn, Zenon DEF ViewClaim
  <1>2. /\ sreq[q].at = "claim" /\ locks.rec[s] = Nobody
        /\ UNCHANGED <<smenu, index, egy, shist>>
    BY <1>1, Zenon DEF ViewClaim
  <1>3. /\ locks \in LockFiles /\ shist.drawn \subseteq Sids /\ sreq[q] \in ShareRequest
        /\ file \in [Sids -> [there : BOOLEAN, single : BOOLEAN, viewed : BOOLEAN, expired : BOOLEAN]]
        /\ shist \in ShareHistory
    BY DEF ShareInv, ShareTypeOK, ShareHistory
  <1>4. ASSUME locks' = [locks EXCEPT !.rec[s] = q]
        PROVE  /\ locks' \in LockFiles /\ locks'.index = locks.index /\ locks'.egy = locks.egy
               /\ locks'.rec[s] = q
               /\ \A t \in Sids \ {s} : locks'.rec[t] = locks.rec[t]
               /\ \A p \in ShareReqs, t \in Sids : locks.rec[t] = p => locks'.rec[t] = p
    BY <1>2, <1>3, <1>4, Zenon DEF LockFiles
  <1>5. ASSUME ShareGo(q, Rest), UNCHANGED <<file, locks>>
        PROVE  ShareInv'
    <2>1. \A t \in shist.announced : Acknowledged(t)
      BY DEF Acknowledged
    <2> QED BY <1>2, <1>3, <1>5, <2>1, EndInv, Zenon DEF ShareInv
  <1>6. ASSUME file[s].there, file' = [file EXCEPT ![s].there = FALSE],
               locks' = [locks EXCEPT !.rec[s] = q], ShareGo(q, ToIndex(s, FALSE, "idle"))
        PROVE  ShareInv'
    <2> DEFINE n == ToIndex(s, FALSE, "idle")
    <2>1. n \in ShareRequest /\ n.sid = s /\ n.add = FALSE /\ n.back = "idle" /\ n.at = "check"
      BY RestType, Zenon DEF ToIndex, Rest, ShareRequest, AllStages, IndexStages
    <2>2. ShareGo(q, n)
      BY <1>6, Zenon
    <2> HIDE DEF n
    <2>3. file' \in [Sids -> [there : BOOLEAN, single : BOOLEAN, viewed : BOOLEAN, expired : BOOLEAN]]
          /\ (\A t \in Sids \ {s} : file'[t] = file[t]) /\ ~file'[s].there
          /\ file'[s].single = file[s].single /\ file'[s].viewed = file[s].viewed
      BY <1>3, <1>6, Zenon
    <2>4. ShareTypeOK' /\ StageInv' /\ EmergencyInv' /\ sreq'[q] = n /\ Others(q)
      <3>1. /\ n.at \in {"check", "revoked"} \cup ViewStages /\ n.sid \in shist.drawn
            /\ n.back \in {"idle", "revoked"} /\ ~n.add
        BY <1>1, <2>1, Zenon
      <3>2. locks' \in LockFiles /\ locks'.index = locks.index /\ locks'.egy = locks.egy
        BY <1>4, <1>6
      <3>3. UNCHANGED <<smenu, index, egy, shist>>
        BY <1>2, Zenon
      <3> QED BY <2>1, <2>2, <2>3, <3>1, <3>2, <3>3, ShareMoveInv, Zenon
    <2>5. \A t \in Sids : /\ file'[t].single = file[t].single /\ file'[t].viewed = file[t].viewed
                          /\ t \notin shist'.drawn => file'[t] = file[t]
                          /\ file'[t].there => file[t].there
      BY <1>1, <1>2, <1>6, <2>3, Zenon
    <2>6. ViewInv'
      BY <1>2, <1>4, <1>6, <2>1, <2>4, <2>5, ViewFrame
    <2>7. RevokeInv'
      BY <1>2, <2>1, <2>4, <2>5, RevokeFrame, Zenon DEF RevokingRequest, IndexStages
    <2>8. IndexInv'
      <3>1. \A t \in shist.drawn : ~file[t].there => ~file'[t].there
        BY <1>3, <2>5
      <3>2. \A p \in ShareReqs \ {q}, t \in shist.drawn :
              locks.rec[t] = p /\ ~file[t].there => locks'.rec[t] = p /\ ~file'[t].there
        BY <1>3, <1>4, <1>6, <3>1
      <3>3. sreq'[q].at = "check" /\ ~sreq'[q].add /\ sreq'[q].back = "idle" /\ sreq'[q].sid = s
        BY <2>1, <2>4
      <3> QED BY <1>2, <1>4, <1>6, <2>3, <2>4, <3>1, <3>2, <3>3, IndexStart
    <2> QED BY <2>4, <2>6, <2>7, <2>8 DEF ShareInv
  <1>7. ASSUME NEW at \in {"serve", "mark"}, ShareGo(q, [sreq[q] EXCEPT !.at = at]),
               file[s].there, UNCHANGED file,
               at = "serve" => ~file[s].single /\ UNCHANGED locks,
               at = "mark" => /\ file[s].single /\ ~file[s].viewed
                              /\ locks' = [locks EXCEPT !.rec[s] = q]
        PROVE  ShareInv'
    <2> DEFINE n == [sreq[q] EXCEPT !.at = at]
    <2>1. n \in ShareRequest /\ n.sid = s /\ n.at = at /\ n.back = sreq[q].back /\ n.add = sreq[q].add
      BY <1>1, <1>3, <1>7 DEF ShareRequest, AllStages, ViewStages
    <2> HIDE DEF n
    <2>2. /\ locks' \in LockFiles /\ locks'.index = locks.index /\ locks'.egy = locks.egy
          /\ \A p \in ShareReqs, t \in Sids : locks.rec[t] = p => locks'.rec[t] = p
          /\ at = "mark" => locks'.rec[s] = q
      BY <1>3, <1>4, <1>7
    <2>3. sreq'[q] = n /\ Others(q)
      BY <1>2, <1>7, <2>1, GoFacts DEF Others, ShareInv, n
    <2>4. ShareTypeOK'
      BY <1>2, <1>7, <2>2, <2>3 DEF ShareInv, ShareTypeOK, Others
    <2>5. StageInv'
      BY <1>1, <1>2, <1>7, <2>1, <2>3, StageFrame DEF IndexStages, EmergencyStages
    <2>6. EmergencyInv'
      BY <1>2, <1>7, <2>1, <2>2, <2>3, EmergencyFrame DEF EmergencyStages
    <2>7. RevokeInv'
      BY <1>2, <1>7, <2>1, <2>3, RevokeFrame DEF RevokingRequest, IndexStages
    <2>8. IndexInv'
      <3>1. \A p \in ShareReqs \ {q}, t \in shist.drawn :
              locks.rec[t] = p /\ ~file[t].there => locks'.rec[t] = p /\ ~file'[t].there
        BY <1>3, <1>7, <2>2
      <3>2. \A t \in shist.drawn : ~file[t].there => ~file'[t].there /\ sreq'[q].sid # t
        BY <1>1, <1>7, <2>1, <2>3
      <3>3. sreq'[q].at \in {"serve", "mark"}
        BY <2>1, <2>3
      <3> QED BY <1>2, <1>7, <2>2, <2>3, <3>1, <3>2, <3>3, IndexStart
    <2>9. ViewInv'
      <3>1. ASSUME NEW p \in ShareReqs, p # q, sreq'[p].at \in {"mark", "serve"}
            PROVE  sreq'[p] = sreq[p] /\ sreq[p].sid \in Sids
        BY <2>3, <3>1, SidDrawn DEF Others
      <3>2. ASSUME NEW p \in ShareReqs, sreq'[p].at = "mark"
            PROVE  /\ locks'.rec[sreq'[p].sid] = p
                   /\ file'[sreq'[p].sid].single /\ ~file'[sreq'[p].sid].viewed
        <4>1. CASE p = q
          BY <1>7, <2>1, <2>2, <2>3, <3>2, <4>1
        <4>2. CASE p # q
          BY <1>7, <2>2, <3>1, <3>2, <4>2 DEF ShareInv, ViewInv
        <4> QED BY <4>1, <4>2, Zenon
      <3>3. ASSUME NEW p \in ShareReqs, sreq'[p].at = "serve", file'[sreq'[p].sid].single
            PROVE  /\ file'[sreq'[p].sid].viewed /\ shist'.served[sreq'[p].sid] = 0
                   /\ \A o \in ShareReqs :
                         sreq'[o].at = "serve" /\ sreq'[o].sid = sreq'[p].sid => o = p
        <4>1. p # q /\ (sreq'[q].at = "serve" => sreq'[q].sid # sreq'[p].sid)
          BY <1>7, <2>1, <2>3, <3>3
        <4> QED BY <1>2, <1>7, <3>1, <3>3, <4>1 DEF ShareInv, ViewInv
      <3>4. \A t \in Sids :
              /\ t \notin shist'.drawn => file'[t] = Absent /\ shist'.served[t] = 0
              /\ file'[t].single /\ shist'.served[t] # 0 =>
                    file'[t].viewed /\ shist'.served[t] = 1
        BY <1>2, <1>7 DEF ShareInv, ViewInv
      <3> QED BY <3>2, <3>3, <3>4, Zenon DEF ViewInv
    <2> QED BY <2>4, <2>5, <2>6, <2>7, <2>8, <2>9 DEF ShareInv
  <1> QED BY <1>1, <1>5, <1>6, <1>7, Zenon DEF ViewClaim

(* Nobody was served before the record is marked, and who marked it is     *)
(* the only one to be served.                                              *)
LEMMA ViewMarkInv ==
  ASSUME ShareInv, NEW q \in ShareReqs, ViewMark(q)
  PROVE  ShareInv'
  <1>1. PICK s \in Sids : s = sreq[q].sid /\ s \in shist.drawn
    BY SidDrawn DEF ViewMark
  <1> DEFINE n == [sreq[q] EXCEPT !.at = "serve"]
  <1>2. /\ sreq[q].at = "mark" /\ ShareGo(q, n) /\ locks' = Drop(q)
        /\ file' = [file EXCEPT ![s].there = TRUE, ![s].viewed = TRUE]
        /\ UNCHANGED <<smenu, index, egy, shist>>
    BY <1>1 DEF ViewMark
  <1>3. /\ sreq[q] \in ShareRequest /\ shist \in ShareHistory
        /\ file \in [Sids -> [there : BOOLEAN, single : BOOLEAN, viewed : BOOLEAN, expired : BOOLEAN]]
    BY DEF ShareInv, ShareTypeOK
  <1>4. locks.rec[s] = q /\ file[s].single /\ ~file[s].viewed /\ shist.served[s] = 0
    BY <1>1, <1>2, Zenon DEF ShareInv, ViewInv
  <1>5. n \in ShareRequest /\ n.sid = s /\ n.at = "serve"
    BY <1>1, <1>3 DEF ShareRequest, AllStages, ViewStages
  <1> HIDE DEF n
  <1>6. file' \in [Sids -> [there : BOOLEAN, single : BOOLEAN, viewed : BOOLEAN, expired : BOOLEAN]]
        /\ (\A t \in Sids \ {s} : file'[t] = file[t])
        /\ file'[s].single /\ file'[s].viewed
    BY <1>2, <1>3, <1>4
  <1>7. /\ locks' \in LockFiles
        /\ \A p \in ShareReqs \ {q} : /\ locks.index = p => locks'.index = p
                                      /\ locks.egy = p => locks'.egy = p
                                      /\ \A t \in Sids : locks.rec[t] = p => locks'.rec[t] = p
    BY <1>2, DropFacts DEF ShareInv
  <1>8. sreq'[q] = n /\ Others(q)
    BY <1>2, <1>5, GoFacts DEF Others, ShareInv
  <1>9. ShareTypeOK'
    BY <1>2, <1>6, <1>7, <1>8 DEF ShareInv, ShareTypeOK, Others
  <1>10. StageInv'
    BY <1>1, <1>2, <1>5, <1>8, StageFrame DEF IndexStages, EmergencyStages
  <1>11. EmergencyInv'
    BY <1>2, <1>5, <1>7, <1>8, EmergencyFrame DEF EmergencyStages
  <1>12. RevokeInv'
    <2>1. \A t \in Sids : Revoking(t)' => Revoking(t)
      BY <1>2, <1>5, <1>8 DEF Revoking, Others, IndexStages
    <2> QED BY <1>2, <1>6, <2>1 DEF ShareInv, RevokeInv
  <1>13. ViewInv'
    <2>1. ASSUME NEW p \in ShareReqs, p # q, sreq'[p].at \in {"mark", "serve"}
          PROVE  sreq'[p] = sreq[p] /\ sreq[p].sid \in Sids \ {s}
      <3>1. sreq'[p] = sreq[p] /\ sreq[p].sid \in Sids
        BY <1>8, <2>1, SidDrawn DEF Others
      <3>2. CASE sreq[p].at = "mark"
        BY <1>4, <2>1, <3>1, <3>2, Zenon DEF ShareInv, ViewInv
      <3>3. CASE sreq[p].at = "serve"
        BY <1>4, <2>1, <3>1, <3>3, ZenonT(40) DEF ShareInv, ViewInv
      <3> QED BY <2>1, <3>1, <3>2, <3>3
    <2>2. ASSUME NEW p \in ShareReqs, sreq'[p].at = "mark"
          PROVE  /\ locks'.rec[sreq'[p].sid] = p
                 /\ file'[sreq'[p].sid].single /\ ~file'[sreq'[p].sid].viewed
      <3>1. p # q
        BY <1>5, <1>8, <2>2
      <3> QED BY <1>6, <1>7, <2>1, <2>2, <3>1 DEF ShareInv, ViewInv
    <2>3. ASSUME NEW p \in ShareReqs, sreq'[p].at = "serve", file'[sreq'[p].sid].single
          PROVE  /\ file'[sreq'[p].sid].viewed /\ shist'.served[sreq'[p].sid] = 0
                 /\ \A o \in ShareReqs :
                       sreq'[o].at = "serve" /\ sreq'[o].sid = sreq'[p].sid => o = p
      <3>1. CASE p = q
        <4>1. sreq'[p].sid = s
          BY <1>5, <1>8, <3>1, Zenon
        <4>2. \A o \in ShareReqs : sreq'[o].at = "serve" /\ sreq'[o].sid = s => o = p
          BY <2>1, <3>1
        <4> QED BY <1>2, <1>4, <1>6, <4>1, <4>2
      <3>2. CASE p # q
        <4>1. sreq'[q].sid # sreq'[p].sid
          BY <1>5, <1>8, <2>1, <2>3, <3>2
        <4> QED BY <1>2, <1>6, <2>1, <2>3, <3>2, <4>1 DEF ShareInv, ViewInv
      <3> QED BY <3>1, <3>2, Zenon
    <2>4. ASSUME NEW t \in Sids
          PROVE  /\ t \notin shist'.drawn => file'[t] = Absent /\ shist'.served[t] = 0
                 /\ file'[t].single /\ shist'.served[t] # 0 =>
                       file'[t].viewed /\ shist'.served[t] = 1
      <3>1. CASE t = s
        BY <1>1, <1>2, <1>4, <3>1, Zenon
      <3>2. CASE t # s
        BY <1>2, <1>6, <3>2 DEF ShareInv, ViewInv
      <3> QED BY <3>1, <3>2
    <2> QED BY <2>2, <2>3, <2>4, Zenon DEF ViewInv
  <1>14. IndexInv'
    <2>1. \A t \in shist.drawn :
            ~file[t].there /\ (\A p \in ShareReqs : ~(sreq[p].at = "mark" /\ sreq[p].sid = t))
               => ~file'[t].there
      BY <1>1, <1>2, <1>3, <1>6, Zenon DEF ShareHistory
    <2>2. \A p \in ShareReqs \ {q}, t \in shist.drawn :
            locks.rec[t] = p /\ ~file[t].there => locks'.rec[t] = p /\ ~file'[t].there
      BY <1>3, <1>4, <1>6, <1>7 DEF ShareHistory
    <2>3. sreq'[q].at = "serve"
      BY <1>5, <1>8
    <2> QED BY <1>2, <1>7, <1>8, <2>1, <2>2, <2>3, IndexStart, Zenon
  <1> QED BY <1>9, <1>10, <1>11, <1>12, <1>13, <1>14 DEF ShareInv

-----------------------------------------------------------------------------
(* Emergency access *)

(* What the steps of emergency access leave alone. *)
LEMMA EmergencyMoveInv ==
  ASSUME ShareInv, NEW q \in ShareReqs, NEW n \in ShareRequest, ShareGo(q, n),
         UNCHANGED <<smenu, file, index>>,
         sreq[q].at \in EmergencyStages \cup {"idle"},
         n.at \in EmergencyStages => n.sid \in shist'.drawn /\ n.back \in Statuses,
         n.at \notin EmergencyStages => n = Rest,
         egy' \in [on : BOOLEAN, there : BOOLEAN, list : Lists],
         locks' \in {locks, Drop(q), [locks EXCEPT !.egy = q]},
         shist' \in ShareHistory, shist.drawn \subseteq shist'.drawn,
         shist'.announced = shist.announced, shist'.revoked = shist.revoked,
         shist'.served = shist.served, shist'.crashed = shist.crashed
  PROVE  /\ ShareTypeOK' /\ StageInv' /\ ViewInv' /\ RevokeInv' /\ IndexInv'
         /\ sreq'[q] = n /\ Others(q)
  <1>1. sreq'[q] = n /\ Others(q)
    BY GoFacts DEF Others, ShareInv
  <1>2. /\ locks' \in LockFiles
        /\ \A p \in ShareReqs \ {q} : /\ locks.index = p => locks'.index = p
                                      /\ \A t \in Sids : locks.rec[t] = p => locks'.rec[t] = p
    <2>1. CASE locks' = locks
      BY <2>1 DEF ShareInv, ShareTypeOK
    <2>2. CASE locks' = Drop(q)
      BY <2>2, DropFacts DEF ShareInv
    <2>3. CASE locks' = [locks EXCEPT !.egy = q]
      BY <2>3 DEF ShareInv, ShareTypeOK, LockFiles
    <2> QED BY <2>1, <2>2, <2>3
  <1>3. n.at \in EmergencyStages \cup {"idle"}
    BY DEF Rest
  <1>4. ShareTypeOK'
    BY <1>1, <1>2 DEF ShareInv, ShareTypeOK, Others
  <1>5. StageInv'
    BY <1>1, <1>3, StageFrame, Zenon DEF IndexStages, EmergencyStages, Rest
  <1>6. ViewInv'
    BY <1>1, <1>2, <1>3, ViewFrame DEF EmergencyStages
  <1>7. RevokeInv'
    BY <1>1, <1>3, RevokeFrame DEF EmergencyStages, RevokingRequest, IndexStages
  <1>8. IndexInv'
    <2>1. sreq[q].at \notin {"fill", "revoked"}
          /\ sreq'[q].at \notin {"check", "created", "make", "lock", "open", "fill", "mark"}
      BY <1>1, <1>3 DEF EmergencyStages
    <2>2. shist.drawn \subseteq Sids
      BY DEF ShareInv, ShareTypeOK, ShareHistory
    <2>3. \A p \in ShareReqs \ {q}, t \in shist.drawn : locks.rec[t] = p => locks'.rec[t] = p
      BY <1>2, <2>2
    <2> QED BY <1>1, <1>2, <2>1, <2>3, IndexStart
  <1> QED BY <1>1, <1>4, <1>5, <1>6, <1>7, <1>8

(* A new request has an id nobody asked with; an answer, one that was      *)
(* acknowledged.                                                           *)
LEMMA EmergencyCallInv ==
  ASSUME ShareInv, NEW q \in ShareReqs, NEW s \in Sids, NEW act \in Statuses,
         EmergencyCall(q, s, act)
  PROVE  ShareInv'
  <1> DEFINE at == IF egy.there THEN "elock" ELSE "emake"
             n == [Rest EXCEPT !.at = at, !.sid = s, !.back = act]
  <1>1. /\ sreq[q] = Rest /\ ShareGo(q, n) /\ UNCHANGED <<smenu, file, index, locks, egy>>
        /\ shist' = [shist EXCEPT !.drawn = @ \cup {s}]
        /\ IF act = "pending" THEN s \notin shist.drawn ELSE s \in shist.asked
    BY DEF EmergencyCall, Offered
  <1>2. at \in {"elock", "emake"} /\ (egy.there => at = "elock")
    OBVIOUS
  <1> HIDE DEF at
  <1>3. n \in ShareRequest /\ n.at = at /\ n.sid = s /\ n.back = act /\ Rest.at = "idle"
    BY <1>2, RestType, Zenon DEF Rest, ShareRequest, AllStages, EmergencyStages
  <1> HIDE DEF n
  <1>4. shist' \in ShareHistory /\ shist'.drawn = shist.drawn \cup {s}
        /\ shist'.announced = shist.announced /\ shist'.revoked = shist.revoked
        /\ shist'.served = shist.served /\ shist'.asked = shist.asked
        /\ shist'.answered = shist.answered /\ shist'.crashed = shist.crashed
    BY <1>1, Zenon DEF ShareInv, ShareTypeOK, ShareHistory
  <1>5. egy \in [on : BOOLEAN, there : BOOLEAN, list : Lists]
    BY DEF ShareInv, ShareTypeOK
  <1>6. /\ ShareTypeOK' /\ StageInv' /\ ViewInv' /\ RevokeInv' /\ IndexInv'
        /\ sreq'[q] = n /\ Others(q)
    <2>1. n.at \in EmergencyStages /\ n.sid \in shist'.drawn /\ n.back \in Statuses
          /\ sreq[q].at \in EmergencyStages \cup {"idle"}
      BY <1>1, <1>2, <1>3, <1>4 DEF EmergencyStages
    <2> QED BY <1>1, <1>3, <1>4, <1>5, <2>1, EmergencyMoveInv, Zenon
  <1>7. EmergencyInv'
    <2> SUFFICES ASSUME ~smenu.fresh PROVE EmergencyInv'
      BY <1>1 DEF EmergencyInv
    <2>1. /\ egy.there /\ shist.asked \subseteq shist.drawn
          /\ \A p \in ShareReqs : sreq[p].at \in EmergencyStages /\ sreq[p].back = "pending"
                => sreq[p].sid \notin shist.asked
      BY Zenon DEF ShareInv, EmergencyInv
    <2>2. ASSUME NEW p \in ShareReqs, p # q, sreq'[p].at \in EmergencyStages
          PROVE  sreq'[p] = sreq[p] /\ sreq[p].sid \in shist.drawn
      BY <1>6, <2>2, SidDrawn, Zenon DEF Others, EmergencyStages
    <2>3. sreq'[q].at = "elock" /\ sreq'[q].sid = s /\ sreq'[q].back = act
      BY <1>2, <1>3, <1>6, <2>1, Zenon
    <2>4. ASSUME NEW p \in ShareReqs
          PROVE  LET r == sreq'[p] IN
                 /\ r.at # "emake"
                 /\ r.at = "esave" => locks'.egy = p /\ r.list = egy'.list
                 /\ r.at \in EmergencyStages /\ r.back # "pending" => r.sid \in shist'.asked
                 /\ r.at \in EmergencyStages /\ r.back = "pending" =>
                       /\ r.sid \notin shist'.asked
                       /\ \A o \in ShareReqs :
                             sreq'[o].at \in EmergencyStages /\ sreq'[o].sid = r.sid => o = p
      <3>1. CASE p = q
        BY <1>1, <1>4, <2>1, <2>2, <2>3, <3>1
      <3>2. CASE p # q
        <4> SUFFICES ASSUME sreq'[p].at \in EmergencyStages
                     PROVE  LET r == sreq'[p] IN
                            /\ r.at # "emake"
                            /\ r.at = "esave" => locks'.egy = p /\ r.list = egy'.list
                            /\ r.back # "pending" => r.sid \in shist'.asked
                            /\ r.back = "pending" =>
                                  /\ r.sid \notin shist'.asked
                                  /\ \A o \in ShareReqs :
                                        sreq'[o].at \in EmergencyStages /\ sreq'[o].sid = r.sid
                                           => o = p
          BY Zenon DEF EmergencyStages
        <4>1. sreq'[p] = sreq[p] /\ sreq[p].sid \in shist.drawn
          BY <2>2, <3>2
        <4>2. sreq[p].back = "pending" => sreq[p].sid # s
          BY <1>1, <2>1, <4>1
        <4> QED BY <1>1, <1>4, <2>2, <2>3, <3>2, <4>1, <4>2 DEF ShareInv, EmergencyInv
      <3> QED BY <3>1, <3>2, Zenon
    <2> QED BY <1>1, <1>4, <2>4 DEF ShareInv, EmergencyInv
  <1> QED BY <1>6, <1>7 DEF ShareInv

LEMMA EmergencyMakeInv ==
  ASSUME ShareInv, NEW q \in ShareReqs, EmergencyMake(q)
  PROVE  ShareInv'
  <1> DEFINE n == [sreq[q] EXCEPT !.at = "elock"]
  <1>1. /\ sreq[q].at = "emake" /\ ShareGo(q, n) /\ UNCHANGED <<smenu, file, index, locks, shist>>
        /\ egy' = [egy EXCEPT !.there = TRUE, !.list = NoRequests]
    BY DEF EmergencyMake
  <1>2. sreq[q] \in ShareRequest /\ shist \in ShareHistory
        /\ egy \in [on : BOOLEAN, there : BOOLEAN, list : Lists] /\ sreq[q].back \in Statuses
    BY <1>1 DEF ShareInv, ShareTypeOK, StageInv, EmergencyStages
  <1>3. n \in ShareRequest /\ n.at = "elock" /\ n.sid = sreq[q].sid /\ n.back = sreq[q].back
    BY <1>2 DEF ShareRequest, AllStages, EmergencyStages
  <1> HIDE DEF n
  <1>4. egy' \in [on : BOOLEAN, there : BOOLEAN, list : Lists]
    BY <1>1, <1>2, RestType, Zenon
  <1>5. ShareTypeOK' /\ StageInv' /\ ViewInv' /\ RevokeInv' /\ IndexInv'
    <2>1. n.at \in EmergencyStages /\ n.sid \in shist'.drawn /\ n.back \in Statuses
          /\ sreq[q].at \in EmergencyStages \cup {"idle"}
      BY <1>1, <1>2, <1>3, SidDrawn DEF EmergencyStages
    <2> QED BY <1>1, <1>2, <1>3, <1>4, <2>1, EmergencyMoveInv
  <1>6. EmergencyInv'
    BY <1>1 DEF ShareInv, EmergencyInv
  <1> QED BY <1>5, <1>6 DEF ShareInv

LEMMA EmergencyLockInv ==
  ASSUME ShareInv, NEW q \in ShareReqs, EmergencyLock(q)
  PROVE  ShareInv'
  <1> DEFINE n == [sreq[q] EXCEPT !.at = "esave", !.list = egy.list]
  <1>1. /\ sreq[q].at = "elock" /\ ShareGo(q, n) /\ UNCHANGED <<smenu, file, index, egy, shist>>
        /\ locks.egy = Nobody /\ locks' = [locks EXCEPT !.egy = q]
    BY DEF EmergencyLock
  <1>2. sreq[q] \in ShareRequest /\ shist \in ShareHistory /\ egy.list \in Lists
        /\ egy \in [on : BOOLEAN, there : BOOLEAN, list : Lists] /\ sreq[q].back \in Statuses
    BY <1>1 DEF ShareInv, ShareTypeOK, StageInv, EmergencyStages
  <1>3. n \in ShareRequest /\ n.at = "esave" /\ n.sid = sreq[q].sid /\ n.back = sreq[q].back
        /\ n.list = egy.list
    BY <1>2, Zenon DEF ShareRequest, AllStages, EmergencyStages
  <1> HIDE DEF n
  <1>4. locks'.egy = q
    BY <1>1 DEF ShareInv, ShareTypeOK, LockFiles
  <1>5. /\ ShareTypeOK' /\ StageInv' /\ ViewInv' /\ RevokeInv' /\ IndexInv'
        /\ sreq'[q] = n /\ Others(q)
    <2>1. n.at \in EmergencyStages /\ n.sid \in shist'.drawn /\ n.back \in Statuses
          /\ sreq[q].at \in EmergencyStages \cup {"idle"}
      BY <1>1, <1>2, <1>3, SidDrawn DEF EmergencyStages
    <2> QED BY <1>1, <1>2, <1>3, <2>1, EmergencyMoveInv, Zenon
  <1>6. EmergencyInv'
    <2> SUFFICES ASSUME ~smenu.fresh PROVE EmergencyInv'
      BY <1>1 DEF EmergencyInv
    <2>1. \A p \in ShareReqs : /\ sreq'[p].sid = sreq[p].sid /\ sreq'[p].back = sreq[p].back
                               /\ sreq'[p].at \in EmergencyStages <=> sreq[p].at \in EmergencyStages
                               /\ sreq'[p].at = "emake" => sreq[p].at = "emake"
      BY <1>1, <1>3, <1>5 DEF Others, EmergencyStages
    <2>2. ASSUME NEW p \in ShareReqs, sreq'[p].at = "esave"
          PROVE  locks'.egy = p /\ sreq'[p].list = egy'.list
      <3>1. CASE p = q
        BY <1>1, <1>3, <1>4, <1>5, <3>1
      <3>2. CASE p # q
        BY <1>1, <1>5, <2>2, <3>2 DEF Others, ShareInv, EmergencyInv
      <3> QED BY <3>1, <3>2
    <2> QED BY <1>1, <2>1, <2>2 DEF ShareInv, EmergencyInv
  <1> QED BY <1>5, <1>6 DEF ShareInv

(* The list that was read under the lock is the one in the file. *)
LEMMA EmergencySaveInv ==
  ASSUME ShareInv, NEW q \in ShareReqs, EmergencySave(q)
  PROVE  ShareInv'
  <1>1. PICK s \in Sids : s = sreq[q].sid /\ s \in shist.drawn
    BY SidDrawn DEF EmergencySave
  <1>2. PICK back \in Statuses, list \in Lists : back = sreq[q].back /\ list = sreq[q].list
    BY RequestFields DEF EmergencySave, ShareInv, ShareTypeOK, StageInv, EmergencyStages
  <1> DEFINE known == back = "pending" \/ s \in DOMAIN list
             new == [i \in DOMAIN list \cup {s} |-> IF i = s THEN back ELSE list[i]]
  <1>3. /\ sreq[q].at = "esave" /\ ShareGo(q, Rest) /\ UNCHANGED <<smenu, file, index>>
        /\ locks' = Drop(q)
        /\ egy' = IF known THEN [egy EXCEPT !.list = new] ELSE egy
        /\ shist' = IF back = "pending" THEN [shist EXCEPT !.asked = @ \cup {s}]
                    ELSE IF known THEN [shist EXCEPT !.answered = @ \cup {s}]
                    ELSE shist
    BY <1>1, <1>2 DEF EmergencySave
  <1>4. PICK D \in SUBSET Sids : list \in [D -> Statuses]
    BY <1>2 DEF Lists
  <1>5. new \in [D \cup {s} -> Statuses] /\ D \cup {s} \in SUBSET Sids
    BY <1>1, <1>2, <1>4
  <1>6. new \in Lists /\ DOMAIN new = DOMAIN list \cup {s} /\ new[s] = back
        /\ \A i \in DOMAIN list \ {s} : new[i] = list[i]
    BY <1>5, Zenon DEF Lists
  <1>7. shist \in ShareHistory /\ egy \in [on : BOOLEAN, there : BOOLEAN, list : Lists]
    BY DEF ShareInv, ShareTypeOK
  <1> HIDE DEF new
  <1>8. egy' \in [on : BOOLEAN, there : BOOLEAN, list : Lists] /\ egy'.there = egy.there
        /\ (known => egy'.list = new) /\ (~known => egy' = egy)
    BY <1>3, <1>6, <1>7
  <1>9. /\ shist' \in ShareHistory /\ shist'.drawn = shist.drawn
        /\ shist'.announced = shist.announced /\ shist'.revoked = shist.revoked
        /\ shist'.served = shist.served /\ shist'.crashed = shist.crashed
        /\ shist'.asked = (IF back = "pending" THEN shist.asked \cup {s} ELSE shist.asked)
        /\ shist'.answered = (IF back # "pending" /\ known THEN shist.answered \cup {s}
                              ELSE shist.answered)
    BY <1>3, <1>7, Zenon DEF ShareHistory
  <1>10. /\ ShareTypeOK' /\ StageInv' /\ ViewInv' /\ RevokeInv' /\ IndexInv'
         /\ sreq'[q] = Rest /\ Others(q)
    <2>1. Rest \in ShareRequest /\ Rest.at \notin EmergencyStages
          /\ sreq[q].at \in EmergencyStages \cup {"idle"}
      BY <1>3, RestType DEF EmergencyStages, Rest
    <2> QED BY <1>3, <1>8, <1>9, <2>1, EmergencyMoveInv, Zenon
  <1>11. EmergencyInv'
    <2> SUFFICES ASSUME ~smenu.fresh PROVE EmergencyInv'
      BY <1>3 DEF EmergencyInv
    <2>1. /\ egy.there /\ list = egy.list /\ locks.egy = q
          /\ shist.answered \subseteq shist.asked /\ shist.asked \subseteq DOMAIN list \cap shist.drawn
          /\ \A i \in shist.answered : list[i] # "pending"
          /\ back = "pending" => s \notin shist.asked
          /\ back # "pending" => s \in shist.asked
      BY <1>1, <1>2, <1>3 DEF ShareInv, EmergencyInv, EmergencyStages
    <2>2. known
      BY <2>1
    <2>3. egy'.list = new /\ egy'.there /\ shist'.answered \subseteq shist'.asked
          /\ shist'.asked \subseteq DOMAIN egy'.list \cap shist'.drawn
      BY <1>1, <1>6, <1>8, <1>9, <2>1, <2>2
    <2>4. ASSUME NEW i \in shist'.answered PROVE egy'.list[i] # "pending"
      <3>1. CASE i = s
        <4>1. back # "pending"
          BY <1>9, <2>1, <2>4, <3>1
        <4> QED BY <1>6, <2>3, <3>1, <4>1
      <3>2. CASE i # s
        <4>1. i \in shist.answered
          BY <1>9, <2>4, <3>2
        <4>2. i \in DOMAIN list
          BY <2>1, <4>1
        <4> QED BY <1>6, <2>1, <2>3, <3>2, <4>1, <4>2
      <3> QED BY <3>1, <3>2
    <2>5. ASSUME NEW p \in ShareReqs, sreq'[p].at \in EmergencyStages
          PROVE  LET r == sreq'[p] IN
                 /\ r.at \notin {"emake", "esave"}
                 /\ r.back # "pending" => r.sid \in shist'.asked
                 /\ r.back = "pending" =>
                       /\ r.sid \notin shist'.asked
                       /\ \A o \in ShareReqs :
                             sreq'[o].at \in EmergencyStages /\ sreq'[o].sid = r.sid => o = p
      <3>1. \A o \in ShareReqs : sreq'[o].at \in EmergencyStages => o # q /\ sreq'[o] = sreq[o]
        BY <1>10 DEF Others, Rest, EmergencyStages
      <3>2. sreq[p].at \in EmergencyStages /\ p # q /\ sreq'[p] = sreq[p]
        BY <2>5, <3>1
      <3>3. sreq[p].at \notin {"emake", "esave"}
        BY <2>1, <3>2 DEF ShareInv, EmergencyInv
      <3>4. sreq[p].back # "pending" => sreq[p].sid \in shist'.asked
        BY <1>9, <3>2 DEF ShareInv, EmergencyInv
      <3>5. ASSUME sreq[p].back = "pending" PROVE sreq[p].sid \notin shist'.asked
        <4>1. sreq[p].sid \notin shist.asked /\ sreq[p].sid # s
          BY <1>1, <1>3, <3>2, <3>5 DEF ShareInv, EmergencyInv, EmergencyStages
        <4> QED BY <1>9, <4>1
      <3>6. ASSUME sreq[p].back = "pending", NEW o \in ShareReqs,
                   sreq'[o].at \in EmergencyStages, sreq'[o].sid = sreq[p].sid
            PROVE  o = p
        <4>1. sreq[o].at \in EmergencyStages /\ sreq[o].sid = sreq[p].sid
          BY <3>1, <3>6
        <4> QED BY <3>2, <3>6, <4>1 DEF ShareInv, EmergencyInv
      <3> QED BY <3>2, <3>3, <3>4, <3>5, <3>6
    <2> QED BY <2>3, <2>4, <2>5, Zenon DEF EmergencyInv, EmergencyStages
  <1> QED BY <1>10, <1>11 DEF ShareInv

(* An expiry changes no other field of a record, and setting emergency     *)
(* access up or off nothing that a request relies on.                      *)
LEMMA SettingInv ==
  ASSUME ShareInv,
         \/ \E s \in Sids : ShareExpires(s)
         \/ \E on \in BOOLEAN : EmergencySetup(on)
  PROVE  ShareInv'
  <1>1. ASSUME NEW s \in Sids, ShareExpires(s)
        PROVE  ShareInv'
    <2>1. /\ file[s].there /\ file' = [file EXCEPT ![s].expired = TRUE]
          /\ UNCHANGED <<smenu, index, locks, sreq, egy, shist>>
      BY <1>1 DEF ShareExpires
    <2>2. /\ file' \in [Sids -> [there : BOOLEAN, single : BOOLEAN, viewed : BOOLEAN,
                                 expired : BOOLEAN]]
          /\ \A t \in Sids : /\ file'[t].there = file[t].there
                              /\ file'[t].single = file[t].single
                              /\ file'[t].viewed = file[t].viewed
                              /\ t # s => file'[t] = file[t]
      BY <2>1, ZenonT(40) DEF ShareInv, ShareTypeOK
    <2>3. s \in shist.drawn
      BY <2>1 DEF ShareInv, ViewInv, Absent
    <2>4. ASSUME NEW q \in ShareReqs, sreq[q].at # "idle" PROVE sreq[q].sid \in Sids
      BY <2>4, SidDrawn
    <2>5. ShareTypeOK' /\ StageInv' /\ EmergencyInv'
      BY <2>1, <2>2 DEF ShareInv, ShareTypeOK, StageInv, EmergencyInv
    <2>6. ViewInv'
      BY <2>1, <2>2, <2>3, <2>4 DEF ShareInv, ViewInv
    <2>7. RevokeInv'
      BY <2>1, <2>2 DEF ShareInv, RevokeInv, Revoking
    <2>8. IndexInv'
      BY <2>1, <2>2, <2>4 DEF ShareInv, IndexInv, Missing, Acknowledged, IndexStages
    <2> QED BY <2>5, <2>6, <2>7, <2>8 DEF ShareInv
  <1>2. ASSUME NEW on \in BOOLEAN, EmergencySetup(on)
        PROVE  ShareInv'
    <2>1. /\ egy' = [egy EXCEPT !.on = on] /\ UNCHANGED <<smenu, file, index, locks, sreq, shist>>
      BY <1>2 DEF EmergencySetup
    <2>2. egy' \in [on : BOOLEAN, there : BOOLEAN, list : Lists]
          /\ egy'.there = egy.there /\ egy'.list = egy.list
      BY <2>1 DEF ShareInv, ShareTypeOK
    <2>3. ShareTypeOK' /\ StageInv' /\ EmergencyInv'
      BY <2>1, <2>2 DEF ShareInv, ShareTypeOK, StageInv, EmergencyInv
    <2>4. ViewInv' /\ RevokeInv' /\ IndexInv'
      BY <2>1 DEF ShareInv, ViewInv, RevokeInv, Revoking, IndexInv, Missing, Acknowledged
    <2> QED BY <2>3, <2>4 DEF ShareInv
  <1> QED BY <1>1, <1>2

-----------------------------------------------------------------------------
(* The invariant, and what follows from it *)

LEMMA ShareInitInv ==
  ASSUME ShareInit
  PROVE  ShareInv
  <1>1. Absent \in [there : BOOLEAN, single : BOOLEAN, viewed : BOOLEAN, expired : BOOLEAN]
        /\ ~Absent.there /\ ~Absent.single /\ Rest.at = "idle" /\ DOMAIN NoRequests = {}
    BY DEF Absent, Rest, NoRequests
  <1>2. smenu \in [ops : SUBSET {"create", "revoke", "view", "expire", "emergency"},
                   crash : BOOLEAN, fresh : BOOLEAN]
    BY ShareMenusAssumption DEF ShareInit
  <1>3. shist \in ShareHistory /\ locks \in LockFiles
    BY DEF ShareInit, ShareHistory, LockFiles
  <1>4. \A q \in ShareReqs : sreq[q] = Rest /\ sreq[q].at = "idle"
    BY <1>1 DEF ShareInit
  <1>5. ShareTypeOK
    BY <1>1, <1>2, <1>3, RestType DEF ShareInit, ShareTypeOK
  <1>6. StageInv
    BY <1>4 DEF StageInv, IndexStages, EmergencyStages
  <1>7. ViewInv /\ RevokeInv
    BY <1>1, <1>4 DEF ShareInit, ViewInv, RevokeInv
  <1>8. EmergencyInv
    BY <1>2, <1>4, Zenon DEF ShareInit, EmergencyInv, EmergencyStages
  <1>9. IndexInv
    BY <1>2, <1>4, Zenon DEF ShareInit, IndexInv, IndexStages, Acknowledged
  <1> QED BY <1>5, <1>6, <1>7, <1>8, <1>9 DEF ShareInv

LEMMA ShareNextInv ==
  ASSUME ShareInv, [ShareNext]_shareVars
  PROVE  ShareInv'
  <1>1. CASE UNCHANGED shareVars
    <2>e. /\ smenu' = smenu /\ file' = file /\ index' = index /\ locks' = locks
          /\ sreq' = sreq /\ egy' = egy /\ shist' = shist
      BY <1>1, Zenon DEF shareVars
    <2>1. ShareTypeOK' /\ StageInv'
      BY <2>e, Zenon DEF ShareInv, ShareTypeOK, StageInv
    <2>2. ViewInv'
      BY <2>e, Zenon DEF ShareInv, ViewInv
    <2>3. RevokeInv'
      BY <2>e, Zenon DEF ShareInv, RevokeInv, Revoking
    <2>4. EmergencyInv'
      BY <2>e, Zenon DEF ShareInv, EmergencyInv
    <2>5. IndexInv'
      <3>1. \A s \in Sids : (Missing(s) => Missing(s)') /\ (Acknowledged(s)' => Acknowledged(s))
        BY <2>e, Zenon DEF Missing, Acknowledged
      <3> QED BY <2>e, <3>1, Zenon DEF ShareInv, IndexInv
    <2> QED BY <2>1, <2>2, <2>3, <2>4, <2>5 DEF ShareInv
  <1>2. ASSUME NEW q \in ShareReqs, ShareStep(q)
        PROVE  ShareInv'
    <2>1. \A s \in Sids, act \in {"pending", "granted", "denied"} :
            EmergencyCall(q, s, act) => ShareInv'
      BY EmergencyCallInv DEF Statuses
    <2> QED BY <1>2, <2>1, IndexPrepareInv, IndexFillInv, LeaveInv, ReplyInv, ViewServeInv,
               CreateShareInv, RevokeShareInv, ViewLookupInv, ViewClaimInv, ViewMarkInv,
               EmergencyMakeInv, EmergencyLockInv, EmergencySaveInv
            DEF ShareStep
  <1> QED BY <1>1, <1>2, SettingInv DEF ShareNext

LEMMA ShareInvHolds == ShareSpec => []ShareInv
  BY ShareInitInv, ShareNextInv, PTL DEF ShareSpec

(* A single-view share is served at most once: for any number of viewers   *)
(* at once, revocations, expiries and dying processes (GET                 *)
(* /api/share/:shareId).                                                   *)
THEOREM SingleViewServedOnce == ShareSpec => []SingleViewOnce
  <1>1. ShareInv => SingleViewOnce
    BY DEF ShareInv, ShareTypeOK, ShareHistory, ViewInv, SingleViewOnce
  <1> QED BY <1>1, ShareInvHolds, PTL

(* Once DELETE /api/vault/share/:shareId has answered, the record is gone, *)
(* or a view that was under way wrote it back marked as viewed.            *)
THEOREM RevokedStaysUnreachable == ShareSpec => []RevokedUnreachable
  <1>1. ShareInv => RevokedUnreachable
    BY DEF ShareInv, ShareTypeOK, ShareHistory, RevokeInv, Revoking, RevokedUnreachable
  <1> QED BY <1>1, ShareInvHolds, PTL

(* updateShareIndex and the emergency routes rewrite whole files: no       *)
(* acknowledged share or request is lost by another request's rewrite, and *)
(* no answered request becomes pending again.                              *)
THEOREM AcknowledgedListsKept == ShareSpec => []ListsKept
  <1>1. ShareInv => AnnouncedIndexed
    BY DEF ShareInv, ShareTypeOK, ShareHistory, IndexInv, Acknowledged, Missing, AnnouncedIndexed
  <1>2. ShareInv => RequestsKept
    BY DEF ShareInv, EmergencyInv, RequestsKept
  <1> QED BY <1>1, <1>2, ShareInvHolds, PTL DEF ListsKept
=============================================================================
