-------------------------- MODULE VaultStateProofs --------------------------
(***************************************************************************)
(* Proofs about VaultState, for every value of its constants.  IndInv is   *)
(* the inductive strengthening of KeysAgree: what holds at each stage of a *)
(* handler between its durable writes.  KeepInv adds what a vault whose    *)
(* key never changes keeps in its sidecar, and UseInv what the rows of an  *)
(* open vault are stored under.                                            *)
(***************************************************************************)
EXTENDS VaultState, TLAPS

ChangeStages == {"change_header", "change_load"}
UnlockStages == {"ticket", "rewrap", "load"}
EraseStages == {"erase_meta", "erase_db", "erase_unlink"}

(* Memory: a session, a connection and a key come and go together. *)
MemoryInv ==
    /\ session = conn
    /\ session => vmk # 0 /\ meta # NoFile /\ db # NoFile
    /\ ~torn /\ session /\ op.at \notin ChangeStages => vmk = db.key

(* Sidecar: passkey copies never outlive the key they wrap, and a header   *)
(* without its database is one that creation left behind.                  *)
SidecarInv ==
    /\ meta # NoFile => meta.body.passkeys \subseteq {0, meta.body.vmk}
    /\ ~torn /\ meta # NoFile /\ db # NoFile /\ meta.body.vmk # 0 =>
          meta.body.vmk = IF op.at = "change_header" THEN vmk ELSE db.key
    /\ ~torn /\ meta # NoFile /\ db = NoFile /\ meta.body.vmk # 0
             /\ op.at # "erase_unlink" => meta.body.recovery = 0

(* What each stage of a handler can rely on. *)
StageInv ==
    /\ op.at = "idle" => op = Idle
    /\ op.at = "create_open" =>
          /\ meta # NoFile /\ db = NoFile
          /\ meta.body.vmk = op.key /\ vmk = op.key /\ op.key # 0
          /\ meta.body.recovery = 0
    /\ op.at \in UnlockStages =>
          /\ meta # NoFile /\ db # NoFile
          /\ meta.body.vmk = op.key /\ op.key # 0
          /\ db.key = op.key /\ db.audit \subseteq {op.key}
    /\ op.at = "change_header" =>
          /\ session /\ meta.body.vmk = vmk
          /\ db.key = op.key /\ op.key # 0
    /\ op.at = "change_load" =>
          /\ session /\ meta.body.vmk = op.key
          /\ db.key = op.key /\ op.key # 0
    /\ op.at \in EraseStages => vmk = 0 /\ ~session
    /\ op.at = "erase_meta" => meta # NoFile
    /\ op.at = "erase_unlink" => db = NoFile

IndInv == TypeOK /\ MemoryInv /\ SidecarInv /\ StageInv

-----------------------------------------------------------------------------
(* What the helpers on headers and databases preserve. *)

USE MaxFreshAssumption, HeavyKdfAssumption, OutcomesAssumption, NoFileAssumption

(* write_header keeps the body it is given and seals it with the key. *)
LEMMA WriteHeaderFacts ==
  ASSUME NEW h \in Header, NEW b \in Body, NEW k \in Num
  PROVE  /\ WriteHeader(h, b, k) \in Header
         /\ WriteHeader(h, b, k).body = b
         /\ k # 0 => HeaderIntact(WriteHeader(h, b, k), k)
  <1>1. CASE k = 0
    <2>1. WriteHeader(h, b, k) = [h EXCEPT !.body = b]
      BY <1>1 DEF WriteHeader
    <2>2. [h EXCEPT !.body = b] = [body |-> b, macKey |-> h.macKey, macBody |-> h.macBody]
      BY DEF Header
    <2> QED BY <1>1, <2>1, <2>2 DEF Header
  <1>2. CASE k # 0
    BY <1>2 DEF WriteHeader, Header, HeaderIntact
  <1> QED BY <1>1, <1>2

(* The updates of the header stay in Body and leave the other fields alone. *)
LEMMA WithTicketFacts ==
  ASSUME NEW b \in Body, NEW k \in Num
  PROVE  LET c == WithTicket(b, k) IN
           /\ c \in Body /\ c.vmk = b.vmk /\ c.passkeys = b.passkeys
           /\ c.recovery = b.recovery
  BY DEF Body, WithTicket

LEMMA WithQuickFacts ==
  ASSUME NEW b \in Body, NEW q \in SUBSET (Passwords \X Num)
  PROVE  LET c == WithQuick(b, q) IN
           /\ c \in Body /\ c.vmk = b.vmk /\ c.passkeys = b.passkeys
           /\ c.recovery = b.recovery /\ c.heavy = b.heavy /\ c.ticket = b.ticket
  BY DEF Body, WithQuick

LEMMA WithRecoveryFacts ==
  ASSUME NEW b \in Body, NEW k \in Num
  PROVE  LET c == WithRecovery(b, k) IN
           /\ c \in Body /\ c.vmk = b.vmk /\ c.passkeys = b.passkeys
           /\ c.recovery = k /\ c.heavy = b.heavy /\ c.ticket = b.ticket
  BY DEF Body, WithRecovery

LEMMA WithPolicyFacts ==
  ASSUME NEW b \in Body, NEW p \in BOOLEAN, NEW d \in BOOLEAN
  PROVE  LET c == WithPolicy(b, p, d) IN
           /\ c \in Body /\ c.vmk = b.vmk /\ c.passkeys = b.passkeys
           /\ c.recovery = b.recovery /\ c.heavy = b.heavy /\ c.ticket = b.ticket
  BY Zenon DEF Body, WithPolicy

LEMMA RewrappedFacts ==
  ASSUME NEW b \in Body, NEW s \in Num, NEW k \in Num, NEW h \in HeavyKdf
  PROVE  LET c == Rewrapped(b, s, k, h) IN
           /\ c \in Body /\ c.vmk = k /\ c.passkeys = b.passkeys
           /\ c.recovery = b.recovery
  BY Zenon DEF Body, Rewrapped

LEMMA RekeyedFacts ==
  ASSUME NEW b \in Body, NEW p \in Passwords, NEW k \in Num, NEW h \in HeavyKdf
  PROVE  LET c == Rekeyed(b, p, k, h) IN
           c \in Body /\ c.vmk = k /\ c.passkeys = {}
  BY Zenon DEF Body, Rekeyed

LEMMA SanitisedFacts ==
  ASSUME NEW b \in Body, 0 \in Num
  PROVE  LET c == Sanitised(b) IN
           c \in Body /\ c.vmk = 0 /\ c.passkeys \subseteq {0}
  BY Zenon DEF Body, Sanitised

(* The updates of the database stay in Database; only RekeyVault changes   *)
(* its key and only Logged its audit rows.                                 *)
LEMMA NewDbFacts ==
  ASSUME NEW k \in Num
  PROVE  NewDb(k) \in Database /\ NewDb(k).key = k /\ NewDb(k).audit = {}
  BY DEF Database, NewDb, Num

LEMMA LoggedFacts ==
  ASSUME NEW d \in Database, NEW k \in Num
  PROVE  /\ Logged(d, k) \in Database
         /\ Logged(d, k).key = d.key
         /\ Logged(d, k).audit = d.audit \cup {k}
  BY DEF Database, Logged

LEMMA StoredUnderFacts ==
  ASSUME NEW d \in Database, NEW k \in Num
  PROVE  /\ StoredUnder(d, k) \in Database
         /\ StoredUnder(d, k).key = d.key
         /\ StoredUnder(d, k).audit = d.audit
  BY DEF Database, StoredUnder

LEMMA WithTotpFacts ==
  ASSUME NEW d \in Database, NEW k \in Num
  PROVE  /\ WithTotp(d, k) \in Database
         /\ WithTotp(d, k).key = d.key
         /\ WithTotp(d, k).audit = d.audit
  BY DEF Database, WithTotp

LEMMA RekeyVaultFacts ==
  ASSUME NEW d \in Database, NEW k \in Num
  PROVE  /\ RekeyVault(d, k) \in Database
         /\ RekeyVault(d, k).key = k
         /\ RekeyVault(d, k).audit = d.audit
  BY DEF Database, RekeyVault

LEMMA IdleFacts == Idle \in Operation /\ Idle.at = "idle" /\ 0 \in Num
  BY DEF Idle, At, Operation, Stages, Num
(* The fields of well-typed headers, databases and operations. *)
LEMMA FieldTypes ==
  /\ \A h \in Header :
       /\ h.body \in Body /\ h # NoFile
       /\ h.body.pw \in Passwords /\ h.body.salt \in Num /\ h.body.vmk \in Num
       /\ h.body.heavy \in BOOLEAN /\ h.body.pwLogin \in BOOLEAN
       /\ h.body.duress \in BOOLEAN /\ h.body.passkeys \subseteq Num
       /\ h.body.quick \subseteq (Passwords \X Num)
       /\ h.body.recovery \in Num /\ h.body.ticket \in Num
  /\ \A d \in Database :
       d # NoFile /\ d.key \in Num /\ d.audit \subseteq Num /\ d.totp \in Num
  /\ \A o \in Operation :
       o.at \in Stages /\ o.key \in Num /\ o.ticket \in Num /\ o.quick \in BOOLEAN
  BY DEF Header, Body, Database, Operation

(* A number drawn under its guard is a valid, non-zero key. *)
LEMMA FreshFacts ==
  ASSUME TypeOK, fresh <= MaxFresh
  PROVE  fresh \in Num /\ fresh # 0 /\ fresh + 1 \in 1 .. MaxFresh + 1
  BY DEF TypeOK, Num

-----------------------------------------------------------------------------
(* IndInv holds initially and is preserved by every action. *)

LEMMA IndInit == Init => IndInv
  <1> SUFFICES ASSUME Init PROVE IndInv
    OBVIOUS
  <1>1. 0 \in Num /\ 1 \in Num /\ 1 \in 1 .. MaxFresh + 1 /\ 2 \in 1 .. MaxFresh + 1
    BY DEF Num
  <1>2. PICK kind \in InitVaults, q \in Passwords :
           IF kind = "absent"
           THEN meta = NoFile /\ db = NoFile /\ fresh = 1
           ELSE /\ meta = [body |-> StoredBody(kind, q), macKey |-> 1,
                           macBody |-> StoredBody(kind, q)]
                /\ db = Logged(StoredUnder(NewDb(1), 1), 1)
                /\ fresh = 2
    BY DEF Init
  <1>3. CASE kind = "absent"
    BY <1>1, <1>2, <1>3, IdleFacts, Zenon
    DEF Init, IndInv, TypeOK, MemoryInv, SidecarInv, StageInv, ChangeStages,
        UnlockStages, EraseStages
  <1>4. CASE kind # "absent"
    <2>1. /\ StoredBody(kind, q) \in Body
          /\ StoredBody(kind, q).passkeys \subseteq {0, 1}
          /\ StoredBody(kind, q).vmk = 1
      BY <1>1 DEF StoredBody, Body
    <2>2. db \in Database /\ db.key = 1
      <3>1. NewDb(1) \in Database /\ NewDb(1).key = 1
        BY <1>1, NewDbFacts
      <3>2. StoredUnder(NewDb(1), 1) \in Database /\ StoredUnder(NewDb(1), 1).key = 1
        BY <1>1, <3>1, StoredUnderFacts
      <3> QED BY <1>1, <1>2, <1>4, <3>2, LoggedFacts
    <2>3. meta \in Header /\ meta.body = StoredBody(kind, q)
      BY <1>1, <1>2, <1>4, <2>1 DEF Header
    <2> QED
      BY <1>1, <1>2, <1>4, <2>1, <2>2, <2>3, IdleFacts, Zenon
      DEF Init, IndInv, TypeOK, MemoryInv, SidecarInv, StageInv, ChangeStages,
          UnlockStages, EraseStages
  <1> QED BY <1>3, <1>4

(* A handler that gives up, leaving the files and the memory as they are. *)
LEMMA GiveUpInv ==
  ASSUME IndInv, op' = Idle, UNCHANGED <<meta, db, memory, held>>,
         fresh' \in 1 .. MaxFresh + 1, torn' \in BOOLEAN, torn => torn',
         op.at \in ChangeStages \cup {"erase_unlink"} => torn'
  PROVE  IndInv'
  <1> USE IdleFacts DEF IndInv, ChangeStages, UnlockStages, EraseStages, memory
  <1>1. TypeOK'
    BY DEF TypeOK
  <1>2. MemoryInv'
    BY DEF MemoryInv
  <1>3. SidecarInv'
    BY DEF SidecarInv
  <1>4. StageInv'
    BY DEF StageInv
  <1> QED BY <1>1, <1>2, <1>3, <1>4

(* The vault is locked and its erasure begins, or the daemon stops. *)
LEMMA ClearInv ==
  ASSUME IndInv, ClearMemory, UNCHANGED <<meta, db, held>>,
         op' = Idle \/ (op' = At("erase_meta", 0, 0, FALSE) /\ meta # NoFile),
         fresh' \in 1 .. MaxFresh + 1, torn' \in BOOLEAN, torn => torn',
         op.at \in {"change_header", "erase_unlink"} => torn'
  PROVE  IndInv'
  <1> USE IdleFacts DEF IndInv, ChangeStages, UnlockStages, EraseStages, ClearMemory
  <1>0. op' \in Operation /\ op'.at \in {"idle", "erase_meta"}
        /\ (op'.at = "idle" => op' = Idle) /\ (op'.at = "erase_meta" => meta # NoFile)
    <2>1. CASE op' = Idle
      BY <2>1
    <2>2. CASE op' = At("erase_meta", 0, 0, FALSE) /\ meta # NoFile
      BY <2>2 DEF At, Operation, Stages
    <2> QED BY <2>1, <2>2, Zenon
  <1>1. TypeOK'
    BY <1>0, Zenon DEF TypeOK
  <1>2. MemoryInv'
    BY Zenon DEF MemoryInv
  <1>3. SidecarInv'
    BY <1>0 DEF SidecarInv
  <1>4. StageInv'
    BY <1>0 DEF StageInv
  <1> QED BY <1>1, <1>2, <1>3, <1>4

LEMMA CreateVaultInv ==
  ASSUME IndInv, NEW p \in Passwords, CreateVault(p)
  PROVE  IndInv'
  <1> USE DEF IndInv, ChangeStages, UnlockStages, EraseStages
  <1>1. fresh \in Num /\ fresh # 0 /\ fresh + 1 \in 1 .. MaxFresh + 1
    BY FreshFacts DEF CreateVault
  <1>2. ~session /\ ~conn /\ db = NoFile /\ db' = NoFile /\ fresh' = fresh + 1
        /\ held' = held /\ torn' = torn /\ op.at = "idle" /\ torn \in BOOLEAN
    BY IdleFacts DEF CreateVault, MemoryInv, TypeOK
  <1>3. CASE meta # NoFile /\ meta.body.duress /\ StartErase /\ UNCHANGED meta
    BY <1>1, <1>2, <1>3, ClearInv DEF StartErase
  <1>4. CASE vmk' = fresh /\ op' = Idle /\ UNCHANGED <<meta, conn, ticket, session>>
    BY <1>1, <1>2, <1>4, IdleFacts DEF TypeOK, MemoryInv, SidecarInv, StageInv
  <1>5. ASSUME NEW h \in HeavyKdf, NEW b,
               b = [pw |-> p, salt |-> fresh, vmk |-> fresh, heavy |-> h,
                   pwLogin |-> TRUE, duress |-> FALSE, passkeys |-> {},
                   quick |-> {}, recovery |-> 0, ticket |-> fresh],
               meta' = WriteHeader([body |-> b, macKey |-> 0, macBody |-> b],
                                       b, fresh),
               vmk' = fresh,
               op' = At("create_open", fresh, fresh, FALSE),
               UNCHANGED <<conn, ticket, session>>
        PROVE IndInv'
    <2>1. b \in Body /\ b.vmk = fresh /\ b.passkeys = {} /\ b.recovery = 0
      BY <1>1, <1>5, IdleFacts DEF Body
    <2>2. [body |-> b, macKey |-> 0, macBody |-> b] \in Header
      BY <2>1, IdleFacts DEF Header
    <2>3. meta' \in Header /\ meta'.body = b /\ meta' # NoFile
      BY <1>1, <1>5, <2>1, <2>2, WriteHeaderFacts
    <2>4. op' \in Operation /\ op'.at = "create_open" /\ op'.key = fresh
      BY <1>1, <1>5 DEF At, Operation, Stages
    <2>5. TypeOK'
      BY <1>1, <1>2, <1>5, <2>3, <2>4, Zenon DEF TypeOK
    <2>6. MemoryInv'
      BY <1>2, <1>5, Zenon DEF MemoryInv
    <2>7. SidecarInv'
      BY <1>2, <1>5, <2>1, <2>3, <2>4, ZenonT(40) DEF SidecarInv
    <2>8. StageInv'
      BY <1>1, <1>2, <1>5, <2>1, <2>3, <2>4, Zenon DEF StageInv
    <2> QED BY <2>5, <2>6, <2>7, <2>8
  <1> QED BY <1>3, <1>4, <1>5, Zenon DEF CreateVault

LEMMA CreateOpenInv ==
  ASSUME IndInv, CreateOpen
  PROVE  IndInv'
  <1> USE DEF IndInv, ChangeStages, UnlockStages, EraseStages
  <1>1. op.at = "create_open" /\ fresh' = fresh /\ torn' = torn /\ meta' = meta
        /\ fresh \in 1 .. MaxFresh + 1 /\ torn \in BOOLEAN
    BY DEF CreateOpen, TypeOK
  <1>2. CASE Refuse /\ UNCHANGED <<db, held>>
    BY <1>1, <1>2, GiveUpInv, ClearInv, Zenon DEF Refuse, StartErase
  <1>3. CASE /\ db' = Logged(NewDb(op.key), op.key)
             /\ conn' = TRUE /\ ticket' = op.ticket /\ session' = TRUE
             /\ held' = held \cup {<<op.ticket, op.key>>}
             /\ op' = Idle /\ vmk' = vmk
    <2>1. op.key \in Num /\ op.ticket \in Num
      BY FieldTypes DEF TypeOK
    <2>2. db' \in Database /\ db' # NoFile /\ db'.key = op.key
      <3>1. NewDb(op.key) \in Database /\ NewDb(op.key).key = op.key
        BY <2>1, NewDbFacts
      <3> QED BY <1>3, <2>1, <3>1, LoggedFacts
    <2>3. TypeOK'
      BY <1>1, <1>3, <2>1, <2>2, IdleFacts DEF TypeOK
    <2>4. MemoryInv' /\ SidecarInv' /\ StageInv'
      BY <1>1, <1>3, <2>2, IdleFacts DEF MemoryInv, SidecarInv, StageInv
    <2> QED BY <2>3, <2>4
  <1> QED BY <1>2, <1>3, Zenon DEF CreateOpen

LEMMA UnlockExistingInv ==
  ASSUME IndInv, NEW p \in Passwords, UnlockExisting(p)
  PROVE  IndInv'
  <1> USE DEF IndInv, ChangeStages, UnlockStages, EraseStages
  <1>1. op = Idle /\ op.at = "idle" /\ meta # NoFile /\ db # NoFile
        /\ UNCHANGED <<meta, db, vmk, conn, ticket, session, fresh, held, torn>>
    BY IdleFacts DEF UnlockExisting, PasswordUnlocks, memory
  <1>2. Opens(meta.body.vmk) /\ meta.body.vmk \in Num
    BY <1>1, FieldTypes DEF UnlockExisting, PasswordUnlocks, TypeOK
  <1>3. op' \in Operation /\ op'.at \in {"ticket", "rewrap"} /\ op'.key = meta.body.vmk
    BY <1>2, IdleFacts DEF UnlockExisting, At, Operation, Stages
  <1>4. TypeOK'
    BY <1>1, <1>3 DEF TypeOK
  <1>5. MemoryInv' /\ SidecarInv' /\ StageInv'
    BY <1>1, <1>2, <1>3 DEF MemoryInv, SidecarInv, StageInv, Opens
  <1> QED BY <1>4, <1>5

(* A header written at a stage of the unlock that keeps the VMK. *)
LEMMA UnlockWriteInv ==
  ASSUME IndInv, op.at \in UnlockStages,
         meta' \in Header, meta'.body.vmk = meta.body.vmk,
         meta'.body.passkeys = meta.body.passkeys,
         op' \in Operation, op'.at \in UnlockStages, op'.key = op.key,
         fresh' \in 1 .. MaxFresh + 1, UNCHANGED <<db, memory, held, torn>>
  PROVE  IndInv'
  <1> USE DEF IndInv, ChangeStages, UnlockStages, EraseStages, memory
  <1>1. meta' # NoFile
    OBVIOUS
  <1>2. TypeOK'
    BY DEF TypeOK
  <1>3. MemoryInv' /\ SidecarInv' /\ StageInv'
    BY <1>1 DEF MemoryInv, SidecarInv, StageInv
  <1> QED BY <1>2, <1>3

LEMMA WriteTicketInv ==
  ASSUME IndInv, WriteTicket
  PROVE  IndInv'
  <1> USE DEF IndInv
  <1>1. fresh \in Num /\ fresh # 0 /\ fresh' \in 1 .. MaxFresh + 1
    BY FreshFacts DEF WriteTicket
  <1>2. /\ op.at = "ticket" /\ op.key \in Num /\ op.quick \in BOOLEAN
        /\ meta \in Header /\ meta # NoFile /\ meta.body \in Body /\ vmk \in Num
        /\ torn' = torn /\ torn \in BOOLEAN /\ UNCHANGED <<db, held>>
    BY FieldTypes DEF WriteTicket, TypeOK, StageInv, UnlockStages
  <1> DEFINE next == At(IF op.quick THEN "load" ELSE "rewrap", op.key, fresh, op.quick)
  <1>3. next \in Operation /\ next.at \in UnlockStages /\ next.key = op.key
    BY <1>1, <1>2 DEF At, Operation, Stages, UnlockStages
  <1>4. CASE meta' = WriteHeader(meta, WithTicket(meta.body, fresh), vmk)
             /\ op' = next /\ UNCHANGED memory
    <2>1. /\ WithTicket(meta.body, fresh) \in Body
          /\ WithTicket(meta.body, fresh).vmk = meta.body.vmk
          /\ WithTicket(meta.body, fresh).passkeys = meta.body.passkeys
      BY <1>1, <1>2, WithTicketFacts
    <2>2. meta' \in Header /\ meta'.body = WithTicket(meta.body, fresh)
      BY <1>2, <1>4, <2>1, WriteHeaderFacts
    <2> QED BY <1>1, <1>2, <1>3, <1>4, <2>1, <2>2, UnlockWriteInv DEF UnlockStages
  <1>5. CASE op' = next /\ UNCHANGED memory /\ UNCHANGED meta
    BY <1>1, <1>2, <1>3, <1>5, UnlockWriteInv DEF UnlockStages
  <1>6. CASE Refuse /\ UNCHANGED meta
    BY <1>1, <1>2, <1>6, GiveUpInv, ClearInv, Zenon DEF Refuse, StartErase, ChangeStages
  <1> QED BY <1>4, <1>5, <1>6, Zenon DEF WriteTicket

LEMMA RewrapInv ==
  ASSUME IndInv, Rewrap
  PROVE  IndInv'
  <1> USE DEF IndInv
  <1>1. /\ op.at = "rewrap" /\ op.key \in Num /\ op.ticket \in Num /\ op.quick \in BOOLEAN
        /\ meta \in Header /\ meta # NoFile /\ meta.body \in Body /\ vmk \in Num
        /\ meta.body.vmk = op.key /\ fresh \in 1 .. MaxFresh + 1
        /\ UNCHANGED <<db, memory, held, torn>>
    BY FieldTypes DEF Rewrap, TypeOK, StageInv, UnlockStages
  <1>2. op' \in Operation /\ op'.at = "load" /\ op'.key = op.key
    BY <1>1 DEF Rewrap, At, Operation, Stages
  <1>3. CASE UNCHANGED <<meta, fresh>>
    BY <1>1, <1>2, <1>3, UnlockWriteInv DEF UnlockStages
  <1>4. ASSUME NEW h \in HeavyKdf, fresh <= MaxFresh, fresh' = fresh + 1,
               meta' = WriteHeader(meta, Rewrapped(meta.body, fresh, op.key, h), vmk)
        PROVE  IndInv'
    <2>1. fresh \in Num /\ fresh' \in 1 .. MaxFresh + 1
      BY <1>4, FreshFacts
    <2>2. /\ Rewrapped(meta.body, fresh, op.key, h) \in Body
          /\ Rewrapped(meta.body, fresh, op.key, h).vmk = op.key
          /\ Rewrapped(meta.body, fresh, op.key, h).passkeys = meta.body.passkeys
      BY <1>1, <2>1, Zenon DEF Rewrapped, Body
    <2>3. meta' \in Header /\ meta'.body = Rewrapped(meta.body, fresh, op.key, h)
      BY <1>1, <1>4, <2>2, WriteHeaderFacts, Zenon
    <2> QED BY <1>1, <1>2, <2>1, <2>2, <2>3, UnlockWriteInv DEF UnlockStages
  <1> QED BY <1>3, <1>4, Zenon DEF Rewrap

LEMMA LoadInv ==
  ASSUME IndInv, Load
  PROVE  IndInv'
  <1> USE DEF IndInv, ChangeStages, UnlockStages, EraseStages
  <1>1. /\ op.at = "load" /\ op.key \in Num /\ op.ticket \in Num
        /\ db \in Database /\ meta # NoFile /\ op.key # 0 /\ db.key = op.key
        /\ fresh \in 1 .. MaxFresh + 1 /\ torn \in BOOLEAN
        /\ UNCHANGED <<meta, fresh, torn>>
    BY FieldTypes DEF Load, TypeOK, StageInv
  <1>2. CASE ClearMemory /\ op' = Idle /\ UNCHANGED <<db, held>>
    BY <1>1, <1>2, ClearInv
  <1>3. CASE StartErase /\ UNCHANGED <<db, held>>
    BY <1>1, <1>3, ClearInv DEF StartErase
  <1>4. CASE /\ vmk' = op.key /\ conn' = TRUE /\ ticket' = op.ticket /\ session' = TRUE
             /\ db' = Logged(db, op.key) /\ op' = Idle
             /\ held' = IF op.ticket = 0 THEN held
                                         ELSE held \cup {<<op.ticket, op.key>>}
    <2>1. db' \in Database /\ db' # NoFile /\ db'.key = db.key
      BY <1>1, <1>4, LoggedFacts
    <2>2. TypeOK'
      BY <1>1, <1>4, <2>1, IdleFacts DEF TypeOK
    <2>3. MemoryInv' /\ SidecarInv' /\ StageInv'
      BY <1>1, <1>4, <2>1, IdleFacts DEF MemoryInv, SidecarInv, StageInv
    <2> QED BY <2>2, <2>3
  <1> QED BY <1>2, <1>3, <1>4, Zenon DEF Load

(* The passkey and the recovery unlock: a key that opens the database, and *)
(* that is the header's key when the database file has to be created.      *)
LEMMA LoadWithoutTicketInv ==
  ASSUME IndInv, op = Idle, meta # NoFile, NEW k \in Num, Opens(k),
         LoadWithoutTicket(k), meta' \in Header, meta'.body = meta.body,
         ~torn /\ db = NoFile /\ meta.body.vmk # 0 => k = meta.body.vmk,
         UNCHANGED <<op, fresh, held, torn>>
  PROVE  IndInv'
  <1> USE IdleFacts DEF IndInv, ChangeStages, UnlockStages, EraseStages
  <1>0. NewDb(k) \in Database /\ NewDb(k).key = k
    BY NewDbFacts
  <1>1. Opened(k) \in Database /\ Opened(k).key = k /\ k # 0
    BY <1>0 DEF Opened, Opens, TypeOK
  <1>2. db' \in Database /\ db' # NoFile /\ db'.key = k
    BY <1>1, LoggedFacts DEF LoadWithoutTicket
  <1>3. meta' # NoFile /\ vmk' = k /\ conn' = TRUE /\ session' = TRUE /\ ticket' = 0
    BY DEF LoadWithoutTicket
  <1>4. TypeOK'
    BY <1>2, <1>3 DEF TypeOK
  <1>5. MemoryInv' /\ StageInv'
    BY <1>1, <1>2, <1>3 DEF MemoryInv, StageInv
  <1>6. SidecarInv'
    BY <1>2, <1>3 DEF SidecarInv, Opens
  <1> QED BY <1>4, <1>5, <1>6

LEMMA UnlockWithPasskeyInv ==
  ASSUME IndInv, UnlockWithPasskey
  PROVE  IndInv'
  <1> USE DEF IndInv
  <1>1. meta \in Header /\ meta # NoFile /\ meta.body \in Body
        /\ op = Idle /\ UNCHANGED <<op, fresh, held, torn>>
    BY FieldTypes DEF UnlockWithPasskey, TypeOK, Enabled
  <1>2. PICK k \in meta.body.passkeys :
           /\ Opens(k) /\ LoadWithoutTicket(k)
           /\ meta' \in {meta, WriteHeader(meta, meta.body, k)}
    BY DEF UnlockWithPasskey
  <1>3. k \in Num /\ k = meta.body.vmk
    BY <1>1, <1>2, FieldTypes DEF SidecarInv, Opens
  <1>4. meta' \in Header /\ meta'.body = meta.body
    BY <1>1, <1>2, <1>3, WriteHeaderFacts
  <1> QED BY <1>1, <1>2, <1>3, <1>4, LoadWithoutTicketInv

LEMMA UnlockWithRecoveryKeyInv ==
  ASSUME IndInv, UnlockWithRecoveryKey
  PROVE  IndInv'
  <1> USE DEF IndInv
  <1>1. meta \in Header /\ meta # NoFile /\ meta.body.recovery \in Num
        /\ op = Idle /\ op.at = "idle" /\ UNCHANGED <<meta, op, fresh, held, torn>>
    BY FieldTypes, IdleFacts DEF UnlockWithRecoveryKey, TypeOK, Enabled
  <1>2. Opens(meta.body.recovery) /\ LoadWithoutTicket(meta.body.recovery)
        /\ meta.body.recovery # 0
    BY DEF UnlockWithRecoveryKey, Opens
  <1>3. ~(~torn /\ db = NoFile /\ meta.body.vmk # 0)
    BY <1>1, <1>2 DEF SidecarInv
  <1> QED BY <1>1, <1>2, <1>3, LoadWithoutTicketInv

LEMMA QuickUnlockInv ==
  ASSUME IndInv, QuickUnlock
  PROVE  IndInv'
  <1> USE DEF IndInv, ChangeStages, UnlockStages, EraseStages
  <1>1. /\ meta \in Header /\ meta # NoFile /\ op = Idle /\ op.at = "idle"
        /\ meta.body.vmk \in Num /\ Opens(meta.body.vmk) /\ meta.body.vmk # 0
        /\ UNCHANGED <<meta, vmk, conn, ticket, session, fresh, held, torn>>
    BY FieldTypes, IdleFacts DEF QuickUnlock, TypeOK, Enabled, Opens, memory
  <1>2. NewDb(meta.body.vmk) \in Database /\ NewDb(meta.body.vmk).key = meta.body.vmk
        /\ NewDb(meta.body.vmk).audit = {}
    BY <1>1, NewDbFacts
  <1>3. db' \in Database /\ db' # NoFile /\ db'.key = meta.body.vmk
        /\ db'.audit \subseteq {meta.body.vmk} /\ (db # NoFile => db' = db)
    BY <1>1, <1>2 DEF QuickUnlock, Opened, Opens, TypeOK
  <1>4. op' \in Operation /\ op'.at \in {"ticket", "load"} /\ op'.key = meta.body.vmk
    BY <1>1, IdleFacts DEF QuickUnlock, At, Operation, Stages
  <1>5. TypeOK'
    BY <1>1, <1>3, <1>4, Zenon DEF TypeOK
  <1>6. MemoryInv' /\ SidecarInv' /\ StageInv'
    BY <1>1, <1>3, <1>4 DEF MemoryInv, SidecarInv, StageInv
  <1> QED BY <1>5, <1>6

(* A sidecar update on an open vault that keeps the VMK. *)
LEMMA UpdateSidecarInv ==
  ASSUME IndInv, op = Idle, session, meta # NoFile, NEW b \in Body,
         b.vmk = meta.body.vmk, b.passkeys = meta.body.passkeys, UpdateSidecar(b)
  PROVE  IndInv'
  <1> USE DEF IndInv, ChangeStages, UnlockStages, EraseStages
  <1>1. meta \in Header /\ vmk \in Num /\ op.at = "idle" /\ db # NoFile
        /\ UNCHANGED <<db, vmk, conn, ticket, session, op, fresh, held, torn>>
    BY IdleFacts, Zenon DEF TypeOK, UpdateSidecar, memory, MemoryInv
  <1>2. meta' \in Header /\ meta'.body = b /\ meta' # NoFile
    BY <1>1, WriteHeaderFacts DEF UpdateSidecar
  <1>3. TypeOK'
    BY <1>1, <1>2 DEF TypeOK
  <1>4. MemoryInv' /\ SidecarInv' /\ StageInv'
    BY <1>1, <1>2, Zenon DEF MemoryInv, SidecarInv, StageInv
  <1> QED BY <1>3, <1>4

LEMMA SidecarRequestInv ==
  ASSUME IndInv,
         \/ \E p \in Passwords : QuickUnlockEnroll(p)
         \/ QuickUnlockRevoke
         \/ EnrollRecoveryKey
         \/ \E p, d \in BOOLEAN : UpdateLoginPolicy(p, d)
  PROVE  IndInv'
  <1>1. op = Idle /\ session /\ meta # NoFile
    BY Zenon DEF QuickUnlockEnroll, QuickUnlockRevoke, EnrollRecoveryKey,
           UpdateLoginPolicy, Authorised, Enabled
  <1>2. meta.body \in Body /\ vmk \in Num /\ meta.body.quick \subseteq (Passwords \X Num)
        /\ meta.body.salt \in Num
    BY <1>1, FieldTypes DEF IndInv, TypeOK
  <1>3. ASSUME NEW p \in Passwords, QuickUnlockEnroll(p) PROVE IndInv'
    <2>1. meta.body.quick \cup {<<p, meta.body.salt>>} \in SUBSET (Passwords \X Num)
      BY <1>2
    <2> QED BY <1>1, <1>2, <1>3, <2>1, WithQuickFacts, UpdateSidecarInv
            DEF QuickUnlockEnroll
  <1>4. CASE QuickUnlockRevoke
    <2>1. {} \in SUBSET (Passwords \X Num)
      OBVIOUS
    <2> QED BY <1>1, <1>2, <1>4, <2>1, WithQuickFacts, UpdateSidecarInv
            DEF QuickUnlockRevoke
  <1>5. CASE EnrollRecoveryKey
    BY <1>1, <1>2, <1>5, WithRecoveryFacts, UpdateSidecarInv DEF EnrollRecoveryKey
  <1>6. ASSUME NEW p \in BOOLEAN, NEW d \in BOOLEAN, UpdateLoginPolicy(p, d)
        PROVE  IndInv'
    <2> DEFINE c == WithPolicy(meta.body, p, d)
    <2>1. c \in Body /\ c.vmk = meta.body.vmk /\ c.passkeys = meta.body.passkeys
      BY <1>2, Zenon DEF WithPolicy, Body
    <2>2. UpdateSidecar(c)
      BY <1>6 DEF UpdateLoginPolicy
    <2> HIDE DEF c
    <2> QED BY <1>1, <2>1, <2>2, UpdateSidecarInv
  <1> QED BY <1>3, <1>4, <1>5, <1>6

(* Rows written on an open vault. *)
LEMMA DatabaseRequestInv ==
  ASSUME IndInv, StoreItem \/ SetupVaultTotp \/ RemoveVaultTotp
  PROVE  IndInv'
  <1> USE DEF IndInv, ChangeStages, UnlockStages, EraseStages
  <1>1. op = Idle /\ op.at = "idle" /\ session /\ db \in Database /\ vmk \in Num
        /\ UNCHANGED <<meta, vmk, conn, ticket, session, op, fresh, held, torn>>
    BY IdleFacts DEF StoreItem, SetupVaultTotp, RemoveVaultTotp, Authorised,
       Enabled, MemoryInv, TypeOK, memory
  <1>2. db' \in Database /\ db' # NoFile /\ db'.key = db.key
    <2>1. ASSUME NEW d \in Database, d.key = db.key, db' = Logged(d, vmk)
          PROVE  db' \in Database /\ db' # NoFile /\ db'.key = db.key
      BY <1>1, <2>1, LoggedFacts
    <2> QED BY <1>1, <2>1, StoredUnderFacts, WithTotpFacts, IdleFacts, Zenon
            DEF StoreItem, SetupVaultTotp, RemoveVaultTotp
  <1>3. TypeOK'
    BY <1>1, <1>2 DEF TypeOK
  <1>4. MemoryInv' /\ SidecarInv' /\ StageInv'
    BY <1>1, <1>2, Zenon DEF MemoryInv, SidecarInv, StageInv
  <1> QED BY <1>3, <1>4

LEMMA LockInv ==
  ASSUME IndInv, Lock
  PROVE  IndInv'
  <1> USE IdleFacts DEF IndInv, ChangeStages, UnlockStages, EraseStages
  <1>1. op = Idle /\ op.at = "idle" /\ session /\ db \in Database /\ vmk \in Num
        /\ UNCHANGED <<meta, op, fresh, held, torn>> /\ ClearMemory
    BY DEF Lock, MemoryInv, TypeOK
  <1>2. db' \in Database /\ db' # NoFile /\ db'.key = db.key
    BY <1>1, LoggedFacts DEF Lock
  <1>3. TypeOK'
    BY <1>1, <1>2, Zenon DEF TypeOK, ClearMemory
  <1>4. MemoryInv' /\ SidecarInv' /\ StageInv'
    BY <1>1, <1>2, Zenon DEF MemoryInv, SidecarInv, StageInv, ClearMemory
  <1> QED BY <1>3, <1>4

LEMMA ChangePasswordInv ==
  ASSUME IndInv, ChangePassword
  PROVE  IndInv'
  <1> USE DEF IndInv, ChangeStages, UnlockStages, EraseStages
  <1>1. fresh \in Num /\ fresh # 0 /\ fresh' \in 1 .. MaxFresh + 1
    BY FreshFacts DEF ChangePassword
  <1>2. /\ op.at = "idle" /\ session /\ meta # NoFile /\ meta.body.vmk = vmk
        /\ db \in Database /\ vmk \in Num
        /\ UNCHANGED <<meta, vmk, conn, ticket, session, held, torn>>
    BY IdleFacts DEF ChangePassword, Authorised, Enabled, MemoryInv, TypeOK, memory
  <1>3. db' \in Database /\ db' # NoFile /\ db'.key = fresh
    BY <1>1, <1>2, RekeyVaultFacts DEF ChangePassword
  <1>4. op' \in Operation /\ op'.at = "change_header" /\ op'.key = fresh
    BY <1>1, IdleFacts DEF ChangePassword, At, Operation, Stages
  <1>5. TypeOK'
    BY <1>1, <1>2, <1>3, <1>4 DEF TypeOK
  <1>6. MemoryInv' /\ SidecarInv' /\ StageInv'
    BY <1>1, <1>2, <1>3, <1>4, Zenon DEF MemoryInv, SidecarInv, StageInv
  <1> QED BY <1>5, <1>6

LEMMA ChangeHeaderInv ==
  ASSUME IndInv, ChangeHeader
  PROVE  IndInv'
  <1> USE DEF IndInv, ChangeStages, UnlockStages, EraseStages
  <1>1. /\ op.at = "change_header" /\ op.key \in Num /\ op.key # 0 /\ session
        /\ meta \in Header /\ meta # NoFile /\ meta.body \in Body /\ vmk \in Num
        /\ db \in Database /\ db # NoFile /\ db.key = op.key
        /\ fresh \in 1 .. MaxFresh + 1 /\ UNCHANGED <<db, fresh, held>>
    BY FieldTypes DEF ChangeHeader, TypeOK, MemoryInv, StageInv
  <1>2. CASE Refuse /\ torn' = TRUE /\ UNCHANGED meta
    BY <1>1, <1>2, GiveUpInv, ClearInv, Zenon DEF Refuse, StartErase
  <1>3. ASSUME NEW p \in Passwords, NEW h \in HeavyKdf,
               meta' = WriteHeader(meta, Rekeyed(meta.body, p, op.key, h), vmk),
               op' = At("change_load", op.key, 0, FALSE),
               UNCHANGED <<memory, torn>>
        PROVE  IndInv'
    <2>2. /\ Rekeyed(meta.body, p, op.key, h) \in Body
          /\ Rekeyed(meta.body, p, op.key, h).vmk = op.key
          /\ Rekeyed(meta.body, p, op.key, h).passkeys = {}
      BY <1>1, <1>3, RekeyedFacts
    <2>3. meta' \in Header /\ meta' # NoFile
          /\ meta'.body = Rekeyed(meta.body, p, op.key, h)
      BY <1>1, <1>3, <2>2, WriteHeaderFacts
    <2>4. op' \in Operation /\ op'.at = "change_load" /\ op'.key = op.key
      BY <1>1, <1>3, IdleFacts DEF At, Operation, Stages
    <2>5. TypeOK'
      BY <1>1, <1>3, <2>3, <2>4, Zenon DEF TypeOK, memory
    <2>6. MemoryInv' /\ SidecarInv' /\ StageInv'
      BY <1>1, <1>3, <2>2, <2>3, <2>4, ZenonT(40) DEF MemoryInv, SidecarInv, StageInv, memory
    <2> QED BY <2>5, <2>6, Zenon
  <1> QED BY <1>2, <1>3, Zenon DEF ChangeHeader

LEMMA ChangeLoadInv ==
  ASSUME IndInv, ChangeLoad
  PROVE  IndInv'
  <1> USE IdleFacts DEF IndInv, ChangeStages, UnlockStages, EraseStages
  <1>1. /\ op.at = "change_load" /\ op.key \in Num /\ op.key # 0 /\ session
        /\ db \in Database /\ db.key = op.key
        /\ UNCHANGED <<meta, conn, ticket, session, fresh, held, torn>>
        /\ vmk' = op.key /\ op' = Idle
    BY FieldTypes DEF ChangeLoad, TypeOK, MemoryInv, StageInv
  <1>2. db' \in Database /\ db' # NoFile /\ db'.key = db.key
    BY <1>1, LoggedFacts DEF ChangeLoad
  <1>3. TypeOK'
    BY <1>1, <1>2 DEF TypeOK
  <1>4. MemoryInv' /\ SidecarInv' /\ StageInv'
    BY <1>1, <1>2, Zenon DEF MemoryInv, SidecarInv, StageInv
  <1> QED BY <1>3, <1>4

LEMMA EraseInv ==
  ASSUME IndInv, EraseMeta \/ EraseDb \/ EraseUnlink
  PROVE  IndInv'
  <1> USE IdleFacts DEF IndInv, ChangeStages, UnlockStages, EraseStages, memory
  <1>1. CASE EraseMeta
    <2>1. meta \in Header /\ meta # NoFile /\ meta.body \in Body /\ op.at = "erase_meta"
      BY <1>1, FieldTypes DEF EraseMeta, TypeOK, StageInv
    <2>2. Sanitised(meta.body) \in Body /\ Sanitised(meta.body).vmk = 0
          /\ Sanitised(meta.body).passkeys \subseteq {0}
      BY <2>1, SanitisedFacts
    <2> DEFINE h == WriteHeader(meta, Sanitised(meta.body), 0)
    <2>a. h \in Header /\ h.body = Sanitised(meta.body)
      BY <2>1, <2>2, WriteHeaderFacts
    <2>b. EraseMeta => meta' \in {meta, NoFile, h}
      BY Zenon DEF EraseMeta
    <2> HIDE DEF h
    <2>3. \/ meta' = meta
          \/ meta' = NoFile
          \/ /\ meta' \in Header /\ meta'.body.vmk = 0
             /\ meta'.body.passkeys \subseteq {0}
      BY <1>1, <2>2, <2>a, <2>b
    <2>4. op' \in Operation /\ op'.at = "erase_db"
      BY <1>1 DEF EraseMeta, At, Operation, Stages
    <2>5. TypeOK'
      BY <1>1, <2>3, <2>4, Zenon DEF EraseMeta, TypeOK
    <2>6. MemoryInv' /\ SidecarInv' /\ StageInv'
      BY <1>1, <2>1, <2>3, <2>4, Zenon DEF EraseMeta, MemoryInv, SidecarInv, StageInv
    <2> QED BY <2>5, <2>6, Zenon
  <1>2. CASE EraseDb
    <2>1. op' \in Operation /\ op'.at = "erase_unlink"
      BY <1>2 DEF EraseDb, At, Operation, Stages
    <2>2. TypeOK'
      BY <1>2, <2>1, Zenon DEF EraseDb, TypeOK
    <2>3. MemoryInv' /\ SidecarInv' /\ StageInv'
      BY <1>2, <2>1, Zenon DEF EraseDb, MemoryInv, SidecarInv, StageInv
    <2> QED BY <2>2, <2>3
  <1>3. CASE EraseUnlink
    BY <1>3, Zenon DEF EraseUnlink, TypeOK, MemoryInv, SidecarInv, StageInv
  <1> QED BY <1>1, <1>2, <1>3

LEMMA StopInv ==
  ASSUME IndInv, RefusedAttempt \/ ForensicWipe \/ Crash
  PROVE  IndInv'
  <1>1. fresh \in 1 .. MaxFresh + 1 /\ torn \in BOOLEAN
    BY DEF IndInv, TypeOK
  <1>2. CASE RefusedAttempt \/ ForensicWipe
    BY <1>1, <1>2, IdleFacts, ClearInv, Zenon DEF RefusedAttempt, ForensicWipe, StartErase
  <1>3. CASE Crash
    BY <1>1, <1>3, ClearInv, Zenon DEF Crash
  <1> QED BY <1>2, <1>3

LEMMA IndNext == IndInv /\ [Next]_vars => IndInv'
  <1> SUFFICES ASSUME IndInv, [Next]_vars PROVE IndInv'
    BY Zenon
  <1>1. CASE UNCHANGED vars
    BY <1>1 DEF vars, memory, IndInv, TypeOK, MemoryInv, SidecarInv, StageInv
  <1>2. CASE Next
    BY <1>2, CreateVaultInv, CreateOpenInv, UnlockExistingInv, WriteTicketInv,
       RewrapInv, LoadInv, UnlockWithPasskeyInv, UnlockWithRecoveryKeyInv,
       QuickUnlockInv, SidecarRequestInv, DatabaseRequestInv, LockInv,
       ChangePasswordInv, ChangeHeaderInv, ChangeLoadInv, EraseInv, StopInv
    DEF Next
  <1> QED BY <1>1, <1>2

(* Type correctness: every variable keeps its shape under every handler,   *)
(* crash and I/O error.                                                    *)
THEOREM TypeCorrect == Spec => []TypeOK
  <1>1. IndInv => TypeOK
    BY DEF IndInv
  <1> QED BY <1>1, IndInit, IndNext, PTL DEF Spec

(* The header, the database and the memory agree on the VMK outside the    *)
(* window of change_password, whatever requests, crashes and I/O errors    *)
(* happen, unless one of them cut a two-file update.                       *)
THEOREM KeysAlwaysAgree == Spec => []KeysAgree
  <1>1. IndInv => KeysAgree
    BY DEF IndInv, KeysAgree, MemoryInv, SidecarInv, ChangeStages
  <1> QED BY <1>1, IndInit, IndNext, PTL DEF Spec

(* A step that leaves conn as it is, or clears it, installs no connection. *)
LEMMA VerifiedStep ==
  ASSUME IndInv, [Next]_vars
  PROVE  conn' /\ ~conn /\ db # NoFile => db.key = vmk' /\ db.audit \subseteq {vmk'}
  <1> SUFFICES ASSUME conn', ~conn, db # NoFile
               PROVE  db.key = vmk' /\ db.audit \subseteq {vmk'}
    OBVIOUS
  <1>1. Load \/ UnlockWithPasskey \/ UnlockWithRecoveryKey \/ CreateOpen
    BY Zenon DEF Next, vars, memory, CreateVault, UnlockExisting, WriteTicket, Rewrap,
       Refuse, StartErase, ClearMemory, QuickUnlock, RefusedAttempt,
       QuickUnlockEnroll, QuickUnlockRevoke, EnrollRecoveryKey, UpdateLoginPolicy,
       UpdateSidecar, StoreItem, SetupVaultTotp, RemoveVaultTotp, Lock,
       ChangePassword, ChangeHeader, ChangeLoad, ForensicWipe, EraseMeta, EraseDb,
       EraseUnlink, Crash
  <1>2. CASE Load
    BY <1>2, Zenon DEF Load, ClearMemory, StartErase, IndInv, StageInv, UnlockStages
  <1>3. CASE UnlockWithPasskey \/ UnlockWithRecoveryKey
    BY <1>3, Zenon DEF UnlockWithPasskey, UnlockWithRecoveryKey, LoadWithoutTicket, Opens
  <1>4. CASE CreateOpen
    BY <1>4 DEF CreateOpen, IndInv, StageInv
  <1> QED BY <1>1, <1>2, <1>3, <1>4

(* Every unlock path installs a connection only for the key that fits the  *)
(* database file and its audit chain, although up to three durable writes  *)
(* separate the check from the moment DaemonState is filled in.            *)
THEOREM VerifiedKeysOnly == Spec => OnlyVerifiedKeysLoaded
  <1>1. IndInv /\ [Next]_vars =>
          [conn' /\ ~conn /\ db # NoFile =>
             db.key = vmk' /\ db.audit \subseteq {vmk'}]_vars
    BY VerifiedStep, Zenon
  <1> QED BY <1>1, IndInit, IndNext, PTL DEF Spec, OnlyVerifiedKeysLoaded

(* Whatever leaves the database out, clears the key or writes a key into   *)
(* the header keeps ErasedIsOpaque; only unlocking could break it.         *)
LEMMA OpaqueStep ==
  ASSUME IndInv, ErasedIsOpaque, [Next]_vars
  PROVE  ErasedIsOpaque'
  <1> SUFFICES ASSUME meta' # NoFile, db' # NoFile, meta'.body.vmk = 0,
                      meta'.body.recovery = 0
               PROVE  vmk' = 0
    BY DEF ErasedIsOpaque
  <1>1. IndInv'
    BY IndNext
  <1>2. CASE UNCHANGED <<meta, db, vmk>>
    BY <1>2 DEF ErasedIsOpaque
  <1>3. CASE ClearMemory
    BY <1>3 DEF ClearMemory
  <1>4. ASSUME NEW k \in Num, meta # NoFile, Opens(k), k \in meta.body.passkeys \cup {meta.body.recovery},
               meta' \in {meta, WriteHeader(meta, meta.body, k)}
        PROVE  FALSE
    <2>1. meta \in Header /\ meta.body \in Body
      BY <1>4, FieldTypes DEF IndInv, TypeOK
    <2>2. meta'.body = meta.body
      BY <1>4, <2>1, WriteHeaderFacts
    <2> QED BY <1>4, <2>2 DEF IndInv, SidecarInv, Opens
  <1>5. CASE UnlockWithPasskey \/ UnlockWithRecoveryKey
    <2>1. meta # NoFile /\ meta.body.passkeys \subseteq Num /\ meta.body.recovery \in Num
      BY <1>5, FieldTypes DEF UnlockWithPasskey, UnlockWithRecoveryKey, IndInv, TypeOK
    <2> QED BY <1>4, <1>5, <2>1 DEF UnlockWithPasskey, UnlockWithRecoveryKey
  <1>6. CASE \E p \in Passwords : CreateVault(p)
    BY <1>6, Zenon DEF CreateVault
  <1>7. CASE CreateOpen
    <2>1. meta'.body.vmk # 0
      BY <1>7, ZenonT(40) DEF CreateOpen, IndInv, StageInv
    <2> QED BY <2>1
  <1>8. CASE Rewrap \/ WriteTicket \/ Load
    <2>1. op'.at \in UnlockStages \/ meta' = meta
      <3>1. \A k, t, q : /\ At("load", k, t, q).at \in UnlockStages
                         /\ At("rewrap", k, t, q).at \in UnlockStages
        BY DEF At, UnlockStages
      <3> QED BY <1>8, <3>1, Zenon DEF Rewrap, WriteTicket, Load
    <2>2. meta'.body.vmk # 0
      BY <1>1, <1>8, <2>1, ZenonT(40) DEF IndInv, StageInv, UnlockStages, Rewrap, WriteTicket, Load
    <2> QED BY <2>2
  <1>9. CASE QuickUnlock
    BY <1>9, ZenonT(40) DEF QuickUnlock, Opens
  <1>10. CASE EraseMeta \/ EraseDb \/ EraseUnlink
    BY <1>10, Zenon DEF EraseMeta, EraseDb, EraseUnlink, IndInv, StageInv, EraseStages, memory
  <1>11. CASE ChangePassword \/ ChangeHeader \/ ChangeLoad
    <2>1. CASE ChangePassword
      BY <2>1, ZenonT(40) DEF ChangePassword, Authorised
    <2>2. CASE ChangeHeader
      <3>1. CASE op'.at = "change_load"
        BY <1>1, <3>1 DEF IndInv, StageInv
      <3>2. CASE Refuse /\ UNCHANGED meta
        BY <2>2, <3>2, <1>3, ZenonT(40) DEF Refuse, StartErase, memory, ChangeHeader, IndInv, StageInv, MemoryInv
      <3>3. At("change_load", op.key, 0, FALSE).at = "change_load"
        BY ZenonT(40) DEF At
      <3> QED BY <2>2, <3>1, <3>2, <3>3, ZenonT(40) DEF ChangeHeader
    <2>3. CASE ChangeLoad
      BY <2>3, Zenon DEF ChangeLoad, IndInv, StageInv
    <2> QED BY <1>11, <2>1, <2>2, <2>3
  <1>12. ASSUME NEW b \in Body, meta # NoFile, UpdateSidecar(b), session,
                b.vmk = meta.body.vmk, b.recovery \in {meta.body.recovery, vmk}
         PROVE  FALSE
    <2>1. meta \in Header /\ vmk \in Num /\ vmk # 0 /\ db # NoFile
      BY <1>12 DEF IndInv, TypeOK, MemoryInv
    <2>2. meta'.body = b
      BY <1>12, <2>1, WriteHeaderFacts DEF UpdateSidecar
    <2> QED BY <1>12, <2>1, <2>2 DEF ErasedIsOpaque
  <1>13. CASE \/ \E p \in Passwords : QuickUnlockEnroll(p)
              \/ QuickUnlockRevoke
              \/ EnrollRecoveryKey
              \/ \E p, d \in BOOLEAN : UpdateLoginPolicy(p, d)
    <2>1. /\ meta # NoFile /\ session /\ meta.body \in Body /\ vmk \in Num
          /\ meta.body.quick \subseteq (Passwords \X Num) /\ meta.body.salt \in Num
      BY <1>13, FieldTypes, Zenon DEF QuickUnlockEnroll, QuickUnlockRevoke, EnrollRecoveryKey,
         UpdateLoginPolicy, Authorised, IndInv, TypeOK
    <2>2. ASSUME NEW p \in Passwords, QuickUnlockEnroll(p) PROVE FALSE
      <3>1. meta.body.quick \cup {<<p, meta.body.salt>>} \in SUBSET (Passwords \X Num)
        BY <2>1
      <3> QED BY <1>12, <2>1, <2>2, <3>1, WithQuickFacts DEF QuickUnlockEnroll
    <2>3. CASE QuickUnlockRevoke
      <3>1. {} \in SUBSET (Passwords \X Num)
        OBVIOUS
      <3> QED BY <1>12, <2>1, <2>3, <3>1, WithQuickFacts DEF QuickUnlockRevoke
    <2>4. CASE EnrollRecoveryKey
      BY <1>12, <2>1, <2>4, WithRecoveryFacts DEF EnrollRecoveryKey
    <2>5. ASSUME NEW p \in BOOLEAN, NEW d \in BOOLEAN, UpdateLoginPolicy(p, d) PROVE FALSE
      <3> DEFINE b == WithPolicy(meta.body, p, d)
      <3>1. b \in Body /\ b.vmk = meta.body.vmk /\ b.recovery = meta.body.recovery
        BY <2>1, ZenonT(40) DEF WithPolicy, Body
      <3>2. UpdateSidecar(b)
        BY <2>5 DEF UpdateLoginPolicy
      <3> HIDE DEF b
      <3> QED BY <1>12, <2>1, <3>1, <3>2
    <2> QED BY <1>13, <2>2, <2>3, <2>4, <2>5
  <1>14. CASE StoreItem \/ SetupVaultTotp \/ RemoveVaultTotp
    BY <1>14 DEF StoreItem, SetupVaultTotp, RemoveVaultTotp, Authorised, memory, ErasedIsOpaque,
       IndInv, MemoryInv
  <1>15. CASE \E p \in Passwords : UnlockExisting(p)
    BY <1>2, <1>15 DEF UnlockExisting, memory
  <1>16. CASE RefusedAttempt \/ Lock \/ ForensicWipe \/ Crash
    BY <1>3, <1>16, Zenon DEF RefusedAttempt, Lock, ForensicWipe, Crash, StartErase
  <1>17. CASE UNCHANGED vars
    BY <1>2, <1>17, Zenon DEF vars, memory
  <1> QED BY <1>5, <1>6, <1>7, <1>8, <1>9, <1>10, <1>11, <1>13, <1>14, <1>15, <1>16, <1>17
          DEF Next

(* Once sanitise_header has run, no later request and no restart brings a  *)
(* key for the database that is left into memory, unless a recovery key    *)
(* was enrolled.                                                           *)
THEOREM ErasedStaysOpaque == Spec => []ErasedIsOpaque
  <1>1. Init => IndInv /\ ErasedIsOpaque
    BY IndInit DEF Init, ErasedIsOpaque
  <1>2. (IndInv /\ ErasedIsOpaque) /\ [Next]_vars => (IndInv /\ ErasedIsOpaque)'
    BY IndNext, OpaqueStep
  <1> QED BY <1>1, <1>2, PTL DEF Spec

-----------------------------------------------------------------------------
(* The requests that never replace or rewrap the VMK: KeepInv says that    *)
(* header, database and memory fit, and UseInv that what they hold was     *)
(* written under that key.                                                 *)


(* The VMK and its wrapping stay as created: no password change, no KDF    *)
(* migration, and no header of an older release without a wipe ticket.     *)
KeepsKey ==
    /\ "change_password" \notin Requests
    /\ HeavyKdf = {FALSE}
    /\ InitVaults \subseteq {"absent", "current", "passkey"}

HeaderInv ==
    meta # NoFile /\ meta.body.vmk # 0 =>
        /\ HeaderIntact(meta, meta.body.vmk)
        /\ ~meta.body.heavy
        /\ meta.body.ticket # 0
        /\ meta.body.recovery \in {0, meta.body.vmk}
        /\ db # NoFile => db.key = meta.body.vmk /\ db.audit \subseteq {db.key}
        /\ session => vmk = meta.body.vmk

KeepInv == IndInv /\ HeaderInv /\ op.at \notin ChangeStages \cup {"ticket"}
-----------------------------------------------------------------------------
(* KeepInv holds initially and is preserved by every action, as long as    *)
(* KeepsKey holds.                                                         *)

LEMMA KeepInit == KeepsKey /\ Init => KeepInv
  <1> SUFFICES ASSUME KeepsKey, Init PROVE KeepInv
    OBVIOUS
  <1>1. IndInv
    BY IndInit
  <1>2. op.at = "idle" /\ ~session
    BY IdleFacts DEF Init
  <1>3. HeaderInv
    <2>1. PICK kind \in InitVaults, q \in Passwords :
             IF kind = "absent"
             THEN meta = NoFile /\ db = NoFile /\ fresh = 1
             ELSE /\ meta = [body |-> StoredBody(kind, q), macKey |-> 1,
                             macBody |-> StoredBody(kind, q)]
                  /\ db = Logged(StoredUnder(NewDb(1), 1), 1)
                  /\ fresh = 2
      BY DEF Init
    <2>2. CASE kind = "absent"
      BY <2>1, <2>2, Zenon DEF HeaderInv
    <2>3. CASE kind \in {"current", "passkey"}
      <3>1. /\ StoredBody(kind, q).vmk = 1 /\ ~StoredBody(kind, q).heavy
            /\ StoredBody(kind, q).ticket = 1 /\ StoredBody(kind, q).recovery = 0
        BY <2>3, Zenon DEF StoredBody
      <3>2. 1 \in Num
        BY DEF Num
      <3>3. NewDb(1) \in Database /\ NewDb(1).key = 1 /\ NewDb(1).audit = {}
        BY <3>2, NewDbFacts
      <3>4. /\ StoredUnder(NewDb(1), 1) \in Database
            /\ StoredUnder(NewDb(1), 1).key = 1 /\ StoredUnder(NewDb(1), 1).audit = {}
        BY <3>2, <3>3, StoredUnderFacts
      <3>5. db.key = 1 /\ db.audit = {1}
        BY <2>1, <2>3, <3>2, <3>4, LoggedFacts
      <3> QED BY <1>2, <2>1, <2>3, <3>1, <3>5 DEF HeaderInv, HeaderIntact
    <2> QED BY <2>2, <2>3 DEF KeepsKey
  <1> QED BY <1>1, <1>2, <1>3 DEF KeepInv, ChangeStages

(* A step that leaves the header alone and writes only rows under its key. *)
LEMMA SameHeader ==
  ASSUME HeaderInv, meta' = meta,
         meta # NoFile /\ meta.body.vmk # 0 =>
           /\ db' # NoFile => db'.key = meta.body.vmk /\ db'.audit \subseteq {db'.key}
           /\ session' => vmk' = meta.body.vmk
  PROVE  HeaderInv'
  BY DEF HeaderInv, HeaderIntact

(* A header sealed by write_header under the key it wraps. *)
LEMMA SealedHeader ==
  ASSUME HeaderInv, IndInv, op = Idle, session, meta # NoFile, NEW b \in Body,
         b.vmk = meta.body.vmk, b.heavy = meta.body.heavy,
         b.ticket = meta.body.ticket, b.recovery \in {meta.body.recovery, vmk},
         UpdateSidecar(b)
  PROVE  HeaderInv'
  <1>1. meta \in Header /\ vmk \in Num /\ vmk # 0 /\ UNCHANGED <<db, vmk, session>>
    BY Zenon DEF IndInv, TypeOK, MemoryInv, UpdateSidecar, memory
  <1>2. meta' \in Header /\ meta'.body = b /\ HeaderIntact(meta', vmk)
    BY <1>1, WriteHeaderFacts DEF UpdateSidecar
  <1> QED BY <1>1, <1>2 DEF HeaderInv, HeaderIntact

LEMMA KeepCreate ==
  ASSUME KeepsKey, KeepInv,
         (\E p \in Passwords : CreateVault(p)) \/ CreateOpen
  PROVE  HeaderInv' /\ op'.at \in {"idle", "create_open", "erase_meta"}
  <1> USE IdleFacts DEF KeepInv, IndInv
  <1>1. ASSUME NEW p \in Passwords, CreateVault(p)
        PROVE  HeaderInv' /\ op'.at \in {"idle", "create_open", "erase_meta"}
    <2>1. fresh \in Num /\ fresh # 0 /\ ~session /\ db' = NoFile
      BY <1>1, FreshFacts, Zenon DEF CreateVault, MemoryInv
    <2>2. CASE UNCHANGED meta /\ (StartErase \/ (op' = Idle /\ session' = session))
      <3>1. CASE StartErase
        BY <2>1, <2>2, <3>1, SameHeader DEF StartErase, ClearMemory, At
      <3>2. CASE op' = Idle /\ session' = session
        BY <2>1, <2>2, <3>2, SameHeader, Zenon
      <3> QED BY <2>2, <3>1, <3>2, Zenon
    <2>3. ASSUME NEW h \in HeavyKdf, NEW b,
                 b = [pw |-> p, salt |-> fresh, vmk |-> fresh, heavy |-> h,
                     pwLogin |-> TRUE, duress |-> FALSE, passkeys |-> {},
                     quick |-> {}, recovery |-> 0, ticket |-> fresh],
                 meta' = WriteHeader([body |-> b, macKey |-> 0, macBody |-> b],
                                     b, fresh),
                 op' = At("create_open", fresh, fresh, FALSE),
                 session' = session
          PROVE  HeaderInv' /\ op'.at \in {"idle", "create_open", "erase_meta"}
      <3>1. meta'.body = b /\ HeaderIntact(meta', fresh)
        BY <2>1, <2>3 DEF WriteHeader, HeaderIntact
      <3>2. b.vmk = fresh /\ ~b.heavy /\ b.ticket = fresh /\ b.recovery = 0
        BY <2>3 DEF KeepsKey
      <3> QED BY <2>1, <2>3, <3>1, <3>2 DEF HeaderInv, HeaderIntact, At
    <2> QED BY <1>1, <2>2, <2>3, ZenonT(40) DEF CreateVault
  <1>2. CASE CreateOpen
    <2>1. op.at = "create_open" /\ meta' = meta /\ db = NoFile /\ op.key \in Num
          /\ meta.body.vmk = op.key /\ vmk = op.key /\ ~session
      BY <1>2, FieldTypes, Zenon DEF CreateOpen, TypeOK, StageInv, MemoryInv
    <2>2. CASE Refuse /\ UNCHANGED <<db, held>>
      <3>1. CASE StartErase
        BY <2>1, <2>2, <3>1, SameHeader DEF StartErase, ClearMemory, At
      <3>2. CASE op' = Idle /\ session' = session
        BY <2>1, <2>2, <3>2, SameHeader
      <3>3. StartErase \/ (op' = Idle /\ session' = session)
        BY <2>2, Zenon DEF Refuse, memory
      <3> QED BY <3>1, <3>2, <3>3, Zenon
    <2>3. CASE db' = Logged(NewDb(op.key), op.key) /\ vmk' = vmk /\ op' = Idle
      <3>1. NewDb(op.key) \in Database /\ NewDb(op.key).key = op.key
            /\ NewDb(op.key).audit = {}
        BY <2>1, NewDbFacts
      <3>2. db'.key = op.key /\ db'.audit = {op.key}
        BY <2>1, <2>3, <3>1, LoggedFacts
      <3> QED BY <2>1, <2>3, <3>2, SameHeader, Zenon
    <2> QED BY <1>2, <2>2, <2>3, Zenon DEF CreateOpen
  <1> QED BY <1>1, <1>2

LEMMA KeepUnlock ==
  ASSUME KeepsKey, KeepInv,
         (\E p \in Passwords : UnlockExisting(p)) \/ Rewrap \/ Load \/ QuickUnlock
  PROVE  HeaderInv' /\ op'.at \in {"idle", "rewrap", "load", "erase_meta"}
  <1> USE IdleFacts DEF KeepInv, IndInv
  <1>1. CASE \E p \in Passwords : UnlockExisting(p)
    <2>1. meta # NoFile /\ meta.body.vmk # 0 /\ UNCHANGED <<meta, db, vmk, session>>
          /\ op'.at = IF meta.body.ticket = 0 THEN "ticket" ELSE "rewrap"
      BY <1>1 DEF UnlockExisting, PasswordUnlocks, Opens, memory, At
    <2> QED BY <2>1, SameHeader, Zenon DEF HeaderInv
  <1>2. CASE Rewrap
    <2>1. meta # NoFile /\ meta.body.vmk # 0 /\ UNCHANGED <<db, vmk, session>>
          /\ op'.at = "load"
      BY <1>2 DEF Rewrap, StageInv, UnlockStages, memory, At
    <2>2. meta' = meta
      BY <1>2, <2>1, Zenon DEF Rewrap, HeaderInv
    <2> QED BY <2>1, <2>2, SameHeader, ZenonT(40) DEF HeaderInv
  <1>3. CASE Load
    <2>1. op.at = "load" /\ db \in Database /\ op.key \in Num /\ meta' = meta
          /\ meta.body.vmk = op.key /\ db.key = op.key /\ db.audit \subseteq {op.key}
      BY <1>3, FieldTypes, Zenon DEF Load, TypeOK, StageInv, UnlockStages
    <2>2. CASE vmk' = op.key /\ db' = Logged(db, op.key) /\ op' = Idle
      <3>1. db'.key = op.key /\ db'.audit = db.audit \cup {op.key}
        BY <2>1, <2>2, LoggedFacts, Zenon
      <3> QED BY <2>1, <2>2, <3>1, SameHeader, Zenon
    <2>3. CASE UNCHANGED db /\ ((ClearMemory /\ op' = Idle) \/ StartErase)
      BY <2>1, <2>3, SameHeader DEF StartErase, ClearMemory, At
    <2> QED BY <1>3, <2>2, <2>3, Zenon DEF Load
  <1>4. CASE QuickUnlock
    <2>1. meta \in Header /\ meta # NoFile /\ meta.body.vmk # 0 /\ meta.body.vmk \in Num
          /\ UNCHANGED <<meta, vmk, session>> /\ Opens(meta.body.vmk)
      BY <1>4, FieldTypes, Zenon DEF QuickUnlock, Opens, memory, TypeOK
    <2>2. NewDb(meta.body.vmk).key = meta.body.vmk /\ NewDb(meta.body.vmk).audit = {}
      BY <2>1, NewDbFacts, Zenon
    <2>3. db'.key = meta.body.vmk /\ db'.audit \subseteq {meta.body.vmk}
      BY <1>4, <2>1, <2>2, Zenon DEF QuickUnlock, Opened, Opens
    <2>4. op'.at = "load"
      BY <1>4, <2>1, Zenon DEF QuickUnlock, HeaderInv, At
    <2> QED BY <2>1, <2>3, <2>4, SameHeader DEF HeaderInv
  <1> QED BY <1>1, <1>2, <1>3, <1>4, Zenon

LEMMA KeepCopies ==
  ASSUME KeepsKey, KeepInv, UnlockWithPasskey \/ UnlockWithRecoveryKey
  PROVE  HeaderInv' /\ op' = op
  <1> USE IdleFacts DEF KeepInv, IndInv
  <1>1. meta \in Header /\ meta # NoFile /\ meta.body \in Body /\ op' = op
    BY FieldTypes DEF UnlockWithPasskey, UnlockWithRecoveryKey, TypeOK
  <1>2. ASSUME NEW k \in Num, Opens(k), LoadWithoutTicket(k)
        PROVE  db'.key = k /\ db'.audit \subseteq {k} /\ vmk' = k
    <2>1. NewDb(k) \in Database /\ NewDb(k).key = k /\ NewDb(k).audit = {}
      BY NewDbFacts
    <2>2. Opened(k) \in Database /\ Opened(k).key = k /\ Opened(k).audit \subseteq {k}
      BY <1>2, <2>1, Zenon DEF Opened, Opens, TypeOK
    <2> QED BY <1>2, <2>2, LoggedFacts, Zenon DEF LoadWithoutTicket
  <1>3. CASE UnlockWithPasskey
    <2>1. PICK k \in meta.body.passkeys :
             /\ Opens(k) /\ LoadWithoutTicket(k)
             /\ meta' \in {meta, WriteHeader(meta, meta.body, k)}
      BY <1>3 DEF UnlockWithPasskey
    <2>2. k \in Num /\ k = meta.body.vmk /\ k # 0
      BY <1>1, <2>1, FieldTypes, Zenon DEF SidecarInv, Opens
    <2>3. CASE meta' = meta
      BY <1>2, <2>1, <2>2, <2>3, <1>1, SameHeader, Zenon
    <2>4. CASE meta' = WriteHeader(meta, meta.body, k)
      <3>1. meta' \in Header /\ meta'.body = meta.body /\ HeaderIntact(meta', k)
        BY <1>1, <2>2, <2>4, WriteHeaderFacts
      <3>2. db'.key = k /\ db'.audit \subseteq {k} /\ vmk' = k
        BY <1>2, <2>1, <2>2
      <3> QED BY <1>1, <2>2, <3>1, <3>2 DEF HeaderInv
    <2> QED BY <1>1, <2>1, <2>3, <2>4, Zenon
  <1>4. CASE UnlockWithRecoveryKey
    <2>1. meta.body.recovery \in Num /\ meta.body.recovery # 0 /\ meta' = meta
          /\ Opens(meta.body.recovery) /\ LoadWithoutTicket(meta.body.recovery)
      BY <1>4, <1>1, FieldTypes, Zenon DEF UnlockWithRecoveryKey, Opens
    <2>2. meta.body.vmk # 0 => meta.body.recovery = meta.body.vmk
      BY <1>1, <2>1 DEF HeaderInv
    <2> QED BY <1>1, <1>2, <2>1, <2>2, SameHeader, Zenon
  <1> QED BY <1>3, <1>4, Zenon

LEMMA KeepSidecar ==
  ASSUME KeepInv,
         \/ \E p \in Passwords : QuickUnlockEnroll(p)
         \/ QuickUnlockRevoke
         \/ EnrollRecoveryKey
         \/ \E p, d \in BOOLEAN : UpdateLoginPolicy(p, d)
  PROVE  HeaderInv' /\ op' = op
  <1>1. op = Idle /\ session /\ meta # NoFile /\ op' = op
    BY Zenon DEF QuickUnlockEnroll, QuickUnlockRevoke, EnrollRecoveryKey,
           UpdateLoginPolicy, UpdateSidecar, Authorised, Enabled
  <1>2. /\ meta.body \in Body /\ vmk \in Num /\ meta.body.salt \in Num
        /\ meta.body.quick \subseteq (Passwords \X Num) /\ IndInv /\ HeaderInv
    BY <1>1, FieldTypes, Zenon DEF KeepInv, IndInv, TypeOK
  <1>3. ASSUME NEW p \in Passwords, QuickUnlockEnroll(p) PROVE HeaderInv'
    <2>1. meta.body.quick \cup {<<p, meta.body.salt>>} \in SUBSET (Passwords \X Num)
      BY <1>2
    <2> QED BY <1>1, <1>2, <1>3, <2>1, WithQuickFacts, SealedHeader, Zenon
            DEF QuickUnlockEnroll
  <1>4. CASE QuickUnlockRevoke
    <2>1. {} \in SUBSET (Passwords \X Num)
      OBVIOUS
    <2> QED BY <1>1, <1>2, <1>4, <2>1, WithQuickFacts, SealedHeader
            DEF QuickUnlockRevoke
  <1>5. CASE EnrollRecoveryKey
    BY <1>1, <1>2, <1>5, WithRecoveryFacts, SealedHeader, Zenon DEF EnrollRecoveryKey
  <1>6. ASSUME NEW p \in BOOLEAN, NEW d \in BOOLEAN, UpdateLoginPolicy(p, d)
        PROVE  HeaderInv'
    <2>1. LET c == WithPolicy(meta.body, p, d) IN
            /\ c \in Body /\ c.vmk = meta.body.vmk /\ c.recovery = meta.body.recovery
            /\ c.heavy = meta.body.heavy /\ c.ticket = meta.body.ticket
      BY <1>2, Zenon DEF WithPolicy, Body
    <2> QED BY <1>1, <1>2, <1>6, <2>1, SealedHeader DEF UpdateLoginPolicy
  <1> QED BY <1>1, <1>3, <1>4, <1>5, <1>6

LEMMA KeepRows ==
  ASSUME KeepInv, StoreItem \/ SetupVaultTotp \/ RemoveVaultTotp \/ Lock
  PROVE  HeaderInv' /\ op' = op
  <1>1. /\ op' = op /\ session /\ db \in Database /\ vmk \in Num /\ meta # NoFile
        /\ meta' = meta /\ (session' => vmk' = vmk) /\ HeaderInv
    BY DEF StoreItem, SetupVaultTotp, RemoveVaultTotp, Lock, Authorised, Enabled,
       KeepInv, IndInv, MemoryInv, TypeOK, memory, ClearMemory
  <1>2. \E d \in Database : /\ d.key = db.key /\ d.audit = db.audit
                            /\ db' \in {d, Logged(d, vmk)}
    <2>1. 0 \in Num
      BY IdleFacts
    <2> QED
      BY <1>1, <2>1, StoredUnderFacts, WithTotpFacts
      DEF StoreItem, SetupVaultTotp, RemoveVaultTotp, Lock
  <1>3. PICK d \in Database : /\ d.key = db.key /\ d.audit = db.audit
                              /\ db' \in {d, Logged(d, vmk)}
    BY <1>2, Zenon
  <1>4. db'.key = db.key /\ db'.audit \subseteq db.audit \cup {vmk}
    BY <1>1, <1>3, LoggedFacts
  <1>5. db # NoFile
    BY <1>1, FieldTypes, Zenon
  <1>6. meta.body.vmk # 0 => vmk = meta.body.vmk /\ db.key = vmk
                             /\ db.audit \subseteq {vmk}
    BY <1>1, <1>5 DEF HeaderInv
  <1>7. meta.body.vmk # 0 => /\ db'.key = meta.body.vmk /\ db'.audit \subseteq {db'.key}
                             /\ session' => vmk' = meta.body.vmk
    BY <1>1, <1>4, <1>6
  <1> QED BY <1>1, <1>7, SameHeader, Zenon

LEMMA KeepErase ==
  ASSUME KeepInv, RefusedAttempt \/ ForensicWipe \/ EraseMeta \/ EraseDb
                  \/ EraseUnlink \/ Crash
  PROVE  HeaderInv' /\ op'.at \in EraseStages \cup {"idle"}
  <1> USE IdleFacts DEF KeepInv, IndInv, EraseStages
  <1>1. CASE RefusedAttempt \/ ForensicWipe \/ Crash
    <2>1. UNCHANGED <<meta, db>> /\ ~session' /\ op'.at \in {"idle", "erase_meta"}
      <3>1. UNCHANGED <<meta, db>> /\ session' = FALSE
            /\ (op' = Idle \/ op' = At("erase_meta", 0, 0, FALSE))
        BY <1>1, Zenon DEF RefusedAttempt, ForensicWipe, Crash, StartErase, ClearMemory
      <3> QED BY <3>1 DEF At
    <2> QED BY <2>1, SameHeader DEF HeaderInv
  <1>2. CASE EraseMeta
    <2>1. meta \in Header /\ meta # NoFile /\ meta.body \in Body
          /\ UNCHANGED <<db, session>> /\ ~session /\ op'.at = "erase_db"
      BY <1>2, FieldTypes, Zenon DEF EraseMeta, TypeOK, StageInv, memory, At
    <2>2. Sanitised(meta.body) \in Body /\ Sanitised(meta.body).vmk = 0
      BY <2>1, SanitisedFacts
    <2> DEFINE h == WriteHeader(meta, Sanitised(meta.body), 0)
    <2>3. h \in Header /\ h.body.vmk = 0
      BY <2>1, <2>2, WriteHeaderFacts
    <2>4. meta' \in {meta, NoFile, h}
      BY <1>2, Zenon DEF EraseMeta
    <2> HIDE DEF h
    <2>5. CASE meta' = meta
      BY <2>1, <2>5, SameHeader, Zenon DEF HeaderInv
    <2>6. CASE meta' \in {NoFile, h}
      BY <2>1, <2>3, <2>6 DEF HeaderInv
    <2> QED BY <2>4, <2>5, <2>6
  <1>3. CASE EraseDb
    <2>1. meta' = meta /\ db' = NoFile /\ ~session' /\ op'.at = "erase_unlink"
      BY <1>3, Zenon DEF EraseDb, StageInv, memory, At
    <2> QED BY <2>1, SameHeader, Zenon
  <1>4. CASE EraseUnlink
    BY <1>4, Zenon DEF EraseUnlink, HeaderInv
  <1> QED BY <1>1, <1>2, <1>3, <1>4, Zenon

LEMMA KeepNext == KeepsKey /\ KeepInv /\ [Next]_vars => KeepInv'
  <1> SUFFICES ASSUME KeepsKey, KeepInv, [Next]_vars PROVE KeepInv'
    OBVIOUS
  <1>1. IndInv'
    BY IndNext DEF KeepInv
  <1>2. HeaderInv' /\ op'.at \notin ChangeStages \cup {"ticket"}
    <2>1. CASE UNCHANGED vars
      BY <2>1 DEF vars, memory, KeepInv, HeaderInv, HeaderIntact
    <2>2. ~WriteTicket /\ ~ChangePassword /\ ~ChangeHeader /\ ~ChangeLoad
      BY Zenon DEF KeepInv, KeepsKey, WriteTicket, ChangePassword, ChangeHeader,
         ChangeLoad, Authorised, Enabled, ChangeStages
    <2>3. CASE Next
      BY <2>2, <2>3, KeepCreate, KeepUnlock, KeepCopies, KeepSidecar, KeepRows,
         KeepErase, Zenon
      DEF Next, KeepInv, ChangeStages, EraseStages
    <2> QED BY <2>1, <2>3, Zenon
  <1> QED BY <1>1, <1>2 DEF KeepInv

-----------------------------------------------------------------------------
(* What is stored in a vault that keeps its key, and the tickets its       *)
(* clients hold                                                            *)

(* Quick-unlock entries wrap the KEK of the salt in the header; rows, the  *)
(* TOTP secret and the key in memory are those of the database; a ticket   *)
(* was sealed under the key it was drawn with, and only creation draws it. *)
BodyUse(b) == (\A e \in b.quick : e[2] = b.salt) /\ b.ticket \in {0, b.vmk}

RowsUse(d) == d.data \subseteq {d.key} /\ d.totp \in {0, d.key}

UseInv ==
    /\ meta # NoFile => BodyUse(meta.body)
    /\ db # NoFile => RowsUse(db) /\ (session => vmk = db.key)
    /\ \A h \in held : h[1] = h[2] /\ h[1] # 0
    /\ op.at = "create_open" => op.ticket = op.key
    /\ op.at \in {"rewrap", "load"} => op.ticket = 0

LEMMA BodyUseFacts ==
  ASSUME NEW b \in Body, BodyUse(b), NEW p \in Passwords, NEW k \in Num,
         NEW l \in BOOLEAN, NEW d \in BOOLEAN
  PROVE  /\ BodyUse(WithQuick(b, b.quick \cup {<<p, b.salt>>}))
         /\ BodyUse(WithQuick(b, {}))
         /\ BodyUse(WithRecovery(b, k))
         /\ BodyUse(WithPolicy(b, l, d))
         /\ BodyUse(Sanitised(b))
  <1>1. BodyUse(WithQuick(b, b.quick \cup {<<p, b.salt>>}))
    BY DEF BodyUse, Body, WithQuick
  <1>2. BodyUse(WithQuick(b, {})) /\ BodyUse(WithRecovery(b, k)) /\ BodyUse(WithPolicy(b, l, d))
    BY DEF BodyUse, Body, WithQuick, WithRecovery, WithPolicy
  <1>3. BodyUse(Sanitised(b))
    BY DEF BodyUse, Body, Sanitised
  <1> QED BY <1>1, <1>2, <1>3

LEMMA RowsUseFacts ==
  ASSUME NEW d \in Database, NEW k \in Num
  PROVE  /\ RowsUse(NewDb(k)) /\ NewDb(k).key = k
         /\ RowsUse(d) => RowsUse(Logged(d, k))
         /\ RowsUse(d) /\ d.key = k => /\ RowsUse(StoredUnder(d, k))
                                       /\ RowsUse(WithTotp(d, k))
                                       /\ RowsUse(WithTotp(d, 0))
  BY DEF RowsUse, Database, NewDb, Logged, StoredUnder, WithTotp

LEMMA UseInit == KeepsKey /\ Init => UseInv
  <1> SUFFICES ASSUME KeepsKey, Init PROVE UseInv
    OBVIOUS
  <1>1. op.at = "idle" /\ ~session /\ held = {}
    BY IdleFacts, Zenon DEF Init
  <1>2. meta # NoFile => BodyUse(meta.body)
    BY DEF Init, KeepsKey, StoredBody, BodyUse
  <1>3. db # NoFile => RowsUse(db)
    BY ZenonT(40) DEF Init, RowsUse, NewDb, StoredUnder, Logged
  <1> QED BY <1>1, <1>2, <1>3 DEF UseInv

(* The files stay as they are and the memory is cleared or stays. *)
LEMMA UseClear ==
  ASSUME UseInv, UNCHANGED <<meta, db, held>>,
         ClearMemory \/ UNCHANGED <<vmk, session>>,
         op'.at \notin {"create_open", "rewrap", "load"}
  PROVE  UseInv'
  BY DEF UseInv, ClearMemory

LEMMA UseCreate ==
  ASSUME KeepInv, UseInv, CreateOpen \/ \E p \in Passwords : CreateVault(p)
  PROVE  UseInv'
  <1> USE IdleFacts
  <1>1. ASSUME NEW p \in Passwords, CreateVault(p) PROVE UseInv'
    <2>1. /\ op = Idle /\ db = NoFile /\ fresh \in Num /\ fresh # 0
          /\ UNCHANGED <<db, held>>
      BY <1>1, FreshFacts, Zenon DEF CreateVault, KeepInv, IndInv, TypeOK
    <2> DEFINE b(h) == [pw |-> p, salt |-> fresh, vmk |-> fresh, heavy |-> h,
                        pwLogin |-> TRUE, duress |-> FALSE, passkeys |-> {},
                        quick |-> {}, recovery |-> 0, ticket |-> fresh]
    <2>2. \/ \E h \in HeavyKdf :
               /\ meta' = WriteHeader([body |-> b(h), macKey |-> 0, macBody |-> b(h)], b(h), fresh)
               /\ op' = At("create_open", fresh, fresh, FALSE)
          \/ UNCHANGED meta /\ (op' = Idle \/ op' = At("erase_meta", 0, 0, FALSE))
      BY <1>1, ZenonT(40) DEF CreateVault, StartErase
    <2>3. \A h : BodyUse(b(h))
      BY DEF BodyUse
    <2>4. ASSUME NEW h \in HeavyKdf,
                 meta' = WriteHeader([body |-> b(h), macKey |-> 0, macBody |-> b(h)], b(h), fresh),
                 op' = At("create_open", fresh, fresh, FALSE)
          PROVE  UseInv'
      <3>1. meta'.body = b(h)
        BY <2>1, <2>4, Zenon DEF WriteHeader
      <3>2. op'.at = "create_open" /\ op'.ticket = op'.key
        BY <2>4 DEF At
      <3> HIDE DEF b
      <3> QED BY <2>1, <2>3, <3>1, <3>2 DEF UseInv
    <2>5. CASE UNCHANGED meta /\ (op' = Idle \/ op' = At("erase_meta", 0, 0, FALSE))
      <3>1. op'.at \in {"idle", "erase_meta"}
        BY <2>5 DEF At
      <3> QED BY <2>1, <2>5, <3>1 DEF UseInv
    <2> QED BY <2>2, <2>4, <2>5, Zenon
  <1>2. CASE CreateOpen
    <2>1. /\ op.at = "create_open" /\ UNCHANGED meta /\ op.key \in Num /\ op.key # 0
          /\ op.ticket = op.key /\ vmk = op.key
      BY <1>2, Zenon DEF CreateOpen, KeepInv, IndInv, StageInv, TypeOK, Operation, UseInv
    <2>2. CASE /\ db' = Logged(NewDb(op.key), op.key) /\ op' = Idle /\ UNCHANGED vmk
               /\ held' = held \cup {<<op.ticket, op.key>>}
      <3>1. NewDb(op.key) \in Database /\ RowsUse(NewDb(op.key)) /\ NewDb(op.key).key = op.key
        BY <2>1, NewDbFacts, RowsUseFacts, Zenon
      <3>2. RowsUse(db') /\ db'.key = op.key
        BY <2>1, <2>2, <3>1, RowsUseFacts, LoggedFacts
      <3>3. \A h \in held' : h[1] = h[2] /\ h[1] # 0
        BY <2>1, <2>2 DEF UseInv
      <3> QED BY <2>1, <2>2, <3>2, <3>3, Zenon DEF UseInv
    <2>3. CASE Refuse /\ UNCHANGED <<db, held>>
      BY <2>1, <2>3, UseClear DEF Refuse, StartErase, At, memory
    <2> QED BY <1>2, <2>2, <2>3, ZenonT(40) DEF CreateOpen
  <1> QED BY <1>1, <1>2

LEMMA UseUnlock ==
  ASSUME KeepsKey, KeepInv, UseInv,
         Rewrap \/ Load \/ QuickUnlock \/ \E p \in Passwords : UnlockExisting(p)
  PROVE  UseInv'
  <1> USE IdleFacts
  <1>1. ASSUME NEW p \in Passwords, UnlockExisting(p) PROVE UseInv'
    <2>1. /\ UNCHANGED <<meta, db, vmk, session, held>>
          /\ op'.at \in {"ticket", "rewrap"} /\ op'.ticket = 0
      BY <1>1, Zenon DEF UnlockExisting, At, memory
    <2> QED BY <2>1, Zenon DEF UseInv
  <1>2. CASE Rewrap
    <2>1. ~meta.body.heavy
      BY <1>2, ZenonT(40) DEF Rewrap, KeepInv, IndInv, StageInv, UnlockStages, HeaderInv
    <2>2. /\ UNCHANGED <<meta, db, vmk, session, held>> /\ op.at = "rewrap"
          /\ op'.at = "load" /\ op'.ticket = op.ticket
      BY <1>2, <2>1, Zenon DEF Rewrap, At, memory
    <2> QED BY <2>2 DEF UseInv
  <1>3. CASE Load
    <2>1. /\ op.at = "load" /\ op.ticket = 0 /\ db # NoFile /\ db.key = op.key
          /\ op.key \in Num /\ db \in Database /\ UNCHANGED meta
      BY <1>3, Zenon DEF Load, KeepInv, IndInv, StageInv, UnlockStages, TypeOK, Operation, UseInv
    <2>2. CASE db' = Logged(db, op.key) /\ vmk' = op.key /\ op' = Idle /\ held' = held
      <3>1. RowsUse(db') /\ db'.key = op.key
        BY <2>1, <2>2, RowsUseFacts, LoggedFacts, Zenon DEF UseInv
      <3> QED BY <2>1, <2>2, <3>1, Zenon DEF UseInv
    <2>3. CASE ((ClearMemory /\ op' = Idle) \/ StartErase) /\ UNCHANGED <<db, held>>
      BY <2>1, <2>3, UseClear DEF StartErase, At
    <2> QED BY <1>3, <2>1, <2>2, <2>3 DEF Load
  <1>4. CASE QuickUnlock
    <2>1. /\ UNCHANGED <<meta, vmk, session, held>> /\ db' = Opened(meta.body.vmk)
          /\ op'.at \in {"ticket", "load"} /\ op'.ticket = 0 /\ meta # NoFile
      BY <1>4, ZenonT(40) DEF QuickUnlock, At, memory
    <2>2. meta.body.vmk \in Num /\ (session => db # NoFile)
      BY <2>1, FieldTypes, ZenonT(40) DEF KeepInv, IndInv, TypeOK, MemoryInv
    <2>3. CASE db = NoFile
      <3>1. db' = NewDb(meta.body.vmk) /\ RowsUse(NewDb(meta.body.vmk))
        BY <2>1, <2>2, <2>3, Zenon DEF Opened, RowsUse, NewDb
      <3> QED BY <2>1, <2>2, <2>3, <3>1, ZenonT(40) DEF UseInv
    <2>4. CASE db # NoFile
      BY <2>1, <2>4 DEF UseInv, Opened
    <2> QED BY <2>3, <2>4
  <1> QED BY <1>1, <1>2, <1>3, <1>4

LEMMA UseCopies ==
  ASSUME KeepInv, UseInv, UnlockWithPasskey \/ UnlockWithRecoveryKey
  PROVE  UseInv'
  <1>1. /\ meta \in Header /\ meta # NoFile /\ meta.body \in Body
        /\ UNCHANGED <<op, held>>
    BY FieldTypes, ZenonT(40) DEF UnlockWithPasskey, UnlockWithRecoveryKey, KeepInv, IndInv, TypeOK
  <1>2. PICK k \in Num : /\ Opens(k) /\ LoadWithoutTicket(k)
                         /\ meta' \in {meta, WriteHeader(meta, meta.body, k)}
    BY <1>1, FieldTypes DEF UnlockWithPasskey, UnlockWithRecoveryKey
  <1>3. Opened(k) \in Database /\ Opened(k).key = k /\ RowsUse(Opened(k))
    <2>1. CASE db = NoFile
      BY <2>1, NewDbFacts, ZenonT(40) DEF Opened, RowsUse, NewDb
    <2>2. CASE db # NoFile
      BY <1>2, <2>2, Zenon DEF Opened, Opens, KeepInv, IndInv, TypeOK, UseInv
    <2> QED BY <2>1, <2>2
  <1>4. vmk' = k /\ RowsUse(db') /\ db'.key = k
    BY <1>2, <1>3, RowsUseFacts, LoggedFacts DEF LoadWithoutTicket
  <1>5. meta'.body = meta.body
    BY <1>1, <1>2, WriteHeaderFacts
  <1> QED BY <1>1, <1>4, <1>5 DEF UseInv

LEMMA UseSidecar ==
  ASSUME KeepInv, UseInv,
         \/ \E p \in Passwords : QuickUnlockEnroll(p)
         \/ QuickUnlockRevoke
         \/ EnrollRecoveryKey
         \/ \E p, d \in BOOLEAN : UpdateLoginPolicy(p, d)
  PROVE  UseInv'
  <1>1. /\ meta # NoFile /\ meta \in Header /\ meta.body \in Body /\ vmk \in Num
        /\ meta.body.quick \subseteq (Passwords \X Num) /\ meta.body.salt \in Num
        /\ BodyUse(meta.body)
    BY FieldTypes, Zenon DEF QuickUnlockEnroll, QuickUnlockRevoke, EnrollRecoveryKey,
       UpdateLoginPolicy, KeepInv, IndInv, TypeOK, UseInv
  <1>2. ASSUME NEW b \in Body, BodyUse(b), UpdateSidecar(b) PROVE UseInv'
    <2>1. meta'.body = b /\ UNCHANGED <<db, vmk, session, held, op>>
      BY <1>1, <1>2, WriteHeaderFacts, Zenon DEF UpdateSidecar, memory
    <2> QED BY <1>2, <2>1 DEF UseInv
  <1>3. ASSUME NEW p \in Passwords, QuickUnlockEnroll(p) PROVE UseInv'
    <2> DEFINE b == WithQuick(meta.body, meta.body.quick \cup {<<p, meta.body.salt>>})
    <2>1. meta.body.quick \cup {<<p, meta.body.salt>>} \in SUBSET (Passwords \X Num)
      BY <1>1
    <2>2. b \in Body
      BY <1>1, <2>1, WithQuickFacts, Zenon
    <2>3. BodyUse(b)
      BY <1>1, BodyUseFacts, Zenon
    <2>4. UpdateSidecar(b)
      BY <1>3 DEF QuickUnlockEnroll
    <2> HIDE DEF b
    <2> QED BY <1>2, <2>2, <2>3, <2>4, Zenon
  <1>4. CASE QuickUnlockRevoke
    <2> DEFINE b == WithQuick(meta.body, {})
    <2>1. {} \in SUBSET (Passwords \X Num)
      BY Zenon
    <2>2. b \in Body
      BY <1>1, <2>1, WithQuickFacts
    <2>3. BodyUse(b)
      BY <1>1 DEF BodyUse, Body, WithQuick
    <2>4. UpdateSidecar(b)
      BY <1>4, Zenon DEF QuickUnlockRevoke
    <2> HIDE DEF b
    <2> QED BY <1>2, <2>2, <2>3, <2>4
  <1>5. CASE EnrollRecoveryKey
    <2> DEFINE b == WithRecovery(meta.body, vmk)
    <2>1. b \in Body
      BY <1>1, WithRecoveryFacts
    <2>2. BodyUse(b)
      BY <1>1 DEF BodyUse, Body, WithRecovery
    <2>3. UpdateSidecar(b)
      BY <1>5 DEF EnrollRecoveryKey
    <2> HIDE DEF b
    <2> QED BY <1>2, <2>1, <2>2, <2>3
  <1>6. ASSUME NEW p \in BOOLEAN, NEW d \in BOOLEAN, UpdateLoginPolicy(p, d) PROVE UseInv'
    <2> DEFINE b == WithPolicy(meta.body, p, d)
    <2>1. b \in Body
      BY <1>1, Zenon DEF WithPolicy, Body
    <2>2. BodyUse(b)
      BY <1>1 DEF BodyUse, Body, WithPolicy
    <2>3. UpdateSidecar(b)
      BY <1>6 DEF UpdateLoginPolicy
    <2> HIDE DEF b
    <2> QED BY <1>2, <2>1, <2>2, <2>3
  <1> QED BY <1>3, <1>4, <1>5, <1>6

LEMMA UseRows ==
  ASSUME KeepInv, UseInv, StoreItem \/ SetupVaultTotp \/ RemoveVaultTotp \/ Lock
  PROVE  UseInv'
  <1>1. /\ db # NoFile /\ db \in Database /\ vmk \in Num /\ vmk = db.key
        /\ UNCHANGED <<meta, held, op>> /\ RowsUse(db)
        /\ UNCHANGED vmk \/ ~session'
    BY DEF StoreItem, SetupVaultTotp, RemoveVaultTotp, Lock, Authorised, ClearMemory,
       memory, KeepInv, IndInv, MemoryInv, TypeOK, UseInv
  <1>2. RowsUse(db') /\ db'.key = db.key
    <2>1. ASSUME NEW d \in Database, RowsUse(d), d.key = db.key, db' = Logged(d, vmk)
          PROVE  RowsUse(db') /\ db'.key = db.key
      BY <1>1, <2>1, RowsUseFacts, LoggedFacts, Zenon
    <2>2. CASE StoreItem
      <3>1. StoredUnder(db, vmk) \in Database /\ StoredUnder(db, vmk).key = db.key
            /\ RowsUse(StoredUnder(db, vmk))
        BY <1>1, StoredUnderFacts, RowsUseFacts, Zenon
      <3> QED BY <2>1, <2>2, <3>1, Zenon DEF StoreItem
    <2>3. CASE SetupVaultTotp
      <3>1. WithTotp(db, vmk) \in Database /\ WithTotp(db, vmk).key = db.key
            /\ RowsUse(WithTotp(db, vmk))
        BY <1>1, WithTotpFacts, RowsUseFacts, Zenon
      <3> QED BY <2>1, <2>3, <3>1, Zenon DEF SetupVaultTotp
    <2>4. CASE RemoveVaultTotp
      <3>1. WithTotp(db, 0) \in Database /\ WithTotp(db, 0).key = db.key
            /\ RowsUse(WithTotp(db, 0))
        BY <1>1, IdleFacts, WithTotpFacts, RowsUseFacts
      <3> QED BY <2>1, <2>4, <3>1, Zenon DEF RemoveVaultTotp
    <2>5. CASE Lock
      BY <1>1, <2>1, <2>5 DEF Lock
    <2> QED BY <2>2, <2>3, <2>4, <2>5, Zenon
  <1> QED BY <1>1, <1>2, Zenon DEF UseInv

LEMMA UseErase ==
  ASSUME KeepInv, UseInv,
         RefusedAttempt \/ ForensicWipe \/ EraseMeta \/ EraseDb \/ EraseUnlink \/ Crash
  PROVE  UseInv'
  <1> USE IdleFacts
  <1>1. CASE RefusedAttempt \/ ForensicWipe \/ Crash
    BY <1>1, UseClear DEF RefusedAttempt, ForensicWipe, Crash, StartErase, At
  <1>2. CASE EraseMeta
    <2>1. /\ meta # NoFile /\ meta \in Header /\ meta.body \in Body
          /\ UNCHANGED <<db, vmk, session, held>> /\ op'.at = "erase_db"
      BY <1>2, FieldTypes, Zenon DEF EraseMeta, At, memory, KeepInv, IndInv, StageInv, TypeOK
    <2>2. CASE meta' = WriteHeader(meta, Sanitised(meta.body), 0)
      <3>1. Sanitised(meta.body) \in Body
        BY <2>1, SanitisedFacts, Zenon
      <3>2. BodyUse(Sanitised(meta.body))
        BY <2>1 DEF BodyUse, Body, Sanitised
      <3>3. meta'.body = Sanitised(meta.body)
        BY <2>1, <2>2, <3>1, WriteHeaderFacts
      <3> QED BY <2>1, <3>2, <3>3 DEF UseInv
    <2>3. CASE meta' \in {meta, NoFile}
      BY <2>1, <2>3 DEF UseInv
    <2> QED BY <1>2, <2>2, <2>3, ZenonT(40) DEF EraseMeta
  <1>3. CASE EraseDb \/ EraseUnlink
    <2>1. /\ UNCHANGED <<vmk, session, held>> /\ op'.at \in {"idle", "erase_unlink"}
          /\ meta' \in {meta, NoFile} /\ db' \in {db, NoFile}
      BY <1>3 DEF EraseDb, EraseUnlink, At, memory
    <2> QED BY <2>1, Zenon DEF UseInv
  <1> QED BY <1>1, <1>2, <1>3, Zenon

LEMMA UseNext == KeepsKey /\ KeepInv /\ UseInv /\ [Next]_vars => UseInv'
  <1> SUFFICES ASSUME KeepsKey, KeepInv, UseInv, [Next]_vars PROVE UseInv'
    OBVIOUS
  <1>1. CASE UNCHANGED vars
    BY <1>1 DEF vars, memory, UseInv
  <1>2. ~WriteTicket /\ ~ChangePassword /\ ~ChangeHeader /\ ~ChangeLoad
    BY Zenon DEF KeepInv, KeepsKey, WriteTicket, ChangePassword, ChangeHeader,
       ChangeLoad, Authorised, Enabled, ChangeStages
  <1>3. CASE Next
    BY <1>2, <1>3, UseCreate, UseUnlock, UseCopies, UseSidecar, UseRows, UseErase DEF Next
  <1> QED BY <1>1, <1>3

LEMMA KeepUseInv == KeepsKey => (Spec => [](KeepInv /\ UseInv))
  <1> SUFFICES ASSUME KeepsKey PROVE Spec => [](KeepInv /\ UseInv)
    OBVIOUS
  <1>1. Init => KeepInv /\ UseInv
    BY KeepInit, UseInit
  <1>2. (KeepInv /\ UseInv) /\ [Next]_vars => (KeepInv /\ UseInv)'
    BY KeepNext, UseNext
  <1> QED BY <1>1, <1>2, PTL DEF Spec

(* In a vault whose VMK is not replaced or rewrapped every way in that the *)
(* sidecar offers leads in: the password passes unlock_existing, the       *)
(* passkey and recovery copies open the database, and a quick-unlock entry *)
(* of the current password unwraps the header.                             *)
THEOREM WaysInStayOpen == KeepsKey => (Spec => []WaysInOpen)
  <1> SUFFICES ASSUME KeepsKey PROVE Spec => []WaysInOpen
    BY Zenon
  <1>1. KeepInv => PasswordOpens /\ SidecarCopiesOpen
    BY Zenon DEF KeepInv, IndInv, SidecarInv, HeaderInv, PasswordOpens, SidecarCopiesOpen, Intact,
       PasswordUnlocks, Opens
  <1>2. KeepInv /\ UseInv => QuickEntriesCurrent
    <2> SUFFICES ASSUME KeepInv, UseInv, meta # NoFile, NEW e \in meta.body.quick,
                        e[1] = meta.body.pw
                 PROVE  QuickEntryOpens(e)
      BY Zenon DEF QuickEntriesCurrent, Intact
    <2>1. e \in Passwords \X Num
      BY FieldTypes, Zenon DEF KeepInv, IndInv, TypeOK
    <2>2. e[2] = meta.body.salt
      BY DEF UseInv, BodyUse
    <2> QED BY <2>1, <2>2 DEF QuickEntryOpens
  <1> QED BY <1>1, <1>2, KeepUseInv, PTL DEF WaysInOpen

(* In such a vault, whatever crashes, failed writes and unlock paths went  *)
(* before, an open session reads every item and the TOTP secret under the  *)
(* key in memory, and a client's wipe ticket is taken by ForensicWipe.     *)
THEOREM OpenVaultStaysUsable == KeepsKey => (Spec => []OpenVaultUsable)
  <1> SUFFICES ASSUME KeepsKey PROVE Spec => []OpenVaultUsable
    OBVIOUS
  <1>1. KeepInv /\ UseInv => DataReadable
    BY Zenon DEF KeepInv, IndInv, MemoryInv, UseInv, RowsUse, DataReadable
  <1>2. KeepInv /\ UseInv => HeldTicketUsable
    BY DEF KeepInv, HeaderInv, UseInv, BodyUse, HeldTicketUsable
  <1> QED BY <1>1, <1>2, KeepUseInv, PTL DEF OpenVaultUsable
=============================================================================
