---------------------------- MODULE ServerProofs ----------------------------
(***************************************************************************)
(* Proofs about the smaller stores of the web server: its counters and     *)
(* caches (StateStore), the key authority (KeyAuthority) and the life of   *)
(* its processes (ServerProcess), for every number of workers, users and   *)
(* processes, whatever limits and bounds the constants give.               *)
(***************************************************************************)
EXTENDS StateStore, KeyAuthority, ServerProcess, TLAPS

-----------------------------------------------------------------------------
(* The Argon2 gate: a count in the store carries a TTL.                    *)

Counters == [n : Int \cup {Gone}, ttl : 0..ArgonTtl]

(* GateExpires is not inductive: an in-memory counter that is counted up   *)
(* from zero keeps the TTL it has, so it must have one at zero too, and    *)
(* only Redis may ever see the floor of the decrement.                     *)
GateInv ==
    /\ StoreTypeOK
    /\ GateExpires
    /\ backend # "redis" =>
          /\ gate.n # Gone => gate.n >= 0 /\ gate.ttl # Never
          /\ \A w \in Workers : job[w] # "floor"

(* What GateInv says of the counter alone. *)
GoodCounter(g) ==
    /\ g \in Counters
    /\ g.n # Gone /\ g.n > 0 => g.ttl # Never
    /\ backend # "redis" => (g.n # Gone => g.n >= 0 /\ g.ttl # Never)

(* The invariant holds of the empty store. *)
LEMMA GateInvInit == GateInit => GateInv
  BY StoreConstants
  DEF GateInit, GateInv, StoreTypeOK, GateExpires, Missing, Never

(* Counting in keeps the TTL, or sets it when the count becomes 1. *)
LEMMA IncrementKeeps ==
    ASSUME GateInv PROVE GoodCounter(incrExpire(gate, ArgonTtl))
<1> DEFINE g == incrExpire(gate, ArgonTtl)
<1>1. CASE gate.n = Gone
  BY <1>1, StoreConstants DEF incrExpire, Never, GoodCounter, Counters
<1>2. CASE gate.n # Gone
  <2>1. gate.n \in Int /\ gate.ttl \in 0..ArgonTtl
    BY <1>2 DEF GateInv, StoreTypeOK
  <2>2. g = [n |-> gate.n + 1,
             ttl |-> IF backend = "redis" /\ gate.n + 1 = 1 THEN ArgonTtl ELSE gate.ttl]
    BY <1>2 DEF incrExpire
  <2>3. gate.n > 0 => gate.ttl # Never
    BY <1>2 DEF GateInv, GateExpires
  <2>4. backend # "redis" => gate.n >= 0 /\ gate.ttl # Never
    BY <1>2 DEF GateInv
  <2> QED
    BY <2>1, <2>2, <2>3, <2>4, StoreConstants DEF Never, GoodCounter, Counters
<1> QED
  BY <1>1, <1>2

(* Counting out keeps the TTL; the key that DECR creates is negative. *)
LEMMA DecrementKeeps ==
    ASSUME GateInv
    PROVE  GoodCounter(IF backend = "redis" THEN redisDecr(gate) ELSE decr(gate))
<1>1. gate \in Counters
  BY DEF GateInv, StoreTypeOK, Counters
<1>2. CASE gate.n = Gone
  BY <1>1, <1>2, StoreConstants
  DEF redisDecr, decr, Never, GoodCounter, Counters
<1>3. CASE gate.n # Gone
  <2>1. gate.n \in Int /\ gate.ttl \in 0..ArgonTtl
    BY <1>1, <1>3 DEF Counters
  <2>2. gate.n > 0 => gate.ttl # Never
    BY <1>3 DEF GateInv, GateExpires
  <2>3. backend # "redis" => gate.n >= 0 /\ gate.ttl # Never
    BY <1>3 DEF GateInv
  <2>4. redisDecr(gate) = [n |-> gate.n - 1, ttl |-> gate.ttl]
    BY <1>1, <1>3 DEF redisDecr, Counters
  <2>5. decr(gate) = [n |-> IF gate.n > 0 THEN gate.n - 1 ELSE 0, ttl |-> gate.ttl]
    BY <1>1, <1>3 DEF decr, Counters
  <2> QED
    BY <2>1, <2>2, <2>3, <2>4, <2>5, StoreConstants DEF Never, GoodCounter, Counters
<1> QED
  BY <1>2, <1>3

(* A counter that ages keeps its TTL or goes. *)
LEMMA AgingKeeps == ASSUME GateInv PROVE GoodCounter(Aged(gate))
<1>1. gate \in Counters
  BY DEF GateInv, StoreTypeOK, Counters
<1>2. CASE gate.n = Gone \/ gate.ttl = Never
  BY <1>1, <1>2 DEF Aged, GoodCounter, GateInv, GateExpires
<1>3. CASE gate.n # Gone /\ gate.ttl # Never
  <2>1. gate.n \in Int /\ gate.ttl \in 1..ArgonTtl
    BY <1>1, <1>3 DEF Counters, Never
  <2>2. CASE gate.ttl = 1
    BY <1>3, <2>2, StoreConstants DEF Aged, Missing, GoodCounter, Counters, Never
  <2>3. CASE gate.ttl # 1
    <3>1. Aged(gate) = [n |-> gate.n, ttl |-> gate.ttl - 1]
      BY <1>1, <1>3, <2>3 DEF Aged, Counters
    <3>2. backend # "redis" => gate.n >= 0
      BY <1>3 DEF GateInv
    <3> QED
      BY <3>1, <3>2, <2>1, <2>3, StoreConstants DEF GoodCounter, Counters, Never
  <2> QED
    BY <2>2, <2>3
<1> QED
  BY <1>2, <1>3

(* Every step keeps the invariant. *)
LEMMA GateInvNext == GateInv /\ [GateNext]_<<gateVars, rateVars>> => GateInv'
<1> SUFFICES ASSUME GateInv, [GateNext]_<<gateVars, rateVars>> PROVE GateInv'
  OBVIOUS
<1>0. job \in [Workers -> {"idle", "refused", "hashing", "floor"}]
  BY DEF GateInv, StoreTypeOK
<1>1. SUFFICES /\ GoodCounter(gate') /\ backend' = backend
               /\ job' \in [Workers -> {"idle", "refused", "hashing", "floor"}]
               /\ backend # "redis" => \A w \in Workers : job'[w] # "floor"
  BY DEF GateInv, StoreTypeOK, GateExpires, GoodCounter, Counters
<1>2. ASSUME NEW w \in Workers, GateEnter(w) PROVE <1>1!1
  BY <1>0, <1>2, IncrementKeeps DEF GateEnter, GateInv
<1>3. ASSUME NEW w \in Workers, GateLeave(w) PROVE <1>1!1
  <2>1. GoodCounter(gate') /\ backend' = backend
    BY <1>3, DecrementKeeps DEF GateLeave
  <2>2. backend # "redis" => ~(gate'.n # Gone /\ gate'.n < 0)
    BY <2>1 DEF GoodCounter, Counters
  <2> QED
    BY <1>0, <1>3, <2>1, <2>2 DEF GateLeave, GateInv
<1>4. ASSUME NEW w \in Workers, GateFloor(w) PROVE <1>1!1
  BY <1>0, <1>4, StoreConstants DEF GateFloor, GateInv, GoodCounter, Counters, Never
<1>5. ASSUME NEW w \in Workers, GateCrash(w) PROVE <1>1!1
  <2>1. CASE backend = "redis"
    BY <1>0, <1>5, <2>1
    DEF GateCrash, GateInv, StoreTypeOK, GateExpires, GoodCounter, Counters
  <2>2. CASE backend # "redis"
    BY <1>0, <1>5, <2>2, StoreConstants DEF GateCrash, GoodCounter, Counters, Missing, Never
  <2> QED
    BY <2>1, <2>2
<1>6. CASE GateTick
  BY <1>0, <1>6, AgingKeeps DEF GateTick, GateInv
<1>7. CASE UNCHANGED <<gateVars, rateVars>>
  BY <1>0, <1>7 DEF gateVars, GateInv, StoreTypeOK, GateExpires, GoodCounter, Counters
<1> QED
  BY <1>2, <1>3, <1>4, <1>5, <1>6, <1>7 DEF GateNext

(* No count is left in the store that nothing would ever remove. *)
THEOREM GateAlwaysExpires == GateSpec => []GateExpires
<1>1. GateInv => GateExpires
  BY DEF GateInv
<1> QED
  BY <1>1, GateInvInit, GateInvNext, PTL DEF GateSpec

-----------------------------------------------------------------------------
(* The cache of data keys and the codes of the e-mail setup.               *)

(* A buffer is zeroed only while it is cached, or was before: none that is *)
(* still to come is among the zeroed ones.                                 *)
DekInv ==
    /\ drawnBufs \in Nat /\ cache \in 0..drawnBufs
    /\ zeroed \subseteq 1..drawnBufs
    /\ cache \notin zeroed

Entries ==
    [code : 0..CodeMax, email : Emails, attempts : Nat, sends : Nat,
     tooSoon : BOOLEAN, expired : BOOLEAN, windowOver : BOOLEAN]

CodeHistories ==
    [drawn : 0..CodeMax, sent : [1..CodeMax -> SUBSET Emails],
     wrong : [1..CodeMax -> 0..AttemptMax], proved : SUBSET ((1..CodeMax) \X Emails)]

(* The entry of the user is the code drawn last, if there is one: it went  *)
(* to the entry's address alone, and was guessed at as often as the entry  *)
(* says.                                                                   *)
EntryTrue(e, h) ==
    e.code # 0 =>
        /\ e.code <= h.drawn
        /\ h.sent[e.code] = {e.email}
        /\ h.wrong[e.code] = e.attempts /\ e.attempts < AttemptMax

(* Codes that are still to come are untouched, and those that proved an    *)
(* address went to it alone.                                               *)
CodesTrue(h) ==
    /\ \A c \in 1..CodeMax : c > h.drawn => h.wrong[c] = 0
    /\ \A pr \in h.proved : pr[1] <= h.drawn /\ h.sent[pr[1]] = {pr[2]}

OtpInv ==
    /\ entry \in Entries /\ chist \in CodeHistories
    /\ EntryTrue(entry, chist) /\ CodesTrue(chist)

(* Every step of the cache keeps DekInv. *)
LEMMA DekInvNext == DekInv /\ [DekNext]_dekVars => DekInv'
<1> SUFFICES ASSUME DekInv, [DekNext]_dekVars PROVE DekInv'
  OBVIOUS
<1> USE CacheConstants
<1>1. CASE DekMiss
  BY <1>1 DEF DekMiss, DekInv
<1>2. CASE DekUnwrapped
  BY <1>2 DEF DekUnwrapped, DekInv
<1>3. CASE KmsFails
  BY <1>3 DEF KmsFails, DekInv
<1>4. CASE DekExpire
  <2>1. drawnBufs' = drawnBufs
    BY <1>4 DEF DekExpire, DekExpires
  <2>2. \/ cache # 0 /\ zeroed' = zeroed \cup {cache} /\ cache' = 0
        \/ UNCHANGED <<zeroed, cache>>
    BY <1>4 DEF DekExpire, DekExpires
  <2>3. 0 \notin zeroed /\ (cache # 0 => cache \in 1..drawnBufs)
    BY DEF DekInv
  <2>4. CASE cache # 0 /\ zeroed' = zeroed \cup {cache} /\ cache' = 0
    BY <2>1, <2>3, <2>4 DEF DekInv
  <2>5. CASE UNCHANGED <<zeroed, cache>>
    BY <2>1, <2>5 DEF DekInv
  <2> QED
    BY <2>2, <2>4, <2>5
<1>5. CASE UNCHANGED dekVars
  BY <1>5 DEF dekVars, DekInv
<1> QED
  BY <1>1, <1>2, <1>3, <1>4, <1>5 DEF DekNext

(* No entry has the type of an entry, and no code. *)
LEMMA NoEntryType == NoEntry \in Entries /\ NoEntry.code = 0
  BY CacheConstants DEF NoEntry, Entries

(* Without an entry there is nothing to show of it. *)
LEMMA NoEntryTrue == ASSUME NEW h PROVE EntryTrue(NoEntry, h)
  BY NoEntryType DEF EntryTrue

(* A new code goes to one address and was not guessed at. *)
LEMMA SendKeeps ==
    ASSUME OtpInv, NEW to \in Emails, sendSetupOtp(to) PROVE OtpInv'
<1> USE CacheConstants
<1> DEFINE k == chist.drawn + 1
           sent == [chist.sent EXCEPT ![k] = {to}]
<1>1. /\ entry \in Entries /\ chist \in CodeHistories /\ CodesTrue(chist)
      /\ chist.drawn \in 0..CodeMax /\ k \in 1..CodeMax
  BY DEF OtpInv, sendSetupOtp, CodeHistories
<1>2. chist' = [drawn |-> k, sent |-> sent, wrong |-> chist.wrong, proved |-> chist.proved]
  BY <1>1, Zenon DEF sendSetupOtp, CodeHistories
<1>3. sent \in [1..CodeMax -> SUBSET Emails] /\ sent[k] = {to}
      /\ \A c \in 1..CodeMax : c # k => sent[c] = chist.sent[c]
  BY <1>1 DEF CodeHistories
<1>4. /\ chist.wrong \in [1..CodeMax -> 0..AttemptMax] /\ chist.wrong[k] = 0
      /\ chist.proved \in SUBSET ((1..CodeMax) \X Emails)
  BY <1>1 DEF CodeHistories, CodesTrue
<1>5. chist' \in CodeHistories
  BY <1>1, <1>2, <1>3, <1>4 DEF CodeHistories
<1>6. Counted(entry) + 1 \in Nat
  BY <1>1 DEF Counted, Entries
<1>7. entry' = [code |-> k, email |-> to, attempts |-> 0, sends |-> Counted(entry) + 1,
                tooSoon |-> TRUE, expired |-> FALSE, windowOver |-> FALSE]
  BY DEF sendSetupOtp
<1>8. entry' \in Entries
  BY <1>1, <1>6, <1>7 DEF Entries
<1>9. EntryTrue(entry', chist')
  BY <1>1, <1>2, <1>3, <1>4, <1>7 DEF EntryTrue
<1>10. CodesTrue(chist')
  <2>1. \A c \in 1..CodeMax : c > chist'.drawn => chist'.wrong[c] = 0
    BY <1>1, <1>2 DEF CodesTrue
  <2>2. ASSUME NEW pr \in chist'.proved PROVE pr[1] <= chist'.drawn /\ chist'.sent[pr[1]] = {pr[2]}
    <3>1. pr \in chist.proved /\ pr[1] \in 1..CodeMax
      BY <1>2, <1>4
    <3>2. pr[1] <= chist.drawn /\ chist.sent[pr[1]] = {pr[2]}
      BY <1>1, <3>1 DEF CodesTrue
    <3> QED
      BY <1>1, <1>2, <1>3, <3>1, <3>2
  <2> QED
    BY <2>1, <2>2 DEF CodesTrue
<1> QED
  BY <1>5, <1>8, <1>9, <1>10 DEF OtpInv

(* A wrong guess is counted in the entry, or ends it. *)
LEMMA MismatchKeeps ==
    ASSUME OtpInv, entry.code # 0, Mismatch,
           chist' = [chist EXCEPT !.wrong[entry.code] = @ + 1]
    PROVE  OtpInv'
<1> USE CacheConstants
<1> DEFINE k == entry.code
           wrong == [chist.wrong EXCEPT ![k] = @ + 1]
<1>1. /\ entry \in Entries /\ chist \in CodeHistories /\ CodesTrue(chist)
      /\ k \in 1..CodeMax /\ k <= chist.drawn /\ chist.drawn \in 0..CodeMax
      /\ entry.attempts \in Nat /\ entry.attempts < AttemptMax
      /\ chist.wrong[k] = entry.attempts /\ chist.sent[k] = {entry.email}
  BY DEF OtpInv, EntryTrue, CodeHistories, Entries
<1>2. chist' = [drawn |-> chist.drawn, sent |-> chist.sent, wrong |-> wrong, proved |-> chist.proved]
  BY <1>1, Zenon DEF CodeHistories
<1>3. wrong \in [1..CodeMax -> 0..AttemptMax] /\ wrong[k] = entry.attempts + 1
      /\ \A c \in 1..CodeMax : c # k => wrong[c] = chist.wrong[c]
  BY <1>1 DEF CodeHistories
<1>4. chist' \in CodeHistories
  BY <1>1, <1>2, <1>3, Zenon DEF CodeHistories
<1>5. CodesTrue(chist')
  <2>1. ASSUME NEW c \in 1..CodeMax, c > chist'.drawn PROVE chist'.wrong[c] = 0
    BY <1>1, <1>2, <1>3, <2>1 DEF CodesTrue
  <2>2. chist'.drawn = chist.drawn /\ chist'.sent = chist.sent /\ chist'.proved = chist.proved
    BY <1>2
  <2> QED
    BY <1>1, <2>1, <2>2, Zenon DEF CodesTrue
<1>6. CASE entry' = NoEntry
  BY <1>4, <1>5, <1>6, NoEntryType, NoEntryTrue DEF OtpInv
<1>7. CASE entry.attempts + 1 < AttemptMax /\ entry' = [entry EXCEPT !.attempts = @ + 1]
  <2>1. entry' \in Entries /\ entry'.code = k /\ entry'.email = entry.email
        /\ entry'.attempts = entry.attempts + 1
    BY <1>1, <1>7 DEF Entries
  <2>2. EntryTrue(entry', chist')
    BY <1>1, <1>2, <1>3, <1>7, <2>1 DEF EntryTrue
  <2> QED
    BY <1>4, <1>5, <2>1, <2>2 DEF OtpInv
<1> QED
  BY <1>1, <1>6, <1>7 DEF Mismatch

(* The right code proves the address of the entry, which then goes. *)
LEMMA MatchKeeps ==
    ASSUME OtpInv, entry.code # 0, entry' = NoEntry,
           chist' = [chist EXCEPT !.proved = @ \cup {<<entry.code, entry.email>>}]
    PROVE  OtpInv'
<1>1. /\ entry \in Entries /\ chist \in CodeHistories /\ CodesTrue(chist)
      /\ entry.code \in 1..CodeMax /\ entry.code <= chist.drawn /\ entry.email \in Emails
      /\ chist.sent[entry.code] = {entry.email}
  BY CacheConstants DEF OtpInv, EntryTrue, CodeHistories, Entries
<1>2. chist' = [drawn |-> chist.drawn, sent |-> chist.sent, wrong |-> chist.wrong,
                proved |-> chist.proved \cup {<<entry.code, entry.email>>}]
  BY <1>1, Zenon DEF CodeHistories
<1>3. chist' \in CodeHistories
  BY <1>1, <1>2 DEF CodeHistories
<1>4. CodesTrue(chist')
  BY <1>1, <1>2 DEF CodesTrue
<1> QED
  BY <1>3, <1>4, NoEntryType, NoEntryTrue DEF OtpInv

(* Every step of sending and checking codes keeps OtpInv. *)
LEMMA OtpInvNext == OtpInv /\ [OtpNext]_otpVars => OtpInv'
<1> SUFFICES ASSUME OtpInv, [OtpNext]_otpVars PROVE OtpInv'
  OBVIOUS
<1>1. ASSUME NEW to \in Emails, sendSetupOtp(to) PROVE OtpInv'
  BY <1>1, SendKeeps
<1>2. ASSUME NEW c \in 0..CodeMax, verifySetupOtp(c) PROVE OtpInv'
  <2>1. CASE entry' = NoEntry /\ UNCHANGED chist
    BY <2>1, NoEntryType, NoEntryTrue, Zenon DEF OtpInv
  <2> QED
    BY <1>2, <2>1, MismatchKeeps, MatchKeeps, Zenon DEF verifySetupOtp
<1>3. CASE OtpTick
  <2>1. entry' \in Entries /\ entry'.code = entry.code /\ entry'.email = entry.email
        /\ entry'.attempts = entry.attempts
    BY <1>3, Zenon DEF OtpTick, OtpInv, Entries
  <2> QED
    BY <1>3, <2>1, Zenon DEF OtpTick, OtpInv, EntryTrue
<1>4. CASE UNCHANGED otpVars
  BY <1>4, Zenon DEF otpVars, OtpInv
<1> QED
  BY <1>1, <1>2, <1>3, <1>4 DEF OtpNext

(* A cached data key is never one that was zeroed; an address is proved    *)
(* only by the code last sent, and to it alone; and no code is guessed at  *)
(* more often than AttemptMax.                                             *)
THEOREM CachesAlwaysSafe == CachesSpec => []CachesSafe
<1>1. DekInit /\ OtpInit => DekInv /\ OtpInv
  BY NoEntryType, CacheConstants DEF DekInit, OtpInit, DekInv, OtpInv, EntryTrue, CodesTrue, CodeHistories
<1>2. DekInv /\ OtpInv /\ [(DekNext /\ UNCHANGED otpVars) \/ (OtpNext /\ UNCHANGED dekVars)]_<<dekVars, otpVars>>
      => DekInv' /\ OtpInv'
  BY DekInvNext, OtpInvNext
<1>3. DekInv /\ OtpInv => CachesSafe
  BY CacheConstants DEF DekInv, OtpInv, CodesTrue, CodeHistories, CachesSafe, CachedKeyLive, AddressProved, GuessesBounded
<1> QED
  BY <1>1, <1>2, <1>3, PTL DEF CachesSpec

-----------------------------------------------------------------------------
(* The key authority: rows open in every process.                          *)

KmsTypeOK ==
    /\ keyFile \in [size : {"none", "torn", "raw", "wrapped"}, key : Nat,
                    phrase : Phrases \cup {NoPhrase}, private : BOOLEAN, own : BOOLEAN]
    /\ keysDrawn \in Nat
    /\ script \in [KeyScripts -> [at : {"start", "asks", "exit"}, saw : BOOLEAN]]
    /\ kmsProc \in [KmsProcs -> [up : BOOLEAN, key : Nat]]
    /\ dekRow \in [KmsUsers -> [key : Nat, version : Nat, keyId : Nat]]
    /\ kmsHist \in BOOLEAN

(* A run of the script that asks for a passphrase saw no key file. *)
AskersSawNone ==
    \A s \in KeyScripts : script[s].at = "asks" => kmsKind = "selfhost" /\ ~script[s].saw

(* Every process that runs holds k, and every row is wrapped under it. *)
AllUnder(k) ==
    /\ \A n \in KmsProcs : kmsProc[n].up => kmsProc[n].key = k
    /\ \A u \in KmsUsers : dekRow[u] # NoDek => dekRow[u].key = k

NothingWrapped ==
    /\ \A n \in KmsProcs : ~kmsProc[n].up
    /\ \A u \in KmsUsers : dekRow[u] = NoDek

(* RowsOpen is not inductive: what a process opens depends on the key it   *)
(* loaded earlier, so keys and rows are tied to the present key file, and  *)
(* nothing runs or is wrapped before there is one.  A run of the script    *)
(* can break the tie only over a file it had not seen, which kmsHist       *)
(* remembers.                                                              *)
KmsInv ==
    /\ KmsTypeOK
    /\ AskersSawNone
    /\ kmsKind = "vault" => \A u \in KmsUsers : dekRow[u].version <= keysDrawn
    /\ kmsKind \notin {"vault", "selfhost"} => AllUnder(1)
    /\ kmsKind = "selfhost" /\ ~kmsHist =>
          AllUnder(keyFile.key) /\ (keyFile.size = "none" => NothingWrapped)

(* The invariant holds of a deployment that has not started. *)
LEMMA KmsInvInit == KmsInit => KmsInv
<1> SUFFICES ASSUME KmsInit PROVE KmsInv
  OBVIOUS
<1>1. KmsTypeOK
  BY Zenon DEF KmsInit, KmsTypeOK, NoKeyFile, KmsDown, NoDek
<1>2. AskersSawNone
  BY DEF KmsInit, AskersSawNone
<1>3. NothingWrapped
  BY DEF KmsInit, NothingWrapped, KmsDown
<1>4. \A u \in KmsUsers : dekRow[u].version <= keysDrawn
  BY <1>1, <1>3 DEF KmsTypeOK, NothingWrapped, NoDek
<1>5. AllUnder(1) /\ AllUnder(keyFile.key)
  BY <1>3, Zenon DEF NothingWrapped, AllUnder
<1> QED
  BY <1>1, <1>2, <1>3, <1>4, <1>5, Zenon DEF KmsInv

(* A process that starts holds the one key of Vault or the environment, or *)
(* the key of the file, which is there.                                    *)
LEMMA ProviderKey ==
    ASSUME NEW configured \in BOOLEAN, NEW p, NEW k \in createKmsProvider(configured, p)
    PROVE  /\ kmsKind \in {"vault", "local"} => k = 1
           /\ kmsKind = "selfhost" => k = keyFile.key /\ keyFile.size # "none"
           /\ kmsKind \in {"vault", "local", "selfhost"}
  BY DEF createKmsProvider, loadSelfHostMasterKey, _unwrapMasterKeyWithPassphrase

(* The script keeps the invariant: it finds no file, so nothing is wrapped *)
(* yet, or it replaces one and kmsHist says so.                            *)
LEMMA ScriptKeeps ==
    ASSUME KmsInv, NEW s \in KeyScripts, NEW p \in Phrases \cup {NoPhrase}, NEW whole \in BOOLEAN,
           ScriptLooks(s) \/ ScriptGivesUp(s) \/ generateSelfHostMasterKeyFile(s, p, whole)
    PROVE  KmsInv'
<1>1. KmsTypeOK /\ AskersSawNone
  BY DEF KmsInv
<1>2. CASE ScriptLooks(s)
  <2>1. KmsTypeOK'
    BY <1>1, <1>2 DEF KmsTypeOK, ScriptLooks
  <2>2. AskersSawNone'
    BY <1>1, <1>2, Zenon DEF KmsTypeOK, AskersSawNone, ScriptLooks, MayGenerate
  <2> QED
    BY <1>2, <2>1, <2>2, Zenon DEF ScriptLooks, KmsInv, AllUnder, NothingWrapped
<1>3. CASE ScriptGivesUp(s)
  <2>1. KmsTypeOK'
    BY <1>1, <1>3 DEF KmsTypeOK, ScriptGivesUp
  <2>2. AskersSawNone'
    BY <1>1, <1>3 DEF KmsTypeOK, AskersSawNone, ScriptGivesUp
  <2> QED
    BY <1>3, <2>1, <2>2, Zenon DEF ScriptGivesUp, KmsInv, AllUnder, NothingWrapped
<1>4. CASE generateSelfHostMasterKeyFile(s, p, whole)
  <2>1. kmsKind = "selfhost" /\ ~script[s].saw
    BY <1>1, <1>4 DEF AskersSawNone, generateSelfHostMasterKeyFile
  <2>2. KmsTypeOK'
    BY <1>1, <1>4 DEF KmsTypeOK, generateSelfHostMasterKeyFile
  <2>3. AskersSawNone'
    BY <1>1, <1>4 DEF KmsTypeOK, AskersSawNone, generateSelfHostMasterKeyFile
  <2>4. UNCHANGED <<kmsKind, kmsProc, dekRow>>
    BY <1>4 DEF generateSelfHostMasterKeyFile
  <2>5. ~kmsHist' => ~kmsHist /\ keyFile.size = "none"
    BY <1>4, <2>1, Zenon DEF generateSelfHostMasterKeyFile
  <2>6. ~kmsHist' => NothingWrapped
    BY <2>1, <2>5, Zenon DEF KmsInv
  <2>7. ~kmsHist' => NothingWrapped' /\ AllUnder(keyFile.key)'
    BY <2>4, <2>6, Zenon DEF NothingWrapped, AllUnder
  <2> QED
    BY <2>1, <2>2, <2>3, <2>4, <2>7 DEF KmsInv
<1> QED
  BY <1>2, <1>3, <1>4

(* A process that starts joins the key of the others. *)
LEMMA StartKeeps ==
    ASSUME KmsInv, NEW n \in KmsProcs, NEW configured \in BOOLEAN, NEW p, KmsStarts(n, configured, p)
    PROVE  KmsInv'
<1>1. PICK k \in createKmsProvider(configured, p) :
         kmsProc' = [kmsProc EXCEPT ![n] = [up |-> TRUE, key |-> k]]
  BY Zenon DEF KmsStarts
<1>2. UNCHANGED <<kmsKind, keyFile, keysDrawn, script, dekRow, kmsHist>>
  BY DEF KmsStarts
<1>3. KmsTypeOK /\ AskersSawNone
  BY DEF KmsInv
<1>4. k \in Nat
  BY <1>3, ProviderKey DEF KmsTypeOK
<1>5. KmsTypeOK'
  BY <1>1, <1>2, <1>3, <1>4 DEF KmsTypeOK
<1>6. kmsProc'[n] = [up |-> TRUE, key |-> k]
      /\ \A m \in KmsProcs \ {n} : kmsProc'[m] = kmsProc[m]
  BY <1>1, <1>3 DEF KmsTypeOK
<1>7. \A j : AllUnder(j) /\ k = j => AllUnder(j)'
  BY <1>2, <1>6 DEF AllUnder
<1>8. kmsKind \notin {"vault", "selfhost"} => AllUnder(1)'
  BY <1>7, ProviderKey DEF KmsInv
<1>9. kmsKind = "selfhost" /\ ~kmsHist =>
         AllUnder(keyFile.key)' /\ keyFile.size # "none"
  <2>1. SUFFICES ASSUME kmsKind = "selfhost", ~kmsHist
                 PROVE  AllUnder(keyFile.key)' /\ keyFile.size # "none"
    OBVIOUS
  <2>2. AllUnder(keyFile.key) /\ k = keyFile.key /\ keyFile.size # "none"
    BY <2>1, ProviderKey, Zenon DEF KmsInv
  <2>3. keyFile' = keyFile
    BY <1>2
  <2> QED
    BY <2>2, <2>3, <1>2, <1>6 DEF AllUnder
<1>10. AskersSawNone'
  BY <1>2, <1>3 DEF AskersSawNone
<1>11. kmsKind = "vault" => \A u \in KmsUsers : dekRow'[u].version <= keysDrawn'
  BY <1>2 DEF KmsInv
<1> QED
  BY <1>2, <1>5, <1>8, <1>9, <1>10, <1>11, Zenon DEF KmsInv

(* A row is wrapped under the key its process holds. *)
LEMMA WrapKeeps ==
    ASSUME KmsInv, NEW n \in KmsProcs, NEW u \in KmsUsers, newUserDek(n, u)
    PROVE  KmsInv'
<1>1. /\ dekRow' = [dekRow EXCEPT ![u] = wrapDek(n)] /\ kmsProc[n].up
      /\ UNCHANGED <<kmsKind, keyFile, keysDrawn, script, kmsProc, kmsHist>>
  BY DEF newUserDek
<1>2. KmsTypeOK /\ AskersSawNone
  BY DEF KmsInv
<1>3. wrapDek(n) \in [key : Nat, version : Nat, keyId : Nat]
  BY <1>2 DEF wrapDek, TransitWrap, KmsTypeOK
<1>4. KmsTypeOK'
  BY <1>1, <1>2, <1>3 DEF KmsTypeOK
<1>5. dekRow'[u] = wrapDek(n) /\ \A v \in KmsUsers \ {u} : dekRow'[v] = dekRow[v]
  BY <1>1, <1>2 DEF KmsTypeOK
<1>6. kmsKind # "vault" => wrapDek(n).key = kmsProc[n].key
  BY DEF wrapDek
<1>7. \A j : kmsKind # "vault" /\ AllUnder(j) => AllUnder(j)'
  BY <1>1, <1>5, <1>6 DEF AllUnder
<1>8. kmsKind = "vault" => \A v \in KmsUsers : dekRow'[v].version <= keysDrawn
  <2>1. SUFFICES ASSUME kmsKind = "vault", NEW v \in KmsUsers PROVE dekRow'[v].version <= keysDrawn
    OBVIOUS
  <2>2. wrapDek(n).version = keysDrawn /\ keysDrawn \in Nat
    BY <1>2, <2>1 DEF wrapDek, TransitWrap, KmsTypeOK
  <2>3. dekRow[v].version <= keysDrawn
    BY <2>1 DEF KmsInv
  <2> QED
    BY <1>5, <2>2, <2>3
<1>9. AskersSawNone'
  BY <1>1, <1>2 DEF AskersSawNone
<1>10. kmsKind = "selfhost" /\ ~kmsHist => AllUnder(keyFile.key)' /\ keyFile.size # "none"
  <2>1. SUFFICES ASSUME kmsKind = "selfhost", ~kmsHist
                 PROVE  AllUnder(keyFile.key)' /\ keyFile.size # "none"
    OBVIOUS
  <2>2. AllUnder(keyFile.key) /\ keyFile.size # "none"
    BY <1>1, <2>1 DEF KmsInv, NothingWrapped
  <2>3. kmsKind # "vault"
    BY <2>1
  <2> QED
    BY <2>2, <2>3, <1>1, <1>5, <1>6 DEF AllUnder
<1> QED
  BY <1>1, <1>4, <1>7, <1>8, <1>9, <1>10 DEF KmsInv

(* Every step keeps the invariant. *)
LEMMA KmsInvNext == KmsInv /\ [KmsNext]_kmsVars => KmsInv'
<1> SUFFICES ASSUME KmsInv, [KmsNext]_kmsVars PROVE KmsInv'
  OBVIOUS
<1>1. KmsTypeOK /\ AskersSawNone
  BY DEF KmsInv
<1>2. ASSUME NEW private \in BOOLEAN, NEW own \in BOOLEAN, AdminTouches(private, own) PROVE KmsInv'
  <2>1. KmsTypeOK' /\ keyFile'.key = keyFile.key /\ keyFile'.size = keyFile.size
    BY <1>1, <1>2, Zenon DEF KmsTypeOK, AdminTouches
  <2> QED
    BY <1>2, <2>1, Zenon DEF AdminTouches, KmsInv, AskersSawNone, AllUnder, NothingWrapped
<1>3. ASSUME NEW n \in KmsProcs, KmsStops(n) PROVE KmsInv'
  <2>1. KmsTypeOK'
    BY <1>1, <1>3 DEF KmsTypeOK, KmsStops, KmsDown
  <2>2. ~kmsProc'[n].up /\ \A m \in KmsProcs \ {n} : kmsProc'[m] = kmsProc[m]
    BY <1>1, <1>3 DEF KmsTypeOK, KmsStops, KmsDown
  <2>3. UNCHANGED <<kmsKind, keyFile, keysDrawn, script, dekRow, kmsHist>>
    BY <1>3 DEF KmsStops
  <2>4. AllUnder(1) => AllUnder(1)'
    BY <2>2, <2>3, Zenon DEF AllUnder
  <2>5. AllUnder(keyFile.key) => AllUnder(keyFile.key)'
    BY <2>2, <2>3, Zenon DEF AllUnder
  <2>6. NothingWrapped => NothingWrapped'
    BY <2>2, <2>3, Zenon DEF NothingWrapped
  <2> QED
    BY <2>1, <2>3, <2>4, <2>5, <2>6, Zenon DEF KmsInv, AskersSawNone
<1>4. CASE VaultRotates
  <2>1. KmsTypeOK' /\ kmsKind = "vault" /\ kmsKind' = kmsKind
    BY <1>1, <1>4 DEF KmsTypeOK, VaultRotates
  <2>2. \A u \in KmsUsers : dekRow'[u].version <= keysDrawn'
    BY <1>1, <1>4, <2>1 DEF KmsTypeOK, VaultRotates, KmsInv
  <2>3. AskersSawNone'
    BY <1>1, <1>4, Zenon DEF VaultRotates, AskersSawNone
  <2> QED
    BY <2>1, <2>2, <2>3 DEF KmsInv
<1>5. CASE UNCHANGED kmsVars
  BY <1>5, Zenon DEF kmsVars, KmsInv, KmsTypeOK, AskersSawNone, AllUnder, NothingWrapped
<1> QED
  BY <1>2, <1>3, <1>4, <1>5, ScriptKeeps, StartKeeps, WrapKeeps, Zenon DEF KmsNext

(* A process that started opens every row any process wrapped, for every   *)
(* number of processes, users, restarts, rotations and provisioning runs,  *)
(* unless a run of the script replaced a key file it had not seen.         *)
THEOREM RowsAlwaysOpen == KmsSpec => []RowsOpen
<1>1. KmsInv => RowsOpen
  <2>1. SUFFICES ASSUME KmsInv, NEW n \in KmsProcs, NEW u \in KmsUsers,
                        kmsProc[n].up, dekRow[u] # NoDek, ~kmsHist
                 PROVE  unwrapDek(n, dekRow[u])
    BY DEF RowsOpen
  <2>2. CASE kmsKind = "vault"
    BY <2>1, <2>2 DEF KmsInv, unwrapDek, TransitOpens
  <2>3. CASE kmsKind # "vault"
    <3>1. PICK k : AllUnder(k)
      BY <2>1, <2>3 DEF KmsInv
    <3> QED
      BY <2>1, <2>3, <3>1 DEF AllUnder, unwrapDek
  <2> QED
    BY <2>2, <2>3
<1> QED
  BY <1>1, KmsInvInit, KmsInvNext, PTL DEF KmsSpec

-----------------------------------------------------------------------------
(* The life of the processes: one key, one setup, no answer cut short.     *)

Stages == {"down", "look", "create", "fill", "users", "up", "closing"}

ProcessHistories ==
    [drawn : Nat, held : SUBSET Nat, spent : SUBSET Nat, reused : BOOLEAN,
     completed : Nat, exit : [code : {0, 1}, busy : SUBSET Listeners]]

ProcessTypeOK ==
    /\ stage \in [Instances -> Stages]
    /\ masterFile \in Instances \cup {NoKey, EmptyFile}
    /\ usersKey \in Instances \cup {NoKey}
    /\ master \in [Instances -> Instances \cup {NoKey}]
    /\ sentinel \in BOOLEAN
    /\ token \in [Instances -> Nat]
    /\ setup \in [Instances -> [at : {"none", "complete", "command"}, token : Nat]]
    /\ busy \in [Instances -> SUBSET Listeners]
    /\ phist \in ProcessHistories

(* OneMasterKey is not inductive: a process has its key before it serves.  *)
(* Whoever fills the key file is alone, and has nothing else beside it: no *)
(* process holds a key yet and there is no users file.                     *)
KeyInv ==
    /\ \A p \in Instances :
          /\ stage[p] = "fill" =>
                masterFile = EmptyFile /\ \A q \in Instances : stage[q] = "fill" => q = p
          /\ stage[p] \in {"users", "up", "closing"} =>
                masterFile \in Instances /\ master[p] = masterFile
          /\ stage[p] \in {"up", "closing"} => usersKey = masterFile
    /\ usersKey # NoKey => usersKey = masterFile

(* A step that leaves the files alone, and in which a process gets no      *)
(* further than reading the key that is on the disk.                       *)
KeyQuiet ==
    /\ UNCHANGED <<masterFile, usersKey>>
    /\ \A q \in Instances :
          \/ stage'[q] = stage[q] /\ master'[q] = master[q]
          \/ stage'[q] \in {"down", "look", "create"}
          \/ stage'[q] = "users" /\ masterFile \in Instances /\ master'[q] = masterFile
          \/ stage[q] = "up" /\ stage'[q] = "closing" /\ master'[q] = master[q]

(* The steps that are not quiet create the key file, fill it, or make the  *)
(* users file.                                                             *)
LEMMA KeySteps ==
    ASSUME ProcessTypeOK, NEW p \in Instances, ProcessStep(p)
    PROVE  \/ KeyQuiet
           \/ KeyCreate(p) /\ masterFile = NoKey
           \/ KeyFill(p)
           \/ UsersFile(p)
<1>0. stage \in [Instances -> Stages] /\ master \in [Instances -> Instances \cup {NoKey}]
      /\ masterFile \in Instances \cup {NoKey, EmptyFile}
  BY DEF ProcessTypeOK
<1>1. ASSUME Die(p), UNCHANGED <<masterFile, usersKey>> PROVE KeyQuiet
  BY <1>0, <1>1 DEF Die, KeyQuiet
<1>2. ASSUME UNCHANGED <<stage, bootVars>> PROVE KeyQuiet
  BY <1>2, Zenon DEF KeyQuiet, bootVars
<1>3. CASE StartServer(p)
  BY <1>0, <1>3 DEF StartServer, KeyQuiet, bootVars
<1>4. CASE KeyLook(p)
  BY <1>0, <1>1, <1>4 DEF KeyLook, KeyQuiet
<1>5. CASE KeyCreate(p)
  BY <1>1, <1>5, Zenon DEF KeyCreate
<1>6. CASE gracefulShutdown(p)
  BY <1>0, <1>6 DEF gracefulShutdown, KeyQuiet, bootVars
<1>7. CASE CleanExit(p) \/ DrainTimeout(p) \/ Kill(p)
  BY <1>1, <1>7, Zenon DEF CleanExit, DrainTimeout, Exit, Kill
<1>8. CASE SetupToken(p) \/ SentinelWrite(p) \/ ProCommandEnds(p)
  BY <1>2, <1>8, Zenon DEF SetupToken, SentinelWrite, ProCommandEnds
<1>9. CASE \E t \in 1..BootMax : SetupComplete(p, t) \/ ProCommand(p, t)
  BY <1>2, <1>9, Zenon DEF SetupComplete, ProCommand, Presented
<1>10. CASE \E l \in Listeners : Accept(p, l) \/ Respond(p, l)
  BY <1>2, <1>10, Zenon DEF Accept, Respond
<1> QED
  BY <1>3, <1>4, <1>5, <1>6, <1>7, <1>8, <1>9, <1>10, Zenon DEF ProcessStep

(* A quiet step keeps the invariant of the keys. *)
LEMMA KeyQuietKeeps == ASSUME KeyInv, KeyQuiet PROVE KeyInv'
<1>1. masterFile' = masterFile /\ usersKey' = usersKey
  BY DEF KeyQuiet
<1>2. ASSUME NEW p \in Instances, stage'[p] = "fill"
      PROVE  stage[p] = "fill"
  BY <1>2 DEF KeyQuiet
<1>3. ASSUME NEW p \in Instances, stage'[p] \in {"users", "up", "closing"}
      PROVE  masterFile \in Instances /\ master'[p] = masterFile
  BY <1>3 DEF KeyQuiet, KeyInv
<1>4. ASSUME NEW p \in Instances, stage'[p] \in {"up", "closing"} PROVE usersKey = masterFile
  BY <1>4 DEF KeyQuiet, KeyInv
<1> QED
  BY <1>1, <1>2, <1>3, <1>4, Zenon DEF KeyInv

(* Creating the file: nobody holds a key, and nobody else is filling it. *)
LEMMA KeyCreateKeeps ==
    ASSUME ProcessTypeOK, KeyInv, NEW p \in Instances, KeyCreate(p), masterFile = NoKey PROVE KeyInv'
<1>1. /\ masterFile' = EmptyFile /\ stage' = [stage EXCEPT ![p] = "fill"]
      /\ master' = master /\ usersKey' = usersKey
  BY DEF KeyCreate
<1>2. stage \in [Instances -> Stages] /\ usersKey \in Instances \cup {NoKey}
  BY DEF ProcessTypeOK
<1>3. usersKey = NoKey
  BY <1>2, KeyNames DEF KeyInv
<1>4. \A q \in Instances : stage[q] \notin {"fill", "users", "up", "closing"}
  BY KeyNames DEF KeyInv
<1>5. \A q \in Instances : IF q = p THEN stage'[q] = "fill" ELSE stage'[q] = stage[q]
  BY <1>1, <1>2
<1> QED
  BY <1>1, <1>3, <1>4, <1>5 DEF KeyInv

(* Filling it: the process that does is the first to hold a key. *)
LEMMA KeyFillKeeps ==
    ASSUME ProcessTypeOK, KeyInv, NEW p \in Instances, KeyFill(p) PROVE KeyInv'
<1>1. /\ masterFile' = p /\ stage' = [stage EXCEPT ![p] = "users"]
      /\ master' = [master EXCEPT ![p] = p] /\ usersKey' = usersKey /\ stage[p] = "fill"
  BY DEF KeyFill
<1>2. stage \in [Instances -> Stages] /\ usersKey \in Instances \cup {NoKey}
      /\ master \in [Instances -> Instances \cup {NoKey}]
  BY DEF ProcessTypeOK
<1>3. masterFile = EmptyFile /\ \A q \in Instances : stage[q] = "fill" => q = p
  BY <1>1 DEF KeyInv
<1>4. usersKey = NoKey
  BY <1>2, <1>3, KeyNames DEF KeyInv
<1>5. \A q \in Instances : q # p => stage[q] \notin {"fill", "users", "up", "closing"}
  BY <1>3, KeyNames DEF KeyInv
<1>6. \A q \in Instances : IF q = p THEN stage'[q] = "users" /\ master'[q] = p
                                    ELSE stage'[q] = stage[q]
  BY <1>1, <1>2
<1> QED
  BY <1>1, <1>4, <1>5, <1>6 DEF KeyInv

(* Making the users file: with the key that is on the disk. *)
LEMMA UsersFileKeeps ==
    ASSUME ProcessTypeOK, KeyInv, NEW p \in Instances, UsersFile(p) PROVE KeyInv'
<1>1. /\ masterFile' = masterFile /\ stage' = [stage EXCEPT ![p] = "up"]
      /\ master' = master /\ stage[p] = "users"
      /\ usersKey' = IF usersKey = NoKey THEN master[p] ELSE usersKey
  BY DEF UsersFile
<1>2. stage \in [Instances -> Stages]
  BY DEF ProcessTypeOK
<1>3. masterFile \in Instances /\ master[p] = masterFile
  BY <1>1 DEF KeyInv
<1>4. usersKey' = masterFile
  BY <1>1, <1>3 DEF KeyInv
<1>5. \A q \in Instances : stage[q] # "fill"
  BY <1>3, KeyNames DEF KeyInv
<1>6. \A q \in Instances : IF q = p THEN stage'[q] = "up" ELSE stage'[q] = stage[q]
  BY <1>1, <1>2
<1> QED
  BY <1>1, <1>3, <1>4, <1>5, <1>6 DEF KeyInv

-----------------------------------------------------------------------------
(* Tokens are drawn once and spent once.  A request works on the token of  *)
(* its process, and a process that is down has none.                       *)
SetupInv ==
    /\ \A p \in Instances :
          /\ token[p] <= phist.drawn /\ token[p] \notin phist.spent
          /\ token[p] # 0 => \A q \in Instances : token[q] = token[p] => q = p
          /\ setup[p] # NoRequest => setup[p].token = token[p] /\ token[p] # 0
          /\ stage[p] = "down" => setup[p] = NoRequest
    /\ phist.spent \subseteq 1..phist.drawn
    /\ ~phist.reused
    /\ phist.completed = IF sentinel THEN 1 ELSE 0

(* A step that draws no token, takes no request and spends nothing.        *)
SetupQuiet ==
    /\ \A q \in Instances :
          /\ \/ token'[q] = token[q] /\ setup'[q] \in {setup[q], NoRequest}
             \/ token'[q] = 0 /\ setup'[q] = NoRequest
          /\ stage'[q] = "down" => stage[q] = "down" \/ setup'[q] = NoRequest
    /\ phist'.drawn = phist.drawn /\ phist'.spent = phist.spent
    /\ phist'.reused = phist.reused /\ phist'.completed = phist.completed
    /\ sentinel' = sentinel

(* What dying does to the setup of a process. *)
LEMMA DieQuiet ==
    ASSUME ProcessTypeOK, NEW p \in Instances, Die(p), sentinel' = sentinel,
           phist'.drawn = phist.drawn, phist'.spent = phist.spent,
           phist'.reused = phist.reused, phist'.completed = phist.completed
    PROVE  SetupQuiet
<1>1. /\ token'[p] = 0 /\ setup'[p] = NoRequest
      /\ \A q \in Instances \ {p} :
            token'[q] = token[q] /\ setup'[q] = setup[q] /\ stage'[q] = stage[q]
  BY DEF ProcessTypeOK, Die
<1> QED
  BY <1>1, Zenon DEF SetupQuiet

(* The steps that are not quiet start a process, take a request with a     *)
(* token, or write the sentinel.                                           *)
LEMMA SetupSteps ==
    ASSUME ProcessTypeOK, NEW p \in Instances, ProcessStep(p)
    PROVE  \/ SetupQuiet
           \/ StartServer(p)
           \/ \E t \in 1..BootMax, at \in {"complete", "command"} : Presented(p, t, at)
           \/ SentinelWrite(p) /\ ~sentinel
<1>0. /\ stage \in [Instances -> Stages]
      /\ setup \in [Instances -> [at : {"none", "complete", "command"}, token : Nat]]
      /\ phist \in ProcessHistories
  BY DEF ProcessTypeOK
<1>1. ASSUME Die(p), UNCHANGED <<sentinel, phist>> PROVE SetupQuiet
  BY <1>1, DieQuiet, Zenon
<1>2. ASSUME UNCHANGED <<setupVars, token, phist>>,
             \A q \in Instances : stage'[q] = stage[q] \/ stage'[q] # "down"
      PROVE  SetupQuiet
  BY <1>2, Zenon DEF SetupQuiet, setupVars
<1>3. CASE KeyLook(p)
  <2>1. CASE Die(p)
    BY <1>1, <1>3, <2>1, Zenon DEF KeyLook
  <2>2. CASE stage' = [stage EXCEPT ![p] = "create"] \/ stage' = [stage EXCEPT ![p] = "users"]
    <3>1. \A q \in Instances : stage'[q] = stage[q] \/ stage'[q] # "down"
      BY <1>0, <2>2 DEF ProcessHistories
    <3>2. CASE UNCHANGED <<token, setup>>
      BY <1>2, <1>3, <3>1, <3>2, Zenon DEF KeyLook, setupVars
    <3> QED
      BY <1>3, <2>1, <3>2, Zenon DEF KeyLook
  <2> QED
    BY <1>3, <2>1, <2>2, Zenon DEF KeyLook
<1>4. CASE KeyCreate(p)
  <2>1. CASE Die(p)
    BY <1>1, <1>4, <2>1, Zenon DEF KeyCreate
  <2>2. CASE stage' = [stage EXCEPT ![p] = "fill"] /\ UNCHANGED <<token, setup>>
    <3>1. \A q \in Instances : stage'[q] = stage[q] \/ stage'[q] # "down"
      BY <1>0, <2>2 DEF ProcessHistories
    <3> QED
      BY <1>2, <1>4, <2>2, <3>1, Zenon DEF KeyCreate, setupVars
  <2> QED
    BY <1>4, <2>1, <2>2, Zenon DEF KeyCreate
<1>5. CASE KeyFill(p) \/ UsersFile(p) \/ gracefulShutdown(p)
  <2>1. \A q \in Instances : stage'[q] = stage[q] \/ stage'[q] # "down"
    BY <1>0, <1>5 DEF KeyFill, UsersFile, gracefulShutdown
  <2> QED
    BY <1>2, <1>5, <2>1, Zenon DEF KeyFill, UsersFile, gracefulShutdown
<1>6. CASE SetupToken(p)
  <2>1. phist' = [phist EXCEPT !.held = @ \cup {token[p]}]
        /\ UNCHANGED <<stage, setup, sentinel, token>>
    BY <1>6, Zenon DEF SetupToken, setupVars
  <2>2. phist'.drawn = phist.drawn /\ phist'.spent = phist.spent
        /\ phist'.reused = phist.reused /\ phist'.completed = phist.completed
    BY <1>0, <2>1 DEF ProcessHistories
  <2> QED
    BY <2>1, <2>2, Zenon DEF SetupQuiet
<1>7. CASE ProCommandEnds(p) \/ (SentinelWrite(p) /\ sentinel)
  <2>1. setup' = [setup EXCEPT ![p] = NoRequest] /\ UNCHANGED <<stage, sentinel, token, phist>>
    BY <1>7, Zenon DEF ProCommandEnds, SentinelWrite
  <2>2. \A q \in Instances : setup'[q] \in {setup[q], NoRequest}
    BY <1>0, <2>1 DEF ProcessHistories
  <2> QED
    BY <2>1, <2>2, Zenon DEF SetupQuiet
<1>8. CASE \E l \in Listeners : Accept(p, l) \/ Respond(p, l)
  BY <1>2, <1>8, Zenon DEF Accept, Respond
<1>9. CASE CleanExit(p) \/ DrainTimeout(p)
  <2>1. PICK code : Exit(p, code)
    BY <1>9, Zenon DEF CleanExit, DrainTimeout
  <2>2. phist' = [phist EXCEPT !.exit = [code |-> code, busy |-> busy[p]]]
        /\ Die(p) /\ sentinel' = sentinel
    BY <2>1, Zenon DEF Exit
  <2>3. phist'.drawn = phist.drawn /\ phist'.spent = phist.spent
        /\ phist'.reused = phist.reused /\ phist'.completed = phist.completed
    BY <1>0, <2>2 DEF ProcessHistories
  <2> QED
    BY <2>2, <2>3, DieQuiet, Zenon
<1>10. CASE Kill(p)
  BY <1>1, <1>10, Zenon DEF Kill
<1>11. CASE \E t \in 1..BootMax : SetupComplete(p, t) \/ ProCommand(p, t)
  BY <1>11, Zenon DEF SetupComplete, ProCommand
<1> QED
  BY <1>3, <1>4, <1>5, <1>6, <1>7, <1>8, <1>9, <1>10, <1>11, Zenon DEF ProcessStep

(* A quiet step keeps the invariant of the setup. *)
LEMMA SetupQuietKeeps == ASSUME ProcessTypeOK, SetupInv, SetupQuiet PROVE SetupInv'
<1>1. /\ phist'.drawn = phist.drawn /\ phist'.spent = phist.spent
      /\ phist'.reused = phist.reused /\ phist'.completed = phist.completed
      /\ sentinel' = sentinel /\ phist.drawn \in Nat
  BY DEF SetupQuiet, ProcessTypeOK, ProcessHistories
<1>2. 0 \notin phist.spent
  BY DEF SetupInv
<1>3. ASSUME NEW p \in Instances
      PROVE  /\ token'[p] <= phist.drawn /\ token'[p] \notin phist.spent
             /\ token'[p] # 0 => token'[p] = token[p]
             /\ setup'[p] # NoRequest => setup'[p] = setup[p] /\ token'[p] = token[p]
             /\ stage'[p] = "down" => setup'[p] = NoRequest
  <2>1. CASE token'[p] = 0 /\ setup'[p] = NoRequest
    BY <1>1, <1>2, <2>1
  <2>2. CASE token'[p] = token[p] /\ setup'[p] \in {setup[p], NoRequest}
    <3>1. stage'[p] = "down" => stage[p] = "down" \/ setup'[p] = NoRequest
      BY Zenon DEF SetupQuiet
    <3> QED
      BY <2>2, <3>1, Zenon DEF SetupInv
  <2> QED
    BY <2>1, <2>2, Zenon DEF SetupQuiet
<1>4. ASSUME NEW p \in Instances, NEW q \in Instances, token'[p] # 0, token'[q] = token'[p]
      PROVE  q = p
  <2>1. token'[p] = token[p] /\ token'[q] = token[q]
    BY <1>3, <1>4, Zenon
  <2> QED
    BY <1>4, <2>1, Zenon DEF SetupInv
<1>5. ASSUME NEW p \in Instances, setup'[p] # NoRequest
      PROVE  setup'[p].token = token'[p] /\ token'[p] # 0
  BY <1>3, <1>5, Zenon DEF SetupInv
<1> QED
  BY <1>1, <1>3, <1>4, <1>5, Zenon DEF SetupInv

(* A process that starts has a token of its own. *)
LEMMA StartServerKeeps ==
    ASSUME ProcessTypeOK, SetupInv, NEW p \in Instances, StartServer(p) PROVE SetupInv'
<1>1. /\ stage[p] = "down" /\ token' = [token EXCEPT ![p] = phist.drawn + 1]
      /\ stage' = [stage EXCEPT ![p] = "look"]
      /\ phist' = [phist EXCEPT !.drawn = @ + 1] /\ setup' = setup /\ sentinel' = sentinel
  BY DEF StartServer, setupVars
<1>2. /\ phist'.drawn = phist.drawn + 1 /\ phist'.spent = phist.spent
      /\ phist'.reused = phist.reused /\ phist'.completed = phist.completed
      /\ phist.drawn \in Nat
  BY <1>1 DEF ProcessTypeOK, ProcessHistories
<1>3. \A q \in Instances : token[q] \in Nat /\ token[q] <= phist.drawn
  BY DEF ProcessTypeOK, SetupInv
<1>4. \A q \in Instances : IF q = p THEN token'[q] = phist.drawn + 1 /\ stage'[q] = "look"
                                    ELSE token'[q] = token[q] /\ stage'[q] = stage[q]
  BY <1>1 DEF ProcessTypeOK
<1>5. setup[p] = NoRequest
  BY <1>1 DEF SetupInv
<1>6. phist.spent \subseteq 1..phist.drawn
  BY DEF SetupInv
<1>7. ASSUME NEW q \in Instances
      PROVE  token'[q] <= phist.drawn + 1 /\ token'[q] \notin phist.spent
  <2>1. CASE q = p
    BY <1>2, <1>4, <1>6, <2>1
  <2>2. CASE q # p
    BY <1>2, <1>3, <1>4, <2>2 DEF SetupInv
  <2> QED
    BY <2>1, <2>2
<1>8. ASSUME NEW q \in Instances, NEW r \in Instances, token'[q] # 0, token'[r] = token'[q]
      PROVE  r = q
  <2>1. \A o \in Instances : token[o] # phist.drawn + 1
    BY <1>2, <1>3
  <2>2. CASE q = p \/ r = p
    BY <1>4, <1>8, <2>1, <2>2, Zenon
  <2>3. CASE q # p /\ r # p
    BY <1>4, <1>8, <2>3, Zenon DEF SetupInv
  <2> QED
    BY <2>2, <2>3
<1>9. ASSUME NEW q \in Instances
      PROVE  /\ setup'[q] # NoRequest => setup'[q].token = token'[q] /\ token'[q] # 0
             /\ stage'[q] = "down" => setup'[q] = NoRequest
  BY <1>1, <1>4, <1>5, Zenon DEF SetupInv
<1>10. phist.spent \subseteq 1..(phist.drawn + 1)
  BY <1>2, <1>6
<1> QED
  BY <1>1, <1>2, <1>7, <1>8, <1>9, <1>10, Zenon DEF SetupInv

(* A request is taken with the token of its process, which is not spent. *)
LEMMA PresentedKeeps ==
    ASSUME ProcessTypeOK, SetupInv, NEW p \in Instances, NEW t, NEW at, Presented(p, t, at)
    PROVE  SetupInv'
<1>1. /\ stage[p] = "up" /\ token[p] # 0 /\ t = token[p]
      /\ setup' = [setup EXCEPT ![p] = [at |-> at, token |-> t]]
      /\ phist' = [phist EXCEPT !.reused = @ \/ t \in phist.spent]
      /\ UNCHANGED <<stage, sentinel, token>>
  BY Zenon DEF Presented, Accepts
<1>2. t \notin phist.spent /\ ~phist.reused
  BY <1>1, Zenon DEF SetupInv
<1>3. /\ phist'.drawn = phist.drawn /\ phist'.spent = phist.spent
      /\ phist'.completed = phist.completed /\ phist'.reused = (phist.reused \/ t \in phist.spent)
  BY <1>1 DEF ProcessTypeOK, ProcessHistories
<1>4. \A q \in Instances : IF q = p THEN setup'[q] = [at |-> at, token |-> t]
                                    ELSE setup'[q] = setup[q]
  BY <1>1 DEF ProcessTypeOK
<1>5. [at |-> at, token |-> t].token = t
  OBVIOUS
<1>6. ASSUME NEW q \in Instances
      PROVE  /\ setup'[q] # NoRequest => setup'[q].token = token[q] /\ token[q] # 0
             /\ stage[q] = "down" => setup'[q] = NoRequest
  <2>1. CASE q = p
    BY <1>1, <1>4, <1>5, <2>1
  <2>2. CASE q # p
    BY <1>4, <2>2, Zenon DEF SetupInv
  <2> QED
    BY <2>1, <2>2
<1> QED
  BY <1>1, <1>2, <1>3, <1>6, Zenon DEF SetupInv

(* The sentinel is written once, and the token spent no process has now. *)
LEMMA SentinelKeeps ==
    ASSUME ProcessTypeOK, SetupInv, NEW p \in Instances, SentinelWrite(p), ~sentinel PROVE SetupInv'
<1>1. /\ setup[p].at = "complete" /\ setup' = [setup EXCEPT ![p] = NoRequest]
      /\ sentinel' = TRUE /\ token' = [token EXCEPT ![p] = 0] /\ stage' = stage
      /\ phist' = [phist EXCEPT !.completed = @ + 1, !.spent = @ \cup {setup[p].token}]
  BY Zenon DEF SentinelWrite
<1>2. setup[p] # NoRequest
  BY <1>1 DEF NoRequest
<1>3. setup[p].token = token[p] /\ token[p] # 0
  BY <1>2, Zenon DEF SetupInv
<1>4. /\ phist'.drawn = phist.drawn /\ phist'.spent = phist.spent \cup {token[p]}
      /\ phist'.reused = phist.reused /\ phist'.completed = phist.completed + 1
      /\ phist.drawn \in Nat /\ token[p] \in Nat
  BY <1>1, <1>3 DEF ProcessTypeOK, ProcessHistories
<1>5. \A q \in Instances : IF q = p THEN token'[q] = 0 /\ setup'[q] = NoRequest
                                    ELSE token'[q] = token[q] /\ setup'[q] = setup[q]
  BY <1>1 DEF ProcessTypeOK
<1>6. phist.completed + 1 = 1
  BY DEF SetupInv
<1>7. phist.spent \cup {token[p]} \subseteq 1..phist.drawn
  BY <1>3, <1>4 DEF SetupInv
<1>8. ASSUME NEW q \in Instances
      PROVE  token'[q] <= phist.drawn /\ token'[q] \notin phist'.spent
  <2>1. CASE q = p
    BY <1>4, <1>5, <1>7, <2>1
  <2>2. CASE q # p
    <3>1. token[q] # token[p]
      BY <1>3, <2>2, Zenon DEF SetupInv
    <3>2. token[q] <= phist.drawn /\ token[q] \notin phist.spent
      BY Zenon DEF SetupInv
    <3> QED
      BY <1>4, <1>5, <2>2, <3>1, <3>2, Zenon
  <2> QED
    BY <2>1, <2>2
<1>9. ASSUME NEW q \in Instances, NEW r \in Instances, token'[q] # 0, token'[r] = token'[q]
      PROVE  r = q
  <2>1. token'[q] = token[q] /\ token'[r] = token[r]
    BY <1>5, <1>9, Zenon
  <2> QED
    BY <1>9, <2>1, Zenon DEF SetupInv
<1>10. ASSUME NEW q \in Instances
       PROVE  /\ setup'[q] # NoRequest => setup'[q].token = token'[q] /\ token'[q] # 0
              /\ stage'[q] = "down" => setup'[q] = NoRequest
  BY <1>1, <1>5, Zenon DEF SetupInv
<1> QED
  BY <1>1, <1>4, <1>6, <1>7, <1>8, <1>9, <1>10, Zenon DEF SetupInv

-----------------------------------------------------------------------------
(* The last exit with 0 left no request behind. *)
LifeInv ==
    ProcessTypeOK /\ KeyInv /\ SetupInv /\ CleanExitDrained

(* The parts of the state keep their types. *)
LEMMA ProcessTypes ==
    ASSUME ProcessTypeOK, NEW p \in Instances, ProcessStep(p) PROVE ProcessTypeOK'
<1> USE KeyNames
<1>1. CASE StartServer(p)
  <2>1. phist' = [phist EXCEPT !.drawn = @ + 1] /\ token' = [token EXCEPT ![p] = phist.drawn + 1]
        /\ stage' = [stage EXCEPT ![p] = "look"]
    BY <1>1, Zenon DEF StartServer
  <2>2. phist' \in ProcessHistories
    <3>1. phist \in ProcessHistories /\ phist.drawn + 1 \in Nat
      BY DEF ProcessTypeOK, ProcessHistories
    <3> QED
      BY <2>1, <3>1, Zenon DEF ProcessHistories
  <2>3. token' \in [Instances -> Nat] /\ stage' \in [Instances -> Stages]
    BY <2>1 DEF ProcessTypeOK, ProcessHistories, Stages
  <2> QED
    BY <1>1, <2>2, <2>3, Zenon DEF StartServer, ProcessTypeOK, bootVars, setupVars
<1>2. ASSUME Die(p), UNCHANGED <<masterFile, usersKey, sentinel>>,
             phist' \in ProcessHistories
      PROVE  ProcessTypeOK'
  BY <1>2 DEF Die, ProcessTypeOK, Stages, NoRequest
<1>3. CASE KeyLook(p)
  <2>1. CASE Die(p)
    BY <1>2, <1>3, <2>1, Zenon DEF KeyLook, ProcessTypeOK
  <2>2. CASE stage' = [stage EXCEPT ![p] = "create"] /\ UNCHANGED <<master, token, setup, busy>>
    <3>1. stage' \in [Instances -> Stages]
      BY <2>2 DEF ProcessTypeOK, Stages
    <3> QED
      BY <1>3, <2>2, <3>1, Zenon DEF KeyLook, ProcessTypeOK
  <2>3. CASE /\ masterFile \notin {NoKey, EmptyFile} /\ stage' = [stage EXCEPT ![p] = "users"]
             /\ master' = [master EXCEPT ![p] = masterFile] /\ UNCHANGED <<token, setup, busy>>
    <3>1. stage' \in [Instances -> Stages] /\ master' \in [Instances -> Instances \cup {NoKey}]
      BY <2>3 DEF ProcessTypeOK, Stages
    <3> QED
      BY <1>3, <2>3, <3>1, Zenon DEF KeyLook, ProcessTypeOK
  <2> QED
    BY <1>3, <2>1, <2>2, <2>3, Zenon DEF KeyLook
<1>4. CASE KeyCreate(p)
  BY <1>2, <1>4 DEF KeyCreate, ProcessTypeOK, Stages
<1>5. CASE KeyFill(p)
  BY <1>5 DEF KeyFill, ProcessTypeOK, Stages, setupVars
<1>6. CASE UsersFile(p)
  BY <1>6 DEF UsersFile, ProcessTypeOK, Stages, setupVars
<1>7. CASE SetupToken(p)
  <2>1. phist' \in ProcessHistories
    BY <1>7 DEF SetupToken, ProcessTypeOK, ProcessHistories
  <2> QED
    BY <1>7, <2>1, Zenon DEF SetupToken, ProcessTypeOK, bootVars, setupVars
<1>8. CASE SentinelWrite(p)
  <2>1. setup' = [setup EXCEPT ![p] = NoRequest] /\ UNCHANGED <<stage, bootVars, busy>>
    BY <1>8, Zenon DEF SentinelWrite
  <2>2. setup' \in [Instances -> [at : {"none", "complete", "command"}, token : Nat]]
    BY <2>1 DEF ProcessTypeOK, NoRequest
  <2>3. CASE UNCHANGED <<sentinel, token, phist>>
    BY <2>1, <2>2, <2>3, Zenon DEF ProcessTypeOK, bootVars
  <2>4. CASE /\ sentinel' = TRUE /\ token' = [token EXCEPT ![p] = 0]
             /\ phist' = [phist EXCEPT !.completed = @ + 1, !.spent = @ \cup {setup[p].token}]
    <3>1. phist' \in ProcessHistories
      <4>1. /\ phist \in ProcessHistories /\ phist.completed + 1 \in Nat
            /\ phist.spent \cup {setup[p].token} \in SUBSET Nat
        BY DEF ProcessTypeOK, ProcessHistories
      <4> QED
        BY <2>4, <4>1, Zenon DEF ProcessHistories
    <3>2. token' \in [Instances -> Nat]
      BY <2>4 DEF ProcessTypeOK
    <3> QED
      BY <2>1, <2>2, <2>4, <3>1, <3>2, Zenon DEF ProcessTypeOK, bootVars
  <2> QED
    BY <1>8, <2>3, <2>4, Zenon DEF SentinelWrite
<1>9. CASE ProCommandEnds(p)
  BY <1>9 DEF ProCommandEnds, ProcessTypeOK, bootVars, NoRequest
<1>10. ASSUME NEW t \in 1..BootMax, NEW at \in {"complete", "command"}, Presented(p, t, at)
       PROVE  ProcessTypeOK'
  <2>1. phist' \in ProcessHistories
    <3>1. phist \in ProcessHistories /\ (phist.reused \/ t \in phist.spent) \in BOOLEAN
      BY Zenon DEF ProcessTypeOK
    <3> QED
      BY <1>10, <3>1, Zenon DEF Presented, ProcessHistories
  <2>2. setup' \in [Instances -> [at : {"none", "complete", "command"}, token : Nat]]
    BY <1>10 DEF Presented, ProcessTypeOK
  <2> QED
    BY <1>10, <2>1, <2>2, Zenon DEF Presented, ProcessTypeOK, bootVars
<1>11. ASSUME NEW l \in Listeners, Accept(p, l) \/ Respond(p, l) PROVE ProcessTypeOK'
  BY <1>11 DEF Accept, Respond, ProcessTypeOK, bootVars, setupVars
<1>12. CASE gracefulShutdown(p)
  BY <1>12 DEF gracefulShutdown, ProcessTypeOK, Stages, bootVars, setupVars
<1>13. ASSUME NEW code \in {0, 1}, Exit(p, code) PROVE ProcessTypeOK'
  <2>1. phist' \in ProcessHistories
    BY <1>13, Zenon DEF Exit, ProcessTypeOK, ProcessHistories
  <2> QED
    BY <1>2, <1>13, <2>1, Zenon DEF Exit
<1>14. CASE Kill(p)
  BY <1>2, <1>14, Zenon DEF Kill, ProcessTypeOK
<1>15. CASE CleanExit(p) \/ DrainTimeout(p)
  BY <1>13, <1>15 DEF CleanExit, DrainTimeout
<1>16. CASE \E t \in 1..BootMax : SetupComplete(p, t) \/ ProCommand(p, t)
  BY <1>10, <1>16 DEF SetupComplete, ProCommand
<1> QED
  BY <1>1, <1>3, <1>4, <1>5, <1>6, <1>7, <1>8, <1>9, <1>11, <1>12, <1>14, <1>15, <1>16, Zenon
  DEF ProcessStep

(* Only an exit changes the record of the last exit, and one with 0 waits  *)
(* for every listener.                                                     *)
LEMMA ExitsDrained ==
    ASSUME ProcessTypeOK, CleanExitDrained, NEW p \in Instances, ProcessStep(p)
    PROVE  CleanExitDrained'
<1>1. phist \in ProcessHistories
  BY DEF ProcessTypeOK
<1>2. ASSUME phist'.exit = phist.exit PROVE CleanExitDrained'
  BY <1>2, Zenon DEF CleanExitDrained
<1>3. ASSUME UNCHANGED phist PROVE CleanExitDrained'
  BY <1>2, <1>3
<1>4. CASE StartServer(p)
  BY <1>1, <1>2, <1>4 DEF StartServer, ProcessHistories
<1>5. CASE SetupToken(p)
  BY <1>1, <1>2, <1>5 DEF SetupToken, ProcessHistories
<1>6. CASE SentinelWrite(p)
  BY <1>1, <1>2, <1>6, Zenon DEF SentinelWrite, ProcessHistories
<1>7. ASSUME NEW t, NEW at, Presented(p, t, at) PROVE CleanExitDrained'
  BY <1>1, <1>2, <1>7 DEF Presented, ProcessHistories
<1>8. CASE CleanExit(p)
  BY <1>1, <1>8 DEF CleanExit, Exit, AllClosed, CleanExitDrained, ProcessHistories
<1>9. CASE DrainTimeout(p)
  BY <1>1, <1>9 DEF DrainTimeout, Exit, CleanExitDrained, ProcessHistories
<1>10. CASE KeyLook(p) \/ KeyCreate(p) \/ KeyFill(p) \/ UsersFile(p) \/ ProCommandEnds(p)
            \/ gracefulShutdown(p) \/ Kill(p) \/ \E l \in Listeners : Accept(p, l) \/ Respond(p, l)
  BY <1>3, <1>10, Zenon
  DEF KeyLook, KeyCreate, KeyFill, UsersFile, ProCommandEnds, gracefulShutdown, Kill, Accept, Respond
<1> QED
  BY <1>4, <1>5, <1>6, <1>7, <1>8, <1>9, <1>10, Zenon DEF ProcessStep, SetupComplete, ProCommand

(* Every step keeps the invariant. *)
LEMMA LifeInvNext == LifeInv /\ [ProcessNext]_processVars => LifeInv'
<1> SUFFICES ASSUME LifeInv, [ProcessNext]_processVars PROVE LifeInv'
  OBVIOUS
<1>0. ProcessTypeOK /\ KeyInv /\ SetupInv /\ CleanExitDrained
  BY DEF LifeInv
<1>1. ASSUME NEW p \in Instances, ProcessStep(p) PROVE LifeInv'
  <2>1. KeyInv'
    BY <1>0, <1>1, KeySteps, KeyQuietKeeps, KeyCreateKeeps, KeyFillKeeps, UsersFileKeeps, Zenon
  <2>2. SetupInv'
    BY <1>0, <1>1, SetupSteps, SetupQuietKeeps, StartServerKeeps, PresentedKeeps, SentinelKeeps, Zenon
  <2> QED
    BY <1>0, <1>1, <2>1, <2>2, ProcessTypes, ExitsDrained, Zenon DEF LifeInv
<1>2. CASE UNCHANGED processVars
  BY <1>0, <1>2, Zenon
  DEF processVars, LifeInv, ProcessTypeOK, KeyInv, SetupInv, CleanExitDrained
<1> QED
  BY <1>1, <1>2, Zenon DEF ProcessNext

(* However many processes share the data directory, and however their      *)
(* starts, crashes, setups and shutdowns interleave: one master key, one   *)
(* completed setup, no token accepted after it was spent, and no clean     *)
(* exit with a request in flight.                                          *)
THEOREM LifecycleAlwaysSafe == ProcessSpec => []LifecycleSafe
<1>1. ProcessInit => LifeInv
  <2>1. SUFFICES ASSUME ProcessInit PROVE LifeInv
    OBVIOUS
  <2>2. ProcessTypeOK
    BY <2>1, Zenon DEF ProcessInit, ProcessTypeOK, ProcessHistories, Stages, NoRequest
  <2>3. KeyInv
    BY <2>1 DEF ProcessInit, KeyInv
  <2>4. SetupInv
    BY <2>1 DEF ProcessInit, SetupInv
  <2>5. CleanExitDrained
    BY <2>1 DEF ProcessInit, CleanExitDrained
  <2> QED
    BY <2>2, <2>3, <2>4, <2>5 DEF LifeInv
<1>2. LifeInv => LifecycleSafe
  BY DEF LifeInv, ProcessTypeOK, ProcessHistories, KeyInv, SetupInv, LifecycleSafe, OneMasterKey, SetupOnce, SpentTokenRefused
<1> QED
  BY <1>1, <1>2, LifeInvNext, PTL DEF ProcessSpec
=============================================================================
