----------------------------- MODULE StateStore -----------------------------
(***************************************************************************)
(* What the web server keeps between requests outside its files.  Counters *)
(* of the ephemeral key-value store (lib/stateStore.js and                 *)
(* lib/redisStateStore.js) that it throttles with: the fixed-window        *)
(* limiters of lib/rateLimiter.js, and the gate that bounds concurrent     *)
(* Argon2 computations (hashPassword and verifyPassword in                 *)
(* routes/auth/utils.js).  Then two stores in the memory of a process, for *)
(* one user: the cache of unwrapped data keys (class Envelope of           *)
(* lib/envelope.js), and the codes that prove an address while e-mail      *)
(* codes are being set up (_setupOtps, routes/auth/mfa.js).                *)
(*                                                                         *)
(* A counter is a record of its value and the ticks until it expires; a    *)
(* counter that is not in the store has value Gone.  A tick is the unit in *)
(* which the TTLs are given.  The in-memory store has no step between the  *)
(* parts of an operation; the decrement of the Redis store has one.  Every *)
(* unwrapping makes a buffer of its own, named by a number; codes are      *)
(* numbers too, drawn in turn; the timeouts of both are steps.             *)
(***************************************************************************)
EXTENDS Integers, FiniteSets, Functions

CONSTANTS
    Limiters,    \* the windows of rateLimiter.js: name -> [max, window]
    CallCap,     \* bound: the counter of a limiter stops here
    Workers,     \* requests that hash a password
    ArgonMax,    \* ARGON2_MAX_CONCURRENT
    ArgonTtl,    \* TTL of argon2:active, 120 s
    Backends,    \* subset of {"memory", "redis"}
    Gone,        \* not a number
    BufferMax,   \* bound: unwrappings
    CodeMax,     \* bound: codes drawn
    Emails,      \* addresses
    SendMax,     \* sends per window (5 in the code)
    AttemptMax   \* SETUP_OTP_MAX_ATTEMPTS

ASSUME StoreConstants ==
    /\ Gone \notin Int
    /\ ArgonTtl \in Nat \ {0}
    /\ ArgonMax \in Nat

ASSUME CacheConstants ==
    /\ BufferMax \in Nat /\ CodeMax \in Nat /\ SendMax \in Nat
    /\ AttemptMax \in Nat \ {0}
    /\ Emails # {}

VARIABLES
    kind,     \* the limiter under study
    count,    \* its counter
    taken,    \* history: requests admitted i ticks ago
    backend,  \* which store argon2:active lives in
    gate,     \* argon2:active
    job,      \* what each worker is doing
    cache,    \* the buffer cached for the user, 0 for none
    timers,   \* unwrappings whose timer is pending
    misses,   \* requests that wait for the KMS
    zeroed,   \* buffers filled with zeros
    drawnBufs, \* unwrappings so far
    entry,    \* _setupOtps.get(user)
    chist     \* history: codes drawn, the address each went to, wrong
              \* guesses at each, the code accepted, accepted codes

rateVars == <<kind, count, taken>>

gateVars == <<backend, gate, job>>

dekVars == <<cache, timers, misses, zeroed, drawnBufs>>

otpVars == <<entry, chist>>

Never == 0

Missing == [n |-> Gone, ttl |-> Never]

(* The expiry of a key: a TTL of Never is no TTL. *)
Aged(c) ==
    IF c.n = Gone \/ c.ttl = Never THEN c
    ELSE IF c.ttl = 1 THEN Missing ELSE [c EXCEPT !.ttl = @ - 1]

(* Mutant of incrExpire: only a missing key gets a TTL, in Redis too. *)
incrExpireMissing(c, ttl) ==
    IF c.n = Gone THEN [n |-> 1, ttl |-> ttl] ELSE [c EXCEPT !.n = @ + 1]

(* The TTL is set by the increment that creates the counter; Redis sets it *)
(* whenever the increment returns 1.                                       *)
incrExpire(c, ttl) ==
    IF c.n = Gone THEN [n |-> 1, ttl |-> ttl]
    ELSE [n |-> c.n + 1,
          ttl |-> IF backend = "redis" /\ c.n + 1 = 1 THEN ttl ELSE c.ttl]

(* InMemoryStateStore.decr stops at zero and leaves a missing key alone. *)
decr(c) ==
    IF c.n = Gone THEN c ELSE [c EXCEPT !.n = IF @ > 0 THEN @ - 1 ELSE 0]

(* The DECR of RedisStateStore.decr creates the key without a TTL. *)
redisDecr(c) ==
    IF c.n = Gone THEN [n |-> -1, ttl |-> Never] ELSE [c EXCEPT !.n = @ - 1]

-----------------------------------------------------------------------------
(* Fixed-window limiters *)

(* Mutant of Check: the limit is compared with the count before the call.  *)
CheckBefore(name) ==
    LET c == incrExpire(count, Limiters[name].window)
    IN /\ kind = name
       /\ count' = [c EXCEPT !.n = IF @ > CallCap THEN CallCap ELSE @]
       /\ taken' = [taken EXCEPT ![0] =
                       IF c.n <= Limiters[name].max + 1 THEN @ + 1 ELSE @]
       /\ UNCHANGED <<kind, gateVars>>

(* One call: count it, and admit it if the count is within the limit.      *)
Check(name) ==
    LET c == incrExpire(count, Limiters[name].window)
    IN /\ kind = name
       /\ count' = [c EXCEPT !.n = IF @ > CallCap THEN CallCap ELSE @]
       /\ taken' = [taken EXCEPT ![0] =
                       IF c.n <= Limiters[name].max THEN @ + 1 ELSE @]
       /\ UNCHANGED <<kind, gateVars>>

checkLoginRate == Check("login")
checkHintsRate == Check("hints")
checkRpcRate == Check("rpc")
checkRegisterRate == Check("register")
checkRegisterEmailRate == Check("registerEmail")
checkEmergencyRate == Check("emergency")
checkSetupExecRate == Check("setupExec")
checkDnsRate == Check("dns")
checkShareCreateRate == Check("shareCreate")

RateTick ==
    /\ count' = Aged(count)
    /\ taken' = [i \in DOMAIN taken |-> IF i = 0 THEN 0 ELSE taken[i - 1]]
    /\ UNCHANGED <<kind, gateVars>>

RateInit ==
    /\ kind \in DOMAIN Limiters
    /\ count = Missing
    /\ taken = [i \in 0..(Limiters[kind].window - 1) |-> 0]

RateNext ==
    \/ checkLoginRate \/ checkHintsRate \/ checkRpcRate \/ checkRegisterRate
    \/ checkRegisterEmailRate \/ checkEmergencyRate \/ checkSetupExecRate
    \/ checkDnsRate \/ checkShareCreateRate \/ RateTick

-----------------------------------------------------------------------------
(* The gate around Argon2 *)

(* hashPassword and verifyPassword count themselves in, and throw when the *)
(* count is above the limit.                                               *)
GateEnter(w) ==
    /\ job[w] = "idle"
    /\ gate.n # CallCap
    /\ gate' = incrExpire(gate, ArgonTtl)
    /\ job' = [job EXCEPT ![w] = IF gate'.n > ArgonMax THEN "refused" ELSE "hashing"]
    /\ UNCHANGED <<backend, rateVars>>

(* The decrement on the way out, refused or done. *)
GateLeave(w) ==
    /\ job[w] \in {"refused", "hashing"}
    /\ gate' = IF backend = "redis" THEN redisDecr(gate) ELSE decr(gate)
    /\ job' = [job EXCEPT ![w] = IF gate'.n # Gone /\ gate'.n < 0
                                 THEN "floor" ELSE "idle"]
    /\ UNCHANGED <<backend, rateVars>>

(* The second command of RedisStateStore.decr. *)
GateFloor(w) ==
    /\ job[w] = "floor"
    /\ gate' = [n |-> 0, ttl |-> Never]
    /\ job' = [job EXCEPT ![w] = "idle"]
    /\ UNCHANGED <<backend, rateVars>>

(* A process of the cluster dies with what it was doing; an in-memory      *)
(* store dies with it.                                                     *)
GateCrash(w) ==
    /\ job[w] # "idle"
    /\ IF backend = "redis"
       THEN job' = [job EXCEPT ![w] = "idle"] /\ gate' = gate
       ELSE job' = [v \in Workers |-> "idle"] /\ gate' = Missing
    /\ UNCHANGED <<backend, rateVars>>

GateTick ==
    /\ gate' = Aged(gate)
    /\ UNCHANGED <<backend, job, rateVars>>

GateInit ==
    /\ backend \in Backends
    /\ gate = Missing
    /\ job = [w \in Workers |-> "idle"]

GateNext ==
    \/ \E w \in Workers :
          GateEnter(w) \/ GateLeave(w) \/ GateFloor(w) \/ GateCrash(w)
    \/ GateTick

GateSpec == GateInit /\ [][GateNext]_<<gateVars, rateVars>>

-----------------------------------------------------------------------------
(* _dek *)

(* A request finds no key cached and asks the KMS. *)
DekMiss ==
    /\ cache = 0 /\ drawnBufs + misses < BufferMax
    /\ misses' = misses + 1
    /\ UNCHANGED <<cache, timers, zeroed, drawnBufs>>

(* The KMS answers: a timer is set and the buffer cached, over one that    *)
(* another request cached meanwhile.                                       *)
DekUnwrapped ==
    /\ misses > 0
    /\ misses' = misses - 1
    /\ drawnBufs' = drawnBufs + 1
    /\ timers' = timers \cup {drawnBufs + 1}
    /\ cache' = drawnBufs + 1
    /\ UNCHANGED zeroed

(* The KMS fails, and the request with it. *)
KmsFails ==
    /\ misses > 0
    /\ misses' = misses - 1
    /\ UNCHANGED <<cache, timers, zeroed, drawnBufs>>

(* Mutant of DekExpires: the entry is zeroed and stays. *)
DekExpiresStays(b) ==
    /\ b \in timers
    /\ timers' = timers \ {b}
    /\ zeroed' = IF cache # 0 THEN zeroed \cup {cache} ELSE zeroed
    /\ UNCHANGED <<cache, misses, drawnBufs>>

(* A timer fires: whatever is cached for the user is zeroed and evicted. *)
DekExpires(b) ==
    /\ b \in timers
    /\ timers' = timers \ {b}
    /\ IF cache # 0
       THEN zeroed' = zeroed \cup {cache} /\ cache' = 0
       ELSE UNCHANGED <<zeroed, cache>>
    /\ UNCHANGED <<misses, drawnBufs>>

DekInit == cache = 0 /\ timers = {} /\ misses = 0 /\ zeroed = {} /\ drawnBufs = 0

DekExpire == \E b \in 1..BufferMax : DekExpires(b)

DekNext == DekMiss \/ DekUnwrapped \/ KmsFails \/ DekExpire

-----------------------------------------------------------------------------
(* send-setup-otp and verify-setup-otp *)

NoEntry == [code |-> 0, email |-> CHOOSE e \in Emails : TRUE, attempts |-> 0,
            sends |-> 0, tooSoon |-> FALSE, expired |-> FALSE, windowOver |-> FALSE]

Counted(e) == IF e.code = 0 \/ e.windowOver THEN 0 ELSE e.sends

(* A new code replaces the one before; it goes out by mail, or does not. *)
sendSetupOtp(to) ==
    /\ ~entry.tooSoon /\ Counted(entry) < SendMax
    /\ chist.drawn < CodeMax
    /\ entry' = [code |-> chist.drawn + 1, email |-> to, attempts |-> 0,
                 sends |-> Counted(entry) + 1,
                 tooSoon |-> TRUE, expired |-> FALSE, windowOver |-> FALSE]
    /\ chist' = [chist EXCEPT !.drawn = @ + 1,
                              !.sent[chist.drawn + 1] = {to}]

Mismatch ==
    entry' = IF entry.attempts + 1 >= AttemptMax THEN NoEntry
             ELSE [entry EXCEPT !.attempts = @ + 1]

verifySetupOtp(c) ==
    \/ /\ entry.code = 0 \/ entry.expired
       /\ entry' = NoEntry
       /\ UNCHANGED chist
    \/ /\ entry.code # 0 /\ ~entry.expired /\ c # entry.code
       /\ Mismatch
       /\ chist' = [chist EXCEPT !.wrong[entry.code] = @ + 1]
    \/ /\ entry.code # 0 /\ ~entry.expired /\ c = entry.code
       /\ entry' = NoEntry
       /\ chist' = [chist EXCEPT !.proved = @ \cup {<<c, entry.email>>}]

OtpTick ==
    /\ entry.code # 0
    /\ \/ entry.tooSoon /\ entry' = [entry EXCEPT !.tooSoon = FALSE]
       \/ ~entry.tooSoon /\ ~entry.expired /\ entry' = [entry EXCEPT !.expired = TRUE]
       \/ ~entry.windowOver /\ entry' = [entry EXCEPT !.windowOver = TRUE]
    /\ UNCHANGED chist

OtpInit ==
    /\ entry = NoEntry
    /\ chist = [drawn |-> 0, sent |-> [c \in 1..CodeMax |-> {}],
                wrong |-> [c \in 1..CodeMax |-> 0], proved |-> {}]

OtpNext ==
    \/ \E to \in Emails : sendSetupOtp(to)
    \/ \E c \in 0..CodeMax : verifySetupOtp(c)
    \/ OtpTick

(* Both stores, in any order of their steps *)
CachesSpec ==
    /\ DekInit /\ OtpInit
    /\ [][(DekNext /\ UNCHANGED otpVars) \/ (OtpNext /\ UNCHANGED dekVars)]_<<dekVars, otpVars>>

-----------------------------------------------------------------------------
(* Properties *)

StoreTypeOK ==
    /\ gate \in [n : Int \cup {Gone}, ttl : 0..ArgonTtl]
    /\ job \in [Workers -> {"idle", "refused", "hashing", "floor"}]

(* A limiter admits at most twice its limit in any span as long as its     *)
(* window, also when the span straddles the expiry of the counter          *)
(* (incrExpire sets the TTL on the first call only).                       *)
SpanBounded == FoldFunction(+, 0, taken) <= 2 * Limiters[kind].max

(* A caller that was refused is admitted again after a while, even one     *)
(* that never stops calling: refused calls do not renew the TTL.           *)
RefusedReadmitted ==
    (count.n # Gone /\ count.n > Limiters[kind].max)
    ~> (count.n = Gone \/ count.n <= Limiters[kind].max)

(* A positive argon2:active always carries a TTL: through increments,      *)
(* decrements, the two-step floor of the Redis store and crashes, no count *)
(* is left behind that nothing would ever remove.                          *)
GateExpires == gate.n # Gone /\ gate.n > 0 => gate.ttl # Never

(* A full gate opens again, even when the processes that counted           *)
(* themselves in have died and others keep knocking.                       *)
GateReopens ==
    (gate.n # Gone /\ gate.n >= ArgonMax) ~> (gate.n = Gone \/ gate.n < ArgonMax)

(* A request that hits the cache gets a key: the timers that zero buffers, *)
(* also those set by requests whose buffer was replaced, never leave a     *)
(* zeroed buffer in the cache.                                             *)
CachedKeyLive == cache # 0 => cache \notin zeroed

(* A cached key is evicted in the end, though two requests that missed at  *)
(* the same time leave one entry and two timers.                           *)
CachedKeyEvicted == cache # 0 ~> cache = 0

(* An address is proved by the code that was last sent, and to it alone:   *)
(* asking for a code to another address takes the earlier one back.        *)
AddressProved == \A pr \in chist.proved : chist.sent[pr[1]] = {pr[2]}

(* A code can be guessed at AttemptMax times at most, however sending,     *)
(* guessing and timeouts alternate.                                        *)
GuessesBounded == \A c \in 1..CodeMax : chist.wrong[c] <= AttemptMax

(* What the server keeps in memory is good when it is used: a cached key   *)
(* is a key, a code proves the address it went to, and can be guessed at   *)
(* only so often.                                                          *)
CachesSafe == CachedKeyLive /\ AddressProved /\ GuessesBounded
=============================================================================
