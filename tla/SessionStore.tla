---------------------------- MODULE SessionStore ----------------------------
(***************************************************************************)
(* The session store of the daemon (daemon/src/auth/session.rs) and the    *)
(* requests that use it (auth_then! of ipc/grpc_server.rs): a request      *)
(* validates its token, runs its body, and slides the idle deadline when   *)
(* it is done.  Other threads create, rotate and revoke sessions meanwhile *)
(* and the clock goes on.                                                  *)
(*                                                                         *)
(* A token is a number; fresh ones are drawn in order, which is what 32    *)
(* random bytes amount to.  The clock is read before the lock is taken, so *)
(* the value used may be up to Lag behind.                                 *)
(***************************************************************************)
EXTENDS Naturals, FiniteSets, TLC

CONSTANTS
    Users,        \* user ids (vault UUIDs) sessions are created for
    Uids,         \* unix uids (the gRPC server passes 1000 everywhere)
    Workers,      \* requests served concurrently
    Ttl,          \* DEFAULT_TTL_SECS
    AbsoluteTtl,  \* ABSOLUTE_TTL_SECS
    Grace,        \* ROTATION_GRACE_SECS
    MaxPerUser,   \* MAX_SESSIONS_PER_USER
    MaxTotal,     \* MAX_TOTAL_SESSIONS
    Lag,          \* bound on the age of a clock value when it is used
    MaxTokens,    \* bound on the tokens issued
    MaxClock      \* bound on the clock

ASSUME ClockAssumption ==
    /\ Ttl \in Nat \ {0} /\ AbsoluteTtl \in Nat \ {0} /\ Grace \in Nat
    /\ Lag \in Nat /\ MaxTokens \in Nat /\ MaxClock \in Nat
ASSUME CapsAssumption == MaxPerUser \in Nat \ {0} /\ MaxTotal \in Nat \ {0}

VARIABLES
    sessions,   \* SessionStore.sessions: token -> session
    revoked,    \* SessionStore.revoked: token -> time it may be pruned
    next,       \* the next token that random_token returns
    clock,      \* now_secs()
    req,        \* the requests in progress
    reply,      \* outcome of the last create
    born,       \* history: when the first session of a token's chain began
    kicked,     \* history: absolute deadlines of tokens revoke_all_except removed
    graced      \* history: when a token that was rotated away has to end

vars == <<sessions, revoked, next, clock, req, reply, born, kicked, graced>>

Tokens == 1 .. MaxTokens

Session == [user : Users, uid : Uids, created : Nat, idle : Nat, absolute : Nat]

Request == [at : {"idle", "lookup", "body"}, token : Tokens \cup {0}, uid : Uids \cup {0}]

NoRequest == [at |-> "idle", token |-> 0, uid |-> 0]

Recent == {now \in 0 .. clock : clock <= now + Lag}

Earlier(a, b) == IF a <= b THEN a ELSE b

Restricted(f, S) == [t \in DOMAIN f \cap S |-> f[t]]

With(f, t, v) == [x \in DOMAIN f \cup {t} |-> IF x = t THEN v ELSE f[x]]

WithIdle(f, t, deadline) == With(f, t, [f[t] EXCEPT !.idle = deadline])

(* Session::is_valid *)
IsValid(s) == clock < s.idle /\ clock < s.absolute

Live == {t \in DOMAIN sessions : IsValid(sessions[t])}

Of(u, S) == {t \in S : sessions[t].user = u}

Oldest(S) == {t \in S : \A x \in S : sessions[t].created <= sessions[x].created}

-----------------------------------------------------------------------------
(* Mutant of Evicted: one session too many is let in. *)
EvictedAboveCap(u) ==
    LET mine == Of(u, Live) IN
    IF Cardinality(mine) > MaxPerUser THEN {{t} : t \in Oldest(mine)} ELSE {{}}

(* create: expired sessions go first, then the user's oldest when the user *)
(* is at the cap; at the global cap the call fails.                        *)
Evicted(u) ==
    LET mine == Of(u, Live) IN
    IF Cardinality(mine) >= MaxPerUser THEN {{t} : t \in Oldest(mine)} ELSE {{}}

Full(kept) == Cardinality(kept) >= MaxTotal

Create(u, i) ==
    /\ \E now \in Recent, old \in Evicted(u) :
         LET kept == Live \ old
             s == [user |-> u, uid |-> i, created |-> now,
                   idle |-> now + Ttl, absolute |-> now + AbsoluteTtl]
         IN  IF Full(kept)
             THEN /\ sessions' = Restricted(sessions, kept)
                  /\ reply' = "refused"
                  /\ UNCHANGED <<next, born>>
             ELSE /\ next <= MaxTokens
                  /\ sessions' = With(Restricted(sessions, kept), next, s)
                  /\ reply' = "created"
                  /\ next' = next + 1
                  /\ born' = With(born, next, clock)
    /\ UNCHANGED <<revoked, clock, req, kicked, graced>>

(* Mutant of RotatedAbsolute: a new lifetime begins. *)
RotatedAbsoluteAnew(t, now) == now + AbsoluteTtl

RotatedAbsolute(t, now) == sessions[t].absolute

GraceDeadline(t, now) == Earlier(now + Grace, sessions[t].absolute)

(* rotate: the new token inherits the absolute deadline, the old one is    *)
(* left with the grace window.                                             *)
Rotate(t, i) ==
    /\ next <= MaxTokens
    /\ t \in Live
    /\ sessions[t].uid = i
    /\ \E now \in Recent :
         LET absolute == RotatedAbsolute(t, now)
             s == [user |-> sessions[t].user, uid |-> i, created |-> now,
                   idle |-> Earlier(now + Ttl, absolute), absolute |-> absolute]
         IN  sessions' = With(WithIdle(sessions, t, GraceDeadline(t, now)), next, s)
    /\ next' = next + 1
    /\ born' = With(born, next, born[t])
    /\ graced' = With(graced, t, clock + Grace)
    /\ reply' = "none"
    /\ UNCHANGED <<revoked, clock, req, kicked>>

(* revoke_all, called whenever the vault is locked. *)
RevokeAll ==
    /\ sessions' = Restricted(sessions, {})
    /\ reply' = "none"
    /\ UNCHANGED <<revoked, next, clock, req, born, kicked, graced>>

(* Mutant of RevokedUntil: the idle deadline is stored. *)
RevokedUntilIdle(t) == sessions[t].idle

(* How long a removed token stays on the revocation list. *)
RevokedUntil(t) == sessions[t].absolute

(* revoke_all_except, called by the change_password handler from inside    *)
(* its body, for the open vault u and the token of the request.            *)
RevokeAllExcept(w, u) ==
    /\ req[w].at = "body"
    /\ LET out == Of(u, DOMAIN sessions) \ {req[w].token}
       IN  /\ \E now \in Recent :
                LET pruned == Restricted(revoked, {t \in DOMAIN revoked : revoked[t] > now})
                IN  revoked' = [t \in DOMAIN pruned \cup out |->
                                   IF t \in out THEN RevokedUntil(t) ELSE pruned[t]]
           /\ sessions' = Restricted(sessions, DOMAIN sessions \ out)
           /\ kicked' = [t \in DOMAIN kicked \cup out |->
                            IF t \in out THEN sessions[t].absolute ELSE kicked[t]]
    /\ reply' = "none"
    /\ UNCHANGED <<next, clock, req, born, graced>>

-----------------------------------------------------------------------------
(* auth_then!: validate consults the revoked tokens, lets go of their      *)
(* lock, and then looks the session up.                                    *)
Validate(w, t, i) ==
    /\ req[w] = NoRequest
    /\ ~(t \in DOMAIN revoked /\ clock < revoked[t])
    /\ req' = [req EXCEPT ![w] = [at |-> "lookup", token |-> t, uid |-> i]]
    /\ reply' = "none"
    /\ UNCHANGED <<sessions, revoked, next, clock, born, kicked, graced>>

Accepts(t, i) == t \in Live /\ sessions[t].uid = i

Lookup(w) ==
    /\ req[w].at = "lookup"
    /\ req' = [req EXCEPT ![w] = IF Accepts(@.token, @.uid) THEN [@ EXCEPT !.at = "body"]
                                                            ELSE NoRequest]
    /\ reply' = "none"
    /\ UNCHANGED <<sessions, revoked, next, clock, born, kicked, graced>>

(* Mutant of Touch: a removed session is stored anew. *)
TouchInserts(w) ==
    /\ req[w].at = "body"
    /\ \E u \in Users :
         sessions' = With(sessions, req[w].token,
                          [user |-> u, uid |-> req[w].uid, created |-> clock,
                           idle |-> clock + Ttl, absolute |-> clock + AbsoluteTtl])
    /\ req' = [req EXCEPT ![w] = NoRequest]
    /\ reply' = "none"
    /\ UNCHANGED <<revoked, next, clock, born, kicked, graced>>

(* touch, after the body: only the absolute deadline is consulted. *)
Touch(w) ==
    /\ req[w].at = "body"
    /\ \E now \in Recent :
         LET t == req[w].token IN
         sessions' = IF t \in DOMAIN sessions /\ now < sessions[t].absolute
                     THEN WithIdle(sessions, t, Earlier(now + Ttl, sessions[t].absolute))
                     ELSE sessions
    /\ graced' = [t \in DOMAIN graced |->
                    IF t = req[w].token THEN clock + Ttl ELSE graced[t]]
    /\ req' = [req EXCEPT ![w] = NoRequest]
    /\ reply' = "none"
    /\ UNCHANGED <<revoked, next, clock, born, kicked>>

Tick ==
    /\ clock < MaxClock
    /\ clock' = clock + 1
    /\ reply' = "none"
    /\ UNCHANGED <<sessions, revoked, next, req, born, kicked, graced>>

-----------------------------------------------------------------------------
Empty == [t \in {} |-> 0]

Init ==
    /\ sessions = Empty
    /\ revoked = Empty
    /\ next = 1
    /\ clock = 0
    /\ req = [w \in Workers |-> NoRequest]
    /\ reply = "none"
    /\ born = Empty
    /\ kicked = Empty
    /\ graced = Empty

Next ==
    \/ \E u \in Users, i \in Uids : Create(u, i)
    \/ \E t \in Tokens, i \in Uids : Rotate(t, i)
    \/ RevokeAll
    \/ \E w \in Workers, u \in Users : RevokeAllExcept(w, u)
    \/ \E w \in Workers, t \in Tokens, i \in Uids : Validate(w, t, i)
    \/ \E w \in Workers : Lookup(w) \/ Touch(w)
    \/ Tick

Spec == Init /\ [][Next]_vars
-----------------------------------------------------------------------------
(* Properties. *)

(* Every variable keeps the shape of the code's data. *)
TypeOK ==
    /\ DOMAIN sessions \subseteq Tokens
    /\ \A t \in DOMAIN sessions : sessions[t] \in Session
    /\ DOMAIN revoked \subseteq Tokens
    /\ \A t \in DOMAIN revoked : revoked[t] \in Nat
    /\ next \in 1 .. MaxTokens + 1
    /\ clock \in 0 .. MaxClock
    /\ req \in [Workers -> Request]
    /\ reply \in {"none", "created", "refused"}

(* However often it is touched or rotated, no session outlives the         *)
(* absolute lifetime counted from the unlock that began its chain.         *)
AbsoluteDeadline ==
    \A t \in Live : clock < born[t] + AbsoluteTtl

(* A token removed by a password change stays on the revocation list until *)
(* its absolute deadline: pruning never drops it early.                    *)
RevokedUntilAbsolute ==
    \A t \in DOMAIN kicked :
        clock < kicked[t] => t \in DOMAIN revoked /\ clock < revoked[t]

(* At most MAX_SESSIONS_PER_USER sessions of a user and MAX_TOTAL_SESSIONS *)
(* in all are held, as long as rotate, which does not look at the caps,    *)
(* has not been called.                                                    *)
WithinCaps ==
    DOMAIN graced = {} =>
        /\ Cardinality(DOMAIN sessions) <= MaxTotal
        /\ \A u \in Users : Cardinality(Of(u, DOMAIN sessions)) <= MaxPerUser

(* A token that has left the store does not come back: neither the touch  *)
(* of a request that was under way when it was revoked nor a rotation      *)
(* restores it.                                                            *)
NoneRestored ==
    \A t \in 1 .. next - 1 : t \notin DOMAIN sessions => t \notin DOMAIN sessions'

(* A create that is refused costs nobody a session that was still valid,   *)
(* as long as rotate has not been called: a user whose oldest session was  *)
(* evicted has made room for the new one.  (Once rotate took the store     *)
(* above its caps, create evicts a session and refuses all the same.)      *)
NoneLost ==
    DOMAIN graced = {} /\ reply' = "refused" => Live \subseteq DOMAIN sessions'

(* No step of the store brings a removed token back, nor loses one for     *)
(* nothing.                                                                *)
TokensSettled == [][NoneRestored /\ NoneLost]_vars

(* A token that was rotated away is dead once the grace window is over, or *)
(* the idle period after the last request that carried it, which may begin *)
(* again and again: touch does not tell a rotated token from another.      *)
GraceEnds ==
    \A t \in DOMAIN graced : clock >= graced[t] => t \notin Live

(* Sessions end when they have to, whatever is touched and rotated and     *)
(* however stale the clock values used for it.                             *)
DeadlinesKept == AbsoluteDeadline /\ GraceEnds

(* No operation tells two users or two workers apart (symmetry for TLC). *)
Interchangeable == Permutations(Users) \cup Permutations(Workers)
=============================================================================
