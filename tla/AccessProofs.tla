---------------------------- MODULE AccessProofs ----------------------------
(***************************************************************************)
(* Proofs about SessionStore and Lockout: who may use the daemon's vault.  *)
(*                                                                         *)
(* Sessions, for every number of users, workers and tokens and every       *)
(* length of the deadlines.  IndInv adds to the properties what ties the   *)
(* store to its history: only tokens already issued are stored, a          *)
(* session's absolute deadline is bounded by the birth of its chain, and   *)
(* the revocation list still holds the deadline of every token removed by  *)
(* a password change.  On top of it, GraceInv bounds the deadlines of a    *)
(* token that was rotated away, and CapInv the number of sessions until    *)
(* the first rotation.                                                     *)
(*                                                                         *)
(* Lockouts, for every number of overlapping attempts, every schedule that *)
(* does not shorten and every duress limit.  LockoutInv adds to the types  *)
(* that a tracker never counts more than the failures since its last reset *)
(* (an attempt that overlaps a success would otherwise carry old failures  *)
(* into the limit), and that a lockout never has more left to run than its *)
(* count in the schedule gives: without it a further failure could shorten *)
(* it.                                                                     *)
(***************************************************************************)
EXTENDS SessionStore, Lockout, FiniteSetTheorems, TLAPS

-----------------------------------------------------------------------------
(* Sessions *)

IssuedInv ==
    /\ DOMAIN sessions \subseteq 1 .. next - 1
    /\ DOMAIN born = 1 .. next - 1
    /\ \A t \in DOMAIN born : born[t] \in Nat

BirthInv ==
    \A t \in DOMAIN sessions : sessions[t].absolute <= born[t] + AbsoluteTtl

RevokedInv ==
    \A t \in DOMAIN kicked :
        /\ kicked[t] \in Nat
        /\ clock < kicked[t] => t \in DOMAIN revoked /\ revoked[t] = kicked[t]

IndInv == TypeOK /\ IssuedInv /\ BirthInv /\ RevokedInv

USE ClockAssumption

-----------------------------------------------------------------------------
(* When an idle deadline moves, all sessions keep their absolute deadlines. *)
LEMMA WithIdleFacts ==
  ASSUME IndInv, NEW t \in DOMAIN sessions, NEW d \in Nat
  PROVE  LET f == WithIdle(sessions, t, d) IN
           /\ DOMAIN f = DOMAIN sessions
           /\ \A x \in DOMAIN sessions :
                f[x] \in Session /\ f[x].absolute = sessions[x].absolute
  <1>1. \A x \in DOMAIN sessions : sessions[x] \in Session
    BY DEF IndInv, TypeOK
  <1>2. [sessions[t] EXCEPT !.idle = d] \in Session
        /\ [sessions[t] EXCEPT !.idle = d].absolute = sessions[t].absolute
    BY <1>1 DEF Session
  <1> DEFINE v == [sessions[t] EXCEPT !.idle = d]
  <1>3. WithIdle(sessions, t, d) = With(sessions, t, v)
    BY Zenon DEF WithIdle
  <1> HIDE DEF v
  <1>4. v \in Session /\ v.absolute = sessions[t].absolute
    BY <1>2 DEF v
  <1> QED BY <1>1, <1>3, <1>4 DEF With

LEMMA SessionFields ==
  ASSUME NEW s \in Session
  PROVE  s.user \in Users /\ s.uid \in Uids /\ s.created \in Nat /\ s.idle \in Nat
         /\ s.absolute \in Nat
  BY DEF Session

(* A clock value in use is a natural number not ahead of the clock. *)
LEMMA RecentFacts ==
  ASSUME TypeOK, NEW now \in Recent
  PROVE  now \in Nat /\ now <= clock /\ clock \in Nat
  BY DEF Recent, TypeOK

(* A step that only removes sessions. *)
LEMMA RemovalInv ==
  ASSUME IndInv, NEW S, sessions' = Restricted(sessions, S),
         UNCHANGED <<next, born, clock, req>>
  PROVE  /\ DOMAIN sessions' \subseteq Tokens
         /\ \A t \in DOMAIN sessions' : sessions'[t] \in Session
         /\ IssuedInv' /\ BirthInv'
  <1>1. DOMAIN sessions' \subseteq DOMAIN sessions
        /\ \A t \in DOMAIN sessions' : sessions'[t] = sessions[t]
    BY DEF Restricted
  <1> QED BY <1>1 DEF IndInv, TypeOK, IssuedInv, BirthInv

(* A session inserted under the next token, over a store whose other       *)
(* sessions keep their absolute deadlines.                                 *)
LEMMA InsertInv ==
  ASSUME IndInv, next <= MaxTokens, NEW f, NEW s \in Session, NEW b \in Nat,
         DOMAIN f \subseteq DOMAIN sessions,
         \A t \in DOMAIN f : f[t] \in Session /\ f[t].absolute = sessions[t].absolute,
         s.absolute <= b + AbsoluteTtl,
         sessions' = With(f, next, s), next' = next + 1, born' = With(born, next, b),
         UNCHANGED <<clock, req, revoked, kicked>>,
         reply' \in {"none", "created"}
  PROVE  IndInv'
  <1>1. /\ DOMAIN sessions' = DOMAIN f \cup {next} /\ sessions'[next] = s
        /\ \A x \in DOMAIN f : x # next => sessions'[x] = f[x]
    BY DEF With
  <1>2. /\ DOMAIN born' = DOMAIN born \cup {next} /\ born'[next] = b
        /\ \A x \in DOMAIN born : x # next => born'[x] = born[x]
    BY DEF With
  <1>3. next \in Nat /\ next \in Tokens /\ next \notin DOMAIN f /\ next \notin DOMAIN born
        /\ 1 .. next' - 1 = (1 .. next - 1) \cup {next}
    BY DEF IndInv, TypeOK, IssuedInv, Tokens
  <1>4. TypeOK'
    BY <1>1, <1>3 DEF IndInv, TypeOK, Tokens
  <1>5. IssuedInv'
    BY <1>1, <1>2, <1>3 DEF IndInv, IssuedInv
  <1>6. BirthInv'
    <2> SUFFICES ASSUME NEW t \in DOMAIN sessions'
                 PROVE  sessions'[t].absolute <= born'[t] + AbsoluteTtl
      BY DEF BirthInv
    <2>1. CASE t = next
      BY <1>1, <1>2, <2>1
    <2>2. CASE t # next
      <3>1. t \in DOMAIN f /\ t \in DOMAIN sessions /\ t \in DOMAIN born
        BY <1>1, <2>2 DEF IndInv, IssuedInv
      <3> QED BY <1>1, <1>2, <2>2, <3>1 DEF IndInv, BirthInv
    <2> QED BY <2>1, <2>2
  <1>7. RevokedInv'
    BY DEF IndInv, RevokedInv
  <1> QED BY <1>4, <1>5, <1>6, <1>7 DEF IndInv

-----------------------------------------------------------------------------
LEMMA IndInit == Init => IndInv
  BY DEF Init, IndInv, TypeOK, IssuedInv, BirthInv, RevokedInv, Empty, NoRequest,
         Request, Tokens

LEMMA CreateInv ==
  ASSUME IndInv, NEW u \in Users, NEW i \in Uids, Create(u, i)
  PROVE  IndInv'
  <1>1. PICK now \in Recent, old \in Evicted(u) :
          LET kept == Live \ old
              s == [user |-> u, uid |-> i, created |-> now,
                    idle |-> now + Ttl, absolute |-> now + AbsoluteTtl]
          IN  IF Cardinality(kept) >= MaxTotal
              THEN /\ sessions' = Restricted(sessions, kept)
                   /\ reply' = "refused"
                   /\ UNCHANGED <<next, born>>
              ELSE /\ next <= MaxTokens
                   /\ sessions' = With(Restricted(sessions, kept), next, s)
                   /\ reply' = "created"
                   /\ next' = next + 1
                   /\ born' = With(born, next, clock)
    BY Zenon DEF Create, Full
  <1> DEFINE kept == Live \ old
             f == Restricted(sessions, kept)
             s == [user |-> u, uid |-> i, created |-> now,
                   idle |-> now + Ttl, absolute |-> now + AbsoluteTtl]
  <1>2. UNCHANGED <<revoked, clock, req, kicked>>
    BY DEF Create
  <1>3. CASE sessions' = f /\ reply' = "refused" /\ UNCHANGED <<next, born>>
    <2>1. TypeOK' /\ IssuedInv' /\ BirthInv'
      BY <1>2, <1>3, RemovalInv, Zenon DEF IndInv, TypeOK
    <2> QED BY <1>2, <2>1 DEF IndInv, RevokedInv
  <1>4. CASE next <= MaxTokens /\ sessions' = With(f, next, s) /\ reply' = "created"
             /\ next' = next + 1 /\ born' = With(born, next, clock)
    <2>1. now \in Nat /\ now <= clock /\ clock \in Nat
      BY RecentFacts DEF IndInv
    <2>2. s \in Session /\ s.absolute <= clock + AbsoluteTtl
      BY <2>1 DEF Session
    <2>3. DOMAIN f \subseteq DOMAIN sessions
          /\ \A t \in DOMAIN f : f[t] \in Session /\ f[t].absolute = sessions[t].absolute
      BY DEF Restricted, IndInv, TypeOK
    <2> HIDE DEF f, s
    <2> QED BY <1>2, <1>4, <2>1, <2>2, <2>3, InsertInv
  <1> QED BY <1>1, <1>3, <1>4

LEMMA RotateInv ==
  ASSUME IndInv, NEW t \in Tokens, NEW i \in Uids, Rotate(t, i)
  PROVE  IndInv'
  <1>1. t \in DOMAIN sessions /\ sessions[t] \in Session /\ next <= MaxTokens
        /\ t \in DOMAIN born /\ born[t] \in Nat
        /\ UNCHANGED <<revoked, clock, req, kicked>>
    BY DEF Rotate, Live, IndInv, TypeOK, IssuedInv
  <1> DEFINE absolute == sessions[t].absolute
  <1>2. PICK now \in Recent :
          sessions' = With(WithIdle(sessions, t, Earlier(now + Grace, absolute)), next,
                          [user |-> sessions[t].user, uid |-> i, created |-> now,
                           idle |-> Earlier(now + Ttl, absolute), absolute |-> absolute])
    BY DEF Rotate, RotatedAbsolute, GraceDeadline
  <1> DEFINE f == WithIdle(sessions, t, Earlier(now + Grace, absolute))
             s == [user |-> sessions[t].user, uid |-> i, created |-> now,
                   idle |-> Earlier(now + Ttl, absolute), absolute |-> absolute]
  <1>3. now \in Nat /\ absolute \in Nat /\ sessions[t].user \in Users
    BY <1>1, RecentFacts, SessionFields DEF IndInv
  <1>4. Earlier(now + Grace, absolute) \in Nat /\ Earlier(now + Ttl, absolute) \in Nat
    BY <1>3 DEF Earlier
  <1>5. s \in Session /\ s.absolute <= born[t] + AbsoluteTtl
    BY <1>1, <1>3, <1>4 DEF Session, IndInv, BirthInv
  <1>6. DOMAIN f \subseteq DOMAIN sessions
        /\ \A x \in DOMAIN f : f[x] \in Session /\ f[x].absolute = sessions[x].absolute
    BY <1>1, <1>4, WithIdleFacts
  <1>7. next' = next + 1 /\ born' = With(born, next, born[t]) /\ reply' = "none"
    BY DEF Rotate
  <1> HIDE DEF f, s
  <1> QED BY <1>1, <1>2, <1>5, <1>6, <1>7, InsertInv DEF f, s

LEMMA RevokeAllInv ==
  ASSUME IndInv, RevokeAll
  PROVE  IndInv'
  <1>1. TypeOK' /\ IssuedInv' /\ BirthInv'
    BY RemovalInv DEF RevokeAll, IndInv, TypeOK
  <1> QED BY <1>1 DEF RevokeAll, IndInv, RevokedInv

LEMMA RevokeAllExceptInv ==
  ASSUME IndInv, NEW w \in Workers, NEW u \in Users, RevokeAllExcept(w, u)
  PROVE  IndInv'
  <1> DEFINE out == Of(u, DOMAIN sessions) \ {req[w].token}
  <1>1. out \subseteq DOMAIN sessions /\ \A t \in out : sessions[t].absolute \in Nat
    BY SessionFields DEF Of, IndInv, TypeOK
  <1>2. PICK now \in Recent :
          LET pruned == Restricted(revoked, {t \in DOMAIN revoked : revoked[t] > now})
          IN  revoked' = [t \in DOMAIN pruned \cup out |->
                             IF t \in out THEN sessions[t].absolute ELSE pruned[t]]
    BY DEF RevokeAllExcept, RevokedUntil
  <1>3. /\ sessions' = Restricted(sessions, DOMAIN sessions \ out)
        /\ kicked' = [t \in DOMAIN kicked \cup out |->
                         IF t \in out THEN sessions[t].absolute ELSE kicked[t]]
        /\ UNCHANGED <<next, clock, req, born, graced>> /\ reply' = "none"
    BY DEF RevokeAllExcept
  <1> HIDE DEF out
  <1>4. now \in Nat /\ now <= clock /\ clock \in Nat
    BY RecentFacts DEF IndInv
  <1>5. /\ DOMAIN revoked' = {t \in DOMAIN revoked : revoked[t] > now} \cup out
        /\ \A t \in DOMAIN revoked' :
             revoked'[t] = IF t \in out THEN sessions[t].absolute ELSE revoked[t]
    BY <1>2 DEF Restricted
  <1>6. TypeOK' /\ IssuedInv' /\ BirthInv'
    <2>1. DOMAIN sessions' \subseteq Tokens
          /\ (\A t \in DOMAIN sessions' : sessions'[t] \in Session)
          /\ IssuedInv' /\ BirthInv'
      BY <1>3, RemovalInv, Zenon
    <2> QED BY <1>1, <1>3, <1>5, <2>1, Zenon DEF IndInv, TypeOK
  <1>7. RevokedInv'
    <2> SUFFICES ASSUME NEW t \in DOMAIN kicked'
                 PROVE  /\ kicked'[t] \in Nat
                        /\ clock < kicked'[t] =>
                             t \in DOMAIN revoked' /\ revoked'[t] = kicked'[t]
      BY <1>3, Zenon DEF RevokedInv
    <2>1. CASE t \in out
      BY <1>1, <1>3, <1>5, <2>1
    <2>2. CASE t \notin out
      <3>1. t \in DOMAIN kicked /\ kicked'[t] = kicked[t]
        BY <1>3, <2>2
      <3> QED BY <1>4, <1>5, <2>2, <3>1 DEF IndInv, RevokedInv
    <2> QED BY <2>1, <2>2
  <1> QED BY <1>6, <1>7 DEF IndInv

LEMMA RequestInv ==
  ASSUME IndInv, NEW w \in Workers,
         \/ \E t \in Tokens, i \in Uids : Validate(w, t, i)
         \/ Lookup(w)
  PROVE  IndInv'
  <1>1. UNCHANGED <<sessions, revoked, next, born, kicked>> /\ reply' = "none"
    BY DEF Validate, Lookup
  <1>2. req' \in [Workers -> Request]
    BY DEF Validate, Lookup, IndInv, TypeOK, Request, NoRequest
  <1>3. clock' = clock
    BY DEF Validate, Lookup
  <1> QED BY <1>1, <1>2, <1>3
          DEF IndInv, TypeOK, IssuedInv, BirthInv, RevokedInv

LEMMA TouchInv ==
  ASSUME IndInv, NEW w \in Workers, Touch(w)
  PROVE  IndInv'
  <1>1. UNCHANGED <<revoked, next, clock, born, kicked>> /\ reply' = "none"
        /\ req' \in [Workers -> Request]
    BY DEF Touch, IndInv, TypeOK, Request, NoRequest
  <1>2. /\ DOMAIN sessions' = DOMAIN sessions
        /\ \A x \in DOMAIN sessions : sessions'[x] \in Session
                                      /\ sessions'[x].absolute = sessions[x].absolute
    <2> DEFINE t == req[w].token
    <2>1. PICK now \in Recent :
            sessions' = IF t \in DOMAIN sessions /\ now < sessions[t].absolute
                        THEN WithIdle(sessions, t, Earlier(now + Ttl, sessions[t].absolute))
                        ELSE sessions
      BY DEF Touch
    <2>2. CASE ~(t \in DOMAIN sessions /\ now < sessions[t].absolute)
      BY <2>1, <2>2, Zenon DEF IndInv, TypeOK
    <2>3. CASE t \in DOMAIN sessions /\ now < sessions[t].absolute
      <3>1. sessions[t] \in Session /\ now \in Nat /\ sessions[t].absolute \in Nat
        BY <2>3, RecentFacts, SessionFields DEF IndInv, TypeOK
      <3>2. Earlier(now + Ttl, sessions[t].absolute) \in Nat
        BY <3>1 DEF Earlier
      <3> QED BY <2>1, <2>3, <3>2, WithIdleFacts
    <2> QED BY <2>2, <2>3
  <1> QED BY <1>1, <1>2 DEF IndInv, TypeOK, IssuedInv, BirthInv, RevokedInv

LEMMA IndNext == IndInv /\ [Next]_vars => IndInv'
  <1> SUFFICES ASSUME IndInv, [Next]_vars PROVE IndInv'
    OBVIOUS
  <1>1. CASE UNCHANGED vars
    BY <1>1 DEF vars, IndInv, TypeOK, IssuedInv, BirthInv, RevokedInv
  <1>2. CASE Tick
    <2>1. clock' \in 0 .. MaxClock /\ clock <= clock' /\ clock \in Nat
      BY <1>2 DEF Tick, IndInv, TypeOK
    <2> QED BY <1>2, <2>1 DEF Tick, IndInv, TypeOK, IssuedInv, BirthInv, RevokedInv
  <1>3. CASE Next /\ ~Tick
    BY <1>3, CreateInv, RotateInv, RevokeAllInv, RevokeAllExceptInv, RequestInv,
       TouchInv
    DEF Next
  <1> QED BY <1>1, <1>2, <1>3

(* Type correctness of the store, the revocation list and the requests. *)
THEOREM TypeCorrect == Spec => []TypeOK
  <1>1. IndInv => TypeOK
    BY DEF IndInv
  <1> QED BY <1>1, IndInit, IndNext, PTL DEF Spec

(* validate refuses a token that a password change removed for as long as  *)
(* the token could have lived, whatever prunes the revocation list.        *)
THEOREM RevokedStayRevoked == Spec => []RevokedUntilAbsolute
  <1>1. IndInv => RevokedUntilAbsolute
    BY DEF IndInv, RevokedInv, RevokedUntilAbsolute
  <1> QED BY <1>1, IndInit, IndNext, PTL DEF Spec

(* A step stores only tokens that were stored before it, or a fresh one. *)
LEMMA StoredStep ==
  ASSUME IndInv, [Next]_vars
  PROVE  \A t \in 1 .. next - 1 : t \notin DOMAIN sessions => t \notin DOMAIN sessions'
  <1>0. next \in Nat
    BY DEF IndInv, TypeOK
  <1>1. DOMAIN sessions' \subseteq DOMAIN sessions \cup {next}
    <2>1. ASSUME NEW u \in Users, NEW i \in Uids, Create(u, i)
          PROVE  DOMAIN sessions' \subseteq DOMAIN sessions \cup {next}
      BY <2>1 DEF Create, Restricted, With
    <2>2. ASSUME NEW t \in Tokens, NEW i \in Uids, Rotate(t, i)
          PROVE  DOMAIN sessions' \subseteq DOMAIN sessions \cup {next}
      BY <2>2, Zenon DEF Rotate, WithIdle, With, Live
    <2>3. ASSUME NEW w \in Workers, NEW u \in Users, RevokeAllExcept(w, u)
          PROVE  DOMAIN sessions' \subseteq DOMAIN sessions \cup {next}
      BY <2>3 DEF RevokeAllExcept, Restricted
    <2>4. ASSUME NEW w \in Workers, Touch(w)
          PROVE  DOMAIN sessions' \subseteq DOMAIN sessions \cup {next}
      BY <2>4 DEF Touch, WithIdle, With
    <2>5. CASE RevokeAll
      BY <2>5 DEF RevokeAll, Restricted
    <2>6. CASE UNCHANGED sessions
      BY <2>6
    <2> QED BY <2>1, <2>2, <2>3, <2>4, <2>5, <2>6
            DEF Next, Validate, Lookup, Tick, vars
  <1> QED BY <1>0, <1>1

(* What create keeps of the store, and what it adds. *)
LEMMA CreateStep ==
  ASSUME IndInv, NEW u \in Users, NEW i \in Uids, Create(u, i)
  PROVE  \E old \in Evicted(u) :
           /\ \A t \in Live \ old : sessions'[t] = sessions[t]
           /\ \/ /\ Full(Live \ old) /\ reply' = "refused" /\ next' = next
                 /\ DOMAIN sessions' = Live \ old
              \/ /\ ~Full(Live \ old) /\ reply' = "created" /\ next' = next + 1
                 /\ DOMAIN sessions' = (Live \ old) \cup {next}
                 /\ sessions'[next].user = u
  <1>1. PICK now \in Recent, old \in Evicted(u) :
          LET s == [user |-> u, uid |-> i, created |-> now,
                    idle |-> now + Ttl, absolute |-> now + AbsoluteTtl]
          IN  IF Full(Live \ old)
              THEN sessions' = Restricted(sessions, Live \ old) /\ reply' = "refused"
                   /\ UNCHANGED <<next, born>>
              ELSE sessions' = With(Restricted(sessions, Live \ old), next, s)
                   /\ reply' = "created" /\ next' = next + 1
    BY Zenon DEF Create
  <1> DEFINE kept == Live \ old
  <1>2. kept \subseteq DOMAIN sessions /\ next \notin DOMAIN sessions
    BY DEF Live, IndInv, TypeOK, IssuedInv
  <1>3. DOMAIN Restricted(sessions, kept) = kept
        /\ \A t \in kept : Restricted(sessions, kept)[t] = sessions[t]
    BY <1>2 DEF Restricted
  <1> HIDE DEF kept
  <1>4. CASE Full(kept)
    BY <1>1, <1>3, <1>4, Zenon DEF kept
  <1>5. CASE ~Full(kept)
    <2> DEFINE s == [user |-> u, uid |-> i, created |-> now,
                     idle |-> now + Ttl, absolute |-> now + AbsoluteTtl]
    <2>1. sessions' = With(Restricted(sessions, kept), next, s) /\ s.user = u
          /\ reply' = "created" /\ next' = next + 1
      BY <1>1, <1>5 DEF kept
    <2> HIDE DEF s
    <2>2. DOMAIN sessions' = kept \cup {next} /\ sessions'[next].user = u
          /\ \A t \in kept : sessions'[t] = sessions[t]
      BY <1>2, <1>3, <2>1 DEF With
    <2> QED BY <1>5, <2>1, <2>2, Zenon DEF kept
  <1> QED BY <1>4, <1>5, Zenon

-----------------------------------------------------------------------------
(* Deadlines *)

GraceInv ==
    /\ DOMAIN graced \subseteq 1 .. next - 1
    /\ \A t \in DOMAIN graced :
          /\ graced[t] \in Nat
          /\ t \in DOMAIN sessions =>
                sessions[t].idle <= graced[t] \/ sessions[t].absolute <= graced[t]

(* A step that leaves graced alone, and the sessions it keeps of tokens    *)
(* already issued.                                                         *)
LEMMA GraceKept ==
  ASSUME GraceInv, UNCHANGED graced, next' >= next, next \in Nat, next' \in Nat,
         \A t \in DOMAIN sessions' :
            t \in 1 .. next - 1 => t \in DOMAIN sessions /\ sessions'[t] = sessions[t]
  PROVE  GraceInv'
  BY DEF GraceInv

LEMMA GraceNext ==
  ASSUME IndInv, GraceInv, [Next]_vars
  PROVE  GraceInv'
  <1>0. next \in Nat /\ next' \in Nat /\ clock \in Nat
    BY IndNext DEF IndInv, TypeOK
  <1>1. ASSUME NEW u \in Users, NEW i \in Uids, Create(u, i)
        PROVE  GraceInv'
    <2>1. UNCHANGED graced /\ (next' = next \/ next' = next + 1)
      BY <1>1 DEF Create
    <2>2. \A t \in DOMAIN sessions' :
             t \in 1 .. next - 1 => t \in DOMAIN sessions /\ sessions'[t] = sessions[t]
      <3>1. PICK old \in Evicted(u) :
               /\ \A t \in Live \ old : sessions'[t] = sessions[t]
               /\ DOMAIN sessions' \subseteq (Live \ old) \cup {next}
        BY <1>1, CreateStep, Zenon
      <3>2. Live \subseteq DOMAIN sessions /\ next \notin 1 .. next - 1
        BY <1>0 DEF Live
      <3> QED BY <3>1, <3>2
    <2> QED BY <1>0, <2>1, <2>2, GraceKept
  <1>2. ASSUME NEW t \in Tokens, NEW i \in Uids, Rotate(t, i)
        PROVE  GraceInv'
    <2>1. t \in DOMAIN sessions /\ sessions[t] \in Session /\ t \in 1 .. next - 1
          /\ next' = next + 1
      BY <1>2, Zenon DEF Rotate, Live, IndInv, TypeOK, IssuedInv
    <2>2. PICK now \in Recent : \E s : sessions' =
             With(WithIdle(sessions, t, Earlier(now + Grace, sessions[t].absolute)), next, s)
      BY <1>2 DEF Rotate, GraceDeadline
    <2>3. now \in Nat /\ now <= clock /\ sessions[t].absolute \in Nat
      BY <2>1, RecentFacts, SessionFields DEF IndInv
    <2>4. \A x \in DOMAIN sessions' : x \in 1 .. next - 1 /\ x # t =>
             x \in DOMAIN sessions /\ sessions'[x] = sessions[x]
      BY <1>0, <2>1, <2>2 DEF With, WithIdle
    <2>5. sessions'[t].idle = Earlier(now + Grace, sessions[t].absolute)
      <3>1. sessions'[t] = [sessions[t] EXCEPT !.idle = Earlier(now + Grace, sessions[t].absolute)]
        BY <1>0, <2>1, <2>2 DEF With, WithIdle
      <3> QED BY <2>1, <3>1 DEF Session
    <2>6. sessions'[t].idle <= clock + Grace
      BY <1>0, <2>3, <2>5 DEF Earlier
    <2>7. DOMAIN graced' = DOMAIN graced \cup {t} /\ graced'[t] = clock + Grace
          /\ \A x \in DOMAIN graced : x # t => graced'[x] = graced[x]
      BY <1>2, Zenon DEF Rotate, With
    <2> QED BY <1>0, <2>1, <2>4, <2>6, <2>7, SMTT(30) DEF GraceInv
  <1>3. ASSUME NEW w \in Workers, NEW u \in Users, RevokeAllExcept(w, u)
        PROVE  GraceInv'
    BY <1>0, <1>3, GraceKept DEF RevokeAllExcept, Restricted
  <1>4. CASE RevokeAll
    BY <1>0, <1>4, GraceKept DEF RevokeAll, Restricted
  <1>5. ASSUME NEW w \in Workers, Touch(w)
        PROVE  GraceInv'
    <2> DEFINE t == req[w].token
    <2>1. PICK now \in Recent :
            sessions' = IF t \in DOMAIN sessions /\ now < sessions[t].absolute
                        THEN WithIdle(sessions, t, Earlier(now + Ttl, sessions[t].absolute))
                        ELSE sessions
      BY <1>5 DEF Touch
    <2>2. now \in Nat /\ now <= clock
      BY RecentFacts DEF IndInv
    <2>3. DOMAIN sessions' = DOMAIN sessions
          /\ \A x \in DOMAIN sessions : x # t => sessions'[x] = sessions[x]
      BY <2>1, Zenon DEF WithIdle, With
    <2>4. t \in DOMAIN sessions =>
             sessions'[t].idle <= clock + Ttl \/ sessions'[t].absolute <= clock + Ttl
      <3> SUFFICES ASSUME t \in DOMAIN sessions
                   PROVE  sessions'[t].idle <= clock + Ttl \/ sessions'[t].absolute <= clock + Ttl
        OBVIOUS
      <3>1. sessions[t] \in Session /\ sessions[t].absolute \in Nat
        BY SessionFields DEF IndInv, TypeOK
      <3>2. CASE now < sessions[t].absolute
        <4>1. sessions'[t] = [sessions[t] EXCEPT !.idle = Earlier(now + Ttl, sessions[t].absolute)]
          BY <2>1, <3>2 DEF WithIdle, With
        <4>2. sessions'[t].idle = Earlier(now + Ttl, sessions[t].absolute)
          BY <3>1, <4>1 DEF Session
        <4> QED BY <1>0, <2>2, <3>1, <4>2 DEF Earlier
      <3>3. CASE ~(now < sessions[t].absolute)
        BY <1>0, <2>1, <2>2, <3>1, <3>3
      <3> QED BY <3>2, <3>3, Zenon
    <2>5. DOMAIN graced' = DOMAIN graced /\ next' = next
          /\ \A x \in DOMAIN graced :
                graced'[x] = IF x = t THEN clock + Ttl ELSE graced[x]
      BY <1>5 DEF Touch
    <2> HIDE DEF t
    <2> QED BY <1>0, <2>3, <2>4, <2>5 DEF GraceInv
  <1>6. CASE UNCHANGED <<sessions, next, graced>>
    BY <1>6 DEF GraceInv
  <1> QED BY <1>1, <1>2, <1>3, <1>4, <1>5, <1>6, Zenon DEF Next, Validate, Lookup, Tick, vars

(* No session is valid beyond ABSOLUTE_TTL_SECS after the unlock that      *)
(* began its chain, however it is touched and rotated, and a token that    *)
(* rotate replaced is dead when its grace window, or the idle period after *)
(* the last request with it, is over.                                      *)
THEOREM DeadlinesAlwaysKept == Spec => []DeadlinesKept
  <1>1. Init => GraceInv
    BY DEF Init, GraceInv, Empty
  <1>2. IndInv => AbsoluteDeadline
    <2> SUFFICES ASSUME IndInv, NEW t \in Live PROVE clock < born[t] + AbsoluteTtl
      BY DEF AbsoluteDeadline
    <2>1. t \in DOMAIN sessions /\ clock < sessions[t].absolute
          /\ sessions[t].absolute <= born[t] + AbsoluteTtl
      BY DEF Live, IsValid, IndInv, BirthInv
    <2>2. clock \in Nat /\ sessions[t].absolute \in Nat /\ born[t] \in Nat
      BY <2>1, SessionFields DEF IndInv, TypeOK, IssuedInv
    <2> QED BY <2>1, <2>2
  <1>3. IndInv /\ GraceInv => GraceEnds
    <2> SUFFICES ASSUME IndInv, GraceInv, NEW t \in DOMAIN graced, clock >= graced[t], t \in Live
                 PROVE  FALSE
      BY DEF GraceEnds
    <2>1. t \in DOMAIN sessions /\ clock < sessions[t].absolute /\ clock < sessions[t].idle
      BY DEF Live, IsValid
    <2>2. clock \in Nat /\ sessions[t].absolute \in Nat /\ sessions[t].idle \in Nat
          /\ graced[t] \in Nat
      BY <2>1, SessionFields DEF IndInv, TypeOK, GraceInv
    <2> QED BY <2>1, <2>2 DEF GraceInv
  <1>4. IndInv /\ GraceInv => DeadlinesKept
    BY <1>2, <1>3 DEF DeadlinesKept
  <1>5. IndInv /\ GraceInv /\ [Next]_vars => GraceInv'
    BY GraceNext
  <1> QED BY <1>1, <1>4, <1>5, IndInit, IndNext, PTL DEF Spec

-----------------------------------------------------------------------------
(* Caps *)

(* Sets of issued tokens are finite, and so are their parts. *)
LEMMA TokensFinite ==
  ASSUME IndInv, NEW S \in SUBSET DOMAIN sessions
  PROVE  IsFiniteSet(S) /\ Cardinality(S) \in Nat
         /\ Cardinality(S) <= Cardinality(DOMAIN sessions)
  <1>1. IsFiniteSet(1 .. MaxTokens)
    BY FS_Interval
  <1>2. IsFiniteSet(DOMAIN sessions)
    BY <1>1, FS_Subset DEF IndInv, TypeOK, Tokens
  <1> QED BY <1>2, FS_Subset, FS_CardinalityType

(* A step after which every stored session was stored before, for the same *)
(* user, keeps the caps.                                                   *)
LEMMA CapsShrink ==
  ASSUME IndInv, WithinCaps, DOMAIN graced' = {} => DOMAIN graced = {},
         DOMAIN sessions' \subseteq DOMAIN sessions,
         \A t \in DOMAIN sessions' : sessions'[t].user = sessions[t].user
  PROVE  WithinCaps'
  <1> SUFFICES ASSUME DOMAIN graced' = {}
               PROVE  /\ Cardinality(DOMAIN sessions') <= MaxTotal
                      /\ \A u \in Users : Cardinality(Of(u, DOMAIN sessions)') <= MaxPerUser
    BY DEF WithinCaps
  <1>1. Cardinality(DOMAIN sessions') <= MaxTotal
    BY TokensFinite, CapsAssumption DEF WithinCaps
  <1>2. ASSUME NEW u \in Users
        PROVE  Cardinality(Of(u, DOMAIN sessions)') <= MaxPerUser
    <2>1. Of(u, DOMAIN sessions)' \subseteq Of(u, DOMAIN sessions)
          /\ Of(u, DOMAIN sessions) \subseteq DOMAIN sessions
      BY DEF Of
    <2>2. IsFiniteSet(Of(u, DOMAIN sessions)) /\ Cardinality(Of(u, DOMAIN sessions)) \in Nat
      BY <2>1, TokensFinite
    <2>3. Cardinality(Of(u, DOMAIN sessions)') \in Nat
      BY <2>1, TokensFinite
    <2>4. Cardinality(Of(u, DOMAIN sessions)') <= Cardinality(Of(u, DOMAIN sessions))
      BY <2>1, <2>2, FS_Subset
    <2> QED BY <2>2, <2>3, <2>4, CapsAssumption DEF WithinCaps
  <1> QED BY <1>1, <1>2

LEMMA CapsCreate ==
  ASSUME IndInv, WithinCaps, NEW u \in Users, NEW i \in Uids, Create(u, i)
  PROVE  WithinCaps' /\ NoneLost
  <1>1. UNCHANGED graced
    BY Zenon DEF Create
  <1> SUFFICES ASSUME DOMAIN graced = {}
               PROVE  /\ Cardinality(DOMAIN sessions') <= MaxTotal
                      /\ \A v \in Users : Cardinality(Of(v, DOMAIN sessions)') <= MaxPerUser
                      /\ reply' = "refused" => Live \subseteq DOMAIN sessions'
    BY <1>1 DEF WithinCaps, NoneLost
  <1>2. PICK old \in Evicted(u) :
           /\ \A t \in Live \ old : sessions'[t] = sessions[t]
           /\ \/ /\ Full(Live \ old) /\ reply' = "refused" /\ next' = next
                 /\ DOMAIN sessions' = Live \ old
              \/ /\ ~Full(Live \ old) /\ reply' = "created" /\ next' = next + 1
                 /\ DOMAIN sessions' = (Live \ old) \cup {next}
                 /\ sessions'[next].user = u
    BY CreateStep, Zenon
  <1> DEFINE kept == Live \ old
             mine == Of(u, Live)
  <1>3. Live \subseteq DOMAIN sessions /\ kept \subseteq Live /\ next \notin DOMAIN sessions
        /\ mine \subseteq Live /\ mine \subseteq Of(u, DOMAIN sessions)
    BY DEF Live, Of, IndInv, TypeOK, IssuedInv
  <1>4. \/ old = {} /\ Cardinality(mine) < MaxPerUser
        \/ \E t \in mine : old = {t} /\ Cardinality(mine) >= MaxPerUser
    <2>1. IsFiniteSet(mine) /\ Cardinality(mine) \in Nat
      BY <1>3, TokensFinite
    <2> HIDE DEF mine
    <2>2. old \in IF Cardinality(mine) >= MaxPerUser THEN {{t} : t \in Oldest(mine)} ELSE {{}}
      BY DEF Evicted, mine
    <2>3. Oldest(mine) \subseteq mine
      BY DEF Oldest
    <2> QED BY <2>1, <2>2, <2>3, CapsAssumption
  <1> HIDE DEF kept, mine
  <1>5. /\ IsFiniteSet(Live) /\ Cardinality(Live) \in Nat
        /\ Cardinality(Live) <= MaxTotal
        /\ IsFiniteSet(kept) /\ Cardinality(kept) \in Nat
        /\ IsFiniteSet(mine) /\ Cardinality(mine) \in Nat
    BY <1>3, TokensFinite, CapsAssumption DEF WithinCaps
  <1>6. ASSUME reply' = "refused"
        PROVE  old = {}
    <2> SUFFICES ASSUME NEW t \in mine, old = {t}
                 PROVE  FALSE
      BY <1>4
    <2>1. Full(kept)
      BY <1>2, <1>6 DEF kept
    <2>2. t \in Live /\ kept = Live \ {t}
      BY <1>3 DEF kept
    <2>3. Cardinality(kept) = Cardinality(Live) - 1
      BY <1>5, <2>2, FS_RemoveElement, Zenon
    <2> QED BY <1>5, <2>1, <2>3, CapsAssumption DEF Full
  <1>7. reply' = "refused" => Live \subseteq DOMAIN sessions'
    BY <1>2, <1>6, Zenon
  <1>8. Cardinality(DOMAIN sessions') <= MaxTotal
    <2>1. CASE DOMAIN sessions' = kept
      BY <1>3, <1>5, <2>1, FS_Subset, CapsAssumption
    <2>2. CASE DOMAIN sessions' = kept \cup {next} /\ ~Full(kept)
      <3>1. next \notin kept
        BY <1>3
      <3>2. Cardinality(kept \cup {next}) = Cardinality(kept) + 1
        BY <1>5, <3>1, FS_AddElement, Zenon
      <3> QED BY <1>5, <2>2, <3>2, CapsAssumption DEF Full
    <2> QED BY <1>2, <2>1, <2>2, Zenon DEF kept
  <1>9. ASSUME NEW v \in Users
        PROVE  Cardinality(Of(v, DOMAIN sessions)') <= MaxPerUser
    <2> DEFINE now == Of(v, DOMAIN sessions)'
    <2>1. Cardinality(Of(v, DOMAIN sessions)) <= MaxPerUser
      BY DEF WithinCaps
    <2>2. Of(v, DOMAIN sessions) \subseteq DOMAIN sessions
      BY DEF Of
    <2>3. IsFiniteSet(Of(v, DOMAIN sessions)) /\ Cardinality(Of(v, DOMAIN sessions)) \in Nat
      BY <2>2, TokensFinite
    <2>4. CASE now \subseteq Of(v, DOMAIN sessions)
      <3>1. Cardinality(now) \in Nat /\ Cardinality(now) <= Cardinality(Of(v, DOMAIN sessions))
        BY <2>2, <2>3, <2>4, FS_Subset, TokensFinite
      <3> QED BY <2>1, <2>3, <3>1, CapsAssumption
    <2>5. CASE v = u /\ now = (mine \ old) \cup {next}
      <3>1. Cardinality(mine) <= MaxPerUser
        <4>1. Cardinality(mine) <= Cardinality(Of(v, DOMAIN sessions))
          BY <1>3, <2>3, <2>5, FS_Subset
        <4> QED BY <1>5, <2>1, <2>3, <4>1, CapsAssumption
      <3>2. IsFiniteSet(mine \ old) /\ Cardinality(mine \ old) \in Nat
            /\ Cardinality(mine \ old) < MaxPerUser
        <4>1. CASE old = {} /\ Cardinality(mine) < MaxPerUser
          <5>1. mine \ old = mine
            BY <4>1
          <5> QED BY <1>5, <4>1, <5>1
        <4>2. ASSUME NEW t \in mine, old = {t}
              PROVE  IsFiniteSet(mine \ old) /\ Cardinality(mine \ old) \in Nat
                     /\ Cardinality(mine \ old) < MaxPerUser
          <5>1. Cardinality(mine \ {t}) = Cardinality(mine) - 1 /\ IsFiniteSet(mine \ {t})
            BY <1>5, FS_RemoveElement
          <5>2. Cardinality(mine \ {t}) \in Nat
            BY <5>1, FS_CardinalityType
          <5> QED BY <1>5, <3>1, <4>2, <5>1, <5>2, CapsAssumption
        <4> QED BY <1>4, <4>1, <4>2, Zenon
      <3>3. next \notin mine \ old
        BY <1>3
      <3>4. Cardinality((mine \ old) \cup {next}) = Cardinality(mine \ old) + 1
        BY <3>2, <3>3, FS_AddElement, Zenon
      <3>5. Cardinality(now) = Cardinality((mine \ old) \cup {next})
        BY <2>5, Zenon
      <3> QED BY <3>2, <3>4, <3>5, CapsAssumption
    <2>6. now \subseteq Of(v, DOMAIN sessions) \/ (v = u /\ now = (mine \ old) \cup {next})
      <3>1. CASE DOMAIN sessions' = kept
        BY <1>2, <1>3, <3>1, Zenon DEF Of, kept
      <3>2. CASE DOMAIN sessions' = kept \cup {next} /\ sessions'[next].user = u
        BY <1>2, <1>3, <3>2 DEF Of, kept, mine
      <3> QED BY <1>2, <3>1, <3>2, SMTT(30) DEF kept
    <2> QED BY <2>4, <2>5, <2>6
  <1> QED BY <1>7, <1>8, <1>9

(* Until the first rotation the store holds at most MAX_SESSIONS_PER_USER  *)
(* sessions of a user and MAX_TOTAL_SESSIONS in all.                       *)
THEOREM CapsHold == Spec => []WithinCaps
  <1>1. Init => WithinCaps
    <2> SUFFICES ASSUME Init PROVE WithinCaps
      OBVIOUS
    <2>1. DOMAIN sessions = {} /\ \A u \in Users : Of(u, DOMAIN sessions) = {}
      BY DEF Init, Empty, Of
    <2> QED BY <2>1, FS_EmptySet, CapsAssumption DEF WithinCaps
  <1>2. IndInv /\ WithinCaps /\ [Next]_vars => WithinCaps'
    <2> SUFFICES ASSUME IndInv, WithinCaps, [Next]_vars PROVE WithinCaps'
      OBVIOUS
    <2>1. ASSUME NEW u \in Users, NEW i \in Uids, Create(u, i)
          PROVE  WithinCaps'
      BY <2>1, CapsCreate
    <2>2. ASSUME NEW t \in Tokens, NEW i \in Uids, Rotate(t, i)
          PROVE  WithinCaps'
      <3>1. t \in DOMAIN graced'
        BY <2>2, SMTT(30) DEF Rotate, With
      <3> QED BY <3>1, Zenon DEF WithinCaps
    <2>3. ASSUME NEW w \in Workers, NEW u \in Users, RevokeAllExcept(w, u)
          PROVE  WithinCaps'
      <3>1. DOMAIN sessions' \subseteq DOMAIN sessions /\ UNCHANGED graced
            /\ \A t \in DOMAIN sessions' : sessions'[t] = sessions[t]
        BY <2>3, Zenon DEF RevokeAllExcept, Restricted
      <3> QED BY <3>1, CapsShrink, Zenon
    <2>4. ASSUME NEW w \in Workers, Touch(w)
          PROVE  WithinCaps'
      <3>1. DOMAIN sessions' = DOMAIN sessions /\ DOMAIN graced' = DOMAIN graced
            /\ \A t \in DOMAIN sessions' : sessions'[t].user = sessions[t].user
        <4> DEFINE x == req[w].token
        <4>1. DOMAIN graced' = DOMAIN graced
          BY <2>4 DEF Touch
        <4>2. CASE sessions' = sessions
          BY <4>1, <4>2
        <4>3. ASSUME NEW d, x \in DOMAIN sessions, sessions' = WithIdle(sessions, x, d)
              PROVE  <3>1
          <5>1. sessions[x] \in Session
            BY <4>3 DEF IndInv, TypeOK
          <5>2. [sessions[x] EXCEPT !.idle = d].user = sessions[x].user
            BY <5>1 DEF Session
          <5> QED BY <4>1, <4>3, <5>2, Zenon DEF WithIdle, With
        <4> QED BY <2>4, <4>2, <4>3, Zenon DEF Touch
      <3> QED BY <3>1, CapsShrink
    <2>5. CASE RevokeAll
      BY <2>5, CapsShrink DEF RevokeAll, Restricted
    <2>6. CASE UNCHANGED <<sessions, graced>>
      BY <2>6 DEF WithinCaps, Of
    <2> QED BY <2>1, <2>2, <2>3, <2>4, <2>5, <2>6
            DEF Next, Validate, Lookup, Tick, vars
  <1> QED BY <1>1, <1>2, IndInit, IndNext, PTL DEF Spec

(* A token that left the store is never stored again: the touch that ends  *)
(* a request cannot revive a session revoked while its body ran.  And a    *)
(* create that fails at the global cap has evicted no valid session, until *)
(* the first rotation.                                                     *)
THEOREM TokensAlwaysSettled == Spec => TokensSettled
  <1>1. IndInv /\ WithinCaps /\ [Next]_vars => [NoneRestored /\ NoneLost]_vars
    <2> SUFFICES ASSUME IndInv, WithinCaps, Next PROVE NoneRestored /\ NoneLost
      OBVIOUS
    <2>1. NoneRestored
      BY StoredStep DEF NoneRestored
    <2>2. ASSUME NEW u \in Users, NEW i \in Uids, Create(u, i)
          PROVE  NoneLost
      BY <2>2, CapsCreate
    <2>3. ASSUME reply' = "none"
          PROVE  NoneLost
      BY <2>3 DEF NoneLost
    <2>4. reply' = "none" \/ \E u \in Users, i \in Uids : Create(u, i)
      BY Zenon DEF Next, Rotate, RevokeAll, RevokeAllExcept, Validate, Lookup, Touch, Tick
    <2> QED BY <2>1, <2>2, <2>3, <2>4
  <1> QED BY <1>1, IndInit, IndNext, CapsHold, PTL DEF Spec, TokensSettled

-----------------------------------------------------------------------------
(* Lockouts *)

CountInv == \A x \in Trackers : entry[x].count <= streak[x]

LeftInv == \A x \in Trackers : entry[x].left <= IF entry[x].count = 0 THEN 0
                                                ELSE Seconds(entry[x].count)

LockoutInv == LockoutTypeOK /\ CountInv /\ LeftInv

Entry == [count : 0 .. MaxCount, left : Nat]

Good(e) == e \in Entry /\ e.left <= IF e.count = 0 THEN 0 ELSE Seconds(e.count)

HIDE ClockAssumption
USE ScheduleAssumption, BoundsAssumption

-----------------------------------------------------------------------------
LEMMA MaxCountType == MaxCount \in Nat /\ MaxCount >= 1 /\ Len(Schedule) \in Nat
  BY DEF MaxCount

(* The schedule, looked up with a saturating count, does not shorten. *)
LEMMA SecondsGrow ==
  ASSUME NEW m \in Nat, NEW n \in Nat, m <= n
  PROVE  Seconds(m) \in Nat /\ Seconds(n) \in Nat /\ Seconds(m) <= Seconds(n)
  <1>1. AtMost(m, Len(Schedule) - 1) + 1 \in 1 .. Len(Schedule)
        /\ AtMost(n, Len(Schedule) - 1) + 1 \in 1 .. Len(Schedule)
        /\ AtMost(m, Len(Schedule) - 1) + 1 <= AtMost(n, Len(Schedule) - 1) + 1
    BY MaxCountType DEF AtMost
  <1>2. \A k \in 1 .. Len(Schedule) : Schedule[k] \in Nat
    OBVIOUS
  <1> QED BY <1>1, <1>2, Zenon DEF Seconds

(* A further failure: one more in the count, and no less time to wait. *)
LEMMA RecordedFacts ==
  ASSUME NEW e, Good(e)
  PROVE  /\ Good(Recorded(e))
         /\ Recorded(e).count <= e.count + 1
         /\ Recorded(e).left >= e.left
  <1> DEFINE n == AtMost(e.count + 1, MaxCount)
  <1>1. e.count \in 0 .. MaxCount /\ e.left \in Nat
    BY DEF Good, Entry
  <1>2. n \in 1 .. MaxCount /\ n <= e.count + 1 /\ e.count <= n
    BY <1>1, MaxCountType, SMTT(30) DEF AtMost
  <1>4. Recorded(e) = [count |-> n, left |-> IF Seconds(n) > 0 THEN Seconds(n) ELSE e.left]
    BY DEF Recorded
  <1> HIDE DEF n
  <1>3. Seconds(n) \in Nat /\ Seconds(e.count) \in Nat /\ Seconds(e.count) <= Seconds(n)
    <2>1. n \in Nat /\ e.count \in Nat
      BY <1>1, <1>2, MaxCountType
    <2> QED BY <1>2, <2>1, SecondsGrow, Zenon
  <1>5. Recorded(e).count = n
        /\ Recorded(e).left = IF Seconds(n) > 0 THEN Seconds(n) ELSE e.left
    BY <1>4
  <1>6. Recorded(e).left \in Nat /\ Recorded(e).left >= e.left /\ Recorded(e).left <= Seconds(n)
    BY <1>1, <1>3, <1>5 DEF Good
  <1>7. Recorded(e) \in Entry
    BY <1>1, <1>2, <1>3, <1>4 DEF Entry
  <1> QED BY <1>2, <1>5, <1>6, <1>7 DEF Good

LEMMA PrunedFacts ==
  ASSUME NEW e, Good(e)
  PROVE  /\ Good(Pruned(e)) /\ Pruned(e).count <= e.count
         /\ Pruned(e).left >= e.left
  BY MaxCountType DEF Good, Pruned, InForce, Absent, Entry

LEMMA AbsentFacts == Good(Absent) /\ Absent.count = 0
  BY MaxCountType DEF Good, Absent, Entry

(* The entries are good ones, by LockoutInv and enough for it. *)
LEMMA EntriesGood ==
  ASSUME LockoutInv
  PROVE  \A x \in Trackers : /\ Good(entry[x]) /\ entry[x].count \in Nat
                             /\ entry[x].left \in Nat /\ streak[x] \in 0 .. MaxCount
  BY MaxCountType DEF LockoutInv, LockoutTypeOK, LeftInv, Good, Entry

(* What a step has to show for LockoutInv, tracker by tracker. *)
LEMMA TrackersInv ==
  ASSUME entry' \in [Trackers -> Entry], streak' \in [Trackers -> 0 .. MaxCount],
         \A x \in Trackers : Good(entry'[x]) /\ entry'[x].count <= streak'[x]
  PROVE  CountInv' /\ LeftInv' /\ entry' \in [Trackers -> [count : 0 .. MaxCount, left : Nat]]
         /\ streak' \in [Trackers -> 0 .. MaxCount]
  BY DEF CountInv, LeftInv, Good, Entry

-----------------------------------------------------------------------------
(* What each action does to the trackers and to the attempts *)

(* Both trackers unchanged. *)
LEMMA SameTrackers ==
  ASSUME LockoutInv, UNCHANGED <<entry, streak>>
  PROVE  CountInv' /\ LeftInv' /\ entry' \in [Trackers -> [count : 0 .. MaxCount, left : Nat]]
         /\ streak' \in [Trackers -> 0 .. MaxCount]
  BY DEF LockoutInv, LockoutTypeOK, CountInv, LeftInv

(* One entry replaced by one that counts no more, or by none at all. *)
LEMMA OneTracker ==
  ASSUME LockoutInv, NEW x \in Trackers, NEW e, Good(e), entry' = [entry EXCEPT ![x] = e],
         \/ e.count <= entry[x].count /\ UNCHANGED streak
         \/ e.count = 0 /\ streak' = [streak EXCEPT ![x] = 0]
  PROVE  CountInv' /\ LeftInv' /\ entry' \in [Trackers -> [count : 0 .. MaxCount, left : Nat]]
         /\ streak' \in [Trackers -> 0 .. MaxCount]
  <1>1. entry \in [Trackers -> Entry] /\ streak \in [Trackers -> 0 .. MaxCount]
    BY DEF LockoutInv, LockoutTypeOK, Entry
  <1>2. e \in Entry /\ e.count \in Nat
    BY DEF Good, Entry
  <1>3. entry' \in [Trackers -> Entry] /\ streak' \in [Trackers -> 0 .. MaxCount]
    BY <1>1, <1>2, MaxCountType
  <1>4. \A y \in Trackers : Good(entry'[y])
    BY <1>1, EntriesGood
  <1>5. ASSUME NEW y \in Trackers
        PROVE  entry'[y].count <= streak'[y]
    <2>1. CASE y = x
      BY <1>1, <1>2, <2>1, EntriesGood, MaxCountType DEF LockoutInv, CountInv
    <2>2. CASE y # x
      BY <1>1, <2>2 DEF LockoutInv, CountInv
    <2> QED BY <2>1, <2>2
  <1> QED BY <1>3, <1>4, <1>5, TrackersInv

LEMMA ClearedTrackers ==
  ASSUME ClearTrackers
  PROVE  CountInv' /\ LeftInv' /\ entry' \in [Trackers -> [count : 0 .. MaxCount, left : Nat]]
         /\ streak' \in [Trackers -> 0 .. MaxCount]
  <1>1. \A x \in Trackers : Good(entry'[x]) /\ entry'[x].count = 0 /\ streak'[x] = 0
    BY AbsentFacts, Zenon DEF ClearTrackers
  <1>2. entry' \in [Trackers -> Entry] /\ streak' \in [Trackers -> 0 .. MaxCount]
    BY AbsentFacts, MaxCountType DEF ClearTrackers, Good
  <1>3. \A x \in Trackers : entry'[x].count <= streak'[x]
    BY <1>1
  <1> QED BY <1>1, <1>2, <1>3, TrackersInv, Zenon DEF Entry

(* A recorded failure. *)
LEMMA RecordInFacts ==
  ASSUME LockoutInv, NEW S \in SUBSET Trackers, RecordIn(S)
  PROVE  /\ CountInv' /\ LeftInv'
         /\ entry' \in [Trackers -> [count : 0 .. MaxCount, left : Nat]]
         /\ streak' \in [Trackers -> 0 .. MaxCount]
         /\ wiped' /\ ~wiped => \E x \in Trackers : streak[x] + 1 >= DuressMax
         /\ (wiped' /\ ~wiped) \/ \A x \in Trackers : entry'[x].left >= entry[x].left
  <1> DEFINE new == [x \in Trackers |-> IF x \in S THEN Recorded(entry[x]) ELSE entry[x]]
             limit == DuressMax > 0 /\ ~wiped /\ \E x \in S : new[x].count >= DuressMax
  <1>1. \A x \in Trackers :
           /\ Good(new[x]) /\ new[x].left >= entry[x].left
           /\ new[x].count <= entry[x].count + 1
           /\ x \notin S => new[x] = entry[x]
    <2> SUFFICES ASSUME NEW x \in Trackers
                 PROVE  /\ Good(new[x]) /\ new[x].left >= entry[x].left
                        /\ new[x].count <= entry[x].count + 1
                        /\ x \notin S => new[x] = entry[x]
      BY Zenon
    <2>1. Good(entry[x]) /\ entry[x].left \in Nat /\ entry[x].count \in Nat
      BY EntriesGood, Zenon
    <2>2. CASE x \in S
      BY <2>1, <2>2, RecordedFacts, Zenon
    <2>3. CASE x \notin S
      <3>1. new[x] = entry[x]
        BY <2>3, Zenon
      <3>2. entry[x].left >= entry[x].left /\ entry[x].count <= entry[x].count + 1
        BY <2>1
      <3> QED BY <2>1, <3>1, <3>2, Zenon
    <2> QED BY <2>2, <2>3, ZenonT(30)
  <1>2. new \in [Trackers -> Entry]
    BY <1>1 DEF Good
  <1>3. \A x \in Trackers : new[x].count \in 0 .. MaxCount /\ new[x].left \in Nat
    BY <1>2, SMTT(30) DEF Entry
  <1>4. /\ wiped' = (wiped \/ limit)
        /\ IF limit THEN ClearTrackers
           ELSE /\ entry' = new
                /\ streak' = [x \in Trackers |-> IF x \in S THEN AtMost(streak[x] + 1, MaxCount)
                                                            ELSE streak[x]]
    BY Zenon DEF RecordIn
  <1> HIDE DEF new, limit
  <1>5. CASE limit
    <2>1. PICK x \in S : new[x].count >= DuressMax
      BY <1>5 DEF limit
    <2>2. x \in Trackers /\ entry[x].count <= streak[x]
      BY DEF LockoutInv, CountInv
    <2>3. streak[x] + 1 >= DuressMax
      <3>1. new[x].count <= entry[x].count + 1 /\ new[x].count \in Nat
            /\ entry[x].count \in Nat /\ streak[x] \in Nat
        <4>1. new[x].count \in 0 .. MaxCount /\ streak[x] \in 0 .. MaxCount
              /\ new[x].count <= entry[x].count + 1 /\ entry[x].count \in Nat
          BY <1>1, <1>3, <2>2, EntriesGood, Zenon
        <4> QED BY <4>1, MaxCountType
      <3> DEFINE m == new[x].count
                 n == entry[x].count
                 k == streak[x]
      <3>2. m >= DuressMax /\ m <= n + 1 /\ n <= k /\ m \in Nat /\ n \in Nat /\ k \in Nat
        BY <2>1, <2>2, <3>1, Zenon
      <3> HIDE DEF m, n, k
      <3>3. k + 1 >= DuressMax
        BY <3>2
      <3> QED BY <3>3, Zenon DEF k
    <2>4. wiped' /\ ~wiped
      BY <1>4, <1>5, ZenonT(30) DEF limit
    <2> QED BY <1>4, <1>5, <2>2, <2>3, <2>4, ClearedTrackers, Zenon
  <1>6. CASE ~limit
    <2>1. entry' = new /\ ~(wiped' /\ ~wiped)
          /\ streak' = [x \in Trackers |-> IF x \in S THEN AtMost(streak[x] + 1, MaxCount)
                                                      ELSE streak[x]]
      BY <1>4, <1>6, ZenonT(30)
    <2>2. streak' \in [Trackers -> 0 .. MaxCount]
      BY <2>1, EntriesGood, MaxCountType DEF AtMost
    <2>3. ASSUME NEW x \in Trackers
          PROVE  entry'[x].count <= streak'[x]
      <3>1. entry[x].count <= streak[x] /\ streak[x] \in 0 .. MaxCount /\ entry[x].count \in Nat
        BY EntriesGood DEF LockoutInv, CountInv
      <3>2. CASE x \in S
        <4>1. new[x].count <= entry[x].count + 1 /\ new[x].count \in 0 .. MaxCount
              /\ entry'[x] = new[x] /\ streak'[x] = AtMost(streak[x] + 1, MaxCount)
          BY <1>1, <1>3, <2>1, <3>2, Zenon
        <4> DEFINE m == new[x].count
                   n == entry[x].count
                   k == streak[x]
        <4>2. m <= n + 1 /\ m \in 0 .. MaxCount /\ n <= k /\ n \in Nat /\ k \in 0 .. MaxCount
          BY <3>1, <4>1, Zenon
        <4> HIDE DEF m, n, k
        <4>3. m <= AtMost(k + 1, MaxCount)
          BY <4>2, MaxCountType, SMTT(30) DEF AtMost
        <4> QED BY <4>1, <4>3, Zenon DEF m, k
      <3>3. CASE x \notin S
        BY <1>1, <2>1, <3>1, <3>3, Zenon
      <3> QED BY <3>2, <3>3, Zenon
    <2>4. \A x \in Trackers : Good(entry'[x]) /\ entry'[x].left >= entry[x].left
      BY <1>1, <2>1
    <2> QED BY <1>2, <2>1, <2>2, <2>3, <2>4, TrackersInv, Zenon
  <1> QED BY <1>5, <1>6, SMTT(30)

-----------------------------------------------------------------------------
(* The attempts under way and the rest of the state keep their types. *)
RestOK ==
    /\ work \in [Callers -> [at : Stages, kind : Kinds \cup {"none"}]]
    /\ open \in BOOLEAN /\ granted \subseteq Callers /\ held \in BOOLEAN
    /\ pending \in 0 .. PendingCap
    /\ wiped \in BOOLEAN /\ lost \in BOOLEAN

(* An attempt goes on to a stage, or ends. *)
GoesOn(w) == \/ \E stage \in Stages : Moves(w, stage)
             \/ work' = [work EXCEPT ![w] = NoAttempt]

LEMMA GoesOnType ==
  ASSUME RestOK, NEW w \in Callers, GoesOn(w)
  PROVE  work' \in [Callers -> [at : Stages, kind : Kinds \cup {"none"}]]
  <1>1. NoAttempt \in [at : Stages, kind : Kinds \cup {"none"}]
    BY DEF NoAttempt, Stages
  <1>2. work[w] \in [at : Stages, kind : Kinds \cup {"none"}]
    BY DEF RestOK
  <1>3. \A stage \in Stages :
           [work[w] EXCEPT !.at = stage] \in [at : Stages, kind : Kinds \cup {"none"}]
    BY <1>2, Zenon
  <1>4. work \in [Callers -> [at : Stages, kind : Kinds \cup {"none"}]]
    BY DEF RestOK
  <1>5. PICK r \in [at : Stages, kind : Kinds \cup {"none"}] : work' = [work EXCEPT ![w] = r]
    <2>1. CASE work' = [work EXCEPT ![w] = NoAttempt]
      BY <1>1, <2>1, Zenon
    <2>2. ASSUME NEW stage \in Stages, Moves(w, stage)
          PROVE  work' = [work EXCEPT ![w] = [work[w] EXCEPT !.at = stage]]
      BY <2>2 DEF Moves
    <2> QED BY <1>3, <2>1, <2>2, Zenon DEF GoesOn
  <1> QED BY <1>4, <1>5

LEMMA RestStep ==
  ASSUME RestOK, NEW w \in Callers, Step(w)
  PROVE  RestOK'
  <1>2. ASSUME NEW k \in Kinds, Begin(w, k) PROVE RestOK'
    <2>1. [at |-> FirstStage(k), kind |-> k] \in [at : Stages, kind : Kinds \cup {"none"}]
      BY DEF FirstStage, Stages
    <2> QED BY <1>2, <2>1 DEF RestOK, Begin, access
  <1>3. CASE CheckTotp(w)
    <2>1. GoesOn(w)
      BY <1>3 DEF CheckTotp, GoesOn, Stages
    <2> QED BY <1>3, <2>1, GoesOnType DEF RestOK, CheckTotp, access
  <1>4. CASE Attempt(w)
    <2>1. GoesOn(w)
      BY <1>4 DEF Attempt, GoesOn, Stages
    <2>2. work' \in [Callers -> [at : Stages, kind : Kinds \cup {"none"}]]
      BY <2>1, GoesOnType
    <2>3. open' \in BOOLEAN /\ granted' \subseteq Callers /\ held' \in BOOLEAN
      BY <1>4, Zenon DEF RestOK, Attempt, access
    <2> QED BY <1>4, <2>2, <2>3, Zenon DEF RestOK, Attempt
  <1>5. CASE Factor(w)
    <2>1. GoesOn(w)
      BY <1>5 DEF Factor, GoesOn, Stages
    <2> QED BY <1>5, <2>1, GoesOnType DEF RestOK, Factor, access
  <1>6. CASE RecordFailure(w) \/ RecordTotpFailure(w)
    <2>1. PICK S : RecordIn(S)
      BY <1>6, Zenon DEF RecordFailure, RecordTotpFailure
    <2>2. pending' \in 0 .. PendingCap
      <3>1. pending' = AtMost(pending + 1, PendingCap)
        BY <2>1, Zenon DEF RecordIn
      <3>2. pending \in 0 .. PendingCap
        BY Zenon DEF RestOK
      <3> QED BY <3>1, <3>2 DEF AtMost
    <2>3. wiped' \in BOOLEAN /\ open' \in BOOLEAN /\ held' \in BOOLEAN /\ granted' \subseteq Callers
      BY <2>1, Zenon DEF RecordIn, CloseVault, RestOK, access
    <2>4. GoesOn(w) /\ lost' = lost
      BY <1>6 DEF RecordFailure, RecordTotpFailure, GoesOn, Stages
    <2> QED BY <2>2, <2>3, <2>4, GoesOnType DEF RestOK
  <1>7. CASE LockKeepLockout(w) \/ BackupCodeLock(w)
    <2>1. GoesOn(w)
      BY <1>7 DEF LockKeepLockout, BackupCodeLock, GoesOn, Stages
    <2> QED BY <1>7, <2>1, GoesOnType, Zenon DEF RestOK, LockKeepLockout, BackupCodeLock, CloseVault
  <1>8. CASE ResetCounter(w) \/ DrainPending(w) \/ LogPending(w) \/ ResetTotp(w)
    <2>1. work' \in [Callers -> [at : Stages, kind : Kinds \cup {"none"}]]
      <3>1. GoesOn(w)
        BY <1>8 DEF ResetCounter, DrainPending, LogPending, ResetTotp, Done, Replied,
                    GoesOn, Stages
      <3> QED BY <3>1, GoesOnType
    <2>2. granted' \subseteq Callers /\ held' \in BOOLEAN /\ lost' \in BOOLEAN
      BY <1>8, Zenon DEF RestOK, ResetCounter, DrainPending, LogPending, ResetTotp, Done, Replied
    <2>3. open' = open /\ wiped' = wiped /\ pending' \in 0 .. PendingCap
      BY <1>8, SMTT(30) DEF RestOK, ResetCounter, DrainPending, LogPending, ResetTotp
    <2> QED BY <2>1, <2>2, <2>3, Zenon DEF RestOK
  <1> QED BY <1>2, <1>3, <1>4, <1>5, <1>6, <1>7, <1>8, Zenon DEF Step

(* What a step of the daemon says about the trackers: the invariants, an   *)
(* erasure only at the limit, and the two ways a TOTP lockout ends early.  *)
TrackersOK ==
    /\ CountInv' /\ LeftInv'
    /\ entry' \in [Trackers -> [count : 0 .. MaxCount, left : Nat]]
    /\ streak' \in [Trackers -> 0 .. MaxCount]

WipeEarned == wiped' /\ ~wiped => \E x \in Trackers : streak[x] + 1 >= DuressMax

TotpKept ==
    entry["totp"].left > 1 =>
       \/ entry'["totp"].left >= entry["totp"].left - 1
       \/ wiped' /\ ~wiped
       \/ held /\ UNCHANGED work
       \/ \E w \in Callers : work[w].at \in {"reset_totp", "backup_lock"} /\ work'[w] # work[w]

LEMMA NotLess == \A m, n \in Nat : n >= m => n >= m - 1
  OBVIOUS

LEMMA TotpStays ==
  ASSUME entry["totp"].left \in Nat, entry'["totp"].left \in Nat,
         entry'["totp"].left >= entry["totp"].left
  PROVE  TotpKept
  BY NotLess, Zenon DEF TotpKept

LEMMA StepFacts ==
  ASSUME LockoutInv, NEW w \in Callers, Step(w)
  PROVE  TrackersOK /\ WipeEarned /\ TotpKept
  <1>0. /\ entry \in [Trackers -> Entry] /\ "pw" \in Trackers /\ "totp" \in Trackers
        /\ work \in [Callers -> [at : Stages, kind : Kinds \cup {"none"}]]
        /\ \A x \in Trackers : Good(entry[x]) /\ entry[x].left \in Nat /\ entry[x].count \in Nat
    BY EntriesGood DEF LockoutInv, LockoutTypeOK, Entry, Trackers
  <1>1. ASSUME NEW k \in Kinds, Begin(w, k)
        PROVE  TrackersOK /\ WipeEarned /\ TotpKept
    <2>1. entry' = [entry EXCEPT !["pw"] = Pruned(entry["pw"])] /\ UNCHANGED <<streak, wiped>>
      BY <1>1 DEF Begin
    <2>2. TrackersOK
      BY <1>0, <2>1, PrunedFacts, OneTracker, Zenon DEF TrackersOK
    <2>3. entry'["totp"].left \in Nat /\ entry'["totp"].left >= entry["totp"].left
      BY <1>0, <2>1
    <2> QED BY <1>0, <2>1, <2>2, <2>3, TotpStays, Zenon DEF WipeEarned
  <1>2. CASE CheckTotp(w)
    <2>1. entry' = [entry EXCEPT !["totp"] = Pruned(entry["totp"])] /\ UNCHANGED <<streak, wiped>>
      BY <1>2 DEF CheckTotp
    <2>2. TrackersOK
      BY <1>0, <2>1, PrunedFacts, OneTracker, Zenon DEF TrackersOK
    <2>3. entry'["totp"].left >= entry["totp"].left
      BY <1>0, <2>1, PrunedFacts
    <2>4. entry'["totp"].left \in Nat
      BY <1>0, <2>2 DEF TrackersOK
    <2> QED BY <1>0, <2>1, <2>2, <2>3, <2>4, TotpStays, Zenon DEF WipeEarned
  <1>3. CASE UNCHANGED <<entry, streak, wiped>>
    <2>1. TrackersOK
      BY <1>3, SameTrackers, Zenon DEF TrackersOK
    <2> QED BY <1>0, <1>3, <2>1 DEF WipeEarned, TotpKept
  <1>4. CASE RecordFailure(w) \/ RecordTotpFailure(w)
    <2>1. PICK S \in SUBSET Trackers : RecordIn(S)
      BY <1>0, <1>4, Zenon DEF RecordFailure, RecordTotpFailure
    <2>2. TrackersOK /\ WipeEarned
      BY <2>1, RecordInFacts DEF TrackersOK, WipeEarned
    <2>3. (wiped' /\ ~wiped) \/ entry'["totp"].left >= entry["totp"].left
      BY <1>0, <2>1, RecordInFacts
    <2>4. entry'["totp"].left \in Nat
      BY <1>0, <2>2, Zenon DEF TrackersOK
    <2> QED BY <1>0, <2>2, <2>3, <2>4 DEF TotpKept
  <1>5. CASE BackupCodeLock(w)
    <2>1. TrackersOK
      BY <1>5, ClearedTrackers DEF BackupCodeLock, TrackersOK
    <2>2. work'[w] # work[w] /\ work[w].at = "backup_lock" /\ wiped' = wiped
      BY <1>0, <1>5, Zenon DEF BackupCodeLock, Moves
    <2> QED BY <2>1, <2>2, Zenon DEF WipeEarned, TotpKept
  <1>6. CASE ResetCounter(w)
    <2>1. entry' = [entry EXCEPT !["pw"] = Absent] /\ streak' = [streak EXCEPT !["pw"] = 0]
          /\ wiped' = wiped
      BY <1>6 DEF ResetCounter
    <2>2. TrackersOK
      BY <1>0, <2>1, AbsentFacts, OneTracker, Zenon DEF TrackersOK
    <2>3. entry'["totp"].left \in Nat /\ entry'["totp"].left >= entry["totp"].left
      BY <1>0, <2>1
    <2> QED BY <1>0, <2>1, <2>2, <2>3, TotpStays, Zenon DEF WipeEarned
  <1>7. CASE ResetTotp(w)
    <2>1. entry' = [entry EXCEPT !["totp"] = Absent] /\ streak' = [streak EXCEPT !["totp"] = 0]
          /\ wiped' = wiped
      BY <1>7 DEF ResetTotp
    <2>2. TrackersOK
      BY <1>0, <2>1, AbsentFacts, OneTracker, Zenon DEF TrackersOK
    <2>3. work'[w] # work[w] /\ work[w].at = "reset_totp"
      BY <1>0, <1>7 DEF ResetTotp, Replied, NoAttempt
    <2> QED BY <2>1, <2>2, <2>3, Zenon DEF WipeEarned, TotpKept
  <1> QED BY <1>1, <1>2, <1>3, <1>4, <1>5, <1>6, <1>7, Zenon
          DEF Step, Attempt, Factor, LockKeepLockout, DrainPending, LogPending

LEMMA NextFacts ==
  ASSUME LockoutInv, [LockoutNext]_lockoutVars
  PROVE  LockoutInv' /\ (UNCHANGED lockoutVars \/ (WipeEarned /\ TotpKept))
  <1>0. RestOK /\ (LockoutInv' <=> TrackersOK /\ RestOK')
    BY Zenon DEF LockoutInv, LockoutTypeOK, RestOK, TrackersOK
  <1>1. CASE UNCHANGED lockoutVars
    <2>1. TrackersOK
      BY <1>1, SameTrackers DEF lockoutVars, TrackersOK
    <2>2. RestOK'
      BY <1>0, <1>1 DEF lockoutVars, access, RestOK
    <2> QED BY <1>0, <1>1, <2>1, <2>2
  <1>2. ASSUME NEW w \in Callers, Step(w)
        PROVE  LockoutInv' /\ WipeEarned /\ TotpKept
    BY <1>0, <1>2, StepFacts, RestStep, Zenon
  <1>3. CASE Lock
    <2>1. TrackersOK
      BY <1>3, ClearedTrackers DEF Lock, TrackersOK
    <2>2. RestOK'
      BY <1>0, <1>3, Zenon DEF Lock, CloseVault, RestOK
    <2> QED BY <1>0, <1>3, <2>1, <2>2 DEF Lock, WipeEarned, TotpKept
  <1>4. CASE LockoutTick
    <2>1. \A x \in Trackers : /\ Good(entry[x]) /\ entry[x] \in Entry
                               /\ streak[x] \in 0 .. MaxCount
                               /\ entry[x].count <= streak[x]
      BY EntriesGood, Zenon DEF Good, LockoutInv, CountInv
    <2>2. ASSUME NEW x \in Trackers
          PROVE  /\ entry'[x] \in Entry /\ entry'[x].count = entry[x].count
                 /\ entry'[x].left = IF entry[x].left > 0 THEN entry[x].left - 1 ELSE 0
      <3> DEFINE left == IF entry[x].left > 0 THEN entry[x].left - 1 ELSE 0
      <3>1. entry'[x] = [entry[x] EXCEPT !.left = left]
        BY <1>4, Zenon DEF LockoutTick
      <3>2. entry[x] \in Entry
        BY <2>1
      <3>3. left \in Nat
        BY EntriesGood, SMTT(30)
      <3> HIDE DEF left
      <3>4. entry'[x] \in Entry /\ entry'[x].count = entry[x].count /\ entry'[x].left = left
        BY <3>1, <3>2, <3>3, Zenon DEF Entry
      <3> QED BY <3>4 DEF left
    <2>3. ASSUME NEW x \in Trackers
          PROVE  Good(entry'[x])
      <3>1. entry[x].count \in Nat /\ Seconds(entry[x].count) \in Nat /\ entry[x].left \in Nat
        <4>1. entry[x].count \in Nat /\ entry[x].left \in Nat /\ entry[x].count <= entry[x].count
          BY EntriesGood
        <4> QED BY <4>1, SecondsGrow, Zenon
      <3>2. entry'[x].left <= IF entry'[x].count = 0 THEN 0 ELSE Seconds(entry'[x].count)
        <4> DEFINE top == IF entry[x].count = 0 THEN 0 ELSE Seconds(entry[x].count)
        <4>1. entry[x].left <= top /\ top = IF entry'[x].count = 0 THEN 0 ELSE Seconds(entry'[x].count)
          BY <2>1, <2>2, Zenon DEF Good
        <4>2. top \in Nat
          BY <3>1
        <4> HIDE DEF top
        <4>3. entry'[x].left <= top
          <5>1. entry'[x].left = IF entry[x].left > 0 THEN entry[x].left - 1 ELSE 0
            BY <2>2, Zenon
          <5> QED BY <3>1, <4>1, <4>2, <5>1
        <4> QED BY <4>1, <4>3, Zenon
      <3> QED BY <2>2, <3>2, Zenon DEF Good
    <2>4. entry' \in [Trackers -> Entry] /\ streak' \in [Trackers -> 0 .. MaxCount]
      BY <1>4, <2>1, <2>2, Zenon DEF LockoutTick, LockoutInv, LockoutTypeOK
    <2>5. TrackersOK
      BY <1>4, <2>1, <2>2, <2>3, <2>4, TrackersInv, Zenon DEF LockoutTick, TrackersOK
    <2>6. entry'["totp"].left >= entry["totp"].left - 1 \/ ~(entry["totp"].left > 1)
      BY <2>2, EntriesGood DEF Trackers
    <2>7. RestOK'
      BY <1>0, <1>4 DEF LockoutTick, RestOK, access
    <2> QED BY <1>0, <1>4, <2>5, <2>6, <2>7, Zenon DEF LockoutTick, WipeEarned, TotpKept
  <1> QED BY <1>1, <1>2, <1>3, <1>4, Zenon DEF LockoutNext

LEMMA LockoutInvInit == LockoutInit => LockoutInv
  <1> SUFFICES ASSUME LockoutInit PROVE LockoutInv
    OBVIOUS
  <1>1. entry \in [Trackers -> [count : 0 .. MaxCount, left : Nat]]
        /\ streak \in [Trackers -> 0 .. MaxCount] /\ CountInv /\ LeftInv
    BY MaxCountType DEF LockoutInit, Absent, CountInv, LeftInv
  <1>2. work \in [Callers -> [at : Stages, kind : Kinds \cup {"none"}]]
    BY DEF LockoutInit, NoAttempt, Stages
  <1>3. pending \in 0 .. PendingCap
    BY DEF LockoutInit
  <1>4. open \in BOOLEAN /\ granted \subseteq Callers /\ held \in BOOLEAN
        /\ wiped \in BOOLEAN /\ lost \in BOOLEAN
    BY Zenon DEF LockoutInit
  <1> QED BY <1>1, <1>2, <1>3, <1>4 DEF LockoutInv, LockoutTypeOK

(* Type correctness of the trackers and the attempts. *)
THEOREM LockoutTypeCorrect == LockoutSpec => []LockoutTypeOK
  <1>1. LockoutInv => LockoutTypeOK
    BY DEF LockoutInv
  <1>2. LockoutInv /\ [LockoutNext]_lockoutVars => LockoutInv'
    BY NextFacts
  <1> QED BY <1>1, <1>2, LockoutInvInit, PTL DEF LockoutSpec

(* record_failed_unlock and record_totp_failure erase the vault only after *)
(* duress_max_attempts failures in a row, whatever attempts overlap a      *)
(* reset or a lock.                                                        *)
THEOREM WipeOnlyAtLimit == LockoutSpec => NoEarlyWipe
  <1>1. LockoutInv /\ [LockoutNext]_lockoutVars => LockoutInv'
    BY NextFacts
  <1>2. LockoutInv /\ [LockoutNext]_lockoutVars =>
          [wiped' /\ ~wiped => \E x \in Trackers : streak[x] + 1 >= DuressMax]_lockoutVars
    BY NextFacts DEF WipeEarned
  <1> QED BY <1>1, <1>2, LockoutInvInit, PTL DEF LockoutSpec, NoEarlyWipe

(* A TOTP lockout in force is not shortened by anything but a completed    *)
(* unlock, an erasure, or a lock() that takes a session or a wrong backup  *)
(* code; a further wrong TOTP code never shortens it.                      *)
THEOREM TotpLockoutStays == LockoutSpec => TotpLockoutKept
  <1>1. LockoutInv /\ [LockoutNext]_lockoutVars => LockoutInv'
    BY NextFacts
  <1>2. LockoutInv /\ [LockoutNext]_lockoutVars =>
          [entry["totp"].left > 1 =>
              \/ entry'["totp"].left >= entry["totp"].left - 1
              \/ wiped' /\ ~wiped
              \/ held /\ UNCHANGED work
              \/ \E w \in Callers : work[w].at \in {"reset_totp", "backup_lock"}
                                     /\ work'[w] # work[w]]_lockoutVars
    BY NextFacts DEF TotpKept
  <1> QED BY <1>1, <1>2, LockoutInvInit, PTL DEF LockoutSpec, TotpLockoutKept
=============================================================================
