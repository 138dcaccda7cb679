------------------------------ MODULE AuditLog ------------------------------
(***************************************************************************)
(* The audit log of an account (lib/audit.js and the audit routes of       *)
(* routes/vaultRoutes.js): every process of the server queues events in    *)
(* memory, one flusher per process drains its queue, and each event is     *)
(* appended to audit_log.enc under the lock of the account's directory,    *)
(* chained to the one before it by an HMAC.                                *)
(*                                                                         *)
(* An event is its number, the process that recorded it, and the number of *)
(* the event its hash was chained to (0 is the hash of zeros); the marker  *)
(* that clearing leaves has no hash.  An HMAC is taken to be injective.    *)
(* The lookup of the public address while the lock is held changes nothing *)
(* here, and what an event tells is left out.                              *)
(***************************************************************************)
EXTENDS Naturals, Sequences, FiniteSets, SequencesExt

CONSTANTS
    Procs,       \* processes of the server
    EventMax,    \* bound: events recorded in a behaviour
    QueueCap,    \* events queued per process (5000 in the code)
    LogCap,      \* events kept (2000 in the code)
    Unlocked

VARIABLES
    log,       \* audit_log.enc
    queue,     \* _auditQueue of each process
    drained,   \* the events its flusher has taken out
    flusher,   \* "off", "next" (between events), "save" (holding the lock)
    dirLock,   \* who holds the lock of the account's directory
    ahist      \* history: last number, events saved since the last clearing,
               \* and whether the log was trimmed or excised

auditVars == <<log, queue, drained, flusher, dirLock, ahist>>

Marker == [n |-> 0, by |-> Unlocked, prev |-> 0]

Hashed(e) == e.n # 0

HashOf(e) == e.n

(* loadAuditLog: the hash that the event at i is checked against is that   *)
(* of the nearest hashed event before it.                                  *)
Before(l, i) ==
    LET hashed == {j \in 1..(i - 1) : Hashed(l[j])}
    IN IF hashed = {} THEN 0
       ELSE HashOf(l[CHOOSE j \in hashed : \A k \in hashed : k <= j])

integrity_failure(l, i) == ~Hashed(l[i]) \/ l[i].prev # Before(l, i)

-----------------------------------------------------------------------------
(* Mutant of appendAuditEvent: nobody is told of an event that is queued   *)
(* while the flusher runs, and the flusher goes through the queue once.    *)
NextRoundOnce(p) == "off"

(* The flusher comes back for what was queued while it ran. *)
NextRound(p) == IF queue[p] = <<>> THEN "off" ELSE "next"

(* Queue the event and start the flusher, unless it runs already. *)
appendAuditEvent(p) ==
    /\ ahist.n < EventMax
    /\ ahist' = [ahist EXCEPT !.n = @ + 1]
    /\ IF Len(queue[p]) < QueueCap
       THEN IF flusher[p] = "off"
            THEN /\ drained' = [drained EXCEPT ![p] = Append(queue[p], ahist.n + 1)]
                 /\ queue' = [queue EXCEPT ![p] = <<>>]
                 /\ flusher' = [flusher EXCEPT ![p] = "next"]
            ELSE /\ queue' = [queue EXCEPT ![p] = Append(@, ahist.n + 1)]
                 /\ UNCHANGED <<drained, flusher>>
       ELSE UNCHANGED <<queue, drained, flusher>>
    /\ UNCHANGED <<log, dirLock>>

(* The while loop: all that was queued is taken out at once. *)
FlushRound(p) ==
    /\ flusher[p] = "next" /\ drained[p] = <<>>
    /\ flusher' = [flusher EXCEPT ![p] = NextRound(p)]
    /\ IF NextRound(p) = "next"
       THEN drained' = [drained EXCEPT ![p] = queue[p]] /\ queue' = [queue EXCEPT ![p] = <<>>]
       ELSE UNCHANGED <<drained, queue>>
    /\ UNCHANGED <<log, dirLock, ahist>>

AuditLock(p) ==
    /\ flusher[p] = "next" /\ drained[p] # <<>>
    /\ dirLock = Unlocked
    /\ dirLock' = p
    /\ flusher' = [flusher EXCEPT ![p] = "save"]
    /\ UNCHANGED <<log, queue, drained, ahist>>

(* The retries run out, or the store fails: the event is dropped. *)
AuditDropped(p) ==
    /\ \/ flusher[p] = "next" /\ drained[p] # <<>> /\ dirLock # Unlocked
       \/ flusher[p] = "save"
    /\ dirLock' = IF dirLock = p THEN Unlocked ELSE dirLock
    /\ flusher' = [flusher EXCEPT ![p] = "next"]
    /\ drained' = [drained EXCEPT ![p] = Tail(@)]
    /\ UNCHANGED <<log, queue, ahist>>

(* Mutant of Chained: the hash is chained to the first event of the log. *)
ChainedFirst(l, p, n) ==
    Append(l, [n |-> n, by |-> p, prev |-> IF l = <<>> THEN 0 ELSE HashOf(l[1])])

(* The new event, chained to the last one. *)
Chained(l, p, n) ==
    Append(l, [n |-> n, by |-> p, prev |-> IF l = <<>> THEN 0 ELSE HashOf(Last(l))])

Trimmed(l) == IF Len(l) > LogCap THEN SubSeq(l, Len(l) - LogCap + 1, Len(l)) ELSE l

(* Load, chain, push, trim and save, and release the lock. *)
processAuditEvent(p) ==
    LET l == Chained(log, p, Head(drained[p]))
    IN /\ flusher[p] = "save"
       /\ log' = Trimmed(l)
       /\ ahist' = [ahist EXCEPT !.saved = @ \cup {Head(drained[p])},
                                 !.trimmed = @ \/ Len(l) > LogCap]
       /\ dirLock' = IF dirLock = p THEN Unlocked ELSE dirLock
       /\ flusher' = [flusher EXCEPT ![p] = "next"]
       /\ drained' = [drained EXCEPT ![p] = Tail(@)]
       /\ UNCHANGED queue

(* DELETE /api/audit/events, once the password is verified. *)
ClearAudit ==
    /\ dirLock = Unlocked
    /\ log' = <<Marker>>
    /\ ahist' = [ahist EXCEPT !.saved = {}, !.trimmed = FALSE, !.excised = FALSE]
    /\ UNCHANGED <<queue, drained, flusher, dirLock>>

(* The process dies, and its queue with it. *)
AuditCrash(p) ==
    /\ flusher[p] # "off"
    /\ queue' = [queue EXCEPT ![p] = <<>>]
    /\ drained' = [drained EXCEPT ![p] = <<>>]
    /\ flusher' = [flusher EXCEPT ![p] = "off"]
    /\ dirLock' = IF dirLock = p THEN Unlocked ELSE dirLock
    /\ UNCHANGED <<log, ahist>>

(* Something other than the server takes an event out of the stored log,   *)
(* the last one excepted.                                                  *)
Excise(i) ==
    /\ ~ahist.excised
    /\ i \in 1..(Len(log) - 1) /\ Hashed(log[i])
    /\ dirLock = Unlocked
    /\ log' = RemoveAt(log, i)
    /\ ahist' = [ahist EXCEPT !.excised = TRUE, !.saved = @ \ {log[i].n}]
    /\ UNCHANGED <<queue, drained, flusher, dirLock>>

AuditInit ==
    /\ log = <<>>
    /\ queue = [p \in Procs |-> <<>>]
    /\ drained = [p \in Procs |-> <<>>]
    /\ flusher = [p \in Procs |-> "off"]
    /\ dirLock = Unlocked
    /\ ahist = [n |-> 0, saved |-> {}, trimmed |-> FALSE, excised |-> FALSE]

AuditFlush(p) == FlushRound(p) \/ AuditLock(p) \/ AuditDropped(p) \/ processAuditEvent(p)

AuditNext ==
    \/ \E p \in Procs : appendAuditEvent(p) \/ AuditFlush(p) \/ AuditCrash(p)
    \/ ClearAudit
    \/ \E i \in 1..LogCap : Excise(i)

-----------------------------------------------------------------------------
(* Properties *)

(* A log that nobody tampered with shows no broken link, however the       *)
(* processes interleave and whether it was cleared; and no event that was  *)
(* appended is lost by another append.  (Trimming to the newest LogCap     *)
(* events is the exception: the oldest one kept no longer verifies.)       *)
HonestLogVerifies ==
    ~ahist.excised =>
        /\ \A i \in 1..Len(log) :
              (Hashed(log[i]) /\ integrity_failure(log, i)) => ahist.trimmed /\ i = 1
        /\ ~ahist.trimmed => ahist.saved \subseteq {log[i].n : i \in 1..Len(log)}

(* "Verify HMAC integrity chain to detect log excision": an event that was *)
(* taken out leaves a broken link, also after more events were appended,   *)
(* until the log is trimmed past it.                                       *)
ExcisionDetected ==
    ahist.excised /\ ~ahist.trimmed =>
        \E i \in 1..Len(log) : Hashed(log[i]) /\ integrity_failure(log, i)

(* The events of one process are logged in the order they happened in. *)
ProcessOrderKept ==
    \A i, j \in 1..Len(log) :
        i < j /\ Hashed(log[i]) /\ Hashed(log[j]) /\ log[i].by = log[j].by
        => log[i].n < log[j].n

(* What is queued does not stay queued: an event that arrives while the    *)
(* flusher is at work is picked up by it, without waiting for another.     *)
QueueDrains == \A p \in Procs : queue[p] # <<>> ~> queue[p] = <<>>

(* What the log says is so: a log nobody tampered with verifies, one that  *)
(* was tampered with does not, and each process finds its events in order. *)
LogTrue == HonestLogVerifies /\ ExcisionDetected /\ ProcessOrderKept
=============================================================================
