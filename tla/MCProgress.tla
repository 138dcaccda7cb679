----------------------------- MODULE MCProgress -----------------------------
(***************************************************************************)
(* What must happen in the end, on the server and in the browser: TLC      *)
(* follows one part in each behaviour, chosen in the initial state, the    *)
(* others stay where they start.  Fairness is stated per part, for the     *)
(* steps that timers, answers and the event loop bring about.              *)
(***************************************************************************)
EXTENDS StateStore, AuditLog, ServerProcess, ClientVault

VARIABLE part

Limiter(max, window) == [max |-> max, window |-> window]

const_Limiters ==
    [login |-> Limiter(2, 3), hints |-> Limiter(2, 2), rpc |-> Limiter(3, 2),
     register |-> Limiter(1, 3), registerEmail |-> Limiter(1, 2), emergency |-> Limiter(1, 3),
     setupExec |-> Limiter(2, 2), dns |-> Limiter(2, 3), shareCreate |-> Limiter(3, 3)]

Vaulting(ops, faults, folders, credentials) ==
    [ops |-> ops, faults |-> faults,
     stored |-> [folders |-> folders, credentials |-> credentials]]

F1 == Item("f1", NoFolder, 1)
C1 == Item("c1", "f1", 1)

const_VaultMenus ==
    { Vaulting({"addFolder", "updateFolder"}, {"offline", "lost"}, {F1}, {}),
      Vaulting({"addCredential"}, {"offline", "reload"}, {F1}, {}),
      Vaulting({"deleteCredential"}, {"expire"}, {F1}, {C1}) }

Pick(p, menus) == IF part = p THEN menus ELSE { CHOOSE m \in menus : TRUE }

ProgressInit ==
    /\ part \in {"rate", "gate", "audit", "process", "dek", "otp", "vault"}
    /\ kind \in Pick("rate", DOMAIN Limiters)
    /\ RateInit
    /\ backend \in Pick("gate", Backends)
    /\ GateInit
    /\ AuditInit /\ ProcessInit /\ DekInit /\ OtpInit
    /\ vmenu \in Pick("vault", const_VaultMenus)
    /\ VaultInit

storeVars == <<rateVars, gateVars>>

cacheVars == <<dekVars, otpVars>>

InStore(A) ==
    /\ A
    /\ UNCHANGED <<part, auditVars, processVars, cacheVars, vaultVars>>

InAudit(A) ==
    /\ A
    /\ UNCHANGED <<part, storeVars, processVars, cacheVars, vaultVars>>

InProcess(A) ==
    /\ A
    /\ UNCHANGED <<part, storeVars, auditVars, cacheVars, vaultVars>>

InCaches(A) ==
    /\ A
    /\ UNCHANGED <<part, storeVars, auditVars, processVars, vaultVars>>

InVault(A) ==
    /\ A
    /\ UNCHANGED <<part, storeVars, auditVars, processVars, cacheVars>>

ProgressNext ==
    \/ part = "rate" /\ InStore(RateNext)
    \/ part = "gate" /\ InStore(GateNext)
    \/ part = "audit" /\ InAudit(AuditNext)
    \/ part = "process" /\ InProcess(ProcessNext)
    \/ part = "dek" /\ InCaches(DekNext) /\ UNCHANGED otpVars
    \/ part = "otp" /\ InCaches(OtpNext) /\ UNCHANGED dekVars
    \/ part = "vault" /\ InVault(VaultNext)

progressVars ==
    <<part, storeVars, auditVars, processVars, cacheVars, vaultVars>>

(* Expiry of keys and buffers, the rounds of the audit flusher, the drain  *)
(* timeout, and the retries and answers of the outbox                      *)
ProgressFair ==
    /\ WF_progressVars(part = "rate" /\ InStore(RateTick))
    /\ WF_progressVars(part = "gate" /\ InStore(GateTick))
    /\ \A p \in Procs : WF_progressVars(part = "audit" /\ InAudit(AuditFlush(p)))
    /\ \A p \in Instances : WF_progressVars(part = "process" /\ InProcess(DrainTimeout(p)))
    /\ WF_progressVars(part = "dek" /\ InCaches(DekExpire) /\ UNCHANGED otpVars)
    /\ WF_progressVars(part = "vault" /\ InVault(FlushStep))
    /\ \A r \in Resources :
          /\ WF_progressVars(part = "vault" /\ InVault(WriteStep(r)))
          /\ WF_progressVars(part = "vault" /\ InVault(LoadRead(r)))

ProgressSpec == ProgressInit /\ [][ProgressNext]_progressVars /\ ProgressFair

-----------------------------------------------------------------------------
(* Properties *)

(* What is under way ends: a refused caller is readmitted, a full Argon2   *)
(* gate opens again, the audit queue and the offline outbox drain, a       *)
(* process that was told to stop stops, and a cached key is evicted.       *)
WorkEnds ==
    /\ RefusedReadmitted
    /\ GateReopens
    /\ QueueDrains
    /\ OutboxDrains
    /\ ShutdownEnds
    /\ CachedKeyEvicted
=============================================================================
