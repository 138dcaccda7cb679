----------------------------- MODULE MCThreads -----------------------------
(* The daemon's request handlers at the same time, in one run: their locks *)
(* (part "locks") and what their steps do to the vault (part "vault").     *)
EXTENDS LockOrder, VaultThreads, TLC

VARIABLE part

Interchangeable == Permutations(Clients)

ThreadsInit ==
    /\ part \in {"locks", "vault"}
    /\ LockInit
    /\ OverlapInit
    /\ part = "locks" => file = 1

(* Handlers that wait for each other wait for ever. *)
StaysStuck == ~NobodyStuck /\ UNCHANGED lockVars

ThreadsNext ==
    /\ UNCHANGED part
    /\ \/ part = "locks" /\ LockNext /\ UNCHANGED overlapVars
       \/ part = "locks" /\ StaysStuck /\ UNCHANGED overlapVars
       \/ part = "vault" /\ OverlapNext /\ UNCHANGED lockVars

ThreadsSpec == ThreadsInit /\ [][ThreadsNext]_<<part, lockVars, overlapVars>>
=============================================================================
