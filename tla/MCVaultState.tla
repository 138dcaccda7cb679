---------------------------- MODULE MCVaultState ----------------------------
(***************************************************************************)
(* Two instances of VaultState in one run.  A behaviour follows one vault: *)
(* one whose key is kept (the module's own variables), and one that may    *)
(* also change its password, migrate its KDF or start without a ticket     *)
(* (All, on variables of its own).                                         *)
(***************************************************************************)
EXTENDS VaultState

CONSTANT p1

(* Requests that leave the VMK and its wrapping alone. *)
KeepKey == {"unlock_with_passkey", "unlock_with_recovery_key", "quick_unlock",
            "update_login_policy", "store_item", "vault_totp", "overwrite", "crash"}

VARIABLES part, meta2, db2, vmk2, conn2, ticket2, session2, op2, fresh2, held2, torn2

All == INSTANCE VaultState
         WITH Passwords <- {p1}, Requests <- KeepKey \cup {"change_password"},
              HeavyKdf <- BOOLEAN,
              InitVaults <- {"absent", "current", "heavy", "ticketless", "passkey"},
              meta <- meta2, db <- db2, vmk <- vmk2, conn <- conn2, ticket <- ticket2,
              session <- session2, op <- op2, fresh <- fresh2, held <- held2, torn <- torn2

vars2 == <<meta2, db2, vmk2, conn2, ticket2, session2, op2, fresh2, held2, torn2>>

BothInit ==
    /\ part \in {"keep", "all"}
    /\ Init /\ (part = "keep" \/ meta = NoFile)
    /\ All!Init /\ (part = "all" \/ meta2 = NoFile)

BothNext ==
    /\ UNCHANGED part
    /\ \/ part = "keep" /\ Next /\ UNCHANGED vars2
       \/ part = "all" /\ All!Next /\ UNCHANGED vars

BothSpec == BothInit /\ [][BothNext]_<<part, vars, vars2>>

-----------------------------------------------------------------------------
(* Properties of the second vault *)

(* Through password changes, KDF migrations and missing tickets, header,   *)
(* database and memory agree on the key, and what sanitise_header and the  *)
(* deletion of the files leave behind never opens.                         *)
ChangedVaultSound == All!KeysAgree /\ All!ErasedIsOpaque
=============================================================================
