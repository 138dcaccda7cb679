------------------------------ MODULE MCServer ------------------------------
(* Small instances of the modules about the stores of the web server, in   *)
(* one run: a behaviour follows one of them (part) and leaves the others   *)
(* as they start.                                                          *)
EXTENDS WebAuth, DualRepository, Shares, DeviceLog, SealedFiles, KeyAuthority, IpIntel, ServerProcess, TLC

CONSTANTS r1, r2

VARIABLE part

const_Symmetry == Permutations({r1, r2})

const_Enforce == {{}, {"totp"}}

Auth(mfa, ops, pw, rk, jti, tok) ==
    [mfa |-> mfa, ops |-> ops, pw |-> pw, rk |-> rk, jti |-> jti, tok |-> tok]

const_Menus ==
    { Auth({"email"}, {"login", "finish", "verify"}, 1, 0, 2, 1),
      Auth({"totp"}, {"login", "finish", "mfa"}, 1, 0, 3, 1),
      Auth({}, {"login", "password", "recovery"}, 2, 1, 2, 0),
      Auth({}, {"login", "guess", "duress"}, 1, 0, 1, 0),
      Auth({}, {"login", "logout"}, 1, 0, 4, 0),
      Auth({}, {"register", "wipe"}, 2, 0, 3, 0) }

const_EmailOf == [i \in {"i1", "i2"} |-> "email"]

const_DualMenus ==
    { {"insertUser", "updateUserById", "skipUpdate", "deleteUserById"},
      {"insertUser", "setResource", "deleteUserById"},
      {"setResource", "deleteResource", "insertUser"},
      {"backfill", "insertUser", "deleteUserById"},
      {"backfill", "updateUserById", "findUserById"},
      {"backfill", "setResource", "getResource"} }

Sharing(ops, crash, new) == [ops |-> ops, crash |-> crash, fresh |-> new]

const_ShareMenus ==
    { Sharing({"create", "revoke", "view"}, FALSE, FALSE),
      Sharing({"create", "view", "expire"}, FALSE, FALSE),
      Sharing({"create", "view"}, TRUE, TRUE),
      Sharing({"emergency"}, TRUE, FALSE),
      Sharing({"emergency"}, FALSE, TRUE) }

Storing(ops, crashes, missing) == [ops |-> ops, crashes |-> crashes, missing |-> missing]

const_FileMenus ==
    { Storing({"put", "get", "delete"}, 1, FALSE),
      Storing({"update"}, 2, FALSE),
      Storing({"update"}, 1, TRUE) }

const_IpEnvs == { [tor |-> "yes", vpn |-> "1"] }

const_IpReports == { {"relay"}, {"vpn"} }

(* The starting point of a part that is not followed. *)
Pick(p, menus) == IF part = p THEN menus ELSE { CHOOSE m \in menus : TRUE }

ServerInit ==
    /\ part \in {"auth", "dual", "shares", "devices", "files", "kms", "intel", "address",
                 "process"}
    /\ menu \in Pick("auth", const_Menus)
    /\ WaInit
    /\ offer \in Pick("dual", const_DualMenus)
    /\ part # "dual" => users = [i \in Ids |-> None]
    /\ DualInit
    /\ smenu \in Pick("shares", const_ShareMenus)
    /\ ShareInit
    /\ dmenu \in Pick("devices", DeviceMenus)
    /\ DeviceInit
    /\ flmenu \in Pick("files", const_FileMenus)
    /\ FilesInit
    /\ kmsKind \in Pick("kms", KmsKinds)
    /\ KmsInit
    /\ AddressInit /\ ProcessInit

ServerNext ==
    /\ UNCHANGED part
    /\ \/ /\ part = "auth" /\ WaNext
          /\ UNCHANGED <<dualVars, shareVars, deviceVars, fileVars, kmsVars, addressVars, processVars>>
       \/ /\ part = "dual" /\ DualNext
          /\ UNCHANGED <<waVars, shareVars, deviceVars, fileVars, kmsVars, addressVars, processVars>>
       \/ /\ part = "shares" /\ ShareNext
          /\ UNCHANGED <<waVars, dualVars, deviceVars, fileVars, kmsVars, addressVars, processVars>>
       \/ /\ part = "devices" /\ DeviceNext
          /\ UNCHANGED <<waVars, dualVars, shareVars, fileVars, kmsVars, addressVars, processVars>>
       \/ /\ part = "files" /\ FilesNext
          /\ UNCHANGED <<waVars, dualVars, shareVars, deviceVars, kmsVars, addressVars, processVars>>
       \/ /\ part = "kms" /\ KmsNext
          /\ UNCHANGED <<waVars, dualVars, shareVars, deviceVars, fileVars, addressVars, processVars>>
       \/ /\ part = "intel" /\ IntelNext
          /\ UNCHANGED <<waVars, dualVars, shareVars, deviceVars, fileVars, kmsVars, pubVars, processVars>>
       \/ /\ part = "address" /\ PubNext
          /\ UNCHANGED <<waVars, dualVars, shareVars, deviceVars, fileVars, kmsVars, intelVars, processVars>>
       \/ /\ part = "process" /\ ProcessNext
          /\ UNCHANGED <<waVars, dualVars, shareVars, deviceVars, fileVars, kmsVars, addressVars>>

serverVars ==
    <<part, waVars, dualVars, shareVars, deviceVars, fileVars, kmsVars, addressVars, processVars>>

ServerSpec == ServerInit /\ [][ServerNext]_serverVars

-----------------------------------------------------------------------------
(* Properties *)

(* What the server remembers of its clients is so, though requests         *)
(* overlap: the devices and the failed attempts of an account (DeviceLog), *)
(* its one vault salt and its newest hints, the verdict on an address and  *)
(* the lookups spent on it (IpIntel), and the server's own public address. *)
ClientRecordsTrue ==
    /\ DevicesCounted /\ FailuresCounted
    /\ OneVaultSalt /\ HintsCurrent
    /\ VerdictCurrent /\ LookupsBounded /\ PublicIpKept
=============================================================================
