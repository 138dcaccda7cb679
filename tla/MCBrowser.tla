----------------------------- MODULE MCBrowser -----------------------------
(***************************************************************************)
(* The vault in the browser and the pages and files around it: loading and *)
(* saving, the vault page, folders, the credential form, import and        *)
(* export, .p2w files, the clipboard, password strength and notices.  A    *)
(* behaviour follows one of them (part); the others stay where they start. *)
(***************************************************************************)
EXTENDS ClientVault, VaultPage, FolderPage, CredentialForm, Transfer, P2wFile, Clipboard,
        Strength, Notices

VARIABLE part

Vaulting(ops, faults, fs, cs) ==
    [ops |-> ops, faults |-> faults, stored |-> [folders |-> fs, credentials |-> cs]]

F1 == Item("f1", NoFolder, 1)
C1 == Item("c1", "f1", 1)

const_VaultMenus ==
    { Vaulting({"addFolder", "deleteFolder", "addCredential"}, {"error"}, {F1}, {C1}),
      Vaulting({"addFolder", "updateFolder"}, {"offline", "lost", "reload"}, {F1}, {}),
      Vaulting({"addCredential", "addFolder"}, {"offline"}, {F1}, {}),
      Vaulting({"updateCredential", "deleteCredential"}, {"expire", "wipe", "reload"}, {F1}, {C1}),
      Vaulting({"addFolder", "deleteFolder"}, {"offline", "error"}, {F1}, {C1}),
      Vaulting({"addFolder", "travel"}, {}, {F1}, {C1}) }

const_OldFolders == <<"f1", "f2">>

Holding(x, y, z) == [c \in {"a", "b", "c"} |-> IF c = "a" THEN x ELSE IF c = "b" THEN y ELSE z]

Managing(ops, cap, hold) == [ops |-> ops, fails |-> 1, cap |-> cap, edits |-> 3, hold |-> hold]

const_FolderMenus ==
    { Managing({"delete", "drag", "create"}, 2, Holding("f1", "f1", "f2")),
      Managing({"edit", "reorder", "delete"}, 2, Holding("f1", "f2", "f2")),
      Managing({"modal", "edit"}, 1, Holding("f1", "f1", "f2")),
      Managing({"delete", "select", "drag"}, 1, Holding("f1", "f1", "f2")) }

Filling(ops, draws, edits, n, record1) ==
    [ops |-> ops, stored |-> record1, draws |-> draws, edits |-> edits, saves |-> n]

Login(user, tags, otp, phrases, kba, tokens, expiry) ==
    Record("login", user, tags, otp, phrases, kba, tokens, expiry, 1)

const_FormMenus ==
    { Filling({}, 3, 0, 1, Login(u, t, o, p, IF "KBA" \in t THEN 1 ELSE 0,
                                 IF "U2F" \in t THEN 2 ELSE 0, e)) :
        u \in {"none", "name", "address", "listed", "unlisted"},
        t \in SUBSET {"KBA", "U2F"}, o \in {"none", "good"}, p \in {0, 2}, e \in {"off", "past"} }
      \cup
    { Filling({"password", "generator", "lookup", "outage"}, 3, 0, 1,
              Login("name", {}, "none", 0, 0, 0, "off")),
      Filling({"user", "expiry"}, 2, 2, 1, Login("listed", {}, "none", 0, 0, 0, "past")),
      Filling({"tags"}, 2, 2, 1, Login("name", {"OTP"}, "good", 0, 0, 0, "off")),
      Filling({"lists"}, 2, 2, 1, Login("name", {"2FA", "KBA", "U2F"}, "none", 1, 2, 2, "off")),
      Filling({"type", "url"}, 2, 2, 1, Login("name", {}, "none", 0, 0, 0, "off")),
      Filling({"password"}, 3, 0, 2, NoRecord) }

Optional(x) == { <<>>, <<x>> }

Exported(s, u, n, p, d, o, f) ==
    [service |-> s, url |-> u, username |-> n, password |-> p, description |-> d,
     otpSecret |-> o, folderId |-> f]

const_Shapes ==
    { <<>>, <<Exported(<<"s">>, <<"u">>, <<"n">>, <<"p">>, <<"d">>, <<"o">>, <<"work">>),
              Exported(<<"s2">>, <<>>, <<"n2">>, <<"p2">>, <<>>, <<>>, <<>>)>> }
      \cup { <<Exported(s, u, n, p, d, o, <<"work">>)>> :
               s \in Optional("s"), u \in Optional("u"), n \in Optional("n"),
               p \in Optional("p"), d \in Optional("d"), o \in Optional("o") }

Value == UNION { [1..n -> {"a", ",", "\""}] : n \in 0..2 }

const_TextCells == Value \X Value

const_Passwords ==
    { [id |-> 1, hash |-> 1, score |-> 0, common |-> TRUE],
      [id |-> 2, hash |-> 2, score |-> 1, common |-> FALSE],
      [id |-> 3, hash |-> 3, score |-> 4, common |-> FALSE],
      [id |-> 4, hash |-> 3, score |-> 5, common |-> FALSE],
      [id |-> 5, hash |-> 5, score |-> 5, common |-> FALSE] }

const_HitLists == UNION { [1..n -> SUBSET {"service", "url", "user", "tag"}] : n \in 0..2 }

Pick(p, menus) == IF part = p THEN menus ELSE { CHOOSE m \in menus : TRUE }

BrowserInit ==
    /\ part \in {"vault", "dialog", "code", "search", "folders", "form", "transfer", "p2w",
                 "clip", "typed", "list", "draw", "notices"}
    /\ vmenu \in Pick("vault", const_VaultMenus)
    /\ VaultInit
    /\ PageInit
    /\ fmenu \in Pick("folders", const_FolderMenus)
    /\ FolderInit
    /\ formmenu \in Pick("form", const_FormMenus)
    /\ FormInit
    /\ TransferInit
    /\ part # "transfer" => xfile.made = <<>>
    /\ P2wInit
    /\ ClipInit
    /\ StrengthInit
    /\ part # "draw" => draw.max = 1
    /\ NoticeInit

editVars == <<folderVars, formVars, strengthVars>>

sideVars == <<transferVars, p2wVars, clipVars, noticeVars>>

SearchOnce == hits = <<>> /\ \E l \in HitLists : Search(l)

BrowserNext ==
    /\ UNCHANGED part
    /\ \/ /\ part = "vault" /\ VaultNext
          /\ UNCHANGED <<pageVars, editVars, sideVars>>
       \/ /\ \/ part = "dialog" /\ DialogNext /\ UNCHANGED <<codeVars, hits>>
             \/ part = "code" /\ CodeNext /\ UNCHANGED <<dialogVars, hits>>
             \/ part = "search" /\ SearchOnce /\ UNCHANGED <<dialogVars, codeVars>>
          /\ UNCHANGED <<vaultVars, editVars, sideVars>>
       \/ /\ part = "folders" /\ FolderNext
          /\ UNCHANGED <<vaultVars, pageVars, formVars, strengthVars, sideVars>>
       \/ /\ part = "form" /\ FormNext
          /\ UNCHANGED <<vaultVars, pageVars, folderVars, strengthVars, sideVars>>
       \/ /\ \/ part = "typed" /\ TypeNext
             \/ part = "list" /\ ListNext
             \/ part = "draw" /\ DrawNext
          /\ UNCHANGED <<vaultVars, pageVars, folderVars, formVars, sideVars>>
       \/ /\ part = "transfer" /\ TransferNext
          /\ UNCHANGED <<vaultVars, pageVars, editVars, p2wVars, clipVars, noticeVars>>
       \/ /\ part = "p2w" /\ P2wNext
          /\ UNCHANGED <<vaultVars, pageVars, editVars, transferVars, clipVars, noticeVars>>
       \/ /\ part = "clip" /\ ClipNext
          /\ UNCHANGED <<vaultVars, pageVars, editVars, transferVars, p2wVars, noticeVars>>
       \/ /\ part = "notices" /\ NoticeNext
          /\ UNCHANGED <<vaultVars, pageVars, editVars, transferVars, p2wVars, clipVars>>

browserVars == <<part, vaultVars, pageVars, editVars, sideVars>>

BrowserSpec == BrowserInit /\ [][BrowserNext]_browserVars

-----------------------------------------------------------------------------
(* Properties of the browser as a whole *)

(* Nothing the user stored is lost, on any page and through any file: an   *)
(* edit that was acknowledged is in one of the stores (VaultContext), a    *)
(* dialog, an editor or a folder page takes away what was confirmed and    *)
(* nothing else, a form saved untouched stores the record it was opened    *)
(* on, an import that merges keeps the vault, every exported login is read *)
(* back, and a .p2w file is imported whole or not at all.                  *)
NothingLost ==
    /\ NothingElseLoses
    /\ OneDeletionEach /\ OtpKeepsChanges
    /\ OnlyConfirmedGoes /\ NoOrphans /\ DragMovesListed
    /\ UntouchedKept /\ EditsInPlace
    /\ MergeKeeps /\ ImportedFolderExists
    /\ LoginsComeBack /\ OwnFormatLossless /\ LineReadBack
    /\ WholeOrNothing /\ ImportedInOrder /\ BudgetedOpens

(* What a page shows is so: the list is the stored one when nothing is     *)
(* under way, a search finds all that match, a breach verdict is of the    *)
(* password in the field, a folder has the icon that was picked last, a    *)
(* countdown is that of the last copy, the two meters of a password and    *)
(* the two health scores agree, and the stored notices are those shown.    *)
ShownIsTrue ==
    /\ ShowsStored
    /\ SearchRanked
    /\ VerdictCurrent
    /\ OneIconEach
    /\ CountdownTrue
    /\ MetersAgree /\ DashboardMirrors
    /\ StoredCopyCurrent /\ OneUnread

(* Secrets leave the tab only as meant: one on the clipboard has a timer   *)
(* that will clear it (clipboardGuard.ts), the length of a .p2w file tells *)
(* a bucket and no more (p2wFormat.ts), and no number that the generator   *)
(* draws is likelier than another (PasswordGenerator.tsx).                 *)
SecretsContained == SecretGuarded /\ LengthHidden /\ EvenDraws
=============================================================================
