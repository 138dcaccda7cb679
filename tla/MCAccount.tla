----------------------------- MODULE MCAccount -----------------------------
(***************************************************************************)
(* The client's account side: signing in, second factors, the keystore,    *)
(* the mail settings, the bridge to the daemon, the breach monitor and the *)
(* pages of sharing.  A behaviour follows one of them (part); the others   *)
(* stay where they start.                                                  *)
(***************************************************************************)
EXTENDS SignIn, MfaSettings, Keystore, MailSetup, DaemonBridge, BreachScan, ShareClient,
        TLC

VARIABLE part

Signing(ops, tries, known, daemon, salt, data, kept) ==
    [ops |-> ops, tries |-> tries, known |-> known, daemon |-> daemon, salt |-> salt,
     data |-> data, disk |-> [b \in {"b1", "b2"} |-> IF b = "b1" THEN kept[1] ELSE kept[2]]]

const_SignMenus ==
    { Signing({"refresh", "clear"}, 3, TRUE, FALSE, NoSalt, "s1", <<"s1", "-">>),
      Signing({"offline", "register", "refresh"}, 2, FALSE, FALSE, NoSalt, NoSalt, <<"-", "s2">>),
      Signing({"duress", "limited", "clearKeys", "lost"}, 3, TRUE, FALSE, "s1", "s1", <<"s1", "-">>),
      Signing({"offline"}, 2, FALSE, TRUE, NoSalt, NoSalt, <<"-", "-">>) }

Factors(ops, kinds, on, daemon) ==
    [ops |-> ops, kinds |-> kinds, stored |-> [on |-> on, pwd |-> TRUE, less |-> FALSE],
     daemon |-> daemon]

const_MfaMenus ==
    { Factors({"totp", "remove", "refresh"}, {"passkey", "email"}, {}, FALSE),
      Factors({"remove", "lost"}, {"webauthn", "passkey", "platform"}, {<<"passkey", 1>>}, TRUE),
      Factors({"switch", "remove"}, {"platform"}, {<<"passkey", 1>>, <<"email", 0>>}, FALSE),
      Factors({"time", "refresh"}, {}, {<<"totp", 6>>, <<"email", 0>>}, FALSE),
      Factors({"quick", "refresh"}, {}, {}, TRUE) }

const_KeyMenus ==
    { [ops |-> {"clear", "write"}, logins |-> 2], [ops |-> {"clear", "restore"}, logins |-> 1],
      [ops |-> {"refresh", "restore"}, logins |-> 1] }

const_DnsCases ==
    { [kind |-> k, recs |-> r, answered |-> a, tests |-> t] :
        k \in {"spf", "dmarc", "dkim", "bimi"}, a \in BOOLEAN,
        t \in {"full", "none", "dmark", "spf", "bimi"},
        r \in UNION { [1..n -> {"whole", "upper", "split", "tail", "other"}] : n \in 0..2 } }

V4(x, y) == [class |-> "v4", v4 |-> <<x, y>>]

V6 ==
    { [class |-> c, v4 |-> <<8, 8>>] : c \in {"loopback", "unspecified", "linklocal", "ula", "global"} }
      \cup { [class |-> "mapped", v4 |-> <<x, y>>] : x \in {10, 100}, y \in {63, 64, 127, 128} }

Host(name, resolves, addrs) == [name |-> name, resolves |-> resolves, addrs |-> addrs]

(* The first two octets on both sides of every boundary of isPrivateV4 *)
const_GuardCases ==
    { Host("host", TRUE, {V4(x, y)}) :
        x \in {0, 1, 9, 10, 11, 99, 100, 101, 126, 127, 128, 168, 169, 170, 171, 172, 173, 191,
               192, 193, 255},
        y \in {0, 15, 16, 19, 20, 29, 30, 31, 32, 63, 64, 69, 70, 99, 100, 119, 120, 127, 128,
               167, 168, 169, 253, 254, 255} }
      \cup { Host("host", TRUE, {a, b}) : a, b \in V6 \cup {V4(8, 8), V4(10, 0)} }
      \cup { Host(n, r, s) : n \in {"", "localhost", "host"}, r \in BOOLEAN, s \in {{}, {V4(8, 8)}} }

const_Contents == { <<>>, <<"x">>, <<"x", "y">> }

const_Vaults == { <<"bad", "none", "weak">> }

LinkMade(single) == [NoLink EXCEPT !.there = TRUE, !.single = single, !.key = 1, !.cred = "c1"]

Sharing(ops, n, first) == [ops |-> ops, calls |-> n, first |-> first]

const_LinkMenus ==
    { Sharing({"share", "lost"}, 2, <<>>),
      Sharing({"view", "lost"}, 3, <<LinkMade(TRUE)>>),
      Sharing({"view", "expire"}, 2, <<LinkMade(TRUE), LinkMade(FALSE)>>),
      Sharing({"list", "lost"}, 3, <<>>), Sharing({"list"}, 4, <<>>),
      Sharing({"contact", "lost"}, 3, <<>>) }

Pick(p, menus) == IF part = p THEN menus ELSE { CHOOSE m \in menus : TRUE }

AccountInit ==
    /\ part \in {"signin", "mfa", "keys", "mail", "dns", "guard", "wire", "tab", "scan",
                "links"}
    /\ lmenu \in Pick("signin", const_SignMenus)
    /\ SignInit
    /\ mmenu \in Pick("mfa", const_MfaMenus)
    /\ MfaInit
    /\ kmenu \in Pick("keys", const_KeyMenus)
    /\ KeyInit
    /\ mdns \in Pick("dns", const_DnsCases)
    /\ mguard \in Pick("guard", const_GuardCases)
    /\ MailInit
    /\ part # "mail" => mserver = NoCfg /\ mkept = NoCfg
    /\ bmenu \in Pick("tab", {"edits", "recovery"})
    /\ BridgeInit
    /\ IF part = "wire" THEN WireInit ELSE sent = lock
    /\ daemonUp \in Pick("scan", BOOLEAN)
    /\ ScanInit
    /\ linkMenu \in Pick("links", const_LinkMenus)
    /\ LinkInit

AccountNext ==
    /\ UNCHANGED part
    /\ \/ /\ part = "signin" /\ SignNext
          /\ UNCHANGED <<mfaVars, keyVars, mailVars, bridgeVars, scanVars, linkVars>>
       \/ /\ part = "mfa" /\ MfaNext
          /\ UNCHANGED <<signVars, keyVars, mailVars, bridgeVars, scanVars, linkVars>>
       \/ /\ part = "keys" /\ KeyNext
          /\ UNCHANGED <<signVars, mfaVars, mailVars, bridgeVars, scanVars, linkVars>>
       \/ /\ part = "mail" /\ MailNext
          /\ UNCHANGED <<signVars, mfaVars, keyVars, bridgeVars, scanVars, linkVars>>
       \/ /\ part = "wire" /\ WireNext
          /\ UNCHANGED <<signVars, mfaVars, keyVars, mailVars, tabVars, scanVars, linkVars>>
       \/ /\ part = "tab" /\ BridgeNext
          /\ UNCHANGED <<signVars, mfaVars, keyVars, mailVars, wireVars, scanVars, linkVars>>
       \/ /\ part = "scan" /\ ScanNext
          /\ UNCHANGED <<signVars, mfaVars, keyVars, mailVars, bridgeVars, linkVars>>
       \/ /\ part = "links" /\ LinkNext
          /\ UNCHANGED <<signVars, mfaVars, keyVars, mailVars, bridgeVars, scanVars>>

accountVars == <<part, signVars, mfaVars, keyVars, mailVars, bridgeVars, scanVars, linkVars>>

AccountSpec == AccountInit /\ [][AccountNext]_accountVars

-----------------------------------------------------------------------------
(* Properties *)

(* What a page tells the user is so: that the mail settings work and are   *)
(* kept (MailSetup), that a call to the daemon was done with the bytes     *)
(* given (DaemonBridge), that a recovery key opens the vault, that the     *)
(* scan found nothing (BreachScan), that access was granted (ShareClient). *)
AnswersTrue ==
    /\ PasswordKept /\ VerifiedFresh /\ ReportsAgree /\ GuardExact
    /\ BytesArrive /\ ResolvedMeansDone /\ ShownKeyWorks
    /\ AllClearAfterAll /\ BestSource /\ CancelStops /\ LookupsAgree
    /\ ResponsesTrue
=============================================================================
