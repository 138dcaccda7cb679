------------------------------ MODULE MailSetup ------------------------------
(***************************************************************************)
(* The outgoing mail server: the settings page that edits it               *)
(* (pages/Settings.tsx, useSecurityModes.ts), the copy the browser keeps,  *)
(* the copy the server sends one-time codes with (routes/vaultRoutes.js),  *)
(* and the DNS reports and the address guard on the way.                   *)
(*                                                                         *)
(* Three parts share the module.  "page": one tab that loads, edits, tests *)
(* and saves while replies arrive in any order.  "dns": one set of DNS     *)
(* answers read by the three reports of the server.  "guard": one host     *)
(* name judged by the address guard.  A domain stands for a host name or   *)
(* an address at it; ports, protocols and sender names are left out.       *)
(***************************************************************************)
EXTENDS Naturals, Sequences

CONSTANTS
    MailDomains,  \* the domains a host or a user name can belong to
    MxDomains,    \* those with an MX record
    PublicHosts,  \* those whose addresses are public
    MailEdits,    \* bound: edits of the form
    MailLoads,    \* bound: loads of the page
    DnsCases,     \* answers for the "dns" part
    GuardCases    \* host names for the "guard" part

NoCfg == [host |-> "", user |-> "", pass |-> "", mx |-> FALSE]
NoCheck == [domain |-> "", mx |-> FALSE]
Bare == "bare"  \* a user name that is no address

VARIABLES
    mkept,    \* email_server_config in the browser's storage
    mserver,  \* the smtp_config blob of the server
    mpage,    \* what the page shows, and the two reads of its mount effect
    mform,    \* the modal: open, and emailServerForm
    mcheck,   \* dnsCheckResult
    masked,   \* the domain whose check is under way, "" when none is
    msave,    \* handleSaveEmailServer under way: its step, form and check
    mhist,    \* history: edits, loads, a check that came late, a blanked password
    mdns,     \* the case of the "dns" part
    mguard    \* the case of the "guard" part

mailVars == <<mkept, mserver, mpage, mform, mcheck, masked, msave, mhist, mdns, mguard>>

NoSave == [step |-> "none", form |-> NoCfg, check |-> NoCheck]
PageStart == [shown |-> NoCfg, key |-> FALSE, local |-> "idle", remote |-> "idle"]

MailInit ==
    /\ mserver \in {NoCfg} \cup {[host |-> d, user |-> d, pass |-> "old", mx |-> d \in MxDomains] : d \in PublicHosts}
    /\ mkept \in {NoCfg, [mserver EXCEPT !.mx = FALSE]}
    /\ mpage = PageStart /\ mform = [open |-> FALSE, cfg |-> NoCfg]
    /\ mcheck = NoCheck /\ masked = "" /\ msave = NoSave
    /\ mhist = [edits |-> 0, loads |-> 0, late |-> FALSE, blank |-> FALSE, unread |-> FALSE]
    /\ mdns \in DnsCases /\ mguard \in GuardCases

(***************************************************************************)
(* The page loads: the stored copy and the server's are read together.     *)
(* The local read needs the key in memory; the server's copy comes without *)
(* a password, and keeps the one on the page.                              *)
(***************************************************************************)
MailPageLoads(key) ==
    /\ mhist.loads < MailLoads
    /\ mpage' = [shown |-> NoCfg, key |-> key, local |-> "reading", remote |-> "reading"]
    /\ mform' = [open |-> FALSE, cfg |-> NoCfg]
    /\ mcheck' = NoCheck /\ masked' = "" /\ msave' = NoSave
    /\ mhist' = [mhist EXCEPT !.loads = @ + 1]
    /\ UNCHANGED <<mkept, mserver, mdns, mguard>>

LocalRead ==
    /\ mpage.local = "reading"
    /\ mpage' = [mpage EXCEPT !.local = "done",
                              !.shown = IF mpage.key /\ mkept # NoCfg THEN mkept ELSE @]
    /\ UNCHANGED <<mkept, mserver, mform, mcheck, masked, msave, mhist, mdns, mguard>>

getSmtpConfig == [mserver EXCEPT !.pass = ""]

RemoteShown(cfg) == [cfg EXCEPT !.pass = mpage.shown.pass, !.mx = FALSE]

RemoteRead(ok) ==
    /\ mpage.remote = "reading"
    /\ mpage' = [mpage EXCEPT !.remote = "done",
                              !.shown = IF ok /\ mserver # NoCfg THEN RemoteShown(getSmtpConfig) ELSE @]
    /\ UNCHANGED <<mkept, mserver, mform, mcheck, masked, msave, mhist, mdns, mguard>>

SiteDataCleared ==
    /\ mkept # NoCfg /\ mkept' = NoCfg
    /\ UNCHANGED <<mserver, mpage, mform, mcheck, masked, msave, mhist, mdns, mguard>>

(***************************************************************************)
(* The modal.  Opening it and editing the host or the user forget the last *)
(* DNS check, but not a check that is under way.                           *)
(***************************************************************************)
(* the stored copy is not there, cannot be read, or has not been read yet *)
Unread == mpage.local = "reading" \/ ~mpage.key \/ mkept = NoCfg

OpenMailModal ==
    /\ mpage.local # "idle" /\ ~mform.open
    /\ mform' = [open |-> TRUE, cfg |-> mpage.shown]
    /\ mcheck' = NoCheck
    /\ mhist' = [mhist EXCEPT !.unread = @ \/ Unread]
    /\ UNCHANGED <<mkept, mserver, mpage, masked, msave, mdns, mguard>>

CloseMailModal ==
    /\ mform.open /\ msave.step = "none"
    /\ mform' = [mform EXCEPT !.open = FALSE]
    /\ UNCHANGED <<mkept, mserver, mpage, mcheck, masked, msave, mhist, mdns, mguard>>

ForgetCheck(field) == IF field \in {"host", "user"} THEN NoCheck ELSE mcheck

TypeMailField(field, v) ==
    /\ mform.open /\ mhist.edits < MailEdits /\ mform.cfg[field] # v
    /\ mform' = [mform EXCEPT !.cfg[field] = v]
    /\ mcheck' = ForgetCheck(field)
    /\ mhist' = [mhist EXCEPT !.edits = @ + 1]
    /\ UNCHANGED <<mkept, mserver, mpage, masked, msave, mdns, mguard>>

extractSmtpDomain(cfg) == IF cfg.user \in MailDomains THEN cfg.user ELSE cfg.host
CheckOf(d) == [domain |-> d, mx |-> d \in MxDomains]

handleDnsCheck ==
    /\ mform.open /\ masked = "" /\ msave.step = "none" /\ mform.cfg.host # ""
    /\ masked' = extractSmtpDomain(mform.cfg) /\ mcheck' = NoCheck
    /\ UNCHANGED <<mkept, mserver, mpage, mform, msave, mhist, mdns, mguard>>

DnsCheckAnswered(ok) ==
    /\ masked # ""
    /\ mcheck' = IF ok THEN CheckOf(masked) ELSE mcheck
    /\ masked' = ""
    /\ mhist' = [mhist EXCEPT !.late = @ \/ (ok /\ masked # extractSmtpDomain(mform.cfg))]
    /\ UNCHANGED <<mkept, mserver, mpage, mform, msave, mdns, mguard>>

(***************************************************************************)
(* handleSaveEmailServer: the check is asked for when there is none; the   *)
(* browser's copy is written first (not at all without the key), then the  *)
(* server's, whose refusal is only logged.                                 *)
(***************************************************************************)
SaveRefused(check) == check # NoCheck /\ ~check.mx

handleSaveEmailServer ==
    /\ mform.open /\ msave.step = "none" /\ mform.cfg.host # "" /\ mform.cfg.user # ""
    /\ ~SaveRefused(mcheck)
    /\ msave' = [step |-> IF mcheck = NoCheck THEN "dns" ELSE "local", form |-> mform.cfg, check |-> mcheck]
    /\ UNCHANGED <<mkept, mserver, mpage, mform, mcheck, masked, mhist, mdns, mguard>>

SaveChecked(ok) ==
    /\ msave.step = "dns"
    /\ LET check == IF ok THEN CheckOf(extractSmtpDomain(msave.form)) ELSE NoCheck
       IN /\ msave' = IF SaveRefused(check) THEN NoSave
                      ELSE [msave EXCEPT !.step = "local", !.check = check]
          /\ mcheck' = IF ok THEN check ELSE mcheck
    /\ UNCHANGED <<mkept, mserver, mpage, mform, masked, mhist, mdns, mguard>>

SaveKept ==
    /\ msave.step = "local"
    /\ mkept' = IF mpage.key THEN msave.form ELSE mkept
    /\ mpage' = [mpage EXCEPT !.shown = msave.form]
    /\ mform' = [mform EXCEPT !.open = FALSE]
    /\ msave' = [msave EXCEPT !.step = "put"]
    /\ UNCHANGED <<mserver, mcheck, masked, mhist, mdns, mguard>>

(* sendOtpEmail gives up on a configuration without a password *)
CanSend(cfg) == cfg.host # "" /\ cfg.user # "" /\ cfg.pass # ""

putSmtpConfig(form, check) ==
    IF form.host \in PublicHosts THEN [form EXCEPT !.mx = check.mx] ELSE mserver

SavePut(ok) ==
    /\ msave.step = "put"
    /\ mserver' = IF ok THEN putSmtpConfig(msave.form, msave.check) ELSE mserver
    /\ mhist' = [mhist EXCEPT !.blank = @ \/ (CanSend(mserver) /\ ~CanSend(mserver'))]
    /\ msave' = NoSave
    /\ UNCHANGED <<mkept, mpage, mform, mcheck, masked, mdns, mguard>>

deleteSmtpConfig ==
    /\ mserver # NoCfg /\ mserver' = NoCfg
    /\ UNCHANGED <<mkept, mpage, mform, mcheck, masked, msave, mhist, mdns, mguard>>

MailNext ==
    \/ \E k \in BOOLEAN : MailPageLoads(k) \/ RemoteRead(k) \/ DnsCheckAnswered(k) \/ SaveChecked(k) \/ SavePut(k)
    \/ LocalRead \/ SiteDataCleared \/ OpenMailModal \/ CloseMailModal
    \/ \E d \in MailDomains : TypeMailField("host", d) \/ TypeMailField("user", d)
    \/ TypeMailField("user", Bare) \/ TypeMailField("pass", "new")
    \/ handleDnsCheck \/ handleSaveEmailServer \/ SaveKept \/ deleteSmtpConfig

(***************************************************************************)
(* The three DNS reports.  A case has one kind of record, the records      *)
(* found there (FALSE when the lookup fails) and the tests asked for.  A   *)
(* record opens with the version tag as one chunk ("whole"), in capitals   *)
(* ("upper"), cut inside the tag ("split"), in a later chunk ("tail") or   *)
(* not at all ("other"); for DKIM "keyed" has k= and p= without the tag.   *)
(***************************************************************************)
Some(recs, shapes) == \E i \in 1..Len(recs) : recs[i] \in shapes

parseSmtpTestFilter(tests) ==
    IF tests \in {"", "full"} THEN {"spf", "dkim", "dmarc", "bimi", "vmc"}
    ELSE IF tests = "none" THEN {}
    ELSE IF tests = "dmark" THEN {"dmarc"} ELSE {tests}

(* GET /api/system/dns-check *)
dnsCheckFound(c) ==
    c.answered /\ CASE c.kind \in {"spf", "dmarc"} -> Some(c.recs, {"whole", "upper", "split"})
                     [] c.kind = "dkim" -> Some(c.recs, {"whole", "split", "tail", "keyed"})
                     [] c.kind = "bimi" -> c.recs # <<>> /\ c.recs[1] \in {"whole", "upper", "split"}

(* POST /api/auth/smtp-check *)
smtpCheckFound(c) ==
    /\ c.answered /\ c.kind \in parseSmtpTestFilter(c.tests)
    /\ IF c.kind = "dkim" THEN Some(c.recs, {"whole", "split", "tail", "keyed"})
       ELSE Some(c.recs, {"whole", "tail"})

(* the checks at start-up: any answer of a DKIM selector will do *)
validateEnvSmtpFound(c) ==
    /\ c.answered /\ c.kind \in parseSmtpTestFilter(c.tests)
    /\ IF c.kind = "dkim" THEN c.recs # <<>> ELSE Some(c.recs, {"whole", "tail"})

(***************************************************************************)
(* The address guard.  An IPv4 address is its first two octets, all the    *)
(* patterns look at; "v6" addresses are named by their class.              *)
(***************************************************************************)
isPrivateV4(a) ==
    \/ a[1] \in {0, 127, 10}
    \/ (a[1] = 172 /\ a[2] \in (16..19) \cup (20..29) \cup {30, 31})
    \/ (a[1] = 192 /\ a[2] = 168)
    \/ (a[1] = 169 /\ a[2] = 254)
    \/ (a[1] = 100 /\ a[2] \in (64..69) \cup (70..99) \cup (100..119) \cup (120..127))

isPrivateV6(a) ==
    IF a.class = "mapped" THEN isPrivateV4(a.v4) ELSE a.class \in {"loopback", "unspecified", "linklocal", "ula"}

IsPrivate(a) == IF a.class = "v4" THEN isPrivateV4(a.v4) ELSE isPrivateV6(a)

resolvesToPublicHost(c) ==
    /\ c.name \notin {"", "localhost"}
    /\ c.resolves /\ c.addrs # {}
    /\ \A a \in c.addrs : ~IsPrivate(a)

(***************************************************************************)
(* Properties.                                                             *)
(***************************************************************************)

(* Saving the mail settings never blanks the password the server sends     *)
(* codes with, unless the page had no readable copy of it when its form    *)
(* was opened: the server's reply comes without the password and keeps the *)
(* one already shown, in whatever order the two reads end                  *)
(* (useSecurityModes.ts).                                                  *)
PasswordKept == mhist.blank => mhist.unread

(* The server's "MX verified" mark is about the domain that was saved:     *)
(* editing the host or the user forgets the last check, so a mark for      *)
(* another domain needs a check that was answered after the edit           *)
(* (Settings.tsx).                                                         *)
VerifiedFresh == mserver.mx => mhist.late \/ extractSmtpDomain(mserver) \in MxDomains

(* The three reports of the server agree about every domain whose records  *)
(* are well formed, and a test that was not asked for is never reported as *)
(* found (server.js, routes/auth/smtp.js, lib/smtpConfig.js).              *)
ReportsAgree ==
    /\ mdns.kind \notin parseSmtpTestFilter(mdns.tests) => ~smtpCheckFound(mdns) /\ ~validateEnvSmtpFound(mdns)
    /\ (\A i \in 1..Len(mdns.recs) : mdns.recs[i] = "whole") =>
         \A found \in {smtpCheckFound(mdns), validateEnvSmtpFound(mdns)} :
            mdns.kind \in parseSmtpTestFilter(mdns.tests) => found = dnsCheckFound(mdns)

(* The address guard lets a host through exactly when its name resolves    *)
(* and all its addresses are outside the reserved blocks, the blocks given *)
(* by their prefix lengths (lib/ssrfGuard.js).                             *)
InBlock(v, base, bits) == v \div (2 ^ (16 - bits)) = base \div (2 ^ (16 - bits))
Reserved == {<<0, 8>>, <<10 * 256, 8>>, <<127 * 256, 8>>, <<172 * 256 + 16, 12>>,
             <<192 * 256 + 168, 16>>, <<169 * 256 + 254, 16>>, <<100 * 256 + 64, 10>>}
GuardExact ==
    resolvesToPublicHost(mguard) =
        /\ mguard.resolves /\ mguard.addrs # {} /\ mguard.name = "host"
        /\ \A a \in mguard.addrs :
             IF a.class \in {"v4", "mapped"}
             THEN \A b \in Reserved : ~InBlock(a.v4[1] * 256 + a.v4[2], b[1], b[2])
             ELSE a.class = "global"
=============================================================================
