--------------------------- MODULE CredentialForm ---------------------------
(***************************************************************************)
(* The form of pages/AddCredential.tsx over the vault list: opening it for *)
(* a new or a stored credential, the fields, the password generator and    *)
(* its effect, the breach lookup of the password, and saving.              *)
(*                                                                         *)
(* A password is a number, 0 for none; every generated or typed password   *)
(* is a new one.  A text field is the kind of its content: what the code's *)
(* patterns tell apart.                                                    *)
(***************************************************************************)
EXTENDS Naturals, FiniteSets

CONSTANTS
    FormMenus,    \* what behaviours may do, and how often: [ops, stored, draws, edits, saves]
    IdMax         \* bound: ids of credentials

VARIABLES
    formmenu,      \* the menu of this behaviour
    vault,      \* the stored credentials, by id (0: no such credential)
    form,       \* the form that is shown, or Closed
    generator,  \* settings of the generator: passphrase, classes switched on
    lookups,    \* breach lookups under way
    verdict,    \* breachStatus: what is shown, of which password, from where
    saves,      \* submissions whose handler has not ended
    formhist       \* history: passwords drawn, records added by a new form,
                \* passwords replaced with no word from the user, field edits

formVars == <<formmenu, vault, form, generator, lookups, verdict, saves, formhist>>

Offers(x) == x \in formmenu.ops

(* User names: none ("No username"), a name, an address, a number with the *)
(* code of a listed country, with another code; the last two are what      *)
(* saving makes of an empty number and of an unlisted one.                 *)
Record(type, user, tags, otp, phones, kba, keys, expiry, password) ==
    [type |-> type, user |-> user, tags |-> tags, otp |-> otp, phones |-> phones,
     kba |-> kba, keys |-> keys, expiry |-> expiry, password |-> password]

NoRecord == Record("none", "none", {}, "none", 0, 0, 0, "off", 0)

Closed == [open |-> FALSE, id |-> 0, from |-> NoRecord, type |-> "login", text |-> "none",
           utype |-> "username", phone |-> "none", tags |-> {}, otp |-> "none", phones |-> 0,
           kba |-> 0, keys |-> 0, expiry |-> FALSE, url |-> "none", password |-> 0,
           clean |-> TRUE, own |-> FALSE]

-----------------------------------------------------------------------------
(* The form's initial state *)

usernameText(u) == IF u \in {"name", "address"} THEN u ELSE "none"

usernameType(u) ==
    CASE u \in {"listed", "unlisted", "bare", "doubled"} -> "phone"
      [] u = "address" -> "email"
      [] OTHER -> "username"

loginPhoneValue(u) ==
    CASE u = "listed" -> "number" [] u = "unlisted" -> "whole" [] u = "doubled" -> "whole"
      [] OTHER -> "none"

(* A secret or a number of the stored record brings its tag. *)
initialTags(c) ==
    c.tags \cup (IF c.otp # "none" THEN {"OTP"} ELSE {})
           \cup (IF c.phones > 0 THEN {"2FA"} ELSE {})

Initial(i, c) ==
    [Closed EXCEPT !.open = TRUE, !.id = i, !.from = c,
        !.type = IF c.type = "none" THEN "login" ELSE c.type,
        !.text = usernameText(c.user), !.utype = usernameType(c.user),
        !.phone = loginPhoneValue(c.user), !.tags = initialTags(c), !.otp = c.otp,
        !.phones = c.phones, !.kba = c.kba, !.keys = c.keys, !.expiry = c.expiry # "off",
        !.password = c.password]

-----------------------------------------------------------------------------
(* The password and the lookup it starts *)

NoVerdict == [shown |-> "idle", of |-> 0, from |-> "none"]

(* The effect of a new password: the timer is cleared and the request      *)
(* aborted; a lookup that already asks the daemon goes on.                 *)
Restarted(p) ==
    /\ lookups' = {l \in lookups : l.at = "daemon"}
                  \cup (IF p = 0 THEN {} ELSE {[of |-> p, at |-> "timer"]})
    /\ verdict' = IF p = 0 THEN NoVerdict ELSE [shown |-> "checking", of |-> p, from |-> "none"]

Drawn == formhist.drawn + 1

(* generatePassword: nothing when every class is off. *)
Generates == generator.phrase \/ generator.classes > 0

(* The effect runs generatePassword when the form opens, whatever it was   *)
(* opened on.                                                              *)
OpenForm(i) ==
    LET c == IF i = 0 THEN NoRecord ELSE vault[i]
        f == Initial(i, c)
    IN /\ ~form.open
       /\ i # 0 => vault[i] # NoRecord
       /\ Drawn <= formmenu.draws
       /\ generator' = [phrase |-> FALSE, classes |-> 4]
       /\ form' = [f EXCEPT !.password = Drawn]
       /\ formhist' = [formhist EXCEPT !.drawn = Drawn]
       /\ Restarted(Drawn)
       /\ UNCHANGED <<formmenu, vault, saves>>

(* "Generate" *)
generatePassword ==
    /\ Offers("password") /\ form.open /\ Generates /\ Drawn <= formmenu.draws
    /\ form' = [form EXCEPT !.password = Drawn, !.own = TRUE]
    /\ formhist' = [formhist EXCEPT !.drawn = Drawn]
    /\ Restarted(Drawn)
    /\ UNCHANGED <<formmenu, vault, generator, saves>>

(* A setting of the generator: the effect draws a password for it. *)
SetGenerator(g) ==
    /\ Offers("generator") /\ form.open
    /\ g # generator /\ Drawn <= formmenu.draws
    /\ generator' = g
    /\ IF g.phrase \/ g.classes > 0
       THEN /\ form' = [form EXCEPT !.password = Drawn, !.own = TRUE]
            /\ formhist' = [formhist EXCEPT !.drawn = Drawn]
            /\ Restarted(Drawn)
       ELSE UNCHANGED <<form, formhist, lookups, verdict>>
    /\ UNCHANGED <<formmenu, vault, saves>>

(* Typing: a new password, the stored one again, or none *)
TypePassword(p) ==
    /\ Offers("password") /\ form.open /\ p # form.password
    /\ p \in {0, form.from.password} \cup (IF Drawn <= formmenu.draws THEN {Drawn} ELSE {})
    /\ form' = [form EXCEPT !.password = p, !.own = TRUE]
    /\ formhist' = [formhist EXCEPT !.drawn = IF p = Drawn THEN p ELSE @]
    /\ Restarted(p)
    /\ UNCHANGED <<formmenu, vault, generator, saves>>

(* 400 ms later the range is asked for. *)
LookupSent ==
    /\ Offers("lookup")
    /\ \E l \in lookups :
          /\ l.at = "timer"
          /\ lookups' = (lookups \ {l}) \cup {[l EXCEPT !.at = "service"]}
    /\ UNCHANGED <<formmenu, vault, form, generator, verdict, saves, formhist>>

Shown(s, p, f) == verdict' = [shown |-> s, of |-> p, from |-> f]

(* The service answers. *)
LookupAnswered ==
    /\ \E l \in lookups, s \in {"pwned", "clean"} :
          /\ l.at = "service"
          /\ lookups' = lookups \ {l}
          /\ Shown(s, l.of, "service")
    /\ UNCHANGED <<formmenu, vault, form, generator, saves, formhist>>

(* The service fails: the daemon's filter is asked, if it is connected. *)
LookupFailed ==
    /\ Offers("outage")
    /\ \E l \in lookups :
          /\ l.at = "service"
          /\ \/ /\ Shown("unavailable", l.of, "service")
                /\ lookups' = lookups \ {l}
             \/ /\ lookups' = (lookups \ {l}) \cup {[l EXCEPT !.at = "daemon"]}
                /\ UNCHANGED verdict
    /\ UNCHANGED <<formmenu, vault, form, generator, saves, formhist>>

(* The daemon answers; what it is compared with is the password of the     *)
(* same rendering, so the answer is shown whatever the field holds now.    *)
DaemonAnswered ==
    /\ \E l \in lookups, s \in {"pwned", "clean", "unavailable", "error"} :
          /\ l.at = "daemon"
          /\ lookups' = lookups \ {l}
          /\ IF form.open THEN Shown(s, l.of, "daemon") ELSE UNCHANGED verdict
    /\ UNCHANGED <<formmenu, vault, form, generator, saves, formhist>>

-----------------------------------------------------------------------------
(* The other fields *)

SetField(op, new) ==
    /\ Offers(op) /\ form.open
    /\ new # form /\ formhist.edits < formmenu.edits
    /\ form' = [new EXCEPT !.clean = FALSE]
    /\ formhist' = [formhist EXCEPT !.edits = @ + 1]
    /\ UNCHANGED <<formmenu, vault, generator, lookups, verdict, saves>>

toggleTag(t) ==
    SetField("tags", [form EXCEPT !.tags = IF t \in @ THEN @ \ {t} ELSE @ \cup {t}])

EnterOtp(o) == SetField("tags", [form EXCEPT !.otp = o])

(* The lists, by their entries that are filled in: an entry is filled when *)
(* it is added, or is the blank first one; the last one is not removed,    *)
(* and there are at most two numbers and two keys.                         *)
addPhoneNumber == form.phones < 2 /\ SetField("lists", [form EXCEPT !.phones = @ + 1])

removePhoneNumber == form.phones > 1 /\ SetField("lists", [form EXCEPT !.phones = @ - 1])

addU2fKey == form.keys < 2 /\ SetField("lists", [form EXCEPT !.keys = @ + 1])

removeU2fKey == form.keys > 1 /\ SetField("lists", [form EXCEPT !.keys = @ - 1])

addKbaQuestion == SetField("lists", [form EXCEPT !.kba = @ + 1])

removeKbaQuestion == form.kba > 1 /\ SetField("lists", [form EXCEPT !.kba = @ - 1])

EnterUsername ==
    \/ \E t \in {"username", "email", "phone"} : SetField("user", [form EXCEPT !.utype = t])
    \/ \E u \in {"none", "name", "address"} :
          form.utype # "phone" /\ SetField("user", [form EXCEPT !.text = u])
    \/ \E n \in {"none", "number"} :
          form.utype = "phone" /\ SetField("user", [form EXCEPT !.phone = n])

SetType(t) == SetField("type", [form EXCEPT !.type = t])

ToggleExpiry == SetField("expiry", [form EXCEPT !.expiry = ~@])

EnterUrl(u) == SetField("url", [form EXCEPT !.url = u])

-----------------------------------------------------------------------------
(* Saving *)

savedUsername(f) ==
    IF f.utype = "phone"
    THEN CASE f.phone = "none" -> "bare" [] f.phone = "number" -> "listed"
           [] OTHER -> "doubled"
    ELSE f.text

If(t, f, x, none) == IF t \in f.tags THEN x ELSE none

(* A blank question is stored too. *)
AtLeastOne(n) == IF n = 0 THEN 1 ELSE n

(* credData; a note, a card or a passkey keeps none of a login's fields *)
Saved(f) ==
    IF f.type # "login"
    THEN [NoRecord EXCEPT !.type = f.type]
    ELSE Record("login", savedUsername(f), f.tags, If("OTP", f, f.otp, "none"),
                If("2FA", f, f.phones, 0), If("KBA", f, AtLeastOne(f.kba), 0), If("U2F", f, f.keys, 0),
                IF ~f.expiry THEN "off" ELSE IF f.from.expiry # "off" THEN f.from.expiry ELSE "now",
                f.password)

FreeIds == {i \in 1..IdMax : vault[i] = NoRecord /\ \A s \in saves : s.id # i}

SaveId(f, i) == IF f.id # 0 THEN i = f.id ELSE i \in FreeIds

(* onSubmit: the URL is checked, and a one-time secret, which takes a      *)
(* moment; what is stored is what the form held at the click.              *)
Submit(i) ==
    /\ form.open /\ SaveId(form, i) /\ Cardinality(saves) < formmenu.saves
    /\ \A s \in saves : s.at # "secret" \/ s.form.id # form.id
    /\ form.type = "login" => form.url # "bad"
    /\ saves' = saves \cup
         {[id |-> i, form |-> form, cred |-> Saved(form),
           at |-> IF form.type = "login" /\ "OTP" \in form.tags /\ form.otp # "none"
                  THEN "secret" ELSE "store"]}
    /\ UNCHANGED <<formmenu, vault, form, generator, lookups, verdict, formhist>>

SecretChecked ==
    /\ \E s \in saves :
          /\ s.at = "secret"
          /\ saves' = (saves \ {s}) \cup (IF s.form.otp = "good" THEN {[s EXCEPT !.at = "store"]}
                                          ELSE {})
    /\ UNCHANGED <<formmenu, vault, form, generator, lookups, verdict, formhist>>

(* The list stores it and onCancel closes the form that is shown. *)
SaveDone ==
    /\ \E s \in saves :
          /\ s.at = "store"
          /\ saves' = saves \ {s}
          /\ vault' = [vault EXCEPT ![s.id] = s.cred]
          /\ formhist' = [formhist EXCEPT
                !.added = @ + IF s.form.id = 0 THEN 1 ELSE 0,
                !.unasked = @ \cup IF /\ s.form.id # 0 /\ ~s.form.own /\ s.cred.type = "login"
                                      /\ s.form.from.password # s.cred.password
                                   THEN {s.form.from.password} ELSE {}]
    /\ form' = Closed
    /\ lookups' = {l \in lookups : l.at = "daemon"}
    /\ verdict' = NoVerdict
    /\ UNCHANGED <<formmenu, generator>>

(* The list refuses: a notice, and the form stays. *)
SaveFails ==
    /\ Offers("outage")
    /\ \E s \in saves : s.at = "store" /\ saves' = saves \ {s}
    /\ UNCHANGED <<formmenu, vault, form, generator, lookups, verdict, formhist>>

(* "Cancel", "Back": the form goes, its submissions go on. *)
onCancel ==
    /\ form.open
    /\ form' = Closed
    /\ lookups' = {l \in lookups : l.at = "daemon"}
    /\ verdict' = NoVerdict
    /\ UNCHANGED <<formmenu, vault, generator, saves, formhist>>

FormInit ==
    /\ formmenu \in FormMenus
    /\ vault = [i \in 1..IdMax |-> IF i = 1 THEN formmenu.stored ELSE NoRecord]
    /\ form = Closed
    /\ generator = [phrase |-> FALSE, classes |-> 4]
    /\ lookups = {}
    /\ verdict = NoVerdict
    /\ saves = {}
    /\ formhist = [drawn |-> 1, added |-> 0, unasked |-> {}, edits |-> 0]

FormNext ==
    \/ \E i \in 0..IdMax : OpenForm(i)
    \/ generatePassword
    \/ \E b \in BOOLEAN, n \in {0, 4} : SetGenerator([phrase |-> b, classes |-> n])
    \/ \E p \in 0..formmenu.draws : TypePassword(p)
    \/ LookupSent \/ LookupAnswered \/ LookupFailed \/ DaemonAnswered
    \/ \E t \in {"OTP", "2FA", "KBA", "U2F"} : toggleTag(t)
    \/ \E o \in {"none", "good", "bad"} : EnterOtp(o)
    \/ addPhoneNumber \/ removePhoneNumber \/ addU2fKey \/ removeU2fKey
    \/ addKbaQuestion \/ removeKbaQuestion
    \/ EnterUsername \/ ToggleExpiry
    \/ \E t \in {"login", "secure_note"} : SetType(t)
    \/ \E u \in {"none", "ok", "bad"} : EnterUrl(u)
    \/ \E i \in 1..IdMax : Submit(i)
    \/ SecretChecked \/ SaveDone \/ SaveFails \/ onCancel

-----------------------------------------------------------------------------
(* Properties *)

Shape(c) == [c EXCEPT !.password = 0, !.tags = {}]

(* Opening a stored login and saving it with no field changed stores the   *)
(* same record, its password apart: the form's initial state and credData  *)
(* invert each other for every field, but for the number of a country that *)
(* is not listed, which gets a second code.                                *)
UntouchedKept ==
    \A s \in saves :
        (s.form.clean /\ s.form.id # 0 /\ s.form.from.user \notin {"unlisted", "bare", "doubled"})
            => Shape(s.cred) = Shape(s.form.from)

(* A verdict of the breach service is of the password that the field       *)
(* holds: a lookup for an earlier one is aborted, however late it answers. *)
VerdictCurrent ==
    (form.open /\ verdict.from = "service") => verdict.of = form.password

(* Editing changes the record it was opened on and adds none: there are as *)
(* many credentials as were stored first and added by a form for a new     *)
(* one.                                                                    *)
EditsInPlace ==
    Cardinality({i \in 1..IdMax : vault[i] # NoRecord})
        = formhist.added + IF formmenu.stored = NoRecord THEN 0 ELSE 1
=============================================================================
