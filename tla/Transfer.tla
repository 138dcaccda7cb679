------------------------------ MODULE Transfer ------------------------------
(***************************************************************************)
(* The text formats of utils/importExport.ts: what each exporter writes,   *)
(* which importer importFromFile picks for a file, and what that importer  *)
(* reads back.  Then export and import in pages/Settings.tsx: the vault is *)
(* written in one of the formats, read back, here or in another vault, and *)
(* stored one credential after the other.                                  *)
(*                                                                         *)
(* A file is its extension, its header (the columns of a CSV file, the top *)
(* keys of a JSON object) and its rows, functions from column to value.  A *)
(* value is a sequence of characters; an otpauth URI is one character      *)
(* before the secret.  Tags, and all that no importer reads, are left out. *)
(* Header names are in lower case, as the importers compare them.          *)
(*                                                                         *)
(* handleConfirmImport runs with the functions of the render it started    *)
(* in: in server mode addCredential, deleteCredential and addFolder store  *)
(* the collection of that render, changed.                                 *)
(***************************************************************************)
EXTENDS Naturals, Sequences, SequencesExt, FiniteSets, TLC

Fields == {"service", "url", "username", "password", "description", "otpSecret", "folderId"}

Blank == <<>>

buildOtpUri(secret) == IF secret = Blank THEN Blank ELSE <<"otpauth:">> \o secret

extractOtpSecret(uri) ==
    IF uri # Blank /\ Head(uri) = "otpauth:" THEN Tail(uri) ELSE uri

-----------------------------------------------------------------------------
(* CSV text: lines are cut before quotes are read. *)

Separators == {",", "\"", "nl"}

csvEscape(val) ==
    IF \E i \in DOMAIN val : val[i] \in Separators
    THEN <<"\"">> \o FlattenSeq([i \in DOMAIN val |->
                        IF val[i] = "\"" THEN <<"\"", "\"">> ELSE <<val[i]>>]) \o <<"\"">>
    ELSE val

csvLine(cells) ==
    FlattenSeq([i \in DOMAIN cells |->
        IF i = 1 THEN csvEscape(cells[i]) ELSE <<",">> \o csvEscape(cells[i])])

(* The lines of a text *)
Lines(text) ==
    LET cut == {0, Len(text) + 1} \cup {i \in DOMAIN text : text[i] = "nl"}
        ends == SetToSortSeq(cut, <)
    IN [k \in 1..(Len(ends) - 1) |-> SubSeq(text, ends[k] + 1, ends[k + 1] - 1)]

RECURSIVE Cells(_, _, _, _)
(* The cells of a line from character i on. *)
Cells(line, i, quoted, cur) ==
    IF i > Len(line) THEN <<cur>>
    ELSE IF line[i] = "\""
         THEN IF quoted /\ i < Len(line) /\ line[i + 1] = "\""
              THEN Cells(line, i + 2, quoted, Append(cur, "\""))
              ELSE Cells(line, i + 1, ~quoted, cur)
    ELSE IF line[i] = "," /\ ~quoted
         THEN <<cur>> \o Cells(line, i + 1, FALSE, Blank)
    ELSE Cells(line, i + 1, quoted, Append(cur, line[i]))

parseCSV(text) ==
    LET lines == SelectSeq(Lines(text), LAMBDA l : l # Blank)
    IN [k \in DOMAIN lines |-> Cells(lines[k], 1, FALSE, Blank)]

-----------------------------------------------------------------------------
(* Exporters: what goes into each column *)

File(ext, head, quoted, rows) ==
    [ext |-> ext, head |-> head, quoted |-> quoted, rows |-> rows]

Cell(src, c) ==
    IF src = "otpUri" THEN buildOtpUri(c.otpSecret)
    ELSE IF src \in Fields THEN c[src] ELSE Blank

Rows(cols, creds) ==
    [i \in DOMAIN creds |-> [k \in DOMAIN cols |-> Cell(cols[k], creds[i])]]

(* cols: the column names in order, with what each holds *)
CsvFile(cols, quoted, creds) ==
    LET source == [k \in {cols[i][1] : i \in DOMAIN cols} |->
                      (CHOOSE i \in DOMAIN cols : cols[i][1] = k)]
    IN File("csv", [i \in DOMAIN cols |-> cols[i][1]], quoted,
            Rows([k \in DOMAIN source |-> cols[source[k]][2]], creds))

exportToPWDnow(creds) ==
    File("json", <<"app", "credentials">>, TRUE, creds)

exportToPWDnowCSV(creds) ==
    CsvFile(<< <<"name", "service">>, <<"url", "url">>, <<"username", "username">>,
               <<"password", "password">>, <<"notes", "description">>,
               <<"otp_secret", "otpSecret">>, <<"folder", "folderId">> >>, FALSE, creds)

buildKeePassXML(creds) ==
    File("xml", <<"KeePassFile">>, FALSE,
         Rows([Title |-> "service", UserName |-> "username", Password |-> "password",
               URL |-> "url", Notes |-> "description", otp |-> "otpUri"], creds))

exportToPWDnow1PUX(creds) ==
    File("1pux", <<"accounts">>, FALSE,
         Rows([title |-> "service", username |-> "username", password |-> "password",
               url |-> "url", notes |-> "description", sections |-> "otpUri"], creds))

exportToBitwardenJSON(creds) ==
    File("json", <<"encrypted", "folders", "items">>, FALSE,
         Rows([name |-> "service", uri |-> "url", username |-> "username",
               password |-> "password", notes |-> "description", totp |-> "otpUri"], creds))

exportToBitwardenCSV(creds) ==
    CsvFile(<< <<"folder", "-">>, <<"favorite", "-">>, <<"type", "-">>, <<"name", "service">>,
               <<"notes", "description">>, <<"fields", "-">>, <<"reprompt", "-">>,
               <<"login_uri", "url">>, <<"login_username", "username">>,
               <<"login_password", "password">>, <<"login_totp", "otpUri">> >>, FALSE, creds)

exportTo1PasswordCSV(creds) ==
    CsvFile(<< <<"title", "service">>, <<"username", "username">>, <<"password", "password">>,
               <<"url", "url">>, <<"notes", "description">>, <<"otpauth", "otpUri">> >>,
            FALSE, creds)

exportToNordPass(creds) ==
    CsvFile(<< <<"name", "service">>, <<"url", "url">>, <<"username", "username">>,
               <<"password", "password">>, <<"note", "description">>,
               <<"cardholder_name", "-">>, <<"card_number", "-">>, <<"expiry_date", "-">>,
               <<"cvv", "-">>, <<"notes", "-">>, <<"type", "-">> >>, FALSE, creds)

exportToLastPass(creds) ==
    CsvFile(<< <<"url", "url">>, <<"username", "username">>, <<"password", "password">>,
               <<"totp", "otpUri">>, <<"extra", "description">>, <<"name", "service">>,
               <<"grouping", "-">>, <<"fav", "-">> >>, FALSE, creds)

exportToChrome(creds) ==
    CsvFile(<< <<"name", "service">>, <<"url", "url">>, <<"username", "username">>,
               <<"password", "password">>, <<"note", "description">> >>, FALSE, creds)

exportToFirefox(creds) ==
    CsvFile(<< <<"url", "url">>, <<"username", "username">>, <<"password", "password">>,
               <<"httprealm", "-">>, <<"formactionorigin", "url">>, <<"guid", "-">> >>,
            TRUE, creds)

exportToKeePassCSV(creds) ==
    CsvFile(<< <<"account", "service">>, <<"login name", "username">>,
               <<"password", "password">>, <<"web site", "url">>,
               <<"comments", "description">> >>, TRUE, creds)

exportToKeeperJSON(creds) ==
    File("json", <<"records">>, FALSE,
         Rows([title |-> "service", login |-> "username", password |-> "password",
               login_url |-> "url", notes |-> "description", totp |-> "otpUri"], creds))

exportToKeeperCSV(creds) ==
    CsvFile(<< <<"folder", "-">>, <<"title", "service">>, <<"login", "username">>,
               <<"password", "password">>, <<"website", "url">>, <<"notes", "description">>,
               <<"shared", "-">>, <<"two-factor", "otpUri">> >>, FALSE, creds)

exportToDashlaneJSON(creds) ==
    File("json", <<"credentials">>, FALSE,
         Rows([title |-> "service", url |-> "url", login |-> "username", email |-> "username",
               password |-> "password", note |-> "description", otpSecret |-> "otpSecret"],
              creds))

exportToRoboForm(creds) ==
    CsvFile(<< <<"name", "service">>, <<"url", "url">>, <<"login", "username">>,
               <<"pwd", "password">>, <<"note", "description">>, <<"folder", "-">> >>,
            FALSE, creds)

exportToProtonPass(creds) ==
    File("json", <<"encrypted", "vaults{}">>, FALSE,
         Rows([name |-> "service", note |-> "description", username |-> "username",
               password |-> "password", urls |-> "url", totp_uri |-> "otpUri"], creds))

exportToZohoCSV(creds) ==
    CsvFile(<< <<"secret name", "service">>, <<"account name", "username">>,
               <<"password", "password">>, <<"comments", "description">>, <<"url", "url">>,
               <<"tags", "-">> >>, FALSE, creds)

exportToPassboltCSV(creds) ==
    CsvFile(<< <<"title", "service">>, <<"username", "username">>, <<"password", "password">>,
               <<"url", "url">>, <<"description", "description">> >>, FALSE, creds)

exportToPadlocJSON(creds) ==
    File("json", <<"version", "vaults[]">>, FALSE,
         Rows([name |-> "service", username |-> "username", password |-> "password",
               url |-> "url", otp |-> "otpUri", notes |-> "description"], creds))

exportToPasskyJSON(creds) ==
    File("json", <<"passwords">>, FALSE,
         Rows([website |-> "url", username |-> "username", password |-> "password",
               note |-> "description"], creds))

exportToEnpassCSV(creds) ==
    CsvFile(<< <<"title", "service">>, <<"url", "url">>, <<"username", "username">>,
               <<"password", "password">>, <<"notes", "description">>,
               <<"one-time password", "otpUri">> >>, FALSE, creds)

exportToButtercupJSON(creds) ==
    File("json", <<"groups">>, FALSE,
         Rows([title |-> "service", username |-> "username", password |-> "password",
               URL |-> "url", Notes |-> "description"], creds))

(* runExport: the formats that have a case, with the file of each.  Some   *)
(* formats of the table have none, and their export writes nothing.        *)
TextExports(creds) ==
    ("pwdnow-json" :> exportToPWDnow(creds)) @@ ("pwdnow-csv" :> exportToPWDnowCSV(creds)) @@
    ("pwdnow-xml" :> buildKeePassXML(creds)) @@ ("pwdnow-1pux" :> exportToPWDnow1PUX(creds)) @@
    ("bitwarden-json" :> exportToBitwardenJSON(creds)) @@
    ("bitwarden-csv" :> exportToBitwardenCSV(creds)) @@
    ("1password-csv" :> exportTo1PasswordCSV(creds)) @@
    ("nordpass-csv" :> exportToNordPass(creds)) @@ ("lastpass-csv" :> exportToLastPass(creds)) @@
    ("chrome-csv" :> exportToChrome(creds)) @@ ("firefox-csv" :> exportToFirefox(creds)) @@
    ("keepass-xml" :> buildKeePassXML(creds)) @@ ("keepass-csv" :> exportToKeePassCSV(creds)) @@
    ("keeper-json" :> exportToKeeperJSON(creds)) @@ ("keeper-csv" :> exportToKeeperCSV(creds)) @@
    ("dashlane-json" :> exportToDashlaneJSON(creds)) @@
    ("roboform-csv" :> exportToRoboForm(creds)) @@
    ("protonpass-json" :> exportToProtonPass(creds)) @@ ("zoho-csv" :> exportToZohoCSV(creds)) @@
    ("passbolt-csv" :> exportToPassboltCSV(creds)) @@
    ("padloc-json" :> exportToPadlocJSON(creds)) @@ ("passky-json" :> exportToPasskyJSON(creds)) @@
    ("enpass-csv" :> exportToEnpassCSV(creds)) @@
    ("buttercup-json" :> exportToButtercupJSON(creds))

-----------------------------------------------------------------------------
(* Importers: where each field is looked for, first match first; csv tells *)
(* a table from an object, uri whether an otpauth URI is reduced to its    *)
(* secret, needs the fields without which an entry is skipped.             *)

Generic ==
    [title |-> <<"title", "name", "account", "label">>,
     url |-> <<"url", "website", "web site", "login_uri", "uri">>,
     username |-> <<"username", "login", "login name", "user name", "email", "login_username">>,
     password |-> <<"password", "pwd", "login_password">>,
     notes |-> <<"notes", "note", "extra", "comment", "comments">>,
     otp |-> <<"totp", "otpauth", "otp", "two-factor", "login_totp">>,
     csv |-> TRUE, uri |-> TRUE, titled |-> FALSE, whole |-> FALSE]

Object == [Generic EXCEPT !.csv = FALSE]

importChrome ==
    [id |-> "chrome-csv", title |-> <<"name">>, url |-> <<"url">>, username |-> <<"username">>,
     password |-> <<"password">>, notes |-> <<"note">>] @@ Generic

importFirefox ==
    [id |-> "firefox-csv", url |-> <<"url">>, username |-> <<"username">>,
     password |-> <<"password">>, notes |-> <<"httprealm">>] @@ Generic

importLastPass ==
    [id |-> "lastpass-csv", title |-> <<"name">>, url |-> <<"url">>,
     username |-> <<"username">>, password |-> <<"password">>, notes |-> <<"extra", "notes">>,
     otp |-> <<"totp">>] @@ Generic

import1PasswordCSV ==
    [id |-> "1password-csv", title |-> <<"title">>, url |-> <<"url">>,
     username |-> <<"username">>, password |-> <<"password">>, notes |-> <<"notes">>,
     otp |-> <<"otpauth">>] @@ Generic

import1PUX ==
    [id |-> "1password-1pux", title |-> <<"title">>, url |-> <<"url">>,
     username |-> <<"username">>, password |-> <<"password">>, notes |-> <<"notes">>,
     otp |-> <<>>] @@ Object

importBitwardenJSON ==
    [id |-> "bitwarden-json", title |-> <<"name">>, url |-> <<"uri">>,
     username |-> <<"username">>, password |-> <<"password">>, notes |-> <<"notes">>,
     otp |-> <<"totp">>] @@ Object

importBitwardenCSV ==
    [id |-> "bitwarden-csv", title |-> <<"name">>, url |-> <<"login_uri">>,
     username |-> <<"login_username">>, password |-> <<"login_password">>,
     notes |-> <<"notes">>, otp |-> <<"login_totp">>] @@ Generic

importNordPass ==
    [id |-> "nordpass-csv", title |-> <<"name">>, url |-> <<"url">>,
     username |-> <<"username">>, password |-> <<"password">>,
     notes |-> <<"note", "notes">>] @@ Generic

importKeePassXML ==
    [id |-> "keepass-xml", title |-> <<"Title">>, url |-> <<"URL">>,
     username |-> <<"UserName">>, password |-> <<"Password">>, notes |-> <<"Notes">>,
     otp |-> <<"otp", "TOTP Seed", "TimeOtp-Secret-Base32">>, titled |-> TRUE] @@ Object

importKeePassCSV ==
    [id |-> "keepass-csv", title |-> <<"account", "title", "name">>,
     url |-> <<"web site", "url">>, username |-> <<"login name", "username">>,
     password |-> <<"password">>, notes |-> <<"comments">>] @@ Generic

importKeeperJSON ==
    [id |-> "keeper-json", title |-> <<"title">>, url |-> <<"login_url", "url">>,
     username |-> <<"login", "username">>, password |-> <<"password">>,
     notes |-> <<"notes">>, otp |-> <<"totp">>, uri |-> FALSE] @@ Object

importKeeperCSV ==
    [id |-> "keeper-csv", title |-> <<"title">>, url |-> <<"website">>,
     username |-> <<"login", "username">>, password |-> <<"password">>,
     notes |-> <<"notes">>, otp |-> <<"two-factor", "otp secret">>] @@ Generic

importDashlaneJSON ==
    [id |-> "dashlane-json", title |-> <<"title", "name">>, url |-> <<"url", "domain">>,
     username |-> <<"login", "email", "username">>, password |-> <<"password">>,
     notes |-> <<"note">>, otp |-> <<"otpSecret">>, uri |-> FALSE] @@ Object

importRoboForm ==
    [id |-> "roboform-csv", title |-> <<"name">>, url |-> <<"url">>,
     username |-> <<"login", "username">>, password |-> <<"pwd", "password">>,
     notes |-> <<"note">>] @@ Generic

importMSecure ==
    [id |-> "msecure-csv", title |-> <<"description", "title", "name">>,
     url |-> <<"website", "url", "web">>, username |-> <<"username", "login", "email">>,
     password |-> <<"password">>, notes |-> <<"notes", "note">>,
     otp |-> <<"2fa key", "otp", "totp">>] @@ Generic

importSafeInCloud ==
    [id |-> "safeincloud-xml", title |-> <<"title", "name">>,
     url |-> <<"website", "url", "web site">>,
     username |-> <<"login", "username", "email", "user name">>, password |-> <<"password">>,
     notes |-> <<"notes">>, otp |-> <<"one-time password", "totp", "2fa key">>,
     titled |-> TRUE] @@ Object

importTrueKey ==
    [id |-> "truekey-csv", title |-> <<"name">>, url |-> <<"url">>,
     username |-> <<"username">>, password |-> <<"password">>, notes |-> <<"extra">>,
     otp |-> <<"totp">>, titled |-> TRUE] @@ Generic

importProtonPass ==
    [id |-> "protonpass-json", title |-> <<"name">>, url |-> <<"urls">>,
     username |-> <<"username">>, password |-> <<"password">>, notes |-> <<"note">>,
     otp |-> <<"totp_uri">>] @@ Object

importZoho ==
    [id |-> "zoho-csv", title |-> <<"secret name", "title", "name">>,
     url |-> <<"url", "website">>, username |-> <<"account name", "username", "user name">>,
     password |-> <<"password">>, notes |-> <<"comments", "notes">>] @@ Generic

importPassbolt ==
    [id |-> "passbolt-csv", title |-> <<"title">>, url |-> <<"url">>,
     username |-> <<"username">>, password |-> <<"password">>,
     notes |-> <<"description", "note">>] @@ Generic

importPadloc ==
    [id |-> "padloc-json", title |-> <<"name">>, url |-> <<"url", "website">>,
     username |-> <<"username", "email">>, password |-> <<"password">>, notes |-> <<>>,
     otp |-> <<"otp", "totp">>] @@ Object

importPassky ==
    [id |-> "passky-json", title |-> <<"website", "name">>, url |-> <<"website">>,
     username |-> <<"username">>, password |-> <<"password">>,
     notes |-> <<"note", "message">>, otp |-> <<>>] @@ Object

importEnpassJSON ==
    [id |-> "enpass-json", title |-> <<"title">>, url |-> <<"url", "website", "login_urls">>,
     username |-> <<"username", "email", "login">>, password |-> <<"password">>,
     notes |-> <<>>, otp |-> <<"one-time password", "totp">>] @@ Object

importButtercup ==
    [id |-> "buttercup-json", title |-> <<"title", "name">>, url |-> <<"URL", "url">>,
     username |-> <<"username">>, password |-> <<"password">>, notes |-> <<>>,
     otp |-> <<>>] @@ Object

(* The fields are taken as they are. *)
importPWDnow == [id |-> "pwdnow-json", whole |-> TRUE] @@ Object

(* findCol, and the ?? of the object importers *)
findCol(row, names) ==
    LET found == {i \in DOMAIN names : names[i] \in DOMAIN row}
    IN IF found = {} THEN "-" ELSE names[CHOOSE i \in found : \A j \in found : i <= j]

Untitled == <<"Untitled">>

(* csvImport, and the body of the loop of the other importers *)
Entry(imp, row) ==
    LET at(names) == findCol(row, names)
        got(names) == IF at(names) = "-" THEN Blank ELSE row[at(names)]
        noTitle == at(imp.title) = "-" \/ (imp.csv /\ got(imp.title) = Blank)
    IN [service |-> IF noTitle THEN Untitled ELSE got(imp.title),
        url |-> got(imp.url), username |-> got(imp.username),
        password |-> got(imp.password), description |-> got(imp.notes),
        otpSecret |-> IF imp.uri THEN extractOtpSecret(got(imp.otp)) ELSE got(imp.otp),
        folderId |-> Blank]

Skipped(imp, row) ==
    imp.titled /\ (findCol(row, imp.title) = "-" \/ row[findCol(row, imp.title)] = Blank)

Imported(imp, file) ==
    IF imp.whole THEN file.rows
    ELSE LET rows == SelectSeq(file.rows, LAMBDA r : ~Skipped(imp, r))
         IN [i \in DOMAIN rows |-> Entry(imp, rows[i])]

-----------------------------------------------------------------------------
(* importFromFile *)

(* Words the dispatch looks for that are part of a longer column name *)
Within ==
    {<<"favorite", "fav">>, <<"cardholder_name", "cardholder">>, <<"login name", "login">>,
     <<"login_uri", "login">>, <<"login_username", "login">>, <<"login_username", "username">>,
     <<"login_password", "password">>, <<"autologin", "login">>,
     <<"one-time password", "password">>}

includes(file, word) ==
    \E i \in DOMAIN file.head : file.head[i] = word \/ <<file.head[i], word>> \in Within

(* ',login,' and 'login,password' in the first line *)
loginBetween(file) ==
    /\ ~file.quoted
    /\ \E i \in DOMAIN file.head :
          /\ i < Len(file.head)
          /\ \/ i > 1 /\ file.head[i] = "login"
             \/ file.head[i] \in {"login", "autologin"} /\ file.head[i + 1] = "password"

(* The importer of the first rule that applies *)
FirstRule(rules) ==
    rules[CHOOSE i \in DOMAIN rules :
             rules[i][1] /\ \A j \in DOMAIN rules : rules[j][1] => i <= j][2]

csvImporter(file) ==
    LET has(word) == includes(file, word)
    IN FirstRule(<<
         <<has("httprealm") \/ has("formactionorigin"), importFirefox>>,
         <<has("login_uri") \/ has("login_username"), importBitwardenCSV>>,
         <<has("grouping") \/ (has("extra") /\ has("fav")), importLastPass>>,
         <<file.head[1] = "url" /\ (file.quoted \/ file.head[2] = "username"), importLastPass>>,
         <<has("otpauth"), import1PasswordCSV>>,
         <<has("login_url") \/ loginBetween(file), importKeeperCSV>>,
         <<has("cardholder") \/ has("cvv"), importNordPass>>,
         <<(file.quoted /\ has("account")) \/ has("login name"), importKeePassCSV>>,
         <<has("login") /\ has("pwd"), importRoboForm>>,
         <<has("secret name") \/ has("account name"), importZoho>>,
         <<has("title") /\ has("username") /\ has("password") /\ has("url"), importPassbolt>>,
         <<has("account type") \/ has("2fa key"), importMSecure>>,
         <<has("autologin") \/ (has("kind") /\ has("two_factor")), importTrueKey>>,
         <<TRUE, importChrome>> >>)

jsonImporter(file) ==
    LET has(key) == \E i \in DOMAIN file.head : file.head[i] = key
    IN FirstRule(<<
         <<has("app"), importPWDnow>>,
         <<has("items") /\ has("encrypted"), importBitwardenJSON>>,
         <<has("credentials") /\ file.rows # <<>> /\ "url" \in DOMAIN file.rows[1],
           importDashlaneJSON>>,
         <<has("records") \/ has("shared_folders"), importKeeperJSON>>,
         <<has("vaults{}"), importProtonPass>>,
         <<has("vaults[]"), importPadloc>>,
         <<has("passwords"), importPassky>>,
         <<has("items"), importEnpassJSON>>,
         <<has("accounts"), import1PUX>>,
         <<has("groups"), importButtercup>>,
         <<TRUE, importPWDnow>> >>)

importerOf(file) ==
    CASE file.ext = "xml" /\ file.head[1] = "database" -> importSafeInCloud
      [] file.ext = "xml" /\ file.head[1] # "database" -> importKeePassXML
      [] file.ext = "1pux" -> import1PUX
      [] file.ext = "json" -> jsonImporter(file)
      [] file.ext = "csv" -> csvImporter(file)

-----------------------------------------------------------------------------
(* Export and import in Settings.tsx *)

CONSTANTS
    Shapes,       \* the vaults that are exported: sequences of credentials
    TextCells     \* rows of cells for the CSV text

VARIABLES
    held,       \* stored credentials and folders
    xfile,      \* the exported file, its format and what it was made from
    result,     \* importResult
    xjob,       \* handleConfirmImport: step, render, what is left
    xtold,      \* the notice: how many were imported
    line        \* a line of CSV text: its cells, the text, what is read

transferVars == <<held, xfile, result, xjob, xtold, line>>

Stored(id, data, folder) == [id |-> id, data |-> data, folder |-> folder]

NoJob == [at |-> "idle", replace |-> FALSE, creds |-> {}, folders |-> {}, todo |-> {},
          left |-> <<>>, folder |-> "none"]

NoResult == [at |-> "none", imp |-> "none", list |-> <<>>]

runExport(fmt) ==
    /\ xfile.fmt = "none" /\ line.at = "none"
    /\ xfile' = [fmt |-> fmt, file |-> TextExports(xfile.made)[fmt], made |-> xfile.made]
    /\ UNCHANGED <<held, result, xjob, xtold, line>>

(* The file is opened in a new vault. *)
OtherVault ==
    /\ xfile.fmt # "none" /\ result.at = "none" /\ held.creds # {}
    /\ held' = [held EXCEPT !.creds = {}]
    /\ UNCHANGED <<xfile, result, xjob, xtold, line>>

processImportFile ==
    LET imp == importerOf(xfile.file)
    IN /\ xfile.fmt # "none" /\ result.at = "none"
       /\ result' = [at |-> "parsed", imp |-> imp.id, list |-> Imported(imp, xfile.file)]
       /\ UNCHANGED <<held, xfile, xjob, xtold, line>>

ConfirmStart(replace) ==
    /\ result.at = "parsed" /\ xjob.at = "idle"
    /\ result' = [result EXCEPT !.at = "confirmed"]
    /\ xjob' = [at |-> "delete", replace |-> replace, creds |-> held.creds,
                folders |-> held.folders, todo |-> IF replace THEN held.creds ELSE {},
                left |-> result.list, folder |-> "none"]
    /\ UNCHANGED <<held, xfile, xtold, line>>

DeleteOne ==
    /\ xjob.at = "delete" /\ xjob.todo # {}
    /\ \E c \in xjob.todo :
          /\ held' = [held EXCEPT !.creds = xjob.creds \ {c}]
          /\ xjob' = [xjob EXCEPT !.todo = @ \ {c}]
    /\ UNCHANGED <<xfile, result, xtold, line>>

(* The folder "Imported", found in the render or made. *)
MakeFolder ==
    /\ xjob.at = "delete" /\ xjob.todo = {}
    /\ xjob' = [xjob EXCEPT !.at = "add", !.folder = "imported"]
    /\ held' = IF "imported" \in xjob.folders THEN held
               ELSE [held EXCEPT !.folders = xjob.folders \cup {"imported"}]
    /\ UNCHANGED <<xfile, result, xtold, line>>

(* The folder of the credential is kept for the application's own format,  *)
(* when the render has it.                                                 *)
FolderFor(c) ==
    IF result.imp = "pwdnow-json" /\ c.folderId # Blank /\ c.folderId[1] \in xjob.folders
    THEN c.folderId[1] ELSE xjob.folder

(* One credential is added to the list of the render and the list stored.  *)
AddOne ==
    /\ xjob.at = "add" /\ xjob.left # <<>>
    /\ LET c == Head(xjob.left)
           n == Len(result.list) - Len(xjob.left) + 1
       IN held' = [held EXCEPT !.creds = xjob.creds \cup {Stored(n + 10, c, FolderFor(c))}]
    /\ xjob' = [xjob EXCEPT !.left = Tail(@)]
    /\ UNCHANGED <<xfile, result, xtold, line>>

(* A call fails: the rest is not done and no notice is shown. *)
CallFails ==
    /\ xjob.at \in {"delete", "add"}
    /\ xjob' = [xjob EXCEPT !.at = "failed"]
    /\ UNCHANGED <<held, xfile, result, xtold, line>>

ImportComplete ==
    /\ xjob.at = "add" /\ xjob.left = <<>>
    /\ xtold' = Len(result.list)
    /\ xjob' = [xjob EXCEPT !.at = "done"]
    /\ UNCHANGED <<held, xfile, result, line>>

(* A row is written with csvEscape and read with parseCSV. *)
WriteLine(cells) ==
    /\ line.at = "none" /\ xfile.fmt = "none"
    /\ line' = [at |-> "text", cells |-> cells, text |-> csvLine(cells), rows |-> <<>>]
    /\ UNCHANGED <<held, xfile, result, xjob, xtold>>

ReadLine ==
    /\ line.at = "text"
    /\ line' = [line EXCEPT !.at = "read", !.rows = parseCSV(line.text)]
    /\ UNCHANGED <<held, xfile, result, xjob, xtold>>

TransferInit ==
    /\ \E s \in Shapes :
          /\ held = [creds |-> {Stored(i, s[i], "work") : i \in DOMAIN s},
                     folders |-> {"work"}]
          /\ xfile = [fmt |-> "none", file |-> File("none", <<>>, FALSE, <<>>), made |-> s]
    /\ result = NoResult
    /\ xjob = NoJob
    /\ xtold = 0
    /\ line = [at |-> "none", cells |-> <<>>, text |-> <<>>, rows |-> <<>>]

TransferNext ==
    \/ \E fmt \in DOMAIN TextExports(<<>>) : runExport(fmt)
    \/ (xfile.made = <<>> /\ \E cells \in TextCells : WriteLine(cells)) \/ ReadLine
    \/ OtherVault
    \/ processImportFile
    \/ \E replace \in BOOLEAN : ConfirmStart(replace)
    \/ DeleteOne \/ MakeFolder \/ AddOne \/ CallFails \/ ImportComplete

-----------------------------------------------------------------------------
(* Properties *)

Came(c) == {i \in DOMAIN result.list :
               /\ result.list[i].username = c.username
               /\ result.list[i].password = c.password}

(* Every login that is exported and has a name is read back with its user  *)
(* name and its password, in whatever format, RoboForm's excepted:         *)
(* importFromFile takes that for Keeper's.                                 *)
LoginsComeBack ==
    result.at # "none" /\ xfile.fmt # "roboform-csv" =>
        \A i \in DOMAIN xfile.made : xfile.made[i].service # Blank => Came(xfile.made[i]) # {}

(* Files of the application's own kind keep every field. *)
OwnFormatLossless ==
    result.at # "none" /\ xfile.fmt = "pwdnow-json" => result.list = xfile.made

(* An import that merges loses nothing of what was stored when it started. *)
MergeKeeps ==
    xjob.at # "idle" /\ ~xjob.replace => xjob.creds \subseteq held.creds

(* Every imported credential is in a folder that exists. *)
ImportedFolderExists == \A c \in held.creds : c.id > 10 => c.folder \in held.folders

(* A line of two values without line breaks is read as it was written.     *)
LineReadBack == line.at = "read" => line.rows = <<line.cells>>
=============================================================================
