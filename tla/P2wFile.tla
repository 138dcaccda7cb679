------------------------------- MODULE P2wFile -------------------------------
(***************************************************************************)
(* The .p2w backup file of utils/p2wFormat.ts: exportToP2W, a file that    *)
(* may be damaged on its way, importFromP2W with the checks in its order,  *)
(* and the record state machine of parsePayload.                           *)
(*                                                                         *)
(* A file is the header fields the import looks at, the passphrase its     *)
(* keys came from and its payload.  Every byte but the magic is under the  *)
(* MAC, so the MAC of a damaged file, or of other keys, never matches; the *)
(* two MACs and the two ciphers are one check.  A payload is its records;  *)
(* a record is its type and, for META, its counts.  Bytes of strings are   *)
(* left out.                                                               *)
(***************************************************************************)
EXTENDS Integers, Sequences, SequencesExt

CONSTANTS
    Log2Ms, Ts, Ps,     \* Argon2id parameters that are tried
    Contents,           \* lengths of payloads before padding
    CredCap, FoldCap,   \* 50000 and 5000 in the code
    RecordMax           \* bound: records of a payload from elsewhere

VARIABLES
    p2w,      \* the file: written or not, header, payload length
    payload,  \* the records still to be read
    parser,   \* parsePayload, and the outcome
    record    \* history: types of the records that were read

p2wVars == <<p2w, payload, parser, record>>

-----------------------------------------------------------------------------
(* Padding *)

MinPadding == 128

MB == 1048576

getPaddingTarget(currentLen) ==
    LET len == currentLen + MinPadding
    IN IF len <= 65536 THEN 65536
       ELSE IF len <= 262144 THEN 262144
       ELSE ((len + MB - 1) \div MB) * MB

(* buildPayload: the length of the payload with padding and R_END *)
PayloadLength(content) ==
    LET currentLen == content + 5
        paddingLen == getPaddingTarget(currentLen) - currentLen
    IN IF paddingLen > 5 THEN currentLen + paddingLen ELSE currentLen

Meta(creds, folds) == [type |-> "META", creds |-> creds, folds |-> folds]
Rec(type) == [type |-> type, creds |-> 0, folds |-> 0]

(* buildPayload: the records *)
buildPayload(creds, folds) ==
    <<Meta(creds, folds)>> \o [i \in 1..folds |-> Rec("FOLDER")]
    \o [i \in 1..creds |-> Rec("ENTRY")] \o <<Rec("PADDING"), Rec("END")>>

-----------------------------------------------------------------------------
(* exportToP2W, and what may happen to the file *)

Default == [log2M |-> 18, t |-> 1, p |-> 1]

InRange(kdf) == kdf.log2M \in 12..18 /\ kdf.t \in 1..3 /\ kdf.p \in 1..4

NoFile == [at |-> "none", kdf |-> Default, suite |-> 2, whole |-> TRUE, content |-> 0,
           creds |-> 0, folds |-> 0]

Start == [state |-> 0, creds |-> 0, folds |-> 0, metaCreds |-> -1, metaFolds |-> -1,
          at |-> "idle"]

exportToP2W(kdf, creds, folds, content) ==
    /\ p2w.at = "none"
    /\ InRange(kdf)
    /\ p2w' = [NoFile EXCEPT !.at = "file", !.kdf = kdf, !.content = content,
                             !.creds = creds, !.folds = folds]
    /\ payload' = buildPayload(creds, folds)
    /\ UNCHANGED <<parser, record>>

(* A byte is changed, or the end is cut off, which the lengths show. *)
Damage(kdf, suite) ==
    /\ p2w.at = "file" /\ p2w.whole
    /\ p2w' = [p2w EXCEPT !.whole = FALSE, !.kdf = kdf, !.suite = suite]
    /\ UNCHANGED <<payload, parser, record>>

(* A file another program wrote with the right keys: n records, chosen as  *)
(* they are read.                                                          *)
Foreign(n) ==
    /\ p2w.at = "none"
    /\ p2w' = [NoFile EXCEPT !.at = "file", !.kdf = [Default EXCEPT !.log2M = 16]]
    /\ payload' = [i \in 1..n |-> Rec("ANY")]
    /\ UNCHANGED <<parser, record>>

(* importV2: parameters, the budget before the MAC, then MAC and ciphers.  *)
(* importV1 has its own parameters and the same checks.                    *)
Opens(right) ==
    /\ p2w.suite \in {1, 2}
    /\ p2w.suite = 2 => InRange(p2w.kdf) /\ p2w.kdf.log2M <= 16 /\ p2w.kdf.t <= 2
    /\ right /\ p2w.whole

importFromP2W(right) ==
    /\ p2w.at = "file"
    /\ p2w' = [p2w EXCEPT !.at = IF right THEN "tried" ELSE "tried wrong"]
    /\ parser' = [parser EXCEPT !.at = IF Opens(right) THEN "read" ELSE "failed"]
    /\ UNCHANGED <<payload, record>>

-----------------------------------------------------------------------------
(* parsePayload *)

Records == {Rec(t) : t \in {"FOLDER", "ENTRY", "PADDING", "END", "OTHER"}}
           \cup {Meta(c, f) : c \in 0..(CredCap + 1), f \in 0..FoldCap}

(* The state in which a record of a type is accepted *)
Accepts(r) ==
    CASE r.type = "END" -> parser.state >= 1 /\ Len(payload) = 1
      [] r.type = "PADDING" -> parser.state >= 1
      [] r.type = "META" -> parser.state = 0 /\ r.creds <= CredCap /\ r.folds <= FoldCap
      [] r.type = "FOLDER" -> parser.state <= 2 /\ parser.folds < FoldCap
      [] r.type = "ENTRY" -> parser.state <= 3 /\ parser.creds < CredCap
      [] r.type = "OTHER" -> FALSE

After(r) ==
    CASE r.type = "END" -> [parser EXCEPT !.state = 5]
      [] r.type = "PADDING" -> [parser EXCEPT !.state = 4]
      [] r.type = "META" -> [parser EXCEPT !.state = 1, !.metaCreds = r.creds,
                                           !.metaFolds = r.folds]
      [] r.type = "FOLDER" -> [parser EXCEPT !.state = 2, !.folds = @ + 1]
      [] r.type = "ENTRY" -> [parser EXCEPT !.state = 3, !.creds = @ + 1]

ReadRecord ==
    /\ parser.at = "read" /\ payload # <<>>
    /\ \E r \in IF Head(payload).type = "ANY" THEN Records ELSE {Head(payload)} :
          /\ parser' = IF Accepts(r) THEN After(r) ELSE [parser EXCEPT !.at = "failed"]
          /\ record' = Append(record, r.type)
    /\ payload' = Tail(payload)
    /\ UNCHANGED p2w

CountsAgree ==
    /\ parser.state >= 1
    /\ parser.metaCreds = parser.creds /\ parser.metaFolds = parser.folds

ReadEnd ==
    /\ parser.at = "read" /\ payload = <<>>
    /\ parser' = [parser EXCEPT !.at = IF CountsAgree THEN "imported" ELSE "failed"]
    /\ UNCHANGED <<p2w, payload, record>>

Kdfs == [log2M : Log2Ms, t : Ts, p : Ps]

P2wInit ==
    /\ p2w = NoFile
    /\ payload = <<>>
    /\ parser = Start
    /\ record = <<>>

P2wNext ==
    \/ \E kdf \in Kdfs \cup {Default}, c \in 0..(CredCap + 1), f \in 0..FoldCap :
          exportToP2W(kdf, c, f, 0)
    \/ \E n \in Contents : exportToP2W(Default, 0, 0, n)
    \/ \E kdf \in Kdfs, s \in 1..3 : Damage(kdf, s)
    \/ \E n \in 0..RecordMax : Foreign(n)
    \/ \E right \in BOOLEAN : importFromP2W(right)
    \/ ReadRecord
    \/ ReadEnd

P2wSpec == P2wInit /\ [][P2wNext]_p2wVars

-----------------------------------------------------------------------------
(* Properties *)

Repeat(type, n) == [i \in 1..n |-> type]

(* A payload that is imported is META, the folders and the entries it      *)
(* counts, in this order, then padding only.  parsePayload lets a folder   *)
(* or an entry come first; the counts, which are then unset, refuse it.    *)
ImportedInOrder ==
    parser.at = "imported" =>
        LET body == <<"META">> \o Repeat("FOLDER", parser.metaFolds)
                    \o Repeat("ENTRY", parser.metaCreds)
        IN /\ IsPrefix(body, record)
           /\ \A i \in (Len(body) + 1)..Len(record) :
                 record[i] = "PADDING" \/ (record[i] = "END" /\ i = Len(record))

(* A file of this application is imported whole or not at all: never after *)
(* damage, never with another passphrase, and with every entry it has.     *)
WholeOrNothing ==
    parser.at = "imported" =>
        /\ p2w.whole /\ p2w.at = "tried"
        /\ p2w.creds + p2w.folds > 0 => parser.creds = p2w.creds /\ parser.folds = p2w.folds

(* A file within the import's budget comes back, unless it holds more than *)
(* the import's caps.                                                      *)
BudgetedOpens ==
    /\ p2w.at = "tried" /\ p2w.whole /\ parser.at = "failed"
    /\ p2w.creds + p2w.folds > 0 /\ p2w.creds <= CredCap
    => p2w.kdf.log2M > 16 \/ p2w.kdf.t > 2

(* What exportToP2W writes by default is what the import can open: "suite  *)
(* 0x02 (current default, EXPORT + IMPORT)".                               *)
DefaultOpens ==
    p2w.at = "tried" /\ p2w.whole /\ p2w.kdf = Default /\ p2w.creds <= CredCap
        => parser.at # "failed"

(* The length of the payload tells a bucket and no more, and hides at      *)
(* least 128 bytes.                                                        *)
LengthHidden ==
    p2w.at = "file" =>
        LET n == PayloadLength(p2w.content)
        IN (n \in {65536, 262144} \/ n % MB = 0) /\ n >= p2w.content + 5 + MinPadding
=============================================================================
