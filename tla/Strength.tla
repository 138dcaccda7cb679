------------------------------ MODULE Strength ------------------------------
(***************************************************************************)
(* The meters of the client: password strength as the form and the health  *)
(* page rate it (pages/AddCredential.tsx, utils/passwordStrength.ts), the  *)
(* scores of the vault (pages/VaultHealth.tsx, pages/Dashboard.tsx) and    *)
(* the random numbers of the two generators.                               *)
(*                                                                         *)
(* Of a password the meters see its length and which of four character     *)
(* classes it has; the scores also see its hash and whether it is a common *)
(* one.                                                                    *)
(***************************************************************************)
EXTENDS Integers, Sequences, SequencesExt, FiniteSets

CONSTANTS
    LenMax,      \* bound: length of a typed password
    Passwords,   \* passwords of the vault: [id, hash, score, common]
    ListMax,     \* bound: credentials in the vault
    Width,       \* numbers a random word can be; 2^32 in the code
    DrawMax      \* bound: largest number asked of secureRandInt

VARIABLES
    typed,       \* the password being typed: length and classes
    list,        \* passwords of the credentials, in order
    draw         \* secureRandInt: the number asked for and the last word

strengthVars == <<typed, list, draw>>

-----------------------------------------------------------------------------
(* Strength, 0 "Very Weak" to 5 "Excellent" *)

All(p) == p.upper /\ p.lower /\ p.number /\ p.special

(* The first rule that applies, rules being <<condition, score>> *)
FirstOf(rules) ==
    LET hits == {i \in DOMAIN rules : rules[i][1]}
    IN rules[CHOOSE i \in hits : \A j \in hits : i <= j][2]

(* utils/passwordStrength.ts *)
passwordScore(p) ==
    FirstOf(<< <<p.len = 0, 0>>,
               <<p.len >= 16 /\ All(p), 5>>,
               <<p.len >= 12 /\ All(p), 4>>,
               <<p.len >= 8 /\ p.upper /\ p.lower /\ p.number, 3>>,
               <<p.len >= 6 /\ p.lower /\ p.number /\ ~p.special, 2>>,
               <<p.len >= 4 /\ p.lower /\ ~p.upper /\ ~p.special, 1>>,
               <<p.len <= 3 /\ ~p.upper /\ ~p.number /\ ~p.special, 0>>,
               <<p.len >= 20, 5>>, <<p.len >= 12, 3>>, <<p.len >= 8, 2>>, <<TRUE, 1>> >>)

(* The form's label, which is stored with the credential *)
getStrength(p) ==
    FirstOf(<< <<p.len >= 16 /\ All(p), 5>>,
               <<p.len >= 12 /\ All(p), 4>>,
               <<p.len >= 8 /\ p.upper /\ p.lower /\ p.number, 3>>,
               <<p.len >= 6 /\ p.lower /\ p.number /\ ~p.special, 2>>,
               <<p.len >= 4 /\ p.lower /\ ~p.upper /\ ~p.special, 1>>,
               <<p.len \in 1..3 /\ ~p.upper /\ ~p.number /\ ~p.special, 0>>,
               <<p.len >= 20, 5>>, <<p.len >= 12, 3>>, <<p.len >= 8, 2>>, <<TRUE, 1>> >>)

Type(kind) ==
    /\ typed.len < LenMax
    /\ typed' = [typed EXCEPT !.len = @ + 1, ![kind] = TRUE]
    /\ UNCHANGED <<list, draw>>

-----------------------------------------------------------------------------
(* Scores of the vault *)

(* Credentials with a weak password, with one another credential's        *)
(* password has the hash of, and with a common one.                        *)
Weak == {i \in DOMAIN list : list[i].score <= 1}

Twin == {i \in DOMAIN list : \E j \in DOMAIN list \ {i} : list[j].hash = list[i].hash}

Common == {i \in DOMAIN list : list[i].common}

(* Math.round of a fraction *)
Round(n, d) == (2 * n + d) \div (2 * d)

(* pages/VaultHealth.tsx *)
computeHealth ==
    LET n == Len(list)
        weak == Cardinality(Weak)
        reused == Cardinality(Twin)
        common == Cardinality(Common)
    IN [weak |-> weak, reused |-> reused, common |-> common, score |->
          IF n = 0 THEN 100 ELSE Round(100 * n - 40 * weak - 30 * reused - 30 * common, n)]

(* pages/Dashboard.tsx *)
computeSecurityScore ==
    LET n == Len(list)
        weak == Cardinality(Weak)
        reused == Cardinality(Twin)
    IN [weak |-> weak, reused |-> reused, score |->
          IF n = 0 THEN 100 ELSE Round(100 * n - 40 * weak - 30 * reused, n)]

(* The user adds a credential, deletes one, or changes a password. *)
AddListed(p) ==
    /\ Len(list) < ListMax
    /\ list' = Append(list, p)
    /\ UNCHANGED <<typed, draw>>

DropListed(i) == list' = RemoveAt(list, i) /\ UNCHANGED <<typed, draw>>

ChangeListed(i, p) ==
    /\ p # list[i]
    /\ list' = [list EXCEPT ![i] = p]
    /\ UNCHANGED <<typed, draw>>

-----------------------------------------------------------------------------
(* secureRandInt *)

Limit(max) == Width - (Width % max)

(* A word is drawn, again and again while it is at or above the limit. *)
DrawWord(v) ==
    /\ draw.word >= Limit(draw.max)
    /\ draw' = [draw EXCEPT !.word = v]
    /\ UNCHANGED <<typed, list>>

StrengthInit ==
    /\ typed = [len |-> 0, upper |-> FALSE, lower |-> FALSE, number |-> FALSE, special |-> FALSE]
    /\ list = <<>>
    /\ \E m \in 1..DrawMax : draw = [max |-> m, word |-> Width]

TypeNext == \E k \in {"upper", "lower", "number", "special"} : Type(k)

ListNext ==
    \/ \E p \in Passwords : AddListed(p)
    \/ \E i \in DOMAIN list : DropListed(i) \/ \E p \in Passwords : ChangeListed(i, p)

DrawNext == \E v \in 0..(Width - 1) : DrawWord(v)

-----------------------------------------------------------------------------
(* Properties *)

(* The label stored with a credential and the score the health page gives  *)
(* its password are the same level, for every length and mix of classes:   *)
(* the rules are written twice.                                            *)
MetersAgree == typed.len > 0 => getStrength(typed) = passwordScore(typed)

(* The dashboard's score "mirrors VaultHealth logic": the same counts, and *)
(* the same score when no password is a common one, otherwise a higher one.*)
DashboardMirrors ==
    LET d == computeSecurityScore
        h == computeHealth
    IN /\ d.weak = h.weak /\ d.reused = h.reused
       /\ IF h.common = 0 THEN d.score = h.score ELSE d.score >= h.score

(* Every number below max comes from as many random words as any other:    *)
(* the words at or above the limit, which would favour the small ones, are *)
(* drawn again, and some words are below it.                               *)
EvenDraws ==
    LET words(r) == {v \in 0..(Limit(draw.max) - 1) : v % draw.max = r}
    IN /\ Limit(draw.max) > 0
       /\ draw.word < Width =>
            \A r \in 0..(draw.max - 1) :
                \E k \in 1..Width : words(r) = {r + i * draw.max : i \in 0..(k - 1)}
                                    /\ k * draw.max = Limit(draw.max)

=============================================================================
