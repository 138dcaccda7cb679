----------------------------- MODULE BreachScan -----------------------------
(***************************************************************************)
(* The breach monitor (pages/BreachMonitor.tsx): a scan asks for every     *)
(* password of the vault whether it is known to be breached, of the        *)
(* daemon's filter (plan A), of the HIBP range service (plan B) or of a    *)
(* word list (plan C).  The scan runs over the list of credentials, the    *)
(* connection and the word list that were there when it was started, while *)
(* the vault is edited, a word list is loaded or the scan is cancelled.    *)
(* The range lookup of the forms (utils/hibp.ts) reads the same replies.   *)
(***************************************************************************)
EXTENDS Naturals, Sequences, FiniteSets, TLC

CONSTANTS
    Passwords,  \* passwords, all of one range of the service
    Breached,   \* those the service and the daemon's filter know
    Common,     \* those of the bundled list
    Loaded,     \* those of the word list the user loads
    Padding,    \* suffixes the service pads its replies with
    Vaults,     \* the vaults to start from: sequences of passwords, or NoPassword
    NoPassword, \* the password of an item that has none
    EditMax     \* bound: edits of the vault

VARIABLES
    entries,    \* the passwords of the credentials on screen
    daemonUp,   \* daemonConnected
    scan,       \* the scan: its state, and what its closure holds
    results,    \* results: one record a checked credential
    wordlist,   \* "none", "loading" or "loaded"
    bhist       \* history: edits, the last reply, and results after Cancel

scanVars == <<entries, daemonUp, scan, results, wordlist, bhist>>

credentialsWithPasswords == SelectSeq(entries, LAMBDA p : p # NoPassword)

ScanInit ==
    /\ entries \in Vaults /\ daemonUp \in BOOLEAN
    /\ scan = [state |-> "idle", list |-> <<>>, daemon |-> FALSE, words |-> FALSE,
               asked |-> FALSE, cancelled |-> FALSE]
    /\ results = <<>> /\ wordlist = "none"
    /\ bhist = [edits |-> 0, of |-> NoPassword, reply |-> {}, after |-> 0]

(***************************************************************************)
(* The range lookup: the reply lists the suffixes of the range and how     *)
(* often each was seen, with lines of padding that count 0.                *)
(***************************************************************************)
Replies == {{[suffix |-> p, count |-> 1] : p \in Breached} \cup {[suffix |-> p, count |-> 0] : p \in pad} :
               pad \in SUBSET Padding}

checkViaHibpApi(p, reply) == \E l \in reply : l.suffix = p

checkHibpPassword(p, reply) == \E l \in reply : l.suffix = p /\ l.count > 0

Result(p, pwned, skipped, method) ==
    [of |-> p, pwned |-> pwned, skipped |-> skipped, method |-> method]

(***************************************************************************)
(* checkPassword: the plans in their order.  The daemon answers with its   *)
(* filter, without one, or not at all; the service answers or does not.    *)
(***************************************************************************)
ByList(p) == IF scan.words THEN Result(p, p \in Loaded, FALSE, "wordlist")
             ELSE Result(p, p \in Common, FALSE, "common")

checkPassword(p, daemon, api, reply) ==
    IF scan.daemon /\ daemon = "throws" THEN Result(p, FALSE, TRUE, "unknown")
    ELSE IF scan.daemon /\ daemon = "filter" THEN Result(p, p \in Breached, FALSE, "daemon")
    ELSE IF api THEN Result(p, checkViaHibpApi(p, reply), FALSE, "api")
    ELSE ByList(p)

(***************************************************************************)
(* runScan: the loop looks at the cancellation before each check.          *)
(***************************************************************************)
runScan ==
    /\ scan.state # "scanning" /\ credentialsWithPasswords # <<>>
    /\ scan' = [state |-> "scanning", list |-> credentialsWithPasswords, daemon |-> daemonUp,
                words |-> wordlist = "loaded", asked |-> FALSE, cancelled |-> FALSE]
    /\ results' = <<>>
    /\ bhist' = [bhist EXCEPT !.after = 0]
    /\ UNCHANGED <<entries, daemonUp, wordlist>>

(* the top of the loop: stop, or check the next one *)
MustStop == scan.cancelled \/ Len(results) = Len(scan.list)
EndStateDone == "done" \* mutant
EndState == IF scan.cancelled THEN "idle" ELSE "done"

ScanLoop ==
    /\ scan.state = "scanning" /\ ~scan.asked
    /\ scan' = IF MustStop THEN [scan EXCEPT !.state = EndState]
               ELSE [scan EXCEPT !.asked = TRUE]
    /\ UNCHANGED <<entries, daemonUp, results, wordlist, bhist>>

CheckAnswered(daemon, api, reply) ==
    /\ scan.asked
    /\ LET p == scan.list[Len(results) + 1]
       IN /\ results' = Append(results, checkPassword(p, daemon, api, reply)
                                          @@ [up |-> daemon, api |-> api])
          /\ bhist' = [bhist EXCEPT !.of = p, !.reply = IF api THEN reply ELSE {},
                                    !.after = IF scan.cancelled THEN @ + 1 ELSE @]
    /\ scan' = [scan EXCEPT !.asked = FALSE]
    /\ UNCHANGED <<entries, daemonUp, wordlist>>

cancelScan ==
    /\ scan.state = "scanning" /\ ~scan.cancelled
    /\ scan' = [scan EXCEPT !.cancelled = TRUE]
    /\ UNCHANGED <<entries, daemonUp, results, wordlist, bhist>>

(***************************************************************************)
(* The word list, the connection and the vault change under the scan.      *)
(***************************************************************************)
WordlistBecomes(w) == wordlist' = w /\ UNCHANGED <<entries, daemonUp, scan, results, bhist>>

(* a dropped or picked file, .txt or .lst, read line by line *)
handleFileInput == wordlist = "none" /\ WordlistBecomes("loading")
buildWordlistSet == wordlist = "loading" /\ \E w \in {"loaded", "none"} : WordlistBecomes(w)
ClearWordlist == wordlist = "loaded" /\ WordlistBecomes("none")

DaemonChanges ==
    /\ daemonUp' = ~daemonUp
    /\ UNCHANGED <<entries, scan, results, wordlist, bhist>>

VaultEdited(i, p) ==
    /\ bhist.edits < EditMax /\ entries[i] # p
    /\ entries' = [entries EXCEPT ![i] = p]
    /\ bhist' = [bhist EXCEPT !.edits = @ + 1]
    /\ UNCHANGED <<daemonUp, scan, results, wordlist>>

ScanNext ==
    \/ runScan \/ ScanLoop \/ cancelScan
    \/ \E daemon \in {"filter", "bare", "throws"}, api \in BOOLEAN, reply \in Replies :
         CheckAnswered(daemon, api, reply)
    \/ handleFileInput \/ buildWordlistSet \/ ClearWordlist \/ DaemonChanges
    \/ \E i \in 1..Len(entries), p \in Passwords \cup {NoPassword} : VaultEdited(i, p)

(***************************************************************************)
(* What the page says.                                                     *)
(***************************************************************************)
pwnedCount == Len(SelectSeq(results, LAMBDA r : r.pwned))
AllClear == scan.state = "done" /\ pwnedCount = 0
usedPlanC == \E i \in 1..Len(results) : results[i].method \in {"common", "wordlist"}

(***************************************************************************)
(* Properties.                                                             *)
(***************************************************************************)
(* "All Clear" is said only after every credential that had a password when
   the scan was started has a result, and no password that a source reached
   for it knows is among them: a cancelled scan, a scan that outlives edits
   of the vault and one that changes its source on the way never say it too
   soon. *)
AllClearAfterAll ==
    AllClear => /\ [i \in 1..Len(results) |-> results[i].of] = scan.list
                /\ \A i \in 1..Len(results) :
                     results[i].method \in {"daemon", "api"} => results[i].of \notin Breached

(* A result comes from a weaker source only when the better ones could not
   answer for that very password: the lists only when the service failed, and
   the service only without a daemon that has its filter. *)
BestSource ==
    \A i \in 1..Len(results) :
        LET r == results[i]
        IN /\ r.method \in {"common", "wordlist"} => ~r.api
           /\ r.method \in {"api", "common", "wordlist"} => ~scan.daemon \/ r.up = "bare"

(* After Cancel at most the check that was under way still adds a result. *)
CancelStops == bhist.after <= 1

(* Both readers of a reply of the service, the monitor's and the forms', say
   breached exactly of the passwords the service knows, whatever padding the
   reply carries: the one that ignores the counts relies on padding never
   being the suffix of a real password. *)
LookupsAgree ==
    bhist.of # NoPassword /\ bhist.reply # {} =>
        /\ checkViaHibpApi(bhist.of, bhist.reply) = (bhist.of \in Breached)
        /\ checkHibpPassword(bhist.of, bhist.reply) = (bhist.of \in Breached)
=============================================================================
