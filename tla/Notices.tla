------------------------------- MODULE Notices -------------------------------
(***************************************************************************)
(* The notification list of context/NotificationContext.tsx, its encrypted *)
(* copy in local storage, and the bell notices pages/Vault.tsx raises for  *)
(* credentials about to expire.                                            *)
(*                                                                         *)
(* The list is read when the provider mounts and again when the local key  *)
(* arrives (demoKeyAvailable); a read takes the stored text at once and    *)
(* replaces the list when it has been decrypted.  From the end of the      *)
(* first read on, every change is written, asynchronously.  The v2 key is  *)
(* bound to the session token, so a text written in an earlier session     *)
(* does not decrypt: `epoch' is the session a text was written in.         *)
(***************************************************************************)
EXTENDS Naturals, FiniteSets

CONSTANTS DueCreds,     \* credentials that come within 30 days of their expiry
          NoteMax,      \* notices made
          SessionMax    \* sign-ins

VARIABLES notes,    \* notifications: a set of records, or the list shown
          ready,    \* loaded
          text,     \* the stored text: its notices and its epoch, 0 when absent
          reads,    \* reads under way: what each took
          writing,  \* writes under way: the list each one encrypts
          key,      \* session whose v2 key is in memory, 0 when none
          due,      \* credentials now due, of those in the vault
          inVault,  \* the Vault page is open
          nhist     \* notices made, sessions begun, writes that overlapped

noticeVars == <<notes, ready, text, reads, writing, key, due, inVault, nhist>>

NoText == [notes |-> {}, epoch |-> 0]

\* The persist effect, run after every change of the list once it is loaded.
Persisted(list) == IF ready THEN writing \cup {list} ELSE writing

\* A write that starts while another is under way may end before it.
Overlapped == nhist.overlap \/ (ready /\ writing # {})

Changed(list) ==
    /\ notes' = list
    /\ writing' = Persisted(list)
    /\ nhist' = [nhist EXCEPT !.overlap = Overlapped]

addNotification(n) ==
    /\ nhist.made < NoteMax
    /\ notes' = notes \cup {[n EXCEPT !.id = nhist.made + 1]}
    /\ writing' = Persisted(notes')
    /\ nhist' = [nhist EXCEPT !.made = @ + 1, !.overlap = Overlapped]

\* The bell effect looks at the list of its render, one credential at a time;
\* a notice still unread keeps it silent.
alreadyNotified(c) == \E n \in notes : n.cred = c /\ ~n.read

Warn(c) ==
    /\ inVault /\ c \in due
    /\ ~alreadyNotified(c)
    /\ addNotification([id |-> 0, cred |-> c, read |-> FALSE])
    /\ UNCHANGED <<ready, text, reads, key, due, inVault>>

\* Any other notice of the application (an edit, a failed save, an export).
OtherNotice ==
    /\ addNotification([id |-> 0, cred |-> "none", read |-> FALSE])
    /\ UNCHANGED <<ready, text, reads, key, due, inVault>>

markAsRead(n) ==
    /\ n \in notes /\ ~n.read
    /\ Changed((notes \ {n}) \cup {[n EXCEPT !.read = TRUE]})
    /\ UNCHANGED <<ready, text, reads, key, due, inVault>>

markAllAsRead ==
    /\ \E n \in notes : ~n.read
    /\ Changed({[n EXCEPT !.read = TRUE] : n \in notes})
    /\ UNCHANGED <<ready, text, reads, key, due, inVault>>

clearNotifications ==
    /\ notes # {}
    /\ Changed({})
    /\ UNCHANGED <<ready, text, reads, key, due, inVault>>

----------------------------------------------------------------------------
(* The stored copy.                                                        *)

\* readDecryptedLocal ends: a text of this session replaces the list, anything
\* else leaves it; the first read also sets loaded, which runs the persist
\* effect for the list as it then is.
ReadEnds(r) ==
    LET opened == r.text.epoch # 0 /\ r.text.epoch = key
        list == IF opened THEN r.text.notes ELSE notes
        persist == (ready \/ r.first) /\ (list # notes \/ r.first)
    IN /\ r \in reads
       /\ reads' = reads \ {r}
       /\ ready' = (ready \/ r.first)
       /\ notes' = list
       /\ writing' = IF persist THEN writing \cup {list} ELSE writing
       /\ nhist' = [nhist EXCEPT !.overlap = @ \/ (persist /\ writing # {})]
       /\ UNCHANGED <<text, key, due, inVault>>

\* writeEncryptedLocal ends; without a key nothing is written and nothing said.
WriteEnds(list) ==
    /\ list \in writing
    /\ writing' = writing \ {list}
    /\ text' = IF key = 0 THEN text ELSE [notes |-> list, epoch |-> key]
    /\ UNCHANGED <<notes, ready, reads, key, due, inVault, nhist>>

\* A sign-in puts a new key in memory and has the text read again.
SignInNotices ==
    /\ key = 0 /\ nhist.session < SessionMax
    /\ key' = nhist.session + 1
    /\ nhist' = [nhist EXCEPT !.session = @ + 1]
    /\ reads' = reads \cup {[first |-> FALSE, text |-> text]}
    /\ UNCHANGED <<notes, ready, text, writing, due, inVault>>

\* daemonUnlocked drops the stored text.
DaemonUnlockedNotices ==
    /\ key # 0 /\ text # NoText
    /\ text' = NoText
    /\ UNCHANGED <<notes, ready, reads, writing, key, due, inVault, nhist>>

SignOutNotices ==
    /\ key # 0
    /\ key' = 0
    /\ inVault' = FALSE
    /\ UNCHANGED <<notes, ready, text, reads, writing, due, nhist>>

\* A page reload: the provider mounts anew; the session's key comes back from
\* session storage, writes under way are lost.
ReloadNotices ==
    /\ notes' = {}
    /\ ready' = FALSE
    /\ reads' = {[first |-> TRUE, text |-> text]}
    /\ writing' = {}
    /\ inVault' = FALSE
    /\ nhist' = [nhist EXCEPT !.overlap = FALSE]
    /\ UNCHANGED <<text, key, due>>

OpenVault ==
    /\ key # 0 /\ ~inVault
    /\ inVault' = TRUE
    /\ UNCHANGED <<notes, ready, text, reads, writing, key, due, nhist>>

\* Time passes, or a credential is renewed.
DueChanges(c) ==
    /\ due' = IF c \in due THEN due \ {c} ELSE due \cup {c}
    /\ UNCHANGED <<notes, ready, text, reads, writing, key, inVault, nhist>>

NoticeInit ==
    /\ notes = {} /\ ready = FALSE /\ text = NoText
    /\ reads = {[first |-> TRUE, text |-> NoText]}
    /\ writing = {} /\ key = 0 /\ due = {} /\ inVault = FALSE
    /\ nhist = [made |-> 0, session |-> 0, overlap |-> FALSE]

NoticeNext ==
    \/ \E c \in DueCreds : Warn(c) \/ DueChanges(c)
    \/ OtherNotice \/ markAllAsRead \/ clearNotifications
    \/ \E n \in notes : markAsRead(n)
    \/ \E r \in reads : ReadEnds(r)
    \/ \E list \in writing : WriteEnds(list)
    \/ SignInNotices \/ DaemonUnlockedNotices \/ SignOutNotices \/ ReloadNotices \/ OpenVault

----------------------------------------------------------------------------
(* Properties.                                                             *)

\* "Only fires once per credential - skips if an unread notification already
\* exists": at most one unread expiry notice per credential, whatever reads,
\* reloads and sign-ins come between.
OneUnread ==
    \A c \in DueCreds : Cardinality({n \in notes : n.cred = c /\ ~n.read}) <= 1

\* Once the writes are done, what is stored for this session is the list on the
\* screen, unless two writes overlapped; nothing is ever stored without a key.
StoredCopyCurrent ==
    /\ text.epoch # 0 /\ text.epoch = key /\ ready /\ writing = {} /\ reads = {} /\ ~nhist.overlap
           => text.notes = notes
    /\ text = NoText \/ text.epoch \in 1..nhist.session
=============================================================================
