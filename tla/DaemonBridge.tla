---------------------------- MODULE DaemonBridge ----------------------------
(***************************************************************************)
(* The path of a daemon call: utils/daemonClient.ts builds a payload,      *)
(* JSON carries it to POST /api/rpc of server.js, the bridge turns number  *)
(* arrays into buffers and hands the object to the gRPC client, the        *)
(* protobuf library reads each field by its declared type, and the reply   *)
(* comes back the same way and is read by the method that asked.  What     *)
(* matters is the shape a value has at each stage: a value is a record of  *)
(* its shape and its content.  On top of the wire the module follows one   *)
(* browser tab of a daemon session: loadFromDaemon and the daemon branches *)
(* of VaultContext.tsx, the recovery key of Settings.tsx, and the daemon   *)
(* locking itself, the bridge turning a call away (429, 403) and page      *)
(* reloads in between.                                                     *)
(***************************************************************************)
EXTENDS Naturals, Sequences

CONSTANTS Contents,   \* byte strings a field may hold, the empty one included
          Labels,     \* folder names
          RowMax,     \* folders the daemon is asked to create
          KeyMax      \* recovery keys generated

VARIABLES bmenu,      \* what the user of the tab does: "edits" or "recovery"
          sent,       \* the request under way on the wire, chosen once
          dvault,     \* the daemon: locked, session valid, its folder rows, keys
          dtab,       \* the tab: token, daemonConnected, folders shown, load
          edit,       \* the daemon-mode edit in progress
          recovery,   \* handleGenerateRecovery in progress
          localRows,  \* folders in the browser's own encrypted storage
          wirehist       \* what happened: turned-away calls, loads answered, keys shown

wireVars == <<sent>>
tabVars == <<bmenu, dvault, dtab, edit, recovery, localRows, wirehist>>
bridgeVars == <<sent, bmenu, dvault, dtab, edit, recovery, localRows, wirehist>>

----------------------------------------------------------------------------
(* Shapes.                                                                 *)

Text(x) == [shape |-> "string", of |-> x]
Typed(x) == [shape |-> "typed", of |-> x]
Array(x) == [shape |-> "array", of |-> x]
Null == [shape |-> "null", of |-> <<>>]
Garbled == [shape |-> "string", of |-> <<"[object Object]">>]
Absent == [shape |-> "absent", of |-> <<>>]
Fails == [shape |-> "fails", of |-> <<>>]

\* uuidOut and uuidOutOptional: 16 bytes in a typed array, or null.
uuidOut(id) == Typed(id)
uuidOutOptional(id) == IF id = <<>> THEN Null ELSE Typed(id)

\* JSON.stringify of the payload: a typed array becomes an index-keyed object.
Stringified(v) == IF v.shape = "typed" THEN [v EXCEPT !.shape = "object"] ELSE v

\* Of the bridge: an array whose first element is a number becomes a Buffer;
\* an empty array stays an array and an object stays an object.
convertArraysToBuffers(v) ==
    IF v.shape = "array" /\ v.of # <<>> THEN [v EXCEPT !.shape = "buffer"] ELSE v

\* The request messages: which fields carry bytes, and which fields they have.
BytesFields == {"password", "yubikey_response", "dbk", "credential_id", "auth_data",
                "signature", "pub_key_cbor", "recovery_key", "wipe_ticket_ciphertext",
                "wipe_ticket_nonce", "blob", "old_password", "new_password",
                "password_bytes", "image_bytes"}
TextFields == {"session_token", "id", "folder_id", "move_credentials_to", "ordered_ids",
               "name", "device_path"}

\* The protobuf library filling a message from an object: a string field takes
\* String(value), a bytes field takes whatever has a length, null is skipped and
\* a field the message does not declare is ignored.
FromObject(f, v) ==
    IF v.shape = "null" \/ f \notin BytesFields \cup TextFields THEN Absent
    ELSE IF f \in TextFields THEN (IF v.shape = "string" THEN v ELSE Garbled)
    ELSE (IF v.shape \in {"buffer", "array"} THEN [v EXCEPT !.shape = "bytes"] ELSE Absent)

Arrives(m, f) == FromObject(f, convertArraysToBuffers(Stringified(m[f])))

----------------------------------------------------------------------------
(* What each method of DaemonClient sends.                                 *)

token == Text(<<"token">>)

unlock(p, y) == [password |-> Array(p), yubikey_response |-> IF y = <<>> THEN Null ELSE Array(y)]
unlockWithPasskey(c, a) == [credential_id |-> Array(c), auth_data |-> Array(a),
                            signature |-> Array(a), client_data_hash |-> Array(a)]
quickUnlockEnroll(p, d, c) == [session_token |-> token, password |-> Array(p), dbk |-> Array(d),
                               credential_id |-> Array(c), pub_key_cbor |-> Array(c)]
quickUnlock(d) == [dbk |-> Array(d)]
quickUnlockRevoke == [session_token |-> token]
enrollRecoveryKey(k) == [session_token |-> token, recovery_key |-> Array(k)]
unlockWithRecoveryKey(k) == [recovery_key |-> Array(k)]
forensicWipe(c, n) == [wipe_ticket_ciphertext |-> Array(c), wipe_ticket_nonce |-> Array(n)]
lock == [session_token |-> token]
registerFido2(p) == [session_token |-> token, device_path |-> Text(p)]
removeFido2(id) == [session_token |-> token, id |-> Text(id)]
listFolders == [session_token |-> token]
addFolder(n) == [session_token |-> token, name |-> Text(n)]
updateFolder(id, n) == [session_token |-> token, id |-> uuidOut(id), name |-> Text(n)]
deleteFolder(id, to) == [session_token |-> token, id |-> uuidOut(id),
                         move_credentials_to |-> uuidOutOptional(to)]
\* ordered_ids is a list; each of its ids goes the way of this one.
reorderFolders(id) == [session_token |-> token, ordered_ids |-> uuidOut(id)]
listCredentials(f) == [session_token |-> token, folder_id |-> uuidOutOptional(f)]
getCredential(id) == [session_token |-> token, id |-> uuidOut(id)]
addCredential(f, b) == [session_token |-> token, folder_id |-> uuidOutOptional(f), blob |-> Array(b)]
updateCredential(id, f, b) == [session_token |-> token, id |-> uuidOut(id),
                               folder_id |-> uuidOutOptional(f), blob |-> Array(b)]
deleteCredential(id) == [session_token |-> token, id |-> uuidOut(id)]
getAssetHolder == [session_token |-> token]
updateAssetHolder(b) == [session_token |-> token, blob |-> Array(b)]
changePassword(o, n) == [session_token |-> token, old_password |-> Array(o), new_password |-> Array(n)]
verifyPassword(p) == [session_token |-> token, password |-> Array(p)]
uploadProfilePicture(b) == [session_token |-> token, image_bytes |-> Array(b)]
checkPasswordBreached(p) == [session_token |-> token, password_bytes |-> Array(p)]

\* Every request of DaemonClient, for every content of its fields.
Requests ==
    {unlock(a, b) : a, b \in Contents} \cup {unlockWithPasskey(a, b) : a, b \in Contents}
    \cup {quickUnlockEnroll(a, b, c) : a, b, c \in Contents}
    \cup {quickUnlock(a) : a \in Contents} \cup {enrollRecoveryKey(a) : a \in Contents}
    \cup {unlockWithRecoveryKey(a) : a \in Contents} \cup {forensicWipe(a, b) : a, b \in Contents}
    \cup {registerFido2(a) : a \in Contents} \cup {addFolder(a) : a \in Contents}
    \cup {addCredential(a, b) : a, b \in Contents} \cup {updateAssetHolder(a) : a \in Contents}
    \cup {updateFolder(a, b) : a \in Contents \ {<<>>}, b \in Contents}
    \cup {deleteFolder(a, b) : a \in Contents \ {<<>>}, b \in Contents}
    \cup {reorderFolders(a) : a \in Contents \ {<<>>}}
    \cup {listCredentials(a) : a \in Contents} \cup {getCredential(a) : a \in Contents \ {<<>>}}
    \cup {updateCredential(a, b, c) : a \in Contents \ {<<>>}, b, c \in Contents}
    \cup {deleteCredential(a) : a \in Contents \ {<<>>}}
    \cup {removeFido2(a) : a \in Contents \ {<<>>}} \cup {verifyPassword(a) : a \in Contents}
    \cup {uploadProfilePicture(a) : a \in Contents} \cup {checkPasswordBreached(a) : a \in Contents}
    \cup {changePassword(a, b) : a, b \in Contents}
    \cup {lock, quickUnlockRevoke, listFolders, getAssetHolder}

----------------------------------------------------------------------------
(* Replies.  The bridge sends {status, data}, data being the response      *)
(* message with its buffers turned into arrays.                            *)

CreatedReply(id) == [id |-> Text(id)]
DataReply(rows) == [data |-> Array(rows)]

\* rpcJson takes the message itself for the bytes: an array is decoded and
\* parsed, an object without a length decodes to "" which does not parse.
rpcJson(data) == IF "shape" \in DOMAIN data /\ data.shape = "array" THEN data ELSE Fails

\* uuidBytesToString: 16 values; a string has 36 characters and is refused.
uuidBytesToString(v) == IF v.shape \in {"typed", "array", "object"} THEN Text(v.of) ELSE Fails

WireInit == sent \in Requests
WireNext == \E m \in Requests : sent' = m

----------------------------------------------------------------------------
(* One tab.  Every call has an outcome: the bridge turns it away with an   *)
(* {error} body, the daemon refuses it, the daemon performs it, or it is   *)
(* lost after or before being performed (time-out, network).               *)

NoEdit == [op |-> "none", label |-> "", phase |-> "idle", outcome |-> "none"]
NoRecovery == [phase |-> "idle", key |-> 0]
HoldsToken == dtab.token = "daemon"

BridgeInit ==
    /\ bmenu \in {"edits", "recovery"}
    /\ dvault = [locked |-> TRUE, valid |-> FALSE, rows |-> <<>>, assets |-> 0, key |-> 0, server |-> 0]
    /\ dtab = [token |-> "none", connected |-> FALSE, shown |-> {}, load |-> "idle"]
    /\ edit = NoEdit
    /\ recovery = NoRecovery
    /\ localRows = {}
    /\ wirehist = [turned |-> FALSE, half |-> FALSE, answered |-> FALSE, undone |-> {},
               keys |-> 0, told |-> 0]

\* syncLock: a load asked for while one runs is dropped.
LoadAsked(t) == [t EXCEPT !.load = IF t.load = "idle" THEN "status" ELSE t.load]

\* Login.tsx: daemon.unlock stores the session token and completeDaemonLogin
\* dispatches daemonUnlocked, which starts loadFromDaemon.
UnlockTab ==
    /\ dtab.token = "none"
    /\ dvault' = [dvault EXCEPT !.locked = FALSE, !.valid = TRUE]
    /\ dtab' = LoadAsked([dtab EXCEPT !.token = "daemon"])
    /\ wirehist' = [wirehist EXCEPT !.answered = FALSE]
    /\ UNCHANGED <<edit, recovery, localRows>>

\* The daemon locks itself: its sessions are gone.
DaemonLocks ==
    /\ ~dvault.locked
    /\ dvault' = [dvault EXCEPT !.locked = TRUE, !.valid = FALSE]
    /\ UNCHANGED <<dtab, edit, recovery, localRows, wirehist>>

\* A page reload: the token is restored from session storage before the first
\* render, daemonConnected starts from it, the lists start empty, performLoad
\* returns early for a daemon token and loadFromDaemon runs on mount.
ReloadBridge ==
    /\ dtab' = [dtab EXCEPT !.connected = HoldsToken, !.shown = {}, !.load = "status"]
    /\ edit' = NoEdit
    /\ recovery' = NoRecovery
    /\ wirehist' = [wirehist EXCEPT !.answered = FALSE, !.half = wirehist.half \/ recovery.phase = "post"]
    /\ UNCHANGED <<dvault, localRows>>

\* loadFromDaemon, getStatus: a turned-away reply has no data and reading
\* status.locked throws; a locked daemon leaves the mode to the token held.
LoadStatus ==
    /\ dtab.load = "status"
    /\ \E outcome \in {"turned", "lost", "done"} :
        /\ dtab' = IF outcome = "done" /\ ~dvault.locked THEN [dtab EXCEPT !.load = "lists"]
                   ELSE [dtab EXCEPT !.load = "idle", !.connected = outcome = "done" /\ HoldsToken]
        /\ wirehist' = [wirehist EXCEPT !.turned = @ \/ outcome = "turned"]
    /\ UNCHANGED <<dvault, edit, recovery, localRows>>

\* loadFromDaemon, the three lists: with a session they are answered and read
\* by rpcJson; an expired session clears the keys; anything else falls through
\* to the browser's own data.  The folders of the daemon are merged with the
\* ones on the screen.
LoadLists ==
    /\ dtab.load = "lists"
    /\ \E outcome \in {"turned", "lost", "done"} :
        LET answered == outcome = "done" /\ HoldsToken /\ dvault.valid
            expired == outcome = "done" /\ HoldsToken /\ ~dvault.valid
            read == rpcJson(DataReply(dvault.rows))
        IN /\ dtab' = IF answered /\ read # Fails
                      THEN [dtab EXCEPT !.load = "idle", !.connected = TRUE,
                                        !.shown = @ \cup {read.of[i] : i \in DOMAIN read.of}]
                      ELSE IF expired THEN [dtab EXCEPT !.load = "idle", !.token = "none"]
                      ELSE [dtab EXCEPT !.load = "idle", !.connected = FALSE]
           /\ wirehist' = [wirehist EXCEPT !.turned = @ \/ outcome = "turned", !.answered = answered]
    /\ UNCHANGED <<dvault, edit, recovery, localRows>>

\* Header.tsx: signing out clears the keys; VaultProvider keeps its state.
SignOutBridge ==
    /\ HoldsToken
    /\ dtab' = [dtab EXCEPT !.token = "none"]
    /\ UNCHANGED <<dvault, edit, recovery, localRows, wirehist>>

----------------------------------------------------------------------------
(* Edits.  In daemon mode the call is awaited and the screen follows; out  *)
(* of daemon mode the whole list is written to the browser's storage.      *)

EditStart(op, l) ==
    /\ bmenu = "edits"
    /\ edit.phase = "idle"
    /\ op = "deleteFolder" => l \in dtab.shown
    /\ op = "addFolder" => l \notin dtab.shown /\ Len(dvault.rows) < RowMax
    /\ IF dtab.connected
       THEN /\ edit' = IF HoldsToken THEN [op |-> op, label |-> l, phase |-> "sent", outcome |-> "none"]
                       ELSE NoEdit
            /\ UNCHANGED <<dtab, localRows>>
       ELSE LET rows == CASE op = "addFolder" -> dtab.shown \cup {l}
                          [] op = "deleteFolder" -> dtab.shown \ {l}
                          [] OTHER -> dtab.shown
            IN /\ dtab' = [dtab EXCEPT !.shown = rows]
               /\ localRows' = IF op = "updateAssetHolder" THEN localRows ELSE rows
               /\ UNCHANGED edit
    /\ UNCHANGED <<dvault, recovery, wirehist>>

\* The daemon at the other end: an id that does not parse is refused.
Performed(op, l) ==
    CASE op = "addFolder" -> [dvault EXCEPT !.rows = Append(@, l)]
      [] op = "updateAssetHolder" -> [dvault EXCEPT !.assets = 1 - @]
      [] op = "deleteFolder" -> [dvault EXCEPT !.rows = SelectSeq(@, LAMBDA r : r # l)]
Refuses(op, l) ==
    \/ ~dvault.valid
    \/ op = "deleteFolder" /\ Arrives(deleteFolder(<<l>>, <<>>), "id") = Garbled

EditServed ==
    /\ edit.phase = "sent"
    /\ \E outcome \in {"turned", "lost", "done"} :
        LET o == IF outcome # "done" THEN outcome
                 ELSE IF Refuses(edit.op, edit.label) THEN "refused" ELSE "done"
        IN /\ dvault' = IF o = "done" \/ (o = "lost" /\ ~Refuses(edit.op, edit.label))
                        THEN Performed(edit.op, edit.label) ELSE dvault
           /\ edit' = [edit EXCEPT !.phase = "served", !.outcome = o]
           /\ wirehist' = [wirehist EXCEPT !.turned = @ \/ o = "turned"]
    /\ UNCHANGED <<dtab, recovery, localRows>>

\* DaemonClient.request throws for status 'Error' and for an abort; any other
\* body is the answer, the {error} of a turned-away call included.
Resolves(outcome) == outcome \in {"done", "turned"}

\* What the caller makes of the reply: addFolder needs the id it carries.
Returned(op, outcome) ==
    /\ Resolves(outcome)
    /\ op = "addFolder" => outcome = "done" /\ uuidBytesToString(CreatedReply(<<1>>).id) # Fails

EditReplied ==
    /\ edit.phase = "served"
    /\ LET ok == Returned(edit.op, edit.outcome)
       IN /\ dtab' = IF ok /\ edit.op = "addFolder" THEN [dtab EXCEPT !.shown = @ \cup {edit.label}]
                     ELSE IF ok /\ edit.op = "deleteFolder" THEN [dtab EXCEPT !.shown = @ \ {edit.label}]
                     ELSE dtab
          /\ wirehist' = [wirehist EXCEPT !.undone = IF ok /\ edit.outcome # "done" THEN @ \cup {edit.outcome} ELSE @]
    /\ edit' = NoEdit
    /\ UNCHANGED <<dvault, recovery, localRows>>

----------------------------------------------------------------------------
(* handleGenerateRecovery: verify the password with the daemon, enrol the  *)
(* new key there, store its hash on the server, show it.                   *)

RecoveryStep(from, to, effect) ==
    /\ recovery.phase = from
    /\ HoldsToken
    /\ \E outcome \in {"turned", "lost", "done", "refused"} :
        /\ outcome = "done" => dvault.valid
        /\ dvault' = IF outcome = "done" \/ (outcome = "lost" /\ dvault.valid) THEN effect ELSE dvault
        /\ recovery' = IF Resolves(outcome) THEN [recovery EXCEPT !.phase = to] ELSE NoRecovery
        /\ wirehist' = [wirehist EXCEPT !.turned = @ \/ outcome = "turned",
                                 !.half = @ \/ (outcome = "lost" /\ effect # dvault)]
    /\ UNCHANGED <<dtab, edit, localRows>>

RecoveryStart ==
    /\ bmenu = "recovery"
    /\ recovery.phase = "idle"
    /\ wirehist.keys < KeyMax
    /\ recovery' = [phase |-> "verify", key |-> wirehist.keys + 1]
    /\ wirehist' = [wirehist EXCEPT !.keys = @ + 1]
    /\ UNCHANGED <<dvault, dtab, edit, localRows>>

RecoveryVerify == RecoveryStep("verify", "enrol", dvault)
RecoveryEnrol == RecoveryStep("enrol", "post", [dvault EXCEPT !.key = recovery.key])

\* apiFetch throws for every status that is not a success, so a key is shown
\* only when the server stored it.
RecoveryPost ==
    /\ recovery.phase = "post"
    /\ \E stored, answered \in BOOLEAN :
        /\ answered => stored
        /\ dvault' = IF stored THEN [dvault EXCEPT !.server = recovery.key] ELSE dvault
        /\ wirehist' = IF answered THEN [wirehist EXCEPT !.told = recovery.key]
                    ELSE [wirehist EXCEPT !.half = TRUE]
    /\ recovery' = NoRecovery
    /\ UNCHANGED <<dtab, edit, localRows>>

\* The token went away under the handler: the next call throws.
RecoveryStops ==
    /\ recovery.phase \in {"verify", "enrol"}
    /\ ~HoldsToken
    /\ recovery' = NoRecovery
    /\ UNCHANGED <<dvault, dtab, edit, localRows, wirehist>>

BridgeNext ==
    /\ UNCHANGED bmenu
    /\ \/ UnlockTab \/ DaemonLocks \/ ReloadBridge \/ SignOutBridge
       \/ LoadStatus \/ LoadLists
       \/ \E op \in {"addFolder", "deleteFolder", "updateAssetHolder"}, l \in Labels : EditStart(op, l)
       \/ EditServed \/ EditReplied
       \/ RecoveryStart \/ RecoveryVerify \/ RecoveryEnrol \/ RecoveryPost \/ RecoveryStops

----------------------------------------------------------------------------
(* Properties.                                                             *)

\* Every bytes field a method of DaemonClient sends reaches the daemon's message
\* as the bytes the method meant, through JSON, convertArraysToBuffers and the
\* protobuf library, the empty byte string included.
BytesArrive ==
    \A f \in DOMAIN sent \cap BytesFields :
        sent[f].shape \in {"array", "typed"}
            => Arrives(sent, f) = [shape |-> "bytes", of |-> sent[f].of]

\* A daemon-mode call that resolves was performed by the daemon, unless the
\* bridge turned it away (server.js answers 429 or 403 with {error}, which
\* DaemonClient.request does not take for an error).
ResolvedMeansDone == wirehist.undone \subseteq {"turned"}

\* The recovery key last shown to the user is the one the daemon and the server
\* both accept, unless a call was turned away or a later generation stopped
\* between the two stores (handleGenerateRecovery).
ShownKeyWorks ==
    \/ wirehist.told = 0 \/ wirehist.turned \/ wirehist.half \/ recovery.phase = "post"
    \/ dvault.key = wirehist.told /\ dvault.server = wirehist.told
=============================================================================
