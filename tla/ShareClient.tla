---------------------------- MODULE ShareClient ----------------------------
(***************************************************************************)
(* The pages of secure sharing and emergency access, and the answers of    *)
(* the server they rely on: ShareModal makes a link, ShareView opens one,  *)
(* SharesModal lists and revokes them; EmergencyAccessModal and the page   *)
(* EmergencyRequest do the same for requests of a trusted contact.         *)
(*                                                                         *)
(* Every call is a record of calls: sent, then served (in any order), then *)
(* answered (in any order), or lost before or after it is served.  The     *)
(* server's handlers are taken whole; Shares has their interleavings.  A   *)
(* key is a number, and the key of a link is the fragment of its URL.      *)
(***************************************************************************)
EXTENDS Naturals, FiniteSets

CONSTANTS
    LinkIds,     \* ids the server draws for shares
    Creds,       \* credentials
    Viewers,     \* pages on which a link is opened
    Askers,      \* requests for emergency access, one page each
    LinkMenus,   \* [ops, calls, first]: operations that may be used, how many
                 \* calls, and the shares there are at first
    PageMax      \* times a page or modal is opened

VARIABLES
    linkMenu,    \* the member of LinkMenus in force
    links,       \* the server's shares: [LinkIds -> NoLink or a record]
    contact,     \* the server's emergency access: [on, asked: [Askers -> status]]
    calls,       \* calls that are not settled
    modal,       \* ShareModal: [inst, cred, busy, url]
    view,        \* ShareView, one per viewer: [at, sid, key, inst]
    list,        \* SharesModal: [open, loading, ids, confirm, all]
    panel,       \* EmergencyAccessModal: [step, inst, busy, status, responding]
    form,        \* EmergencyRequest, one per asker
    linkHist     \* history: calls made, who asked with a key, who was shown
                 \* what, what the list was told, and what overlapped

linkVars == <<linkMenu, links, contact, calls, modal, view, list, panel, form, linkHist>>

NoLink == [there |-> FALSE, single |-> FALSE, viewed |-> FALSE, expired |-> FALSE,
           key |-> 0, cred |-> "none"]

NoUrl == <<0, 0>>

(* Ids are drawn in their order, which nothing depends on. *)
Drawn(s) == s \in LinkIds \ linkHist.drawn /\ \A r \in LinkIds : r < s => r \in linkHist.drawn

Links == { s \in LinkIds : links[s].there }

(* apiFetch: by is the page or modal that waits for it, and its instance. *)
Call(op, by, inst, arg, key) ==
    [n |-> linkHist.made + 1, op |-> op, by |-> by, inst |-> inst, arg |-> arg, key |-> key,
     at |-> "sent", ok |-> FALSE, got |-> {}, why |-> "none"]

Send(c) ==
    /\ linkHist.made < linkMenu.calls
    /\ calls' = calls \cup {c}

Made(h) == [h EXCEPT !.made = @ + 1]

(* The next state of a call the server has answered. *)
Reply(c, ok, got, why) ==
    calls' = (calls \ {c}) \cup { [c EXCEPT !.at = "served", !.ok = ok, !.got = got, !.why = why] }

Usable(op) == op \in linkMenu.ops

-----------------------------------------------------------------------------
(* ShareModal: a credential's modal is a new instance each time. *)

OpenModal(c) ==
    /\ Usable("share")
    /\ modal.cred = "none" /\ modal.inst < PageMax
    /\ modal' = [inst |-> modal.inst + 1, cred |-> c, busy |-> FALSE, url |-> NoUrl]
    /\ UNCHANGED <<linkMenu, links, contact, calls, view, list, panel, form, linkHist>>

CloseModal ==
    /\ modal.cred # "none"
    /\ modal' = [modal EXCEPT !.cred = "none"]
    /\ UNCHANGED <<linkMenu, links, contact, calls, view, list, panel, form, linkHist>>

(* createShare encrypts under a fresh key: the number of the call. *)
createShare(single) ==
    /\ modal.cred # "none" /\ ~modal.busy /\ modal.url = NoUrl
    /\ Send(Call("create", modal.cred, modal.inst, single, linkHist.made + 1))
    /\ modal' = [modal EXCEPT !.busy = TRUE]
    /\ linkHist' = Made(linkHist)
    /\ UNCHANGED <<linkMenu, links, contact, view, list, panel, form>>

(* POST /api/vault/shares *)
ServeCreate(c, s) ==
    /\ c.op = "create" /\ c.at = "sent"
    /\ Drawn(s)
    /\ links' = [links EXCEPT ![s] = [there |-> TRUE, single |-> c.arg, viewed |-> FALSE,
                                      expired |-> FALSE, key |-> c.key, cred |-> c.by]]
    /\ Reply(c, TRUE, {s}, "none")
    /\ linkHist' = [linkHist EXCEPT !.drawn = @ \cup {s}]
    /\ UNCHANGED <<linkMenu, contact, modal, view, list, panel, form>>

(* Mutant of CreateAnswered: the answer goes to whichever modal is open. *)
CreateAnsweredAny(c) ==
    /\ c.op = "create" /\ c.at = "served"
    /\ calls' = calls \ {c}
    /\ modal' = IF modal.cred # "none"
                THEN [modal EXCEPT !.busy = FALSE,
                                   !.url = IF c.ok THEN <<CHOOSE s \in c.got : TRUE, c.key>> ELSE @]
                ELSE modal
    /\ UNCHANGED <<linkMenu, links, contact, view, list, panel, form, linkHist>>

(* What is set in a modal that was closed meanwhile has no effect. *)
CreateAnswered(c) ==
    /\ c.op = "create" /\ c.at = "served"
    /\ calls' = calls \ {c}
    /\ modal' = IF modal.cred # "none" /\ c.inst = modal.inst
                THEN [modal EXCEPT !.busy = FALSE,
                                   !.url = IF c.ok THEN <<CHOOSE s \in c.got : TRUE, c.key>> ELSE @]
                ELSE modal
    /\ UNCHANGED <<linkMenu, links, contact, view, list, panel, form, linkHist>>

AnotherLink ==
    /\ modal.cred # "none" /\ modal.url # NoUrl
    /\ modal' = [modal EXCEPT !.url = NoUrl]
    /\ UNCHANGED <<linkMenu, links, contact, calls, view, list, panel, form, linkHist>>

-----------------------------------------------------------------------------
(* ShareView.  A reload is a new instance; the old request still arrives. *)

(* The effect of ShareView: without a key (k = 0) nothing is fetched. *)
OpenLink(v, s, k) ==
    /\ Usable("view")
    /\ s \in linkHist.drawn /\ view[v].inst < PageMax
    /\ view' = [view EXCEPT ![v] = [at |-> IF k = 0 THEN "error" ELSE "loading",
                                    sid |-> s, key |-> k, inst |-> @.inst + 1]]
    /\ IF k = 0
       THEN UNCHANGED <<calls, linkHist>>
       ELSE /\ Send(Call("view", v, view[v].inst + 1, s, k))
            /\ linkHist' = [Made(linkHist) EXCEPT !.keyed[s] = @ \cup {v}]
    /\ UNCHANGED <<linkMenu, links, contact, modal, list, panel, form>>

(* GET /api/share/:shareId; an expired record is removed. *)
ServeView(c) ==
    LET s == c.arg
    IN /\ c.op = "view" /\ c.at = "sent"
       /\ \/ ~links[s].there /\ Reply(c, FALSE, {}, "not_found") /\ UNCHANGED links
          \/ /\ links[s].there /\ links[s].expired
             /\ Reply(c, FALSE, {}, "expired")
             /\ links' = [links EXCEPT ![s].there = FALSE]
          \/ /\ links[s].there /\ ~links[s].expired /\ links[s].single /\ links[s].viewed
             /\ Reply(c, FALSE, {}, "already_viewed")
             /\ UNCHANGED links
          \/ /\ links[s].there /\ ~links[s].expired /\ ~(links[s].single /\ links[s].viewed)
             /\ Reply(c, TRUE, {s}, "none")
             /\ links' = [links EXCEPT ![s].viewed = links[s].single]
       /\ UNCHANGED <<linkMenu, contact, modal, view, list, panel, form, linkHist>>

(* A reload dropped the page that waited for an older instance's call. *)
ViewAnswered(c) ==
    LET v == c.by
    IN /\ c.op = "view" /\ c.at = "served"
       /\ calls' = calls \ {c}
       /\ IF c.inst # view[v].inst
          THEN UNCHANGED <<view, linkHist>>
          ELSE LET opens == c.ok /\ links[c.arg].key = c.key
               IN /\ view' = [view EXCEPT ![v].at =
                                IF opens THEN "success"
                                ELSE IF c.why \in {"already_viewed", "expired"} THEN c.why
                                ELSE "error"]
                  /\ linkHist' = IF opens THEN [linkHist EXCEPT !.shown[c.arg] = @ + 1] ELSE linkHist
       /\ UNCHANGED <<linkMenu, links, contact, modal, list, panel, form>>

LinkExpires(s) ==
    /\ Usable("expire")
    /\ links[s].there /\ ~links[s].expired
    /\ links' = [links EXCEPT ![s].expired = TRUE]
    /\ UNCHANGED <<linkMenu, contact, calls, modal, view, list, panel, form, linkHist>>

-----------------------------------------------------------------------------
(* SharesModal, mounted with the settings page; list.all is the set of     *)
(* shares whose call a "revoke all" still waits for.                       *)

Loads == { c \in calls : c.op = "list" }

(* A share made on another device. *)
MadeElsewhere(s) ==
    /\ Usable("list")
    /\ Drawn(s)
    /\ links' = [links EXCEPT ![s] = [NoLink EXCEPT !.there = TRUE]]
    /\ linkHist' = [linkHist EXCEPT !.drawn = @ \cup {s}]
    /\ UNCHANGED <<linkMenu, contact, calls, modal, view, list, panel, form>>

(* refreshShares runs when the modal opens. *)
OpenList ==
    /\ Usable("list")
    /\ ~list.open
    /\ Send(Call("list", "list", 0, 0, 0))
    /\ list' = [list EXCEPT !.open = TRUE, !.loading = TRUE]
    /\ linkHist' = [Made(linkHist) EXCEPT !.overlap = @ \/ Loads # {},
                                          !.during = @ \/ list.all # {}]
    /\ UNCHANGED <<linkMenu, links, contact, modal, view, panel, form>>

CloseList ==
    /\ list.open
    /\ list' = [list EXCEPT !.open = FALSE, !.confirm = FALSE]
    /\ UNCHANGED <<linkMenu, links, contact, calls, modal, view, panel, form, linkHist>>

(* GET /api/vault/shares reads the directory: expired ones included. *)
ServeList(c) ==
    /\ c.op = "list" /\ c.at = "sent"
    /\ Reply(c, TRUE, Links, "none")
    /\ UNCHANGED <<linkMenu, links, contact, modal, view, list, panel, form, linkHist>>

ListAnswered(c) ==
    /\ c.op = "list" /\ c.at = "served"
    /\ calls' = calls \ {c}
    /\ list' = [list EXCEPT !.loading = FALSE, !.ids = IF c.ok THEN c.got ELSE @]
    /\ linkHist' = [linkHist EXCEPT !.told = IF c.ok THEN c.got ELSE @,
                                    !.during = @ \/ list.all # {}]
    /\ UNCHANGED <<linkMenu, links, contact, modal, view, panel, form>>

handleRevoke(s) ==
    /\ list.open /\ ~list.loading /\ s \in list.ids
    /\ Send(Call("revoke", "one", 0, s, 0))
    /\ linkHist' = Made(linkHist)
    /\ UNCHANGED <<linkMenu, links, contact, modal, view, list, panel, form>>

(* handleRevokeAll asks first ... *)
AskRevokeAll ==
    /\ list.open /\ ~list.loading /\ list.ids # {} /\ ~list.confirm
    /\ list' = [list EXCEPT !.confirm = TRUE]
    /\ linkHist' = [linkHist EXCEPT !.agreed = list.ids]
    /\ UNCHANGED <<linkMenu, links, contact, calls, modal, view, panel, form>>

(* ... and the second click sends all the calls (Promise.all).  One batch  *)
(* at a time is followed.                                                  *)
handleRevokeAll ==
    LET n(s) == linkHist.made + 1 + Cardinality({ r \in list.ids : r < s })
        batch == { [Call("revoke", "all", 0, s, 0) EXCEPT !.n = n(s)] : s \in list.ids }
    IN /\ list.open /\ ~list.loading /\ list.confirm /\ list.ids # {}
       /\ \A c \in calls : c.by # "all"
       /\ linkHist.made + Cardinality(list.ids) <= linkMenu.calls
       /\ calls' = calls \cup batch
       /\ list' = [list EXCEPT !.confirm = FALSE, !.all = list.ids]
       /\ linkHist' = [linkHist EXCEPT !.made = @ + Cardinality(list.ids),
                                       !.swept = @ \cup (list.ids \ linkHist.agreed),
                                       !.during = @ \/ Loads # {}]
       /\ UNCHANGED <<linkMenu, links, contact, modal, view, panel, form>>

(* DELETE /api/vault/shares/:shareId *)
ServeRevoke(c) ==
    /\ c.op = "revoke" /\ c.at = "sent"
    /\ links' = [links EXCEPT ![c.arg].there = FALSE]
    /\ Reply(c, TRUE, {}, "none")
    /\ UNCHANGED <<linkMenu, contact, modal, view, list, panel, form, linkHist>>

(* One entry goes with its call; all of them with the last of the batch,   *)
(* and none when one of its calls fails.                                   *)
RevokeAnswered(c) ==
    /\ c.op = "revoke" /\ c.at = "served"
    /\ calls' = calls \ {c}
    /\ list' = IF c.by = "one"
               THEN [list EXCEPT !.ids = IF c.ok THEN @ \ {c.arg} ELSE @]
               ELSE IF ~c.ok THEN [list EXCEPT !.all = {}]
               ELSE [list EXCEPT !.all = @ \ {c.arg},
                                 !.ids = IF list.all = {c.arg} THEN {} ELSE @]
    /\ UNCHANGED <<linkMenu, links, contact, modal, view, panel, form, linkHist>>

-----------------------------------------------------------------------------
(* EmergencyAccessModal.  The two reads it starts with are served at once. *)

OpenPanel ==
    /\ Usable("contact")
    /\ panel.step = "closed"
    /\ Send(Call("panel", "panel", panel.inst + 1, 0, 0))
    /\ panel' = [panel EXCEPT !.step = "loading", !.inst = @ + 1, !.busy = FALSE,
                              !.responding = "none", !.status = [a \in Askers |-> "none"]]
    /\ linkHist' = Made(linkHist)
    /\ UNCHANGED <<linkMenu, links, contact, modal, view, list, form>>

ClosePanel ==
    /\ panel.step # "closed"
    /\ panel' = [panel EXCEPT !.step = "closed"]
    /\ UNCHANGED <<linkMenu, links, contact, calls, modal, view, list, form, linkHist>>

(* handleSave and handleDisable *)
ChangeContact(op) ==
    /\ panel.step = (IF op = "save" THEN "setup" ELSE "configured") /\ ~panel.busy
    /\ Send(Call(op, "panel", panel.inst, 0, 0))
    /\ panel' = [panel EXCEPT !.busy = TRUE]
    /\ linkHist' = Made(linkHist)
    /\ UNCHANGED <<linkMenu, links, contact, modal, view, list, form>>

(* The requests are a view of the configured panel.  The buttons of one    *)
(* are disabled while it is the one responding.                            *)
handleRespond(a, status) ==
    /\ panel.step = "configured"
    /\ panel.status[a] = "pending" /\ panel.responding # a
    /\ Send(Call(status, a, panel.inst, a, 0))
    /\ panel' = [panel EXCEPT !.responding = a]
    /\ linkHist' = [Made(linkHist) EXCEPT !.twice =
                      IF \E c \in calls : c.by = a THEN @ \cup {a} ELSE @]
    /\ UNCHANGED <<linkMenu, links, contact, modal, view, list, form>>

(* GET /api/vault/emergency and .../requests *)
ServePanel(c) ==
    /\ c.op = "panel" /\ c.at = "sent"
    /\ Reply(c, TRUE, contact, "none")
    /\ UNCHANGED <<linkMenu, links, contact, modal, view, list, panel, form, linkHist>>

(* POST /api/vault/emergency wants the password, which handleSave does not *)
(* send; DELETE removes the configuration.                                 *)
ServeContact(c) ==
    /\ c.op \in {"save", "disable"} /\ c.at = "sent"
    /\ IF c.op = "save"
       THEN Reply(c, FALSE, {}, "password_required") /\ UNCHANGED contact
       ELSE Reply(c, TRUE, {}, "none") /\ contact' = [contact EXCEPT !.on = FALSE]
    /\ UNCHANGED <<linkMenu, links, modal, view, list, panel, form, linkHist>>

(* POST /api/vault/emergency/respond *)
ServeRespond(c) ==
    /\ c.op \in {"granted", "denied"} /\ c.at = "sent"
    /\ contact' = [contact EXCEPT !.asked[c.arg] = c.op]
    /\ Reply(c, TRUE, {}, "none")
    /\ UNCHANGED <<linkMenu, links, modal, view, list, panel, form, linkHist>>

(* The panel once call c has come back. *)
Shown(c) ==
    CASE c.op = "panel" /\ c.ok ->
            [panel EXCEPT !.step = IF c.got.on THEN "configured" ELSE "setup",
                          !.status = c.got.asked]
      [] c.op = "panel" /\ ~c.ok -> [panel EXCEPT !.step = "setup"]
      [] c.op \in {"save", "disable"} ->
            [panel EXCEPT !.busy = FALSE,
                          !.step = IF ~c.ok THEN @ ELSE IF c.op = "save" THEN "configured" ELSE "setup"]
      [] OTHER -> [panel EXCEPT !.responding = "none",
                                !.status[c.arg] = IF c.ok THEN c.op ELSE @]

PanelAnswered(c) ==
    /\ c.op \in {"panel", "save", "disable", "granted", "denied"} /\ c.at = "served"
    /\ calls' = calls \ {c}
    /\ panel' = IF panel.step = "closed" \/ c.inst # panel.inst THEN panel ELSE Shown(c)
    /\ UNCHANGED <<linkMenu, links, contact, modal, view, list, form, linkHist>>

-----------------------------------------------------------------------------
(* EmergencyRequest *)

handleSubmit(a) ==
    /\ Usable("contact")
    /\ form[a] \in {"form", "error"}
    /\ Send(Call("ask", "form", 0, a, 0))
    /\ form' = [form EXCEPT ![a] = "submitting"]
    /\ linkHist' = Made(linkHist)
    /\ UNCHANGED <<linkMenu, links, contact, modal, view, list, panel>>

(* POST /api/emergency/request/:token; a second one is an entry of its     *)
(* own, for which the first stands here.                                   *)
ServeAsk(c) ==
    /\ c.op = "ask" /\ c.at = "sent"
    /\ IF contact.on
       THEN /\ contact' = [contact EXCEPT !.asked[c.arg] = IF @ = "none" THEN "pending" ELSE @]
            /\ Reply(c, TRUE, {}, "none")
       ELSE Reply(c, FALSE, {}, "not_found") /\ UNCHANGED contact
    /\ UNCHANGED <<linkMenu, links, modal, view, list, panel, form, linkHist>>

AskAnswered(c) ==
    /\ c.op = "ask" /\ c.at = "served"
    /\ calls' = calls \ {c}
    /\ form' = [form EXCEPT ![c.arg] = IF c.ok THEN "success" ELSE "error"]
    /\ UNCHANGED <<linkMenu, links, contact, modal, view, list, panel, linkHist>>

-----------------------------------------------------------------------------
(* The connection fails, before or after the server did what it was asked. *)
CallLost(c) ==
    /\ Usable("lost")
    /\ c.why # "lost"
    /\ Reply(c, FALSE, {}, "lost")
    /\ UNCHANGED <<linkMenu, links, contact, modal, view, list, panel, form, linkHist>>

LinkInit ==
    /\ linkMenu \in LinkMenus
    /\ links = [s \in LinkIds |-> IF s \in DOMAIN linkMenu.first THEN linkMenu.first[s] ELSE NoLink]
    /\ contact = [on |-> TRUE, asked |-> [a \in Askers |-> "none"]]
    /\ calls = {}
    /\ modal = [inst |-> 0, cred |-> "none", busy |-> FALSE, url |-> NoUrl]
    /\ view = [v \in Viewers |-> [at |-> "none", sid |-> 0, key |-> 0, inst |-> 0]]
    /\ list = [open |-> FALSE, loading |-> FALSE, ids |-> {}, confirm |-> FALSE, all |-> {}]
    /\ panel = [step |-> "closed", inst |-> 0, busy |-> FALSE, responding |-> "none",
                status |-> [a \in Askers |-> "none"]]
    /\ form = [a \in Askers |-> "form"]
    /\ linkHist = [made |-> 0, drawn |-> DOMAIN linkMenu.first, keyed |-> [s \in LinkIds |-> {}],
                   shown |-> [s \in LinkIds |-> 0], told |-> {}, agreed |-> {}, swept |-> {},
                   overlap |-> FALSE, during |-> FALSE, twice |-> {}]

CallStep(c) ==
    \/ \E s \in LinkIds : ServeCreate(c, s)
    \/ CreateAnswered(c) \/ ServeView(c) \/ ViewAnswered(c)
    \/ ServeList(c) \/ ListAnswered(c) \/ ServeRevoke(c) \/ RevokeAnswered(c)
    \/ ServePanel(c) \/ ServeContact(c) \/ ServeRespond(c) \/ PanelAnswered(c)
    \/ ServeAsk(c) \/ AskAnswered(c) \/ CallLost(c)

LinkNext ==
    \/ \E c \in calls : CallStep(c)
    \/ \E c \in Creds : OpenModal(c)
    \/ CloseModal \/ AnotherLink \/ OpenList \/ CloseList \/ AskRevokeAll \/ handleRevokeAll
    \/ \E single \in BOOLEAN : createShare(single)
    \/ \E v \in Viewers, s \in LinkIds :
          \E k \in {0, links[s].key, links[s].key + 1} : OpenLink(v, s, k)
    \/ \E s \in LinkIds : LinkExpires(s) \/ MadeElsewhere(s) \/ handleRevoke(s)
    \/ OpenPanel \/ ClosePanel \/ \E op \in {"save", "disable"} : ChangeContact(op)
    \/ \E a \in Askers : handleSubmit(a) \/ \E r \in {"granted", "denied"} : handleRespond(a, r)

-----------------------------------------------------------------------------
(* Properties *)

(* The link ShareModal shows is for the credential the modal is about, and *)
(* its fragment opens the record, also when the modal was closed and       *)
(* opened for another credential while a POST was under way.               *)
LinkOpensItsCredential ==
    modal.cred # "none" /\ modal.url # NoUrl =>
        links[modal.url[1]].key = modal.url[2] /\ links[modal.url[1]].cred = modal.cred

(* A single view is only used up by someone who had a key: opening a link  *)
(* that lost its fragment leaves the share for its recipient.              *)
SpentWithKey ==
    \A s \in LinkIds : links[s].there /\ links[s].viewed => linkHist.keyed[s] # {}

(* However often a single-view link is opened, reloaded and retried, with  *)
(* answers lost on the way, it is displayed at most once.                  *)
DisplayedOnce ==
    \A s \in LinkIds : links[s].single => linkHist.shown[s] <= 1

(* The list hides no share that is still there: what SharesModal was told  *)
(* of and no longer shows is gone at the server, whichever calls failed.   *)
(* The exception is a list that was loaded while "revoke all" was under    *)
(* way: setShares([]) also drops what the load added.                      *)
NothingHidden ==
    ~linkHist.during => \A s \in linkHist.told \ list.ids : ~links[s].there

(* "Revoke all" only revokes shares that were listed when the owner was    *)
(* asked to confirm it, unless two loads of the list overlapped.           *)
SweptWereListed ==
    ~linkHist.overlap => linkHist.swept = {}

(* A request that is shown as granted or denied has that status at the     *)
(* server, unless two responses to it overlapped (the buttons of a request *)
(* come back when another one is responded to).                            *)
ResponsesTrue ==
    \A a \in Askers \ linkHist.twice :
        panel.step = "configured" /\ panel.status[a] \in {"granted", "denied"}
            => contact.asked[a] = panel.status[a]

(* A contact whose page says the request was sent is in the owner's list.  *)
SentIsListed ==
    \A a \in Askers : form[a] = "success" => contact.asked[a] # "none"

(* A link serves its one credential, as often as it may, and the pages     *)
(* about links and emergency requests list what is there.                  *)
LinksSound ==
    /\ LinkOpensItsCredential /\ SpentWithKey /\ DisplayedOnce
    /\ NothingHidden /\ SweptWereListed /\ SentIsListed
=============================================================================
