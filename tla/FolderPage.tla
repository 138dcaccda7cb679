----------------------------- MODULE FolderPage -----------------------------
(***************************************************************************)
(* The folder screens of the client: the Manage Folders page               *)
(* (pages/ManageFolders.tsx), with its inline editor, its create dialog    *)
(* and its delete dialog, and the Create Folder modal of the sidebar       *)
(* (components/CreateFolderModal.tsx).  Their edits run the operations of  *)
(* VaultContext in server mode: the lists on screen change at once, the    *)
(* write is on its way, and a write that fails puts the lists back as they *)
(* were when the edit was made, whatever was edited since.  A write that   *)
(* is queued offline counts as done.  What becomes of the stored copies is *)
(* the subject of module ClientVault.                                      *)
(***************************************************************************)
EXTENDS Naturals, Sequences, SequencesExt, FiniteSets

CONSTANTS
    OldFolders,     \* the ids of the folders at first, as a sequence
    NewFolder,      \* the id of a folder that may be created
    FolderCreds,          \* ids of credentials
    FolderMenus     \* of a behaviour: its operations (ops), where its credentials are
                    \* (hold), and the bounds on its failing writes (fails), on the
                    \* writes on their way at once (cap) and on its edits (edits)

VARIABLES
    fmenu,      \* the menu of this behaviour
    folders,    \* the folders on screen, in order
    holds,      \* the folder each credential on screen is in
    dialog,     \* folderToDelete, or NoneAsked
    selected,   \* selectedCredentialIds
    editor,     \* [id, adding]: editingId, and whether the create dialog is open
    modal,      \* the sidebar's modal: [open, titled, icon, svg, reading]
    folderWrites,     \* the writes on their way
    fhist       \* history: see FolderInit

folderVars == <<fmenu, folders, holds, dialog, selected, editor, modal, folderWrites, fhist>>

NoneAsked == "none"
Removed == "removed"
May(op) == op \in fmenu.ops
FolderIds == {folders[i].id : i \in 1..Len(folders)}

(* a folder's icon is iconName (named), customSvg (drawn), or both *)
Folder(id, named, drawn) == [id |-> id, label |-> 0, named |-> named, drawn |-> drawn]

folderCredentials == {c \in FolderCreds : holds[c] = dialog}

FolderInit ==
    /\ fmenu \in FolderMenus
    /\ folders = [i \in 1..Len(OldFolders) |-> Folder(OldFolders[i], TRUE, FALSE)]
    /\ holds = fmenu.hold
    /\ dialog = NoneAsked /\ selected = {}
    /\ editor = [id |-> NoneAsked, adding |-> FALSE]
    /\ modal = [open |-> FALSE, titled |-> FALSE, icon |-> "preset",
                svg |-> FALSE, reading |-> FALSE]
    /\ folderWrites = {}
    /\ fhist = [place |-> holds,      \* where the user last put each credential
                confirmed |-> {},     \* the folders whose deletion was confirmed
                left |-> {},          \* still selected after the dialog, or after a failed move
                unlisted |-> {},      \* moved although the dialog did not list them
                edited |-> {},        \* the folders saved by the inline editor
                crossed |-> FALSE]    \* a write failed under a later edit

(***************************************************************************)
(* The operations of VaultContext: an edit and its write.  The edits made  *)
(* while a write is on its way make it stale.                              *)
(***************************************************************************)
Edits(op, fs, hs) ==
    /\ Cardinality(folderWrites) < fmenu.cap /\ fmenu.edits > 0
    /\ fmenu' = [fmenu EXCEPT !.edits = @ - 1]
    /\ folders' = fs /\ holds' = hs
    /\ folderWrites' = {[w EXCEPT !.stale = TRUE] : w \in folderWrites}
                   \cup {[op |-> op, stale |-> FALSE, fs |-> folders, hs |-> holds]}

FolderAdded(op, f) == NewFolder \notin FolderIds /\ Edits(op, Append(folders, f), holds)

FolderUpdated(f) ==
    Edits("edit", [i \in 1..Len(folders) |-> IF folders[i].id = f.id THEN f ELSE folders[i]], holds)

FoldersReordered(fs) == Edits("reorder", fs, holds)

moveCredentials(ids, target) ==
    Edits("move", folders,
          [c \in FolderCreds |-> IF c \in ids /\ holds[c] # Removed THEN target ELSE holds[c]])

FolderDeleted(id) ==
    Edits("delete", SelectSeq(folders, LAMBDA f : f.id # id),
          [c \in FolderCreds |-> IF holds[c] = id THEN Removed ELSE holds[c]])

(* handleAddNew resumes when its folder is stored and closes the dialog *)
WriteDone(w) ==
    /\ folderWrites' = folderWrites \ {w}
    /\ editor' = [editor EXCEPT !.adding = @ /\ w.op # "create"]
    /\ UNCHANGED <<fmenu, folders, holds, dialog, selected, modal, fhist>>

(* the catch of each operation: the lists it changed, as it found them *)
RestoredFolders(w) == IF w.op = "move" THEN folders ELSE w.fs
Restored(w) == IF w.op \in {"move", "delete"} THEN w.hs ELSE holds

WriteFails(w) ==
    /\ fmenu.fails > 0
    /\ fmenu' = [fmenu EXCEPT !.fails = @ - 1]
    /\ folderWrites' = folderWrites \ {w}
    /\ folders' = RestoredFolders(w) /\ holds' = Restored(w)
    /\ fhist' = [fhist EXCEPT !.crossed = @ \/ w.stale,
                              !.left = @ \cup {c \in selected : Restored(w)[c] # holds[c]},
                              !.place = [c \in FolderCreds |-> IF w.op = "move" /\ w.hs[c] # Removed
                                                       THEN w.hs[c] ELSE @[c]]]
    /\ UNCHANGED <<dialog, selected, editor, modal>>

(***************************************************************************)
(* The delete dialog.  It is modal: the rows of the page are under it.     *)
(***************************************************************************)
AskFolder(id) ==
    /\ May("delete") /\ dialog = NoneAsked /\ ~editor.adding /\ ~modal.open
    /\ id \in FolderIds /\ editor.id # id
    /\ dialog' = id
    /\ UNCHANGED <<fmenu, folders, holds, selected, editor, modal, folderWrites, fhist>>

(* the backdrop, the arrow and the Cancel button *)
CancelFolder ==
    /\ dialog # NoneAsked /\ ~editor.adding
    /\ dialog' = NoneAsked
    /\ fhist' = [fhist EXCEPT !.left = @ \cup selected]
    /\ UNCHANGED <<fmenu, folders, holds, selected, editor, modal, folderWrites>>

(* the rows of the dialog, and the folders a row can be dropped on *)
Listed(c) == dialog # NoneAsked /\ ~editor.adding /\ c \in folderCredentials
otherFolders == FolderIds \ {dialog}

toggleCredentialSelection(c) ==
    /\ May("select") /\ Listed(c)
    /\ selected' = IF c \in selected THEN selected \ {c} ELSE selected \cup {c}
    /\ UNCHANGED <<fmenu, folders, holds, dialog, editor, modal, folderWrites, fhist>>

(* the button compares the numbers of ids, not the ids *)
SelectAll ==
    /\ May("select") /\ dialog # NoneAsked /\ ~editor.adding /\ folderCredentials # {}
    /\ selected' = IF Cardinality(selected) = Cardinality(folderCredentials)
                   THEN {} ELSE folderCredentials
    /\ UNCHANGED <<fmenu, folders, holds, dialog, editor, modal, folderWrites, fhist>>

(* what is still selected after a drop *)
LeftSelected(ids) == selected \ ids

(* a selected item dragged to another folder takes the selection along *)
handleDragEnd(c, target) ==
    /\ May("drag") /\ Listed(c) /\ target \in otherFolders
    /\ LET ids == IF c \in selected THEN selected ELSE {c}
       IN /\ moveCredentials(ids, target)
          /\ selected' = LeftSelected(ids)
          /\ fhist' = [fhist EXCEPT
               !.unlisted = @ \cup {d \in ids \ folderCredentials : holds[d] # Removed},
               !.place = [d \in FolderCreds |-> IF d \in ids /\ holds[d] # Removed
                                          THEN target ELSE @[d]]]
    /\ UNCHANGED <<dialog, editor, modal>>

(* the button deletes everything: the branch that moves first is never used *)
handleConfirmDelete ==
    /\ dialog # NoneAsked /\ ~editor.adding
    /\ FolderDeleted(dialog)
    /\ dialog' = NoneAsked /\ selected' = {}
    /\ fhist' = [fhist EXCEPT !.confirmed = @ \cup {dialog}]
    /\ UNCHANGED <<editor, modal>>

(***************************************************************************)
(* The rows: the inline editor and the order; the create dialog.           *)
(***************************************************************************)
handleStartEdit(id) ==
    /\ May("edit") /\ dialog = NoneAsked /\ ~editor.adding /\ ~modal.open
    /\ id \in FolderIds /\ editor.id # id
    /\ editor' = [editor EXCEPT !.id = id]
    /\ UNCHANGED <<fmenu, folders, holds, dialog, selected, modal, folderWrites, fhist>>

(* iconName is set even when the folder has a customSvg, which is kept *)
handleSaveEdit ==
    /\ dialog = NoneAsked /\ ~editor.adding /\ ~modal.open
    /\ \E i \in 1..Len(folders) :
         /\ folders[i].id = editor.id
         /\ FolderUpdated([folders[i] EXCEPT !.label = 1, !.named = TRUE])
    /\ editor' = [editor EXCEPT !.id = NoneAsked]
    /\ fhist' = [fhist EXCEPT !.edited = @ \cup {editor.id}]
    /\ UNCHANGED <<dialog, selected, modal>>

CancelEdit ==
    /\ editor.id \in FolderIds /\ dialog = NoneAsked /\ ~editor.adding /\ ~modal.open
    /\ editor' = [editor EXCEPT !.id = NoneAsked]
    /\ UNCHANGED <<fmenu, folders, holds, dialog, selected, modal, folderWrites, fhist>>

(* one place up or down; a drag of a row is several of these *)
handleKeyboardReorder(i) ==
    /\ May("reorder") /\ dialog = NoneAsked /\ ~editor.adding /\ ~modal.open
    /\ i + 1 <= Len(folders)
    /\ FoldersReordered([folders EXCEPT ![i] = folders[i + 1], ![i + 1] = folders[i]])
    /\ UNCHANGED <<dialog, selected, editor, modal, fhist>>

(* from the page, or from the delete dialog to make a target to move to *)
OpenCreate ==
    /\ May("create") /\ ~editor.adding /\ ~modal.open
    /\ editor' = [editor EXCEPT !.adding = TRUE]
    /\ UNCHANGED <<fmenu, folders, holds, dialog, selected, modal, folderWrites, fhist>>

(* the fields of the dialog: a pasted SVG replaces the preset icon *)
NewFields(drawn) == Folder(NewFolder, ~drawn, drawn)

(* the dialog stays until the folder is stored *)
handleAddNew(drawn) ==
    /\ editor.adding
    /\ FolderAdded("create", NewFields(drawn))
    /\ UNCHANGED <<dialog, selected, editor, modal, fhist>>

CancelCreate ==
    /\ editor.adding
    /\ editor' = [editor EXCEPT !.adding = FALSE]
    /\ UNCHANGED <<fmenu, folders, holds, dialog, selected, modal, folderWrites, fhist>>

(***************************************************************************)
(* The sidebar's modal.  Its fields outlive it: the component is mounted   *)
(* with the layout, and only a submission resets them.                     *)
(***************************************************************************)
ModalField(m) ==
    /\ modal' = m
    /\ UNCHANGED <<fmenu, folders, holds, dialog, selected, editor, folderWrites, fhist>>

OpenModal == May("modal") /\ ~modal.open /\ dialog = NoneAsked /\ ~editor.adding
             /\ ModalField([modal EXCEPT !.open = TRUE])
CloseModal == modal.open /\ ModalField([modal EXCEPT !.open = FALSE])
TypeTitle == modal.open /\ ModalField([modal EXCEPT !.titled = ~@])
handleTemplateClick == modal.open /\ ~modal.titled /\ ModalField([modal EXCEPT !.titled = TRUE])
PickIcon(icon) ==
    /\ modal.open /\ icon # modal.icon
    /\ icon = "custom" => modal.svg
    /\ ModalField([modal EXCEPT !.icon = icon])
handleFileUpload == modal.open /\ ~modal.reading /\ ModalField([modal EXCEPT !.reading = TRUE])

(* the file is read some time later: even when the modal is closed or reset *)
FileRead(isSvg) ==
    /\ modal.reading
    /\ ModalField(IF isSvg THEN [modal EXCEPT !.reading = FALSE, !.svg = TRUE, !.icon = "custom"]
                  ELSE [modal EXCEPT !.reading = FALSE])

(* the fields after a submission *)
ClearedModal(m) == [m EXCEPT !.open = FALSE, !.titled = FALSE, !.svg = FALSE, !.icon = "preset"]

handleSubmit ==
    /\ modal.open /\ modal.titled
    /\ FolderAdded("modal", Folder(NewFolder, modal.icon # "custom", modal.icon = "custom" /\ modal.svg))
    /\ modal' = ClearedModal(modal)
    /\ UNCHANGED <<dialog, selected, editor, fhist>>

FolderNext ==
    \/ \E w \in folderWrites : WriteDone(w) \/ WriteFails(w)
    \/ \E id \in FolderIds : AskFolder(id) \/ handleStartEdit(id)
    \/ \E c \in FolderCreds : toggleCredentialSelection(c)
    \/ \E c \in FolderCreds, id \in FolderIds : handleDragEnd(c, id)
    \/ CancelFolder \/ SelectAll \/ handleConfirmDelete
    \/ handleSaveEdit \/ CancelEdit
    \/ \E i \in 1..Len(folders) : handleKeyboardReorder(i)
    \/ OpenCreate \/ CancelCreate
    \/ \E drawn \in BOOLEAN : handleAddNew(drawn)
    \/ OpenModal \/ CloseModal \/ TypeTitle \/ handleTemplateClick
    \/ \E icon \in {"preset", "custom"} : PickIcon(icon)
    \/ handleFileUpload \/ handleSubmit
    \/ \E isSvg \in BOOLEAN : FileRead(isSvg)

(***************************************************************************)
(* Properties.                                                             *)
(***************************************************************************)
(* Every credential on screen is in a folder on screen: the deletion of a
   folder takes its credentials along, and when its write fails both lists
   come back together.  The one way out is a write that fails under a later
   edit: the folder list goes back and the moves into a folder it no longer
   has stay (VaultContext.tsx addFolder, moveCredentials). *)
NoOrphans == ~fhist.crossed => \A c \in FolderCreds : holds[c] \in FolderIds \cup {Removed}

(* A credential leaves the list only with the folder the user last put it in,
   and only when the deletion of that folder was confirmed: a credential that
   was dragged out of the folder in the dialog is not deleted with it. *)
OnlyConfirmedGoes ==
    ~fhist.crossed =>
        \A c \in FolderCreds : holds[c] = Removed => fhist.place[c] \in fhist.confirmed

(* A drag moves only credentials the open dialog lists, except the ones that
   were left selected when a dialog was cancelled or a move was taken back:
   neither clears selectedCredentialIds (ManageFolders.tsx:461, 486, 701), and
   a later drag takes them along unseen. *)
DragMovesListed == fhist.crossed \/ fhist.unlisted \subseteq fhist.left

(* A folder that was created and not edited since has exactly one icon, a
   named one or a drawn one, wherever it was made and whenever the file of a
   custom icon was read. *)
OneIconEach ==
    \A i \in 1..Len(folders) :
        folders[i].id \notin fhist.edited => folders[i].named # folders[i].drawn
=============================================================================
