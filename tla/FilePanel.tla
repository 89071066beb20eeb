----------------------------- MODULE FilePanel ------------------------------
(***************************************************************************)
(* The file page of the web client (files.js): it lists a directory of the *)
(* server, lets the user select entries by click or checkbox, shows links  *)
(* for the selection, and uploads files into the directory shown.          *)
(*                                                                         *)
(* An action is one event handler or one promise callback; the modal       *)
(* dialogs of a handler are part of it.  Requests are answered in any      *)
(* order, and the list is rendered anew under the user's hands.            *)
(***************************************************************************)
EXTENDS SequencesExt, Integers

CONSTANTS
    Folders,        \* the directories of the server's machine
    Parent,         \* the directory each of them is listed in
    Names,          \* names of files
    Files,          \* the files each directory has at first
    Order,          \* all folders and names, as the sort method orders them
    Root,           \* the path whose listing is the roots of the machine
    Missing,        \* a path where nothing is
    NoPath,
    MaxRequests,    \* bound on directory requests the user has in flight
    MaxUploads      \* bound on uploads

ASSUME PanelAssumption ==
    /\ Parent \in [Folders -> Folders \cup {Root}]
    /\ Files \in [Folders -> SUBSET Names]
    /\ Folders \cap Names = {}
    /\ Order \in Seq(Folders \cup Names)
    /\ ToSet(Order) = Folders \cup Names /\ IsInjective(Order)
    /\ Root # Missing /\ Root # NoPath /\ Missing # NoPath
    /\ {Root, Missing, NoPath} \cap (Folders \cup Names) = {}
    /\ MaxRequests \in Nat /\ MaxUploads \in Nat

Paths == Folders \cup {Root, Missing}

\* What the page knows of an entry; its absolute path is the pair.
Infos == [in : Paths, name : Folders \cup Names]
NoInfo == [in |-> NoPath, name |-> NoPath]

IsDirectory(info) == info.name \in Folders

VARIABLES
    page,                   \* files, or login once the page has sent itself there
    disk,                   \* the files of each directory
    currentPath,
    fileInfos,
    selectedFileID,         \* indexes of fileInfos, in the order of selection
    nodes,                  \* the list's elements: entry, attribute, checkbox
    details,                \* the entry whose information and icon are shown
    links,                  \* the entries that the links shown lead to
    held,                   \* the element under a finger whose timer runs, or 0
    isControlPanelOpen,
    descending,             \* options in the local storage
    showCheckbox,
    requests,               \* directory requests in flight, with their answers
    uploads                 \* the uploads so far

selectionVars == <<selectedFileID, nodes, details, links>>
listVars == <<currentPath, fileInfos>>
panelVars == <<isControlPanelOpen, descending, showCheckbox>>
vars == <<page, disk, listVars, selectionVars, held, panelVars, requests, uploads>>

NoLinks == [download |-> NoInfo, batch |-> NoInfo, zip |-> <<>>]

\* The entries of S in the order their names have in q.
InOrderOf(q, S) ==
    LET taken[n \in 0 .. Len(q)] ==
          IF n = 0 THEN <<>>
          ELSE IF \E info \in S : info.name = q[n]
                 THEN Append(taken[n - 1], CHOOSE info \in S : info.name = q[n])
                 ELSE taken[n - 1]
    IN  taken[Len(q)]

\* sortFileList, directories first unless descending.
Sorted(S) == InOrderOf(IF descending THEN Reverse(Order) ELSE Order, S)

\* showFileList: new elements, nothing selected in them.
Rendered(infos) ==
    [i \in DOMAIN infos |-> [info |-> infos[i], selected |-> FALSE,
                             box |-> showCheckbox, checked |-> FALSE]]

\* getFileInfos: the request; what follows waits for the answer.
GetFileInfos(path) ==
    requests' = Append(requests, [path |-> path, handled |-> FALSE, list |-> {}])

Init ==
    /\ page = "files"
    /\ disk = Files
    /\ currentPath = NoPath
    /\ fileInfos = <<>>
    /\ selectedFileID = <<>>
    /\ nodes = <<>>
    /\ details = NoInfo
    /\ links = NoLinks
    /\ held = 0
    /\ isControlPanelOpen = FALSE
    /\ descending = FALSE
    /\ showCheckbox = TRUE
    /\ requests = <<[path |-> Root, handled |-> FALSE, list |-> {}]>>
    /\ uploads = <<>>

-----------------------------------------------------------------------------
(* Directories *)

\* The server's answer to /service/file/listFiles.  A directory is listed, and
\* so is what is no path at all: as the empty list.
Listing(path) ==
    {[in |-> path, name |-> x] :
        x \in {f \in Folders : Parent[f] = path}
              \cup (IF path \in Folders THEN disk[path] ELSE {})}

HandleRequest(k) ==
    /\ ~requests[k].handled
    /\ requests' = [requests EXCEPT ![k].handled = TRUE, ![k].list = Listing(requests[k].path)]
    /\ UNCHANGED <<page, disk, listVars, selectionVars, held, panelVars, uploads>>

\* An answer that is a list replaces list, path and selection at once.  (The
\* status 404 the page also has a branch for is never sent on this route.)
ShowAnswer(k) ==
    /\ requests[k].handled
    /\ requests' = RemoveAt(requests, k)
    /\ currentPath' = requests[k].path
    /\ fileInfos' = Sorted(requests[k].list)
    /\ nodes' = Rendered(Sorted(requests[k].list))
    /\ selectedFileID' = <<>>
    /\ details' = NoInfo
    /\ UNCHANGED <<page, disk, links, held, panelVars, uploads>>

\* Any other answer, or none: the user has to log in again.
RequestFails(k) ==
    /\ page' = "login"
    /\ requests' = RemoveAt(requests, k)
    /\ UNCHANGED <<disk, listVars, selectionVars, held, panelVars, uploads>>

\* Slip: the path is taken when it is asked for.
GoToPath_SetsPath ==
    /\ ~isControlPanelOpen
    /\ Len(requests) < MaxRequests
    /\ \E path \in Paths : GetFileInfos(path) /\ currentPath' = path
    /\ UNCHANGED <<page, disk, fileInfos, selectionVars, held, panelVars, uploads>>

\* A path typed in, the parent directory, or the side bar's entry for the roots.
GoToPath ==
    /\ ~isControlPanelOpen
    /\ Len(requests) < MaxRequests
    /\ \E path \in Paths : GetFileInfos(path)
    /\ UNCHANGED <<page, disk, listVars, selectionVars, held, panelVars, uploads>>

\* The element's index is looked up in the present list; no entry is an error
\* that ends the handler.
ShowFilesInDirectory(i) ==
    IF i \in DOMAIN fileInfos /\ IsDirectory(fileInfos[i])
      THEN /\ Len(requests) < MaxRequests
           /\ GetFileInfos(fileInfos[i].name)
           /\ selectedFileID' = <<>>
      ELSE UNCHANGED <<requests, selectedFileID>>

DoubleClick ==
    /\ ~isControlPanelOpen
    /\ \E i \in DOMAIN nodes : ShowFilesInDirectory(i)
    /\ UNCHANGED <<page, disk, listVars, nodes, details, links, held, panelVars, uploads>>

\* A finger on an element starts a timer, its end or move stops it.
Touch ==
    /\ ~isControlPanelOpen /\ held = 0
    /\ held' \in DOMAIN nodes
    /\ UNCHANGED <<page, disk, listVars, selectionVars, panelVars, requests, uploads>>

TouchEnd ==
    /\ held # 0
    /\ held' = 0
    /\ UNCHANGED <<page, disk, listVars, selectionVars, panelVars, requests, uploads>>

TouchTimer ==
    /\ held # 0
    /\ held' = 0
    /\ ShowFilesInDirectory(held)
    /\ UNCHANGED <<page, disk, listVars, nodes, details, links, panelVars, uploads>>

-----------------------------------------------------------------------------
(* Selection *)

Without(ids, i) == RemoveFirst(ids, i)

InfosOf(ids) == [k \in DOMAIN ids |-> fileInfos[ids[k]]]

Unchecked(node) == [node EXCEPT !.selected = FALSE, !.checked = FALSE]

\* The nodes of a click on element i: what was selected is no longer.
Cleared == [j \in DOMAIN nodes |->
               IF j \in ToSet(selectedFileID) THEN Unchecked(nodes[j]) ELSE nodes[j]]

\* showDownloadLink and, for a directory, showBatchDownloadLink, which an earlier
\* directory's link otherwise keeps; then the link for an archive.
LinksTo(i) ==
    [download |-> fileInfos[i],
     batch |-> IF IsDirectory(fileInfos[i]) THEN fileInfos[i] ELSE links.batch,
     zip |-> <<fileInfos[i]>>]

ShowFileInfo(i) == fileInfos[i]

\* clickFileListNode.  What is selected is cleared first, so the second branch
\* is for an element that is marked and not selected.
ClickFileListNode ==
    /\ ~isControlPanelOpen
    /\ \E i \in DOMAIN nodes :
         \/ /\ ~Cleared[i].selected
            /\ selectedFileID' = <<i>>
            /\ nodes' = [Cleared EXCEPT ![i].selected = TRUE, ![i].checked = nodes[i].box]
            /\ details' = ShowFileInfo(i)
            /\ links' = LinksTo(i)
         \/ /\ Cleared[i].selected
            /\ selectedFileID' = <<>>
            /\ nodes' = [Cleared EXCEPT ![i] = Unchecked(Cleared[i])]
            /\ details' = NoInfo
            /\ links' = NoLinks
    /\ UNCHANGED <<page, disk, listVars, held, panelVars, requests, uploads>>

\* Slip: the archive is not made anew when an entry is taken out of it.
AddSelectedFile_KeepsArchive ==
    /\ ~isControlPanelOpen
    /\ \E i \in DOMAIN nodes :
         /\ nodes[i].box
         /\ details' = NoInfo
         /\ \/ /\ ~nodes[i].checked
               /\ selectedFileID' = Append(selectedFileID, i)
               /\ nodes' = [nodes EXCEPT ![i].checked = TRUE]
               /\ links' = [NoLinks EXCEPT !.zip = InfosOf(selectedFileID')]
            \/ /\ nodes[i].checked
               /\ selectedFileID' = Without(selectedFileID, i)
               /\ nodes' = [nodes EXCEPT ![i] = Unchecked(nodes[i])]
               /\ links' = [NoLinks EXCEPT !.zip = links.zip]
    /\ UNCHANGED <<page, disk, listVars, held, panelVars, requests, uploads>>

\* addSelectedFile: a checkbox adds to the selection or takes from it, and the
\* links but that for an archive of all selected go.
AddSelectedFile ==
    /\ ~isControlPanelOpen
    /\ \E i \in DOMAIN nodes :
         /\ nodes[i].box
         /\ details' = NoInfo
         /\ \/ /\ ~nodes[i].checked
               /\ selectedFileID' = Append(selectedFileID, i)
               /\ nodes' = [nodes EXCEPT ![i].checked = TRUE]
            \/ /\ nodes[i].checked
               /\ selectedFileID' = Without(selectedFileID, i)
               /\ nodes' = [nodes EXCEPT ![i] = Unchecked(nodes[i])]
         /\ links' = [NoLinks EXCEPT !.zip = InfosOf(selectedFileID')]
    /\ UNCHANGED <<page, disk, listVars, held, panelVars, requests, uploads>>

-----------------------------------------------------------------------------
(* The control panel, which covers the list while it is open *)

OpenControlPanel ==
    /\ ~isControlPanelOpen
    /\ isControlPanelOpen' = TRUE
    /\ UNCHANGED <<page, disk, listVars, selectionVars, held, descending,
                   showCheckbox, requests, uploads>>

\* setSortMethod and setShowCheckbox.
SetSortMethod ==
    /\ isControlPanelOpen
    /\ descending' = ~descending
    /\ UNCHANGED <<page, disk, listVars, selectionVars, held, isControlPanelOpen,
                   showCheckbox, requests, uploads>>

SetShowCheckbox ==
    /\ isControlPanelOpen
    /\ showCheckbox' = ~showCheckbox
    /\ details' = NoInfo
    /\ UNCHANGED <<page, disk, listVars, selectedFileID, nodes, links, held,
                   isControlPanelOpen, descending, requests, uploads>>

\* Slip: the selection survives the new order of the entries.
CloseControlPanel_KeepsSelection ==
    /\ isControlPanelOpen
    /\ isControlPanelOpen' = FALSE
    /\ fileInfos' = Sorted(ToSet(fileInfos))
    /\ nodes' = Rendered(Sorted(ToSet(fileInfos)))
    /\ links' = NoLinks
    /\ UNCHANGED <<page, disk, currentPath, selectedFileID, details, held,
                   descending, showCheckbox, requests, uploads>>

\* Closing it sorts and renders the list anew and drops the selection.
CloseControlPanel ==
    /\ isControlPanelOpen
    /\ isControlPanelOpen' = FALSE
    /\ fileInfos' = Sorted(ToSet(fileInfos))
    /\ nodes' = Rendered(Sorted(ToSet(fileInfos)))
    /\ selectedFileID' = <<>>
    /\ links' = NoLinks
    /\ UNCHANGED <<page, disk, currentPath, details, held, descending,
                   showCheckbox, requests, uploads>>

-----------------------------------------------------------------------------
(* Uploads *)

\* dir, name and confirmed are fileInfo of the code.  History: shownIn is the
\* directory that was shown when the file was chosen, asked whether the user
\* has agreed to overwrite, overwrote whether a file was replaced.
NewUpload(name) ==
    [dir |-> currentPath, name |-> name, confirmed |-> FALSE, step |-> "checking",
     answer |-> "none", shownIn |-> currentPath, asked |-> FALSE, overwrote |-> FALSE]

\* uploadFile.  Several files chosen at once are as many uploads in a row.  The
\* user is told that the upload is complete as soon as the check is requested.
UploadFile ==
    /\ ~isControlPanelOpen
    /\ currentPath \notin {Root, NoPath}
    /\ Len(uploads) < MaxUploads
    /\ \E name \in Names : uploads' = Append(uploads, NewUpload(name))
    /\ UNCHANGED <<page, disk, listVars, selectionVars, held, panelVars, requests>>

\* The answer to checkFileExists says anything: the path asked about lacks the
\* separator between directory and name and is that of another file.  If it
\* exists, the user is asked.
CheckAnswered(u) ==
    /\ uploads[u].step = "checking"
    /\ \/ uploads' = [uploads EXCEPT ![u].step = "sending"]
       \/ uploads' = [uploads EXCEPT ![u].step = "sending", ![u].confirmed = TRUE,
                                     ![u].asked = TRUE]
       \/ uploads' = [uploads EXCEPT ![u].step = "over"]
    /\ UNCHANGED <<page, disk, listVars, selectionVars, held, panelVars, requests>>

Exists(u) == uploads[u].name \in disk[uploads[u].dir]

\* The server's part of /service/file/upload, as the page takes its answers: a
\* file that exists is replaced only if the request says confirmed.
ServerStores(u) ==
    /\ uploads[u].step \in {"sending", "resending"} /\ uploads[u].answer = "none"
    /\ uploads[u].dir \in Folders
    /\ \/ /\ Exists(u) /\ ~uploads[u].confirmed
          /\ uploads' = [uploads EXCEPT ![u].answer = "exists"]
          /\ UNCHANGED disk
       \/ /\ Exists(u) => uploads[u].confirmed
          /\ uploads' = [uploads EXCEPT ![u].answer = "stored", ![u].overwrote = Exists(u)]
          /\ disk' = [disk EXCEPT ![uploads[u].dir] = @ \cup {uploads[u].name}]
    /\ UNCHANGED <<page, listVars, selectionVars, held, panelVars, requests>>

\* Slip: the second request takes the directory that is shown by then.
SendAnswered_Shown(u) ==
    /\ uploads[u].step = "sending" /\ uploads[u].answer # "none"
    /\ \/ /\ uploads[u].answer = "exists"
          /\ uploads' = [uploads EXCEPT ![u].step = "resending", ![u].confirmed = TRUE,
                                        ![u].asked = TRUE, ![u].answer = "none",
                                        ![u].dir = currentPath]
       \/ uploads' = [uploads EXCEPT ![u].step = "over"]
    /\ GetFileInfos(currentPath)
    /\ UNCHANGED <<page, disk, listVars, selectionVars, held, panelVars>>

\* The answer to the upload: a file that exists is sent again if the user
\* agrees.  Either way the directory shown by now is asked for.
SendAnswered(u) ==
    /\ uploads[u].step = "sending" /\ uploads[u].answer # "none"
    /\ \/ /\ uploads[u].answer = "exists"
          /\ uploads' = [uploads EXCEPT ![u].step = "resending", ![u].confirmed = TRUE,
                                        ![u].asked = TRUE, ![u].answer = "none"]
       \/ uploads' = [uploads EXCEPT ![u].step = "over"]
    /\ GetFileInfos(currentPath)
    /\ UNCHANGED <<page, disk, listVars, selectionVars, held, panelVars>>

ResendAnswered(u) ==
    /\ uploads[u].step = "resending" /\ uploads[u].answer = "stored"
    /\ uploads' = [uploads EXCEPT ![u].step = "over"]
    /\ GetFileInfos(currentPath)
    /\ UNCHANGED <<page, disk, listVars, selectionVars, held, panelVars>>

\* Any request of an upload may fail, also after the server has acted.
UploadFails(u) ==
    /\ uploads[u].step # "over"
    /\ uploads' = [uploads EXCEPT ![u].step = "over"]
    /\ UNCHANGED <<page, disk, listVars, selectionVars, held, panelVars, requests>>

-----------------------------------------------------------------------------

User ==
    \/ GoToPath \/ DoubleClick \/ Touch \/ TouchEnd \/ TouchTimer
    \/ ClickFileListNode \/ AddSelectedFile
    \/ OpenControlPanel \/ SetSortMethod \/ SetShowCheckbox \/ CloseControlPanel
    \/ UploadFile

Answers ==
    \/ \E k \in DOMAIN requests : HandleRequest(k) \/ ShowAnswer(k) \/ RequestFails(k)
    \/ \E u \in DOMAIN uploads :
         \/ CheckAnswered(u) \/ ServerStores(u) \/ SendAnswered(u)
         \/ ResendAnswered(u) \/ UploadFails(u)

\* Once the page has left for the login nothing of it runs any more.
Next == page = "files" /\ (User \/ Answers)

Spec == Init /\ [][Next]_vars

-----------------------------------------------------------------------------
(* Properties *)

Upload ==
    [dir : Paths, name : Names, confirmed : BOOLEAN,
     step : {"checking", "sending", "resending", "over"},
     answer : {"none", "exists", "stored"}, shownIn : Paths, asked : BOOLEAN,
     overwrote : BOOLEAN]

TypeOK ==
    /\ page \in {"files", "login"}
    /\ disk \in [Folders -> SUBSET Names]
    /\ currentPath \in Paths \cup {NoPath}
    /\ fileInfos \in Seq(Infos)
    /\ selectedFileID \in Seq(DOMAIN fileInfos)
    /\ nodes \in Seq([info : Infos, selected : BOOLEAN, box : BOOLEAN, checked : BOOLEAN])
    /\ details \in Infos \cup {NoInfo}
    /\ links \in [download : Infos \cup {NoInfo}, batch : Infos \cup {NoInfo}, zip : Seq(Infos)]
    /\ held \in Nat
    /\ {isControlPanelOpen, descending, showCheckbox} \subseteq BOOLEAN
    /\ requests \in Seq([path : Paths, handled : BOOLEAN, list : SUBSET Infos])
    /\ uploads \in Seq(Upload)

\* The list on the screen, the entries an index is looked up in and the path
\* that uploads and refreshes go to are of one directory, in whatever order
\* the requests for several are answered.  (The types are checked along with it.)
ListIsOfCurrentPath ==
    /\ TypeOK
    /\ Len(nodes) = Len(fileInfos)
    /\ \A i \in DOMAIN fileInfos :
         nodes[i].info = fileInfos[i] /\ fileInfos[i].in = currentPath

\* An entry is selected once, and only one whose checkbox is ticked, if it has
\* one: new answers, new orders and the panel in between leave no selection
\* behind that the list does not show.
SelectionShown ==
    /\ IsInjective(selectedFileID)
    /\ \A i \in ToSet(selectedFileID) : nodes[i].box => nodes[i].checked

\* While something is selected, the archive the page offers holds exactly the
\* entries selected, and the link for a single file and the information shown
\* are about the one selected.
LinksMatchSelection ==
    selectedFileID # <<>> =>
        /\ links.zip = InfosOf(selectedFileID)
        /\ links.download # NoInfo => InfosOf(selectedFileID) = <<links.download>>
        /\ details # NoInfo => details = fileInfos[selectedFileID[1]]

\* A file appears only in the directory that was shown when it was chosen,
\* wherever the user has gone meanwhile, and none is replaced unless the user has
\* agreed to overwrite.
FilesLandWhereChosen ==
    /\ \A f \in Folders : \A n \in disk[f] :
         n \in Files[f] \/ \E u \in DOMAIN uploads : uploads[u].shownIn = f /\ uploads[u].name = n
    /\ \A u \in DOMAIN uploads : uploads[u].overwrote => uploads[u].asked
=============================================================================
