-------------------------- MODULE FilePanelProofs ---------------------------
(***************************************************************************)
(* Safety of the file page for any directories and files, any number of    *)
(* requests in flight and of uploads.                                      *)
(***************************************************************************)
EXTENDS FilePanel, SequenceLemmas

-----------------------------------------------------------------------------
(* The order of the list *)

TakenFrom(q, S, g, n) ==
    IF n = 0 THEN <<>>
    ELSE IF \E info \in S : info.name = q[n]
           THEN Append(g[n - 1], CHOOSE info \in S : info.name = q[n])
           ELSE g[n - 1]

\* The recursive function of InOrderOf exists, up to any length.
LEMMA TakenExists ==
    ASSUME NEW q, NEW S, NEW m \in Nat
    PROVE  \E g : g = [n \in 0 .. m |-> TakenFrom(q, S, g, n)]
<1> DEFINE Has == {k \in Nat : \E g : g = [n \in 0 .. k |-> TakenFrom(q, S, g, n)]}
<1>1. 0 \in Has
  <2> DEFINE g == [n \in 0 .. 0 |-> <<>>]
  <2>1. g = [n \in 0 .. 0 |-> TakenFrom(q, S, g, n)]
    BY DEF TakenFrom
  <2> QED
    BY <2>1
<1>2. ASSUME NEW k \in Nat, k \in Has
      PROVE  k + 1 \in Has
  <2>1. PICK g : g = [n \in 0 .. k |-> TakenFrom(q, S, g, n)]
    BY <1>2
  <2> DEFINE h == [n \in 0 .. k + 1 |-> IF n = k + 1 THEN TakenFrom(q, S, g, n) ELSE g[n]]
  <2>2. \A n \in 0 .. k + 1 : TakenFrom(q, S, h, n) = TakenFrom(q, S, g, n)
    BY DEF TakenFrom
  <2>3. \A n \in 0 .. k + 1 : h[n] = TakenFrom(q, S, h, n)
    <3> TAKE n \in 0 .. k + 1
    <3>1. CASE n = k + 1
      BY <2>2, <3>1
    <3>2. CASE n # k + 1
      <4>1. n \in 0 .. k
        BY <3>2
      <4>2. g[n] = TakenFrom(q, S, g, n)
        BY <2>1, <4>1
      <4> QED
        BY <2>2, <3>2, <4>2
    <3> QED
      BY <3>1, <3>2
  <2>4. h = [n \in 0 .. k + 1 |-> TakenFrom(q, S, h, n)]
    BY <2>3
  <2> HIDE DEF h
  <2> QED
    BY <2>4
<1> HIDE DEF Has
<1>3. m \in Has
  BY <1>1, <1>2, SetInduction
<1> QED
  BY <1>3 DEF Has

\* What is put in order are the entries themselves.
LEMMA InOrderOfType ==
    ASSUME NEW X, NEW q \in Seq(X), NEW S
    PROVE  InOrderOf(q, S) \in Seq(S)
<1> DEFINE t == CHOOSE g : g = [n \in 0 .. Len(q) |-> TakenFrom(q, S, g, n)]
<1>1. Len(q) \in Nat
  BY LenProperties
<1>2. InOrderOf(q, S) = t[Len(q)]
  BY DEF InOrderOf, TakenFrom
<1>3. t = [n \in 0 .. Len(q) |-> TakenFrom(q, S, t, n)]
  BY <1>1, TakenExists
<1> HIDE DEF t
<1> DEFINE Good == {n \in Nat : n <= Len(q) => t[n] \in Seq(S)}
<1>4. 0 \in Good
  <2>1. t[0] = <<>>
    BY <1>1, <1>3 DEF TakenFrom
  <2> QED
    BY <2>1, EmptySeq
<1>5. ASSUME NEW n \in Nat, n \in Good
      PROVE  n + 1 \in Good
  <2> SUFFICES ASSUME n + 1 <= Len(q) PROVE t[n + 1] \in Seq(S)
    OBVIOUS
  <2>1. t[n] \in Seq(S)
    BY <1>1, <1>5
  <2>2. t[n + 1] = TakenFrom(q, S, t, n + 1)
    BY <1>1, <1>3
  <2>3. t[n + 1] = IF \E info \in S : info.name = q[n + 1]
                     THEN Append(t[n], CHOOSE info \in S : info.name = q[n + 1])
                     ELSE t[n]
    BY <2>2 DEF TakenFrom
  <2>4. CASE \E info \in S : info.name = q[n + 1]
    <3>1. (CHOOSE info \in S : info.name = q[n + 1]) \in S
      BY <2>4
    <3> QED
      BY <2>1, <2>3, <2>4, <3>1, AppendProperties
  <2> QED
    BY <2>1, <2>3, <2>4
<1> HIDE DEF Good
<1>6. Len(q) \in Good
  BY <1>1, <1>4, <1>5, SetInduction
<1> QED
  BY <1>1, <1>2, <1>6 DEF Good

LEMMA SortedType ==
    ASSUME NEW S
    PROVE  Sorted(S) \in Seq(S)
<1>1. Order \in Seq(Folders \cup Names)
  BY PanelAssumption
<1>2. Reverse(Order) \in Seq(Folders \cup Names)
  <2>1. Len(Order) \in Nat /\ \A i \in 1 .. Len(Order) : Order[i] \in Folders \cup Names
    BY <1>1, LenProperties, ElementOfSeq
  <2>2. \A i \in 1 .. Len(Order) : Len(Order) - i + 1 \in 1 .. Len(Order)
    BY <2>1
  <2>3. Reverse(Order) \in [1 .. Len(Order) -> Folders \cup Names]
    BY <2>1, <2>2 DEF Reverse
  <2> QED
    BY <2>1, <2>3
<1> QED
  BY <1>1, <1>2, InOrderOfType DEF Sorted

-----------------------------------------------------------------------------
(* The invariant *)

Node == [info : Infos, selected : BOOLEAN, box : BOOLEAN, checked : BOOLEAN]
Asked == [path : Paths, handled : BOOLEAN, list : SUBSET Infos]
Links == [download : Infos \cup {NoInfo}, batch : Infos \cup {NoInfo}, zip : Seq(Infos)]

\* The elements of the list are the entries, all of the path.
ListInv ==
    /\ currentPath \in Paths \cup {NoPath}
    /\ fileInfos \in Seq(Infos)
    /\ nodes \in Seq(Node)
    /\ Len(nodes) = Len(fileInfos)
    /\ \A i \in 1 .. Len(fileInfos) :
         nodes[i].info = fileInfos[i] /\ fileInfos[i].in = currentPath

SelectionInv ==
    /\ selectedFileID \in Seq(DOMAIN fileInfos)
    /\ details \in Infos \cup {NoInfo}
    /\ links \in Links
    /\ SelectionShown
    /\ LinksMatchSelection

\* What is listed for a path is in it.
RequestsInv ==
    /\ requests \in Seq(Asked)
    /\ \A k \in DOMAIN requests : \A info \in requests[k].list : info.in = requests[k].path

\* What an upload is told to do, it was told by the user: the directory is the
\* one shown then.
UploadsInv ==
    /\ disk \in [Folders -> SUBSET Names]
    /\ uploads \in Seq(Upload)
    /\ uploads # <<>> => currentPath # NoPath
    /\ \A u \in DOMAIN uploads :
         /\ uploads[u].dir = uploads[u].shownIn
         /\ uploads[u].confirmed => uploads[u].asked
    /\ FilesLandWhereChosen

OptionsInv ==
    /\ page \in {"files", "login"}
    /\ held \in Nat
    /\ isControlPanelOpen \in BOOLEAN /\ descending \in BOOLEAN /\ showCheckbox \in BOOLEAN

\* The inductive invariant.
IInv ==
    /\ ListInv
    /\ SelectionInv
    /\ RequestsInv
    /\ UploadsInv
    /\ OptionsInv

\* An entry taken out of the selection.
LEMMA WithoutOne ==
    ASSUME NEW S, NEW q \in Seq(S), NEW e
    PROVE  \/ e \notin ToSet(q) /\ Without(q, e) = q
           \/ \E k \in DOMAIN q : q[k] = e /\ Without(q, e) = RemoveAt(q, k)
<1> DEFINE I == {i \in 1 .. Len(q) : q[i] = e}
<1>1. Len(q) \in Nat /\ DOMAIN q = 1 .. Len(q)
  BY LenProperties
<1>2. SelectInSeq(q, LAMBDA v : v = e) = IF I # {} THEN Min(I) ELSE 0
  BY DEF SelectInSeq
<1>3. CASE I = {}
  <2>1. e \notin ToSet(q)
    BY <1>1, <1>3 DEF ToSet
  <2>2. Without(q, e) = q
    BY <1>3 DEF Without, RemoveFirst
  <2> QED
    BY <2>1, <2>2
<1>4. CASE I # {}
  <2>1. \E m \in I : \A n \in I : m <= n
    <3>1. I \subseteq Nat
      BY <1>1
    <3> HIDE DEF I
    <3> QED
      BY <1>4, <3>1, LeastNatural
  <2>2. Min(I) \in I
    BY <2>1 DEF Min
  <2>3. Without(q, e) = RemoveAt(q, Min(I))
    BY <1>2, <1>4 DEF Without, RemoveFirst
  <2> QED
    BY <1>1, <2>2, <2>3
<1> QED
  BY <1>3, <1>4

LEMMA ListTypes ==
    ASSUME ListInv, SelectionInv
    PROVE  /\ Len(fileInfos) \in Nat
           /\ DOMAIN fileInfos = 1 .. Len(fileInfos) /\ DOMAIN nodes = 1 .. Len(fileInfos)
           /\ \A i \in 1 .. Len(fileInfos) : fileInfos[i] \in Infos /\ nodes[i] \in Node
           /\ DOMAIN selectedFileID = 1 .. Len(selectedFileID) /\ Len(selectedFileID) \in Nat
           /\ \A k \in DOMAIN selectedFileID : selectedFileID[k] \in 1 .. Len(fileInfos)
<1>1. /\ Len(fileInfos) \in Nat /\ DOMAIN fileInfos = 1 .. Len(fileInfos)
      /\ DOMAIN nodes = 1 .. Len(fileInfos)
      /\ DOMAIN selectedFileID = 1 .. Len(selectedFileID) /\ Len(selectedFileID) \in Nat
  BY LenProperties DEF ListInv, SelectionInv
<1>2. \A i \in 1 .. Len(fileInfos) : fileInfos[i] \in Infos /\ nodes[i] \in Node
  BY ElementOfSeq DEF ListInv
<1>3. \A k \in DOMAIN selectedFileID : selectedFileID[k] \in DOMAIN fileInfos
  BY <1>1, ElementOfSeq DEF SelectionInv
<1> QED
  BY <1>1, <1>2, <1>3

\* Parts of the invariant that a step leaves alone.
LEMMA ListFrame ==
    ASSUME ListInv, UNCHANGED <<currentPath, fileInfos, nodes>>
    PROVE  ListInv'
BY DEF ListInv

LEMMA SelectionFrame ==
    ASSUME SelectionInv, UNCHANGED <<fileInfos, selectedFileID, nodes, details, links>>
    PROVE  SelectionInv'
BY DEF SelectionInv, SelectionShown, LinksMatchSelection, InfosOf

LEMMA RequestsFrame ==
    ASSUME RequestsInv, UNCHANGED requests
    PROVE  RequestsInv'
BY DEF RequestsInv

LEMMA UploadsFrame ==
    ASSUME UploadsInv, UNCHANGED <<disk, uploads>>, currentPath' = currentPath \/ currentPath' # NoPath
    PROVE  UploadsInv'
BY DEF UploadsInv, FilesLandWhereChosen

LEMMA OptionsFrame ==
    ASSUME OptionsInv, UNCHANGED <<page, held, isControlPanelOpen, descending, showCheckbox>>
    PROVE  OptionsInv'
BY DEF OptionsInv

\* Nothing selected is always right.
LEMMA NothingSelected ==
    ASSUME SelectionInv, selectedFileID' = <<>>,
           details' \in {details, NoInfo}, links' \in {links, NoLinks}
    PROVE  SelectionInv'
<1>1. selectedFileID' \in Seq(DOMAIN fileInfos') /\ DOMAIN selectedFileID' = {}
  BY EmptySeq
<1>2. NoLinks \in Links
  BY EmptySeq DEF NoLinks, Links
<1>3. SelectionShown'
  BY <1>1 DEF SelectionShown, IsInjective, ToSet
<1> QED
  BY <1>1, <1>2, <1>3 DEF SelectionInv, LinksMatchSelection

\* showFileList makes an element for every entry, of one directory.
LEMMA ListShown ==
    ASSUME OptionsInv, NEW path \in Paths \cup {NoPath}, NEW S \in SUBSET Infos,
           \A info \in S : info.in = path,
           fileInfos' = Sorted(S), nodes' = Rendered(Sorted(S)), currentPath' = path
    PROVE  ListInv'
<1> DEFINE q == Sorted(S)
           r == Rendered(q)
<1>1. q \in Seq(S)
  BY SortedType
<1>2. Len(q) \in Nat /\ DOMAIN q = 1 .. Len(q) /\ \A i \in 1 .. Len(q) : q[i] \in S
  BY <1>1, LenProperties, ElementOfSeq
<1>3. q \in Seq(Infos)
  BY <1>1, SeqMonotonic
<1> HIDE DEF q
<1>4. r = [i \in 1 .. Len(q) |-> [info |-> q[i], selected |-> FALSE,
                                  box |-> showCheckbox, checked |-> FALSE]]
  BY <1>2 DEF Rendered
<1>5. r \in [1 .. Len(q) -> Node]
  BY <1>2, <1>4 DEF OptionsInv, Node
<1>6. r \in Seq(Node) /\ Len(r) = Len(q)
  BY <1>2, <1>5
<1>7. \A i \in 1 .. Len(q) : r[i].info = q[i] /\ q[i].in = path
  BY <1>2, <1>4
<1> HIDE DEF r
<1>8. fileInfos' = q /\ nodes' = r
  BY DEF q, r
<1> QED
  BY <1>3, <1>6, <1>7, <1>8 DEF ListInv

\* A request more.
LEMMA Requested ==
    ASSUME RequestsInv, NEW path \in Paths, GetFileInfos(path)
    PROVE  RequestsInv'
<1> DEFINE r == [path |-> path, handled |-> FALSE, list |-> {}]
<1>1. r \in Asked /\ r.list = {}
  BY DEF Asked
<1>2. requests \in Seq(Asked) /\ Len(requests) \in Nat /\ DOMAIN requests = 1 .. Len(requests)
  BY LenProperties DEF RequestsInv
<1>3. requests' = Append(requests, r)
  BY DEF GetFileInfos
<1> HIDE DEF r
<1>4. /\ requests' \in Seq(Asked) /\ Len(requests') = Len(requests) + 1
      /\ requests'[Len(requests) + 1] = r
      /\ \A i \in 1 .. Len(requests) : requests'[i] = requests[i]
  BY <1>1, <1>2, <1>3, AppendProperties
<1>5. DOMAIN requests' = 1 .. Len(requests) + 1
  BY <1>4, LenProperties
<1>6. ASSUME NEW k \in DOMAIN requests', NEW info \in requests'[k].list
      PROVE  info.in = requests'[k].path
  <2>1. k # Len(requests) + 1
    BY <1>1, <1>4, <1>6
  <2>2. k \in DOMAIN requests /\ requests'[k] = requests[k]
    BY <1>2, <1>4, <1>5, <2>1
  <2> QED
    BY <1>6, <2>2 DEF RequestsInv
<1> QED
  BY <1>4, <1>6 DEF RequestsInv

LEMMA RequestRemoved ==
    ASSUME RequestsInv, NEW k \in DOMAIN requests, requests' = RemoveAt(requests, k)
    PROVE  RequestsInv'
<1>1. requests \in Seq(Asked) /\ Len(requests) \in Nat /\ DOMAIN requests = 1 .. Len(requests)
  BY LenProperties DEF RequestsInv
<1>2. /\ requests' \in Seq(Asked) /\ DOMAIN requests' = 1 .. Len(requests) - 1
      /\ \A j \in 1 .. Len(requests) - 1 :
           requests'[j] = IF j < k THEN requests[j] ELSE requests[j + 1]
  BY <1>1, ElementRemoved
<1>3. ASSUME NEW j \in DOMAIN requests'
      PROVE  \E i \in DOMAIN requests : requests'[j] = requests[i]
  <2>1. j \in DOMAIN requests /\ j + 1 \in DOMAIN requests
    BY <1>1, <1>2
  <2> QED
    BY <1>2, <2>1
<1> QED
  BY <1>2, <1>3 DEF RequestsInv

-----------------------------------------------------------------------------
(* Steps of the directories *)

LEMMA HandleRequestIInv ==
    ASSUME IInv, NEW k \in DOMAIN requests, HandleRequest(k)
    PROVE  IInv'
<1>1. requests \in Seq(Asked) /\ DOMAIN requests = 1 .. Len(requests) /\ requests[k] \in Asked
  <2>1. requests \in Seq(Asked) /\ DOMAIN requests = 1 .. Len(requests)
    BY LenProperties DEF IInv, RequestsInv
  <2> QED
    BY <2>1, ElementOfSeq
<1> DEFINE e == [requests[k] EXCEPT !.handled = TRUE, !.list = Listing(requests[k].path)]
<1>2. \A info \in Listing(requests[k].path) : info \in Infos /\ info.in = requests[k].path
  <2>1. requests[k].path \in Paths
    BY <1>1 DEF Asked
  <2>2. requests[k].path \in Folders => disk[requests[k].path] \subseteq Names
    BY DEF IInv, UploadsInv
  <2> QED
    BY <2>1, <2>2 DEF Listing, Infos
<1>3. e \in Asked /\ e.path = requests[k].path /\ e.list = Listing(requests[k].path)
  BY <1>1, <1>2 DEF Asked
<1>4. requests' = SetElement(requests, k, e)
  <2>1. requests \in [1 .. Len(requests) -> Asked]
    BY <1>1, LenProperties
  <2> QED
    BY <1>1, <2>1 DEF HandleRequest, SetElement
<1> HIDE DEF e
<1>5. /\ requests' \in Seq(Asked) /\ DOMAIN requests' = DOMAIN requests
      /\ \A j \in DOMAIN requests : requests'[j] = IF j = k THEN e ELSE requests[j]
  <2>1. requests \in Seq(Asked) /\ k \in DOMAIN requests /\ e \in Asked
    BY <1>1, <1>3
  <2>2. /\ SetElement(requests, k, e) \in Seq(Asked)
        /\ DOMAIN SetElement(requests, k, e) = DOMAIN requests
        /\ \A j \in DOMAIN requests :
             SetElement(requests, k, e)[j] = IF j = k THEN e ELSE requests[j]
    BY ONLY <2>1, ElementSet, SMTT(20)
  <2> QED
    BY <1>4, <2>2
<1>6. RequestsInv'
  BY <1>2, <1>3, <1>5 DEF IInv, RequestsInv
<1> QED
  BY <1>6, ListFrame, SelectionFrame, UploadsFrame, OptionsFrame
     DEF IInv, HandleRequest, listVars, selectionVars, panelVars

LEMMA ShowAnswerIInv ==
    ASSUME IInv, NEW k \in DOMAIN requests, ShowAnswer(k)
    PROVE  IInv'
<1>1. requests[k] \in Asked
  BY LenProperties, ElementOfSeq DEF IInv, RequestsInv
<1>2. /\ requests[k].path \in Paths /\ requests[k].list \in SUBSET Infos
      /\ \A info \in requests[k].list : info.in = requests[k].path
  BY <1>1 DEF Asked, IInv, RequestsInv
<1>3. /\ fileInfos' = Sorted(requests[k].list) /\ nodes' = Rendered(Sorted(requests[k].list))
      /\ currentPath' = requests[k].path
      /\ selectedFileID' = <<>> /\ details' = NoInfo /\ links' = links
      /\ requests' = RemoveAt(requests, k)
      /\ UNCHANGED <<page, disk, held, isControlPanelOpen, descending, showCheckbox, uploads>>
  BY DEF ShowAnswer, panelVars
<1>4. ListInv'
  BY <1>2, <1>3, ListShown DEF IInv
<1>5. SelectionInv'
  BY <1>3, NothingSelected DEF IInv
<1>6. UploadsInv'
  <2>1. currentPath' # NoPath
    BY <1>2, <1>3, PanelAssumption DEF Paths
  <2> QED
    BY <1>3, <2>1, UploadsFrame DEF IInv
<1> QED
  BY <1>3, <1>4, <1>5, <1>6, RequestRemoved, OptionsFrame DEF IInv

LEMMA RequestFailsIInv ==
    ASSUME IInv, NEW k \in DOMAIN requests, RequestFails(k)
    PROVE  IInv'
<1>1. /\ page' = "login" /\ requests' = RemoveAt(requests, k)
      /\ UNCHANGED <<disk, listVars, selectionVars, held, panelVars, uploads>>
  BY DEF RequestFails
<1>2. OptionsInv'
  BY <1>1 DEF IInv, OptionsInv, panelVars
<1> QED
  BY <1>1, <1>2, RequestRemoved, ListFrame, SelectionFrame, UploadsFrame
     DEF IInv, listVars, selectionVars

LEMMA GoToPathIInv ==
    ASSUME IInv, GoToPath
    PROVE  IInv'
<1>1. RequestsInv'
  BY Requested DEF IInv, GoToPath
<1> QED
  BY <1>1, ListFrame, SelectionFrame, UploadsFrame, OptionsFrame
     DEF IInv, GoToPath, listVars, selectionVars, panelVars

\* A directory opened asks for it and drops the selection.
LEMMA DirectoryShown ==
    ASSUME IInv, NEW i, ShowFilesInDirectory(i),
           UNCHANGED <<nodes, details, links, fileInfos>>
    PROVE  RequestsInv' /\ SelectionInv'
<1>1. CASE i \in DOMAIN fileInfos /\ IsDirectory(fileInfos[i])
  <2>1. fileInfos[i].name \in Paths
    BY <1>1 DEF IsDirectory, Paths
  <2> QED
    BY <1>1, <2>1, Requested, NothingSelected DEF IInv, ShowFilesInDirectory
<1>2. CASE ~(i \in DOMAIN fileInfos /\ IsDirectory(fileInfos[i]))
  BY <1>2, RequestsFrame, SelectionFrame DEF IInv, ShowFilesInDirectory
<1> QED
  BY <1>1, <1>2

LEMMA DoubleClickIInv ==
    ASSUME IInv, DoubleClick
    PROVE  IInv'
BY DirectoryShown, ListFrame, UploadsFrame, OptionsFrame
   DEF IInv, DoubleClick, listVars, panelVars

LEMMA TouchIInv ==
    ASSUME IInv, Touch \/ TouchEnd \/ TouchTimer
    PROVE  IInv'
<1>1. /\ UNCHANGED <<page, disk, currentPath, fileInfos, nodes, details, links,
                     isControlPanelOpen, descending, showCheckbox, uploads>>
      /\ held' \in DOMAIN nodes \cup {0}
  BY DEF Touch, TouchEnd, TouchTimer, listVars, selectionVars, panelVars
<1>2. held' \in Nat
  BY <1>1, ListTypes DEF IInv
<1>3. OptionsInv'
  BY <1>1, <1>2 DEF IInv, OptionsInv
<1>4. RequestsInv' /\ SelectionInv'
  <2>1. CASE TouchTimer
    BY <1>1, <2>1, DirectoryShown DEF TouchTimer
  <2>2. CASE Touch \/ TouchEnd
    BY <1>1, <2>2, RequestsFrame, SelectionFrame DEF IInv, Touch, TouchEnd, selectionVars
  <2> QED
    BY <2>1, <2>2
<1> QED
  BY <1>1, <1>3, <1>4, ListFrame, UploadsFrame DEF IInv

-----------------------------------------------------------------------------
(* Steps of the selection *)

\* An element marked or unmarked is still that of its entry.
LEMMA ElementMarked ==
    ASSUME ListInv, SelectionInv, NEW q \in Seq(Node), NEW i \in DOMAIN nodes, NEW e \in Node,
           Len(q) = Len(fileInfos),
           \A j \in 1 .. Len(fileInfos) : q[j].info = nodes[j].info,
           e.info = nodes[i].info,
           nodes' = SetElement(q, i, e),
           UNCHANGED <<currentPath, fileInfos>>
    PROVE  /\ ListInv'
           /\ \A j \in DOMAIN nodes : nodes'[j] = IF j = i THEN e ELSE q[j]
<1>1. /\ Len(fileInfos) \in Nat /\ DOMAIN nodes = 1 .. Len(fileInfos)
      /\ DOMAIN q = 1 .. Len(fileInfos) /\ i \in DOMAIN q
  BY ListTypes, LenProperties
<1>2. /\ SetElement(q, i, e) \in Seq(Node)
      /\ Len(SetElement(q, i, e)) = Len(q)
      /\ \A j \in DOMAIN q : SetElement(q, i, e)[j] = IF j = i THEN e ELSE q[j]
  <2>1. q \in Seq(Node) /\ i \in DOMAIN q /\ e \in Node
    BY <1>1
  <2> QED
    BY ONLY <2>1, ElementSet, SMTT(20)
<1>3. \A j \in 1 .. Len(fileInfos) : nodes'[j].info = nodes[j].info
  BY <1>1, <1>2
<1>4. nodes' \in Seq(Node) /\ Len(nodes') = Len(fileInfos)
  BY <1>2
<1>5. ListInv'
  BY <1>3, <1>4 DEF ListInv
<1> QED
  BY <1>1, <1>2, <1>5

\* What a click clears stays the element of its entry, with its checkbox.
LEMMA ClearedType ==
    ASSUME ListInv, SelectionInv
    PROVE  /\ Cleared \in Seq(Node) /\ Len(Cleared) = Len(fileInfos)
           /\ \A j \in 1 .. Len(fileInfos) :
                Cleared[j] \in Node /\ Cleared[j].info = nodes[j].info /\ Cleared[j].box = nodes[j].box
<1>1. /\ Len(fileInfos) \in Nat /\ DOMAIN nodes = 1 .. Len(fileInfos)
      /\ \A j \in 1 .. Len(fileInfos) : nodes[j] \in Node
  BY ListTypes
<1>2. \A j \in 1 .. Len(fileInfos) :
        /\ Unchecked(nodes[j]) \in Node /\ Unchecked(nodes[j]).info = nodes[j].info
        /\ Unchecked(nodes[j]).box = nodes[j].box
  BY <1>1 DEF Unchecked, Node
<1>3. Cleared = [j \in 1 .. Len(fileInfos) |->
                   IF j \in ToSet(selectedFileID) THEN Unchecked(nodes[j]) ELSE nodes[j]]
  BY <1>1 DEF Cleared
<1>4. \A j \in 1 .. Len(fileInfos) :
        Cleared[j] \in Node /\ Cleared[j].info = nodes[j].info /\ Cleared[j].box = nodes[j].box
  BY <1>1, <1>2, <1>3
<1>5. Cleared \in [1 .. Len(fileInfos) -> Node]
  BY <1>1, <1>2, <1>3
<1> QED
  BY <1>1, <1>4, <1>5

LEMMA ClickFileListNodeIInv ==
    ASSUME IInv, ClickFileListNode
    PROVE  IInv'
<1>1. PICK i \in DOMAIN nodes :
         \/ /\ ~Cleared[i].selected
            /\ selectedFileID' = <<i>>
            /\ nodes' = [Cleared EXCEPT ![i].selected = TRUE, ![i].checked = nodes[i].box]
            /\ details' = ShowFileInfo(i)
            /\ links' = LinksTo(i)
         \/ /\ Cleared[i].selected
            /\ selectedFileID' = <<>>
            /\ nodes' = [Cleared EXCEPT ![i] = Unchecked(Cleared[i])]
            /\ details' = NoInfo
            /\ links' = NoLinks
  BY DEF ClickFileListNode
<1>2. UNCHANGED <<page, disk, currentPath, fileInfos, held, isControlPanelOpen, descending,
                  showCheckbox, requests, uploads>>
  BY DEF ClickFileListNode, listVars, panelVars
<1>3. /\ ListInv /\ SelectionInv /\ i \in 1 .. Len(fileInfos)
      /\ DOMAIN fileInfos = 1 .. Len(fileInfos)
      /\ fileInfos[i] \in Infos /\ nodes[i] \in Node
  BY ListTypes DEF IInv
<1>4. /\ Cleared \in Seq(Node) /\ Len(Cleared) = Len(fileInfos)
      /\ \A j \in 1 .. Len(fileInfos) : Cleared[j].info = nodes[j].info
      /\ Cleared[i] \in Node /\ Cleared[i].info = nodes[i].info /\ Cleared[i].box = nodes[i].box
  BY <1>3, ClearedType
<1>5. Cleared \in [1 .. Len(fileInfos) -> Node]
  BY <1>4, LenProperties
<1>6. ListInv' /\ SelectionInv'
  <2>1. CASE /\ selectedFileID' = <<i>>
             /\ nodes' = [Cleared EXCEPT ![i].selected = TRUE, ![i].checked = nodes[i].box]
             /\ details' = ShowFileInfo(i)
             /\ links' = LinksTo(i)
    <3> DEFINE e == [Cleared[i] EXCEPT !.selected = TRUE, !.checked = nodes[i].box]
    <3>1. /\ e \in Node /\ e.info = nodes[i].info
          /\ e.checked = nodes[i].box /\ e.box = nodes[i].box
      BY <1>3, <1>4 DEF Node
    <3>2. nodes' = SetElement(Cleared, i, e)
      BY <1>3, <1>5, <2>1 DEF SetElement
    <3> HIDE DEF e
    <3>3. ListInv' /\ nodes'[i] = e
      BY <1>2, <1>3, <1>4, <3>1, <3>2, ElementMarked
    <3>4. selectedFileID' \in Seq(DOMAIN fileInfos') /\ DOMAIN selectedFileID' = {1}
          /\ selectedFileID'[1] = i
      BY <1>2, <1>3, <2>1
    <3>5. SelectionShown'
      BY <3>1, <3>3, <3>4 DEF SelectionShown, IsInjective, ToSet
    <3>6. InfosOf(selectedFileID)' = <<fileInfos[i]>>
      BY <1>2, <2>1, <3>4 DEF InfosOf
    <3>7. LinksMatchSelection'
      BY <1>2, <2>1, <3>4, <3>6 DEF LinksMatchSelection, LinksTo, ShowFileInfo
    <3>8. links' \in Links
      BY <1>3, <2>1 DEF SelectionInv, LinksTo, Links
    <3>9. details' \in Infos \cup {NoInfo}
      BY <1>3, <2>1 DEF ShowFileInfo
    <3> QED
      BY <3>3, <3>4, <3>5, <3>7, <3>8, <3>9 DEF SelectionInv
  <2>2. CASE /\ selectedFileID' = <<>>
             /\ nodes' = [Cleared EXCEPT ![i] = Unchecked(Cleared[i])]
             /\ details' = NoInfo
             /\ links' = NoLinks
    <3>1. Unchecked(Cleared[i]) \in Node /\ Unchecked(Cleared[i]).info = nodes[i].info
      BY <1>4 DEF Unchecked, Node
    <3>2. nodes' = SetElement(Cleared, i, Unchecked(Cleared[i]))
      BY <2>2 DEF SetElement
    <3>3. ListInv'
      BY <1>2, <1>3, <1>4, <3>1, <3>2, ElementMarked
    <3> QED
      BY <1>3, <2>2, <3>3, NothingSelected
  <2> QED
    BY <1>1, <2>1, <2>2
<1> QED
  BY <1>2, <1>6, RequestsFrame, UploadsFrame, OptionsFrame DEF IInv

\* With only the archive offered, the links match whatever is selected.
LEMMA ArchiveOnly ==
    ASSUME ListInv, SelectionInv,
           selectedFileID' \in Seq(1 .. Len(fileInfos)), SelectionShown',
           details' = NoInfo, links' = [NoLinks EXCEPT !.zip = InfosOf(selectedFileID')],
           fileInfos' = fileInfos
    PROVE  SelectionInv'
<1>1. /\ DOMAIN fileInfos = 1 .. Len(fileInfos) /\ \A i \in 1 .. Len(fileInfos) : fileInfos[i] \in Infos
      /\ Len(selectedFileID') \in Nat /\ DOMAIN selectedFileID' = 1 .. Len(selectedFileID')
      /\ \A k \in 1 .. Len(selectedFileID') : selectedFileID'[k] \in 1 .. Len(fileInfos)
  BY ListTypes, LenProperties, ElementOfSeq
<1> DEFINE z == InfosOf(selectedFileID')
<1>2. z \in Seq(Infos)
  <2>1. z \in [1 .. Len(selectedFileID') -> Infos]
    BY <1>1 DEF InfosOf
  <2> QED
    BY <1>1, <2>1
<1>3. z = InfosOf(selectedFileID)'
  BY DEF InfosOf
<1> HIDE DEF z
<1>4. links' = [download |-> NoInfo, batch |-> NoInfo, zip |-> z]
  BY DEF NoLinks, z
<1>5. links' \in Links
  <2>1. NoInfo \in Infos \cup {NoInfo}
    OBVIOUS
  <2> QED
    BY ONLY <1>2, <1>4, <2>1 DEF Links
<1>6. LinksMatchSelection'
  BY <1>3, <1>4 DEF LinksMatchSelection
<1> QED
  BY <1>1, <1>5, <1>6 DEF SelectionInv

LEMMA WithoutInjective ==
    ASSUME NEW S, NEW q \in Seq(S), NEW e, IsInjective(q)
    PROVE  /\ Without(q, e) \in Seq(S)
           /\ IsInjective(Without(q, e))
           /\ ToSet(Without(q, e)) \subseteq ToSet(q) \ {e}
<1>1. CASE e \notin ToSet(q) /\ Without(q, e) = q
  BY <1>1
<1>2. CASE \E k \in DOMAIN q : q[k] = e /\ Without(q, e) = RemoveAt(q, k)
  <2>1. PICK k \in DOMAIN q : q[k] = e /\ Without(q, e) = RemoveAt(q, k)
    BY <1>2
  <2>2. Len(q) \in Nat /\ DOMAIN q = 1 .. Len(q)
    BY LenProperties
  <2> DEFINE r == RemoveAt(q, k)
  <2>3. /\ r \in Seq(S) /\ DOMAIN r = 1 .. Len(q) - 1
        /\ \A j \in 1 .. Len(q) - 1 : r[j] = IF j < k THEN q[j] ELSE q[j + 1]
    BY ElementRemoved
  <2> HIDE DEF r
  <2> DEFINE from(j) == IF j < k THEN j ELSE j + 1
  <2>4. \A j \in 1 .. Len(q) - 1 : from(j) \in DOMAIN q /\ from(j) # k /\ r[j] = q[from(j)]
    BY <2>2, <2>3
  <2>5. \A a, b \in 1 .. Len(q) - 1 : from(a) = from(b) => a = b
    BY <2>2
  <2> HIDE DEF from
  <2>6. \A a, b \in DOMAIN q : q[a] = q[b] => a = b
    BY DEF IsInjective
  <2>7. \A a, b \in DOMAIN r : r[a] = r[b] => a = b
    BY <2>3, <2>4, <2>5, <2>6
  <2>8. \A j \in DOMAIN r : r[j] \in ToSet(q) /\ r[j] # e
    BY <2>1, <2>3, <2>4, <2>6 DEF ToSet
  <2>9. IsInjective(r)
    BY <2>7 DEF IsInjective
  <2>10. ToSet(r) \subseteq ToSet(q) \ {e}
    BY <2>8 DEF ToSet
  <2> QED
    BY <2>1, <2>3, <2>9, <2>10 DEF r
<1> QED
  BY <1>1, <1>2, WithoutOne

LEMMA AddSelectedFileIInv ==
    ASSUME IInv, AddSelectedFile
    PROVE  IInv'
<1>1. PICK i \in DOMAIN nodes :
         /\ nodes[i].box
         /\ details' = NoInfo
         /\ \/ /\ ~nodes[i].checked
               /\ selectedFileID' = Append(selectedFileID, i)
               /\ nodes' = [nodes EXCEPT ![i].checked = TRUE]
            \/ /\ nodes[i].checked
               /\ selectedFileID' = Without(selectedFileID, i)
               /\ nodes' = [nodes EXCEPT ![i] = Unchecked(nodes[i])]
         /\ links' = [NoLinks EXCEPT !.zip = InfosOf(selectedFileID')]
  BY DEF AddSelectedFile
<1>2. UNCHANGED <<page, disk, currentPath, fileInfos, held, isControlPanelOpen, descending,
                  showCheckbox, requests, uploads>>
  BY DEF AddSelectedFile, listVars, panelVars
<1>3. /\ ListInv /\ SelectionInv /\ i \in 1 .. Len(fileInfos)
      /\ nodes \in Seq(Node) /\ Len(nodes) = Len(fileInfos) /\ nodes[i] \in Node
      /\ DOMAIN nodes = 1 .. Len(fileInfos)
      /\ selectedFileID \in Seq(1 .. Len(fileInfos))
      /\ Len(selectedFileID) \in Nat /\ DOMAIN selectedFileID = 1 .. Len(selectedFileID)
  BY ListTypes DEF IInv, ListInv, SelectionInv
<1>4. /\ IsInjective(selectedFileID)
      /\ \A j \in ToSet(selectedFileID) : nodes[j].box => nodes[j].checked
  BY <1>3 DEF SelectionInv, SelectionShown
<1>5. /\ ListInv' /\ selectedFileID' \in Seq(1 .. Len(fileInfos)) /\ SelectionShown'
  <2>1. CASE /\ ~nodes[i].checked
             /\ selectedFileID' = Append(selectedFileID, i)
             /\ nodes' = [nodes EXCEPT ![i].checked = TRUE]
    <3> DEFINE e == [nodes[i] EXCEPT !.checked = TRUE]
    <3>1. e \in Node /\ e.info = nodes[i].info /\ e.checked = TRUE
      BY <1>3 DEF Node
    <3>2. nodes' = SetElement(nodes, i, e)
      BY <2>1 DEF SetElement
    <3> HIDE DEF e
    <3>3. ListInv' /\ \A j \in DOMAIN nodes : nodes'[j] = IF j = i THEN e ELSE nodes[j]
      BY <1>2, <1>3, <3>1, <3>2, ElementMarked
    <3>4. /\ selectedFileID' \in Seq(1 .. Len(fileInfos))
          /\ Len(selectedFileID') = Len(selectedFileID) + 1
          /\ selectedFileID'[Len(selectedFileID) + 1] = i
          /\ \A k \in 1 .. Len(selectedFileID) : selectedFileID'[k] = selectedFileID[k]
      BY <1>3, <2>1, AppendProperties
    <3>5. DOMAIN selectedFileID' = 1 .. Len(selectedFileID) + 1
      BY <3>4, LenProperties
    <3>6. i \notin ToSet(selectedFileID)
      BY <1>1, <1>4, <2>1
    <3>7. \A k \in DOMAIN selectedFileID :
            selectedFileID[k] # i /\ selectedFileID[k] \in ToSet(selectedFileID)
      BY <3>6 DEF ToSet
    <3>8. \A a, b \in DOMAIN selectedFileID : selectedFileID[a] = selectedFileID[b] => a = b
      BY <1>4 DEF IsInjective
    <3>9. ASSUME NEW a \in DOMAIN selectedFileID', NEW b \in DOMAIN selectedFileID',
                 selectedFileID'[a] = selectedFileID'[b]
          PROVE  a = b
      BY <1>3, <3>4, <3>5, <3>7, <3>8, <3>9
    <3>10. IsInjective(selectedFileID)'
      BY <3>9 DEF IsInjective
    <3>11. \A k \in DOMAIN selectedFileID' :
             selectedFileID'[k] \in ToSet(selectedFileID) \cup {i}
      BY <1>3, <3>4, <3>5, <3>7
    <3>12. \A j \in ToSet(selectedFileID') : j \in ToSet(selectedFileID) \cup {i}
      BY <3>11 DEF ToSet
    <3>13. \A j \in ToSet(selectedFileID) : j \in DOMAIN nodes
      BY <1>3, ElementOfSeq DEF ToSet
    <3>14. \A j \in ToSet(selectedFileID') : nodes'[j].box => nodes'[j].checked
      BY <1>1, <1>4, <3>1, <3>3, <3>12, <3>13
    <3> QED
      BY <3>3, <3>4, <3>10, <3>14 DEF SelectionShown
  <2>2. CASE /\ nodes[i].checked
             /\ selectedFileID' = Without(selectedFileID, i)
             /\ nodes' = [nodes EXCEPT ![i] = Unchecked(nodes[i])]
    <3> DEFINE e == Unchecked(nodes[i])
    <3>1. e \in Node /\ e.info = nodes[i].info
      BY <1>3 DEF Unchecked, Node
    <3>2. nodes' = SetElement(nodes, i, e)
      BY <2>2 DEF SetElement
    <3> HIDE DEF e
    <3>3. ListInv' /\ \A j \in DOMAIN nodes : nodes'[j] = IF j = i THEN e ELSE nodes[j]
      BY <1>2, <1>3, <3>1, <3>2, ElementMarked
    <3>4. /\ selectedFileID' \in Seq(1 .. Len(fileInfos)) /\ IsInjective(selectedFileID')
          /\ ToSet(selectedFileID') \subseteq ToSet(selectedFileID) \ {i}
      BY <1>3, <1>4, <2>2, WithoutInjective
    <3>5. \A j \in ToSet(selectedFileID) : j \in DOMAIN nodes
      BY <1>3, ElementOfSeq DEF ToSet
    <3>6. \A j \in ToSet(selectedFileID') : nodes'[j].box => nodes'[j].checked
      BY <1>4, <3>3, <3>4, <3>5
    <3> QED
      BY <3>3, <3>4, <3>6 DEF SelectionShown
  <2> QED
    BY <1>1, <2>1, <2>2
<1>6. SelectionInv'
  BY <1>1, <1>2, <1>3, <1>5, ArchiveOnly
<1> QED
  BY <1>2, <1>5, <1>6, RequestsFrame, UploadsFrame, OptionsFrame DEF IInv

-----------------------------------------------------------------------------
(* Steps of the control panel *)

LEMMA PanelOptionsIInv ==
    ASSUME IInv, OpenControlPanel \/ SetSortMethod \/ SetShowCheckbox
    PROVE  IInv'
<1>1. /\ UNCHANGED <<page, disk, currentPath, fileInfos, selectedFileID, nodes, links, held,
                     requests, uploads>>
      /\ details' \in {details, NoInfo}
      /\ isControlPanelOpen' \in {isControlPanelOpen, TRUE}
      /\ descending' \in {descending, ~descending}
      /\ showCheckbox' \in {showCheckbox, ~showCheckbox}
  BY DEF OpenControlPanel, SetSortMethod, SetShowCheckbox, listVars, selectionVars
<1>2. OptionsInv'
  BY <1>1 DEF IInv, OptionsInv
<1>3. SelectionInv'
  BY <1>1 DEF IInv, SelectionInv, SelectionShown, LinksMatchSelection, InfosOf
<1> QED
  BY <1>1, <1>2, <1>3, ListFrame, RequestsFrame, UploadsFrame DEF IInv

LEMMA CloseControlPanelIInv ==
    ASSUME IInv, CloseControlPanel
    PROVE  IInv'
<1>1. /\ fileInfos' = Sorted(ToSet(fileInfos)) /\ nodes' = Rendered(Sorted(ToSet(fileInfos)))
      /\ selectedFileID' = <<>> /\ links' = NoLinks /\ isControlPanelOpen' = FALSE
      /\ UNCHANGED <<page, disk, currentPath, details, held, descending, showCheckbox,
                     requests, uploads>>
  BY DEF CloseControlPanel
<1>2. /\ currentPath \in Paths \cup {NoPath}
      /\ \A i \in DOMAIN fileInfos : fileInfos[i] \in Infos /\ fileInfos[i].in = currentPath
  BY ListTypes DEF IInv, ListInv
<1>3. ToSet(fileInfos) \in SUBSET Infos /\ \A info \in ToSet(fileInfos) : info.in = currentPath
  BY <1>2 DEF ToSet
<1>4. ListInv'
  BY <1>1, <1>2, <1>3, ListShown DEF IInv
<1>5. SelectionInv'
  BY <1>1, NothingSelected DEF IInv
<1>6. OptionsInv'
  BY <1>1 DEF IInv, OptionsInv
<1> QED
  BY <1>1, <1>4, <1>5, <1>6, RequestsFrame, UploadsFrame DEF IInv

-----------------------------------------------------------------------------
(* Steps of the uploads *)

LEMMA UploadTypes ==
    ASSUME UploadsInv, NEW u \in DOMAIN uploads
    PROVE  /\ uploads \in Seq(Upload) /\ uploads # <<>>
           /\ DOMAIN uploads = 1 .. Len(uploads) /\ Len(uploads) \in Nat
           /\ uploads \in [1 .. Len(uploads) -> Upload]
           /\ uploads[u] \in Upload
           /\ uploads[u].dir = uploads[u].shownIn
           /\ uploads[u].confirmed => uploads[u].asked
           /\ uploads[u].overwrote => uploads[u].asked
<1>1. /\ uploads \in Seq(Upload)
      /\ DOMAIN uploads = 1 .. Len(uploads) /\ Len(uploads) \in Nat
      /\ uploads \in [1 .. Len(uploads) -> Upload]
  BY LenProperties DEF UploadsInv
<1>2. uploads # <<>>
  BY EmptySeq
<1>3. uploads[u] \in Upload
  BY <1>1, ElementOfSeq
<1> QED
  BY <1>1, <1>2, <1>3 DEF UploadsInv, FilesLandWhereChosen

\* An upload goes on as the one it is, and stores at most its own file.
LEMMA UploadGoesOn ==
    ASSUME UploadsInv, NEW u \in DOMAIN uploads, NEW e \in Upload,
           e.dir = uploads[u].dir, e.name = uploads[u].name, e.shownIn = uploads[u].shownIn,
           e.confirmed => e.asked, e.overwrote => e.asked,
           uploads' = SetElement(uploads, u, e), currentPath' = currentPath,
           disk' \in [Folders -> SUBSET Names],
           \A f \in Folders : \A n \in disk'[f] :
             n \in disk[f] \/ (f = uploads[u].dir /\ n = uploads[u].name)
    PROVE  UploadsInv'
<1>1. uploads \in Seq(Upload) /\ u \in DOMAIN uploads /\ e \in Upload
  BY UploadTypes
<1>2. /\ SetElement(uploads, u, e) \in Seq(Upload)
      /\ DOMAIN SetElement(uploads, u, e) = DOMAIN uploads
      /\ \A v \in DOMAIN uploads : SetElement(uploads, u, e)[v] = IF v = u THEN e ELSE uploads[v]
  BY ONLY <1>1, ElementSet, SMTT(20)
<1>3. /\ uploads' \in Seq(Upload) /\ DOMAIN uploads' = DOMAIN uploads
      /\ uploads'[u] = e
      /\ \A v \in DOMAIN uploads : uploads'[v] = IF v = u THEN e ELSE uploads[v]
  BY <1>2
<1>4. \A v \in DOMAIN uploads :
        /\ uploads[v].dir = uploads[v].shownIn
        /\ uploads[v].confirmed => uploads[v].asked
        /\ uploads[v].overwrote => uploads[v].asked
  BY UploadTypes
<1>5. \A v \in DOMAIN uploads' :
        /\ uploads'[v].dir = uploads'[v].shownIn
        /\ uploads'[v].confirmed => uploads'[v].asked
        /\ uploads'[v].overwrote => uploads'[v].asked
  BY <1>3, <1>4
<1>6. ASSUME NEW f \in Folders, NEW n \in disk'[f]
      PROVE  n \in Files[f] \/ \E v \in DOMAIN uploads' :
               uploads'[v].shownIn = f /\ uploads'[v].name = n
  <2>1. CASE n \in disk[f]
    <3>1. n \in Files[f] \/ \E v \in DOMAIN uploads : uploads[v].shownIn = f /\ uploads[v].name = n
      BY <2>1 DEF UploadsInv, FilesLandWhereChosen
    <3>2. \A v \in DOMAIN uploads :
            uploads'[v].shownIn = uploads[v].shownIn /\ uploads'[v].name = uploads[v].name
      BY <1>3
    <3> QED
      BY <1>3, <3>1, <3>2
  <2>2. CASE f = uploads[u].dir /\ n = uploads[u].name
    BY <1>3, <1>4, <2>2
  <2> QED
    BY <1>6, <2>1, <2>2
<1>7. FilesLandWhereChosen'
  BY <1>5, <1>6 DEF FilesLandWhereChosen
<1>8. uploads' # <<>> => currentPath' # NoPath
  BY <1>3, UploadTypes DEF UploadsInv
<1> QED
  BY <1>3, <1>5, <1>7, <1>8 DEF UploadsInv

\* A step of an upload that leaves the disk alone.
LEMMA UploadGoesOnOnly ==
    ASSUME UploadsInv, NEW u \in DOMAIN uploads, NEW e \in Upload,
           e.dir = uploads[u].dir, e.name = uploads[u].name, e.shownIn = uploads[u].shownIn,
           e.confirmed => e.asked, e.overwrote => e.asked,
           uploads' = SetElement(uploads, u, e), UNCHANGED <<currentPath, disk>>
    PROVE  UploadsInv'
<1>1. disk' \in [Folders -> SUBSET Names]
  BY DEF UploadsInv
<1>2. \A f \in Folders : \A n \in disk'[f] :
        n \in disk[f] \/ (f = uploads[u].dir /\ n = uploads[u].name)
  OBVIOUS
<1> QED
  BY <1>1, <1>2, UploadGoesOn

LEMMA UploadFileIInv ==
    ASSUME IInv, UploadFile
    PROVE  IInv'
<1>1. PICK name \in Names : uploads' = Append(uploads, NewUpload(name))
  BY DEF UploadFile
<1>2. /\ UNCHANGED <<page, disk, listVars, selectionVars, held, panelVars, requests>>
      /\ currentPath' = currentPath /\ currentPath # NoPath
  BY DEF UploadFile, listVars
<1> DEFINE e == NewUpload(name)
<1>3. currentPath \in Paths
  BY <1>2 DEF IInv, ListInv
<1>4. e \in Upload /\ e.dir = e.shownIn /\ ~e.confirmed /\ ~e.overwrote
  BY <1>3 DEF NewUpload, Upload
<1>5. /\ uploads \in Seq(Upload) /\ Len(uploads) \in Nat /\ DOMAIN uploads = 1 .. Len(uploads)
      /\ disk \in [Folders -> SUBSET Names] /\ FilesLandWhereChosen
      /\ \A u \in DOMAIN uploads :
           /\ uploads[u].dir = uploads[u].shownIn
           /\ uploads[u].confirmed => uploads[u].asked
           /\ uploads[u].overwrote => uploads[u].asked
  BY LenProperties DEF IInv, UploadsInv, FilesLandWhereChosen
<1>6. uploads' = Append(uploads, e)
  BY <1>1
<1> HIDE DEF e
<1>7. /\ uploads' \in Seq(Upload) /\ Len(uploads') = Len(uploads) + 1
      /\ uploads'[Len(uploads) + 1] = e
      /\ \A u \in 1 .. Len(uploads) : uploads'[u] = uploads[u]
  BY <1>4, <1>5, <1>6, AppendProperties
<1>8. DOMAIN uploads' = 1 .. Len(uploads) + 1
  BY <1>7, LenProperties
<1>9. \A u \in DOMAIN uploads' :
        uploads'[u] = e \/ (u \in DOMAIN uploads /\ uploads'[u] = uploads[u])
  BY <1>5, <1>7, <1>8
<1>10. \A u \in DOMAIN uploads' :
         /\ uploads'[u].dir = uploads'[u].shownIn
         /\ uploads'[u].confirmed => uploads'[u].asked
         /\ uploads'[u].overwrote => uploads'[u].asked
  BY <1>4, <1>5, <1>9
<1>11. \A u \in DOMAIN uploads : u \in DOMAIN uploads' /\ uploads'[u] = uploads[u]
  BY <1>5, <1>7, <1>8
<1>12. FilesLandWhereChosen'
  <2>1. disk' = disk
    BY <1>2
  <2> QED
    BY <1>5, <1>10, <1>11, <2>1 DEF FilesLandWhereChosen
<1>13. UploadsInv'
  BY <1>2, <1>5, <1>7, <1>10, <1>12 DEF UploadsInv
<1> QED
  BY <1>2, <1>13, ListFrame, SelectionFrame, RequestsFrame, OptionsFrame
     DEF IInv, listVars, selectionVars, panelVars

LEMMA CheckAnsweredIInv ==
    ASSUME IInv, NEW u \in DOMAIN uploads, CheckAnswered(u)
    PROVE  IInv'
<1>1. /\ UNCHANGED <<page, disk, currentPath, fileInfos, selectedFileID, nodes, details, links,
                     held, isControlPanelOpen, descending, showCheckbox, requests>>
      /\ UploadsInv
  BY DEF IInv, CheckAnswered, listVars, selectionVars, panelVars
<1>2. /\ uploads \in [1 .. Len(uploads) -> Upload] /\ DOMAIN uploads = 1 .. Len(uploads)
      /\ uploads[u] \in Upload /\ uploads[u].confirmed => uploads[u].asked
      /\ uploads[u].overwrote => uploads[u].asked
  BY <1>1, UploadTypes
<1>3. \E e \in Upload :
        /\ uploads' = SetElement(uploads, u, e)
        /\ e.dir = uploads[u].dir /\ e.name = uploads[u].name /\ e.shownIn = uploads[u].shownIn
        /\ (e.confirmed => e.asked) /\ (e.overwrote => e.asked)
  <2>1. CASE uploads' = [uploads EXCEPT ![u].step = "sending"]
    <3> DEFINE e == [uploads[u] EXCEPT !.step = "sending"]
    <3>1. e \in Upload /\ uploads' = SetElement(uploads, u, e)
      BY <1>2, <2>1 DEF Upload, SetElement
    <3> QED
      BY <1>2, <3>1 DEF Upload
  <2>2. CASE uploads' = [uploads EXCEPT ![u].step = "sending", ![u].confirmed = TRUE,
                                        ![u].asked = TRUE]
    <3> DEFINE e == [uploads[u] EXCEPT !.step = "sending", !.confirmed = TRUE, !.asked = TRUE]
    <3>1. e \in Upload
      BY <1>2 DEF Upload
    <3>2. uploads' = SetElement(uploads, u, e)
      BY <1>2, <2>2 DEF SetElement
    <3> QED
      BY <1>2, <3>1, <3>2 DEF Upload
  <2>3. CASE uploads' = [uploads EXCEPT ![u].step = "over"]
    <3> DEFINE e == [uploads[u] EXCEPT !.step = "over"]
    <3>1. e \in Upload /\ uploads' = SetElement(uploads, u, e)
      BY <1>2, <2>3 DEF Upload, SetElement
    <3> QED
      BY <1>2, <3>1 DEF Upload
  <2> QED
    BY <2>1, <2>2, <2>3 DEF CheckAnswered
<1>4. UploadsInv'
  BY <1>1, <1>3, UploadGoesOnOnly
<1> QED
  BY <1>1, <1>4, ListFrame, SelectionFrame, RequestsFrame, OptionsFrame DEF IInv

LEMMA ServerStoresIInv ==
    ASSUME IInv, NEW u \in DOMAIN uploads, ServerStores(u)
    PROVE  IInv'
<1>1. /\ UNCHANGED <<page, currentPath, fileInfos, selectedFileID, nodes, details, links,
                     held, isControlPanelOpen, descending, showCheckbox, requests>>
      /\ UploadsInv
  BY DEF IInv, ServerStores, listVars, selectionVars, panelVars
<1>2. /\ uploads \in [1 .. Len(uploads) -> Upload] /\ DOMAIN uploads = 1 .. Len(uploads)
      /\ uploads[u] \in Upload /\ uploads[u].confirmed => uploads[u].asked
      /\ uploads[u].overwrote => uploads[u].asked
  BY <1>1, UploadTypes
<1>3. CASE /\ uploads' = [uploads EXCEPT ![u].answer = "exists"]
           /\ UNCHANGED disk
  <2> DEFINE e == [uploads[u] EXCEPT !.answer = "exists"]
  <2>1. e \in Upload /\ uploads' = SetElement(uploads, u, e)
    BY <1>2, <1>3 DEF Upload, SetElement
  <2>2. /\ e.dir = uploads[u].dir /\ e.name = uploads[u].name /\ e.shownIn = uploads[u].shownIn
        /\ (e.confirmed => e.asked) /\ (e.overwrote => e.asked)
    BY <1>2 DEF Upload
  <2> HIDE DEF e
  <2>3. UploadsInv'
    BY <1>1, <1>3, <2>1, <2>2, UploadGoesOnOnly
  <2> QED
    BY <1>1, <2>3, ListFrame, SelectionFrame, RequestsFrame, OptionsFrame DEF IInv
<1>4. CASE /\ Exists(u) => uploads[u].confirmed
           /\ uploads' = [uploads EXCEPT ![u].answer = "stored", ![u].overwrote = Exists(u)]
           /\ disk' = [disk EXCEPT ![uploads[u].dir] = @ \cup {uploads[u].name}]
  <2> DEFINE e == [uploads[u] EXCEPT !.answer = "stored", !.overwrote = Exists(u)]
  <2>1. Exists(u) \in BOOLEAN
    BY DEF Exists
  <2>2. e \in Upload
    BY <1>2, <2>1 DEF Upload
  <2>3. uploads' = SetElement(uploads, u, e)
    BY <1>2, <1>4 DEF SetElement
  <2>4. /\ e.dir = uploads[u].dir /\ e.name = uploads[u].name /\ e.shownIn = uploads[u].shownIn
        /\ (e.confirmed => e.asked) /\ (e.overwrote => e.asked)
    BY <1>2, <1>4, <2>1 DEF Upload
  <2> HIDE DEF e
  <2>5. uploads[u].dir \in Folders /\ uploads[u].name \in Names
    BY <1>2 DEF ServerStores, Upload
  <2>6. disk \in [Folders -> SUBSET Names]
    BY <1>1 DEF UploadsInv
  <2>7. /\ disk' \in [Folders -> SUBSET Names]
        /\ \A f \in Folders : \A n \in disk'[f] :
             n \in disk[f] \/ (f = uploads[u].dir /\ n = uploads[u].name)
    BY <1>4, <2>5, <2>6
  <2>8. UploadsInv'
    BY <1>1, <2>2, <2>3, <2>4, <2>7, UploadGoesOn
  <2> QED
    BY <1>1, <2>8, ListFrame, SelectionFrame, RequestsFrame, OptionsFrame DEF IInv
<1> QED
  BY <1>3, <1>4 DEF ServerStores

\* After an answer the directory shown by now is asked for.
LEMMA AnsweredIInv ==
    ASSUME IInv, NEW u \in DOMAIN uploads, SendAnswered(u) \/ ResendAnswered(u)
    PROVE  IInv'
<1>1. /\ UNCHANGED <<page, disk, currentPath, fileInfos, selectedFileID, nodes, details, links,
                     held, isControlPanelOpen, descending, showCheckbox>>
      /\ UploadsInv
      /\ GetFileInfos(currentPath)
      /\ \/ uploads' = [uploads EXCEPT ![u].step = "resending", ![u].confirmed = TRUE,
                                       ![u].asked = TRUE, ![u].answer = "none"]
         \/ uploads' = [uploads EXCEPT ![u].step = "over"]
  BY DEF IInv, SendAnswered, ResendAnswered, listVars, selectionVars, panelVars
<1>2. /\ uploads \in [1 .. Len(uploads) -> Upload] /\ DOMAIN uploads = 1 .. Len(uploads)
      /\ uploads # <<>>
      /\ uploads[u] \in Upload /\ uploads[u].confirmed => uploads[u].asked
      /\ uploads[u].overwrote => uploads[u].asked
  BY <1>1, UploadTypes
<1>3. currentPath \in Paths
  BY <1>2 DEF IInv, ListInv, UploadsInv
<1>4. RequestsInv'
  BY <1>1, <1>3, Requested DEF IInv
<1>5. \E e \in Upload :
        /\ uploads' = SetElement(uploads, u, e)
        /\ e.dir = uploads[u].dir /\ e.name = uploads[u].name /\ e.shownIn = uploads[u].shownIn
        /\ (e.confirmed => e.asked) /\ (e.overwrote => e.asked)
  <2>1. CASE uploads' = [uploads EXCEPT ![u].step = "resending", ![u].confirmed = TRUE,
                                        ![u].asked = TRUE, ![u].answer = "none"]
    <3> DEFINE e == [uploads[u] EXCEPT !.step = "resending", !.confirmed = TRUE,
                                       !.asked = TRUE, !.answer = "none"]
    <3>1. e \in Upload
      BY <1>2 DEF Upload
    <3>2. uploads' = SetElement(uploads, u, e)
      BY <1>2, <2>1 DEF SetElement
    <3> QED
      BY <1>2, <3>1, <3>2 DEF Upload
  <2>2. CASE uploads' = [uploads EXCEPT ![u].step = "over"]
    <3> DEFINE e == [uploads[u] EXCEPT !.step = "over"]
    <3>1. e \in Upload /\ uploads' = SetElement(uploads, u, e)
      BY <1>2, <2>2 DEF Upload, SetElement
    <3> QED
      BY <1>2, <3>1 DEF Upload
  <2> QED
    BY <1>1, <2>1, <2>2
<1>6. UploadsInv'
  BY <1>1, <1>5, UploadGoesOnOnly
<1> QED
  BY <1>1, <1>4, <1>6, ListFrame, SelectionFrame, OptionsFrame DEF IInv

LEMMA UploadFailsIInv ==
    ASSUME IInv, NEW u \in DOMAIN uploads, UploadFails(u)
    PROVE  IInv'
<1>1. /\ UNCHANGED <<page, disk, currentPath, fileInfos, selectedFileID, nodes, details, links,
                     held, isControlPanelOpen, descending, showCheckbox, requests>>
      /\ UploadsInv
      /\ uploads' = [uploads EXCEPT ![u].step = "over"]
  BY DEF IInv, UploadFails, listVars, selectionVars, panelVars
<1>2. /\ uploads \in [1 .. Len(uploads) -> Upload] /\ DOMAIN uploads = 1 .. Len(uploads)
      /\ uploads[u] \in Upload /\ uploads[u].confirmed => uploads[u].asked
      /\ uploads[u].overwrote => uploads[u].asked
  BY <1>1, UploadTypes
<1> DEFINE e == [uploads[u] EXCEPT !.step = "over"]
<1>3. e \in Upload /\ uploads' = SetElement(uploads, u, e)
  BY <1>1, <1>2 DEF Upload, SetElement
<1>4. /\ e.dir = uploads[u].dir /\ e.name = uploads[u].name /\ e.shownIn = uploads[u].shownIn
      /\ (e.confirmed => e.asked) /\ (e.overwrote => e.asked)
  BY <1>2 DEF Upload
<1> HIDE DEF e
<1>5. UploadsInv'
  BY <1>1, <1>3, <1>4, UploadGoesOnOnly
<1> QED
  BY <1>1, <1>5, ListFrame, SelectionFrame, RequestsFrame, OptionsFrame DEF IInv

-----------------------------------------------------------------------------
(* The specification *)

LEMMA InitIInv ==
    ASSUME Init
    PROVE  IInv
<1>1. ListInv
  BY EmptySeq DEF Init, ListInv
<1>2. SelectionInv
  <2>1. selectedFileID = <<>> /\ DOMAIN selectedFileID = {}
    BY EmptySeq DEF Init
  <2>2. selectedFileID \in Seq(DOMAIN fileInfos)
    BY <2>1, EmptySeq
  <2>3. links \in Links
    BY EmptySeq DEF Init, NoLinks, Links
  <2>4. SelectionShown
    BY <2>1 DEF SelectionShown, IsInjective, ToSet
  <2>5. LinksMatchSelection
    BY <2>1 DEF LinksMatchSelection
  <2> QED
    BY <2>2, <2>3, <2>4, <2>5 DEF Init, SelectionInv
<1>3. RequestsInv
  <2> DEFINE r == [path |-> Root, handled |-> FALSE, list |-> {}]
  <2>1. r \in Asked /\ r.list = {}
    BY DEF Asked, Paths
  <2>2. requests = <<r>>
    BY DEF Init
  <2> HIDE DEF r
  <2>3. requests \in Seq(Asked) /\ DOMAIN requests = {1} /\ requests[1] = r
    BY <2>1, <2>2
  <2> QED
    BY <2>1, <2>3 DEF RequestsInv
<1>4. UploadsInv
  <2>1. uploads \in Seq(Upload) /\ uploads = <<>> /\ DOMAIN uploads = {}
    BY EmptySeq DEF Init
  <2>2. disk = Files /\ disk \in [Folders -> SUBSET Names]
    BY PanelAssumption DEF Init
  <2> QED
    BY <2>1, <2>2 DEF UploadsInv, FilesLandWhereChosen
<1>5. OptionsInv
  BY DEF Init, OptionsInv
<1> QED
  BY <1>1, <1>2, <1>3, <1>4, <1>5 DEF IInv

LEMMA NextIInv ==
    ASSUME IInv, [Next]_vars
    PROVE  IInv'
<1>1. CASE User
  BY <1>1, GoToPathIInv, DoubleClickIInv, TouchIInv, ClickFileListNodeIInv,
     AddSelectedFileIInv, PanelOptionsIInv, CloseControlPanelIInv, UploadFileIInv DEF User
<1>2. CASE Answers
  <2>1. CASE \E k \in DOMAIN requests : HandleRequest(k) \/ ShowAnswer(k) \/ RequestFails(k)
    BY <2>1, HandleRequestIInv, ShowAnswerIInv, RequestFailsIInv
  <2>2. CASE \E u \in DOMAIN uploads :
               \/ CheckAnswered(u) \/ ServerStores(u) \/ SendAnswered(u)
               \/ ResendAnswered(u) \/ UploadFails(u)
    BY <2>2, CheckAnsweredIInv, ServerStoresIInv, AnsweredIInv, UploadFailsIInv
  <2> QED
    BY <1>2, <2>1, <2>2 DEF Answers
<1>3. CASE UNCHANGED vars
  BY <1>3, ListFrame, SelectionFrame, RequestsFrame, UploadsFrame, OptionsFrame
     DEF IInv, vars, listVars, selectionVars, panelVars
<1> QED
  BY <1>1, <1>2, <1>3 DEF Next

\* The invariant of the page holds at all times, whatever the order of answers.
THEOREM Invariance == Spec => []IInv
<1>1. Init => IInv
  BY InitIInv
<1>2. IInv /\ [Next]_vars => IInv'
  BY NextIInv
<1> QED
  BY <1>1, <1>2, PTL DEF Spec

\* The page's variables have their types, and what is listed, looked up and
\* uploaded to is of one directory (showFileList, getFileInfos).
THEOREM AlwaysOfCurrentPath == Spec => []ListIsOfCurrentPath
<1>1. IInv => ListIsOfCurrentPath
  <2> SUFFICES ASSUME IInv PROVE ListIsOfCurrentPath
    OBVIOUS
  <2>1. TypeOK
    BY DEF TypeOK, IInv, ListInv, SelectionInv, RequestsInv, UploadsInv, OptionsInv,
           Node, Asked, Links
  <2> QED
    BY <2>1, ListTypes DEF IInv, ListInv, ListIsOfCurrentPath
<1> QED
  BY <1>1, Invariance, PTL

\* An entry is selected once, and its checkbox says so (addSelectedFile,
\* clickFileListNode, showFileList).
THEOREM AlwaysShown == Spec => []SelectionShown
<1>1. IInv => SelectionShown
  BY DEF IInv, SelectionInv
<1> QED
  BY <1>1, Invariance, PTL

\* The links offered are for what is selected (showDownloadLink,
\* showZipDownloadLink).
THEOREM AlwaysLinked == Spec => []LinksMatchSelection
<1>1. IInv => LinksMatchSelection
  BY DEF IInv, SelectionInv
<1> QED
  BY <1>1, Invariance, PTL

\* An upload ends in the directory it was chosen for, and replaces only what the
\* user agreed to replace (uploadFile).
THEOREM AlwaysLandWhereChosen == Spec => []FilesLandWhereChosen
<1>1. IInv => FilesLandWhereChosen
  BY DEF IInv, UploadsInv
<1> QED
  BY <1>1, Invariance, PTL
=============================================================================
