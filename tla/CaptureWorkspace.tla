--------------------------- MODULE CaptureWorkspace ---------------------------
(***************************************************************************)
(* Captura e PDF: CapturePdfController over CapturePdfWorkspace, its view  *)
(* and its four kinds of worker.                                           *)
(*                                                                         *)
(* One thread runs the interface; the scanner, one file operation, one     *)
(* preview and any number of edge detections run in threads of their own.  *)
(* A worker queues two signals for the interface, its result and then its  *)
(* end, and the user may act between and before them.  A worker started    *)
(* before the generation counter of its kind last moved is not fresh: its  *)
(* result is dropped.  The content of a page is what the user can tell     *)
(* apart in the preview: which page, its edges and how it is turned.       *)
(***************************************************************************)
EXTENDS Naturals, Sequences, FiniteSets, SequencesExt

CONSTANTS
  PageCount,   \* pages ever brought into the workspace, a bound
  MaxGestures  \* commands of the user, a bound

ASSUME CaptureAssumption == PageCount \in Nat /\ MaxGestures \in Nat

NoWorker == [kind |-> "none"]
NoPage == 0
Loads == {"open", "images", "add"}
Writes == {"save", "extract", "split", "ged"}

VARIABLES
  pages,      \* CapturePdfWorkspace.pages
  current,    \* its current_page, 0 for none
  made,       \* the last id given to a page, or to the page a scan will be
  shown,      \* the list and the preview: pages, and if they are cropped
  overlay,    \* the page whose corners the preview lets the user drag
  crop,       \* "Mostrar documento recortado"
  busy,       \* the last state given to the view: its buttons are disabled
  render,     \* _render_worker
  pending,    \* _render_pending
  detections, \* _geometry_workers
  scan,       \* _scan_worker
  op,         \* _operation_worker
  asking,     \* the dialog of "Adicionar ao SmartFile" is open
  closing,    \* _closing
  blind,      \* the user was told that the last preview failed
  floor,      \* pages made before the last clear have ids up to this one
  left        \* commands the user may still give

captureVars == <<pages, current, made, shown, overlay, crop, busy, render,
          pending, detections, scan, op, asking, closing, blind, floor, left>>
workspace == <<pages, current, made>>
preview == <<shown, overlay, crop, blind>>

CaptureInit ==
  /\ pages = <<>> /\ current = 0 /\ made = 0
  /\ shown = [pages |-> <<>>, crop |-> TRUE] /\ overlay = NoPage
  /\ crop = TRUE /\ busy = FALSE
  /\ render = NoWorker /\ pending = FALSE
  /\ detections = <<>> /\ scan = NoWorker /\ op = NoWorker
  /\ asking = FALSE /\ closing = FALSE /\ blind = FALSE
  /\ floor = 0
  /\ left = MaxGestures

----------------------------------------------------------------------------
(* Pages *)

\* Pages as the service makes them: images are still to be examined.
NewPage(id, image) ==
  [id |-> id, image |-> image, edges |-> "none", turn |-> 0]

NewPages(n, image) == [k \in 1 .. n |-> NewPage(made + k, image)]

Ids(ps) == {ps[k].id : k \in DOMAIN ps}

IndexOf(ps, id) ==
  IF id \in Ids(ps) THEN CHOOSE k \in DOMAIN ps : ps[k].id = id ELSE 0

\* Only certain edges, or edges set by hand, cut the page.
CanCrop(p) == p.edges \in {"sure", "manual"}

\* The members of a set of numbers, in order.
InOrder(S) ==
  CHOOSE f \in [1 .. Cardinality(S) -> S] :
    \A i, j \in 1 .. Cardinality(S) : i < j => f[i] < f[j]

Keep(ps, chosen) ==
  LET ks == InOrder(chosen \cap DOMAIN ps)
  IN  [k \in 1 .. Cardinality(chosen \cap DOMAIN ps) |-> ps[ks[k]]]

\* CapturePdfWorkspace.add_pages.
AddPages(new) ==
  /\ pages' = pages \o new
  /\ current' = IF new = <<>> THEN current ELSE Len(pages) + 1

RemovePages(chosen) ==
  LET rest == Keep(pages, DOMAIN pages \ chosen)
  IN  /\ pages' = rest
      /\ current' = IF Len(rest) = 0 THEN 0
                    ELSE IF current > Len(rest) THEN Len(rest)
                    ELSE IF current = 0 THEN 1 ELSE current

\* The order comes from the list, which may show other pages by now.
Reorder(ids) ==
  /\ Len(ids) = Len(pages) /\ ToSet(ids) = Ids(pages)
  /\ pages' = [k \in DOMAIN ids |-> pages[IndexOf(pages, ids[k])]]
  /\ current' = IF current = 0 THEN 0
                ELSE SelectInSeq(ids, LAMBDA i: i = pages[current].id)

Rotate(chosen) ==
  /\ pages' = [k \in DOMAIN pages |->
                 IF k \in chosen
                 THEN [pages[k] EXCEPT !.turn = (@ + 1) % 4] ELSE pages[k]]

----------------------------------------------------------------------------
(* What the controller tells the view *)

Rendering == render' # NoWorker \/ pending'

SetBusy(working) == busy' = (working \/ detections' # <<>> \/ Rendering)

UpdateViewState == SetBusy(op' # NoWorker \/ scan' # NoWorker)

\* The corners of the current page, when it is not shown cut.
ShowGeometry ==
  overlay' = IF current' = 0 \/ current' > Len(pages') THEN NoPage
             ELSE LET p == pages'[current']
                  IN  IF p.edges = "none" \/ (crop' /\ CanCrop(p))
                      THEN NoPage ELSE p.id

StartRender ==
  render' = [kind |-> "render", pages |-> pages', crop |-> crop',
             fresh |-> TRUE, ended |-> FALSE]

\* Mutant: the preview that runs is taken for good.
ScheduleNothing ==
  IF render = NoWorker THEN StartRender /\ UNCHANGED pending
  ELSE UNCHANGED <<render, pending>>

\* A running preview is superseded and the next one waits for its end.
ScheduleRender ==
  IF render = NoWorker THEN StartRender /\ UNCHANGED pending
  ELSE pending' = TRUE /\ render' = [render EXCEPT !.fresh = FALSE]

\* The view hears of it only when a worker was started.
ViewFollows(started) ==
  IF render = NoWorker \/ started THEN UpdateViewState ELSE UNCHANGED busy

\* Mutant: a detection under way stays good.
InvalidateNothing == detections

InvalidateGeometry ==
  [k \in DOMAIN detections |-> [detections[k] EXCEPT !.fresh = FALSE]]

Detection(p) == [page |-> p.id, from |-> p.edges, fresh |-> TRUE,
                 ended |-> FALSE]

\* _detect_page of a page that has just come: none while an operation runs.
DetectNew(p) == p.image /\ op = NoWorker

----------------------------------------------------------------------------
(* The scanner *)

Gesture ==
  /\ ~closing /\ ~asking
  /\ left > 0 /\ left' = left - 1

OnScanRequested ==
  /\ Gesture /\ ~busy
  /\ scan = NoWorker /\ op = NoWorker
  /\ detections' = InvalidateGeometry
  /\ made < PageCount /\ made' = made + 1
  /\ scan' = [kind |-> "scan", page |-> made + 1, fresh |-> TRUE,
              ended |-> FALSE]
  /\ UNCHANGED <<pages, current, preview, floor, render, pending, op, asking,
                 closing>>
  /\ SetBusy(TRUE)

\* Mutant: the scan that runs still counts.
OutdateNothing == scan

OutdateScan == IF scan = NoWorker THEN scan ELSE [scan EXCEPT !.fresh = FALSE]

\* The page enters, its preview is asked for and its edges are looked for.
ScanSucceeds ==
  /\ scan # NoWorker /\ ~scan.ended
  /\ scan' = [scan EXCEPT !.ended = TRUE]
  /\ UNCHANGED <<made, preview, floor, op, asking, closing, left>>
  /\ LET p == NewPage(scan.page, TRUE)
     IN  IF scan.fresh
         THEN /\ AddPages(<<p>>)
              /\ ScheduleRender
              /\ detections' = IF DetectNew(p) THEN Append(detections, Detection(p))
                               ELSE detections
              /\ ViewFollows(DetectNew(p))
         ELSE UNCHANGED <<pages, current, render, pending,
                          detections, busy>>

ScanFails ==
  /\ scan # NoWorker /\ ~scan.ended
  /\ scan' = [scan EXCEPT !.ended = TRUE]
  /\ UNCHANGED <<workspace, preview, floor, busy, render, pending, detections,
                 op, asking, closing, left>>

CleanupScanWorker ==
  /\ scan # NoWorker /\ scan.ended
  /\ scan' = NoWorker
  /\ UNCHANGED <<workspace, preview, floor, render, pending, detections, op,
                 asking, closing, left>>
  /\ SetBusy(FALSE)

----------------------------------------------------------------------------
(* File operations *)

\* Only another operation is in the way: a scan is not.
StartOperation(kind, ps) ==
  /\ op = NoWorker
  /\ op' = [kind |-> kind, pages |-> ps, ended |-> FALSE]
  /\ UNCHANGED <<workspace, preview, floor, render, pending, detections, scan,
                 closing>>
  /\ SetBusy(TRUE)

OnImport(kind) ==
  /\ Gesture
  /\ kind = "add" => ~busy
  /\ StartOperation(kind, <<>>)
  /\ UNCHANGED asking

OnOpenPdf == OnImport("open")
OnImportImages == OnImport("images")
OnAddPdfs == OnImport("add")

\* on_save_pdf, on_extract_pages, on_split_pdf and on_add_to_ged begin alike.
PreviewIsUpToDate == detections = <<>> /\ render = NoWorker /\ ~pending

MaterializeTo(kind, ps) ==
  /\ StartOperation(kind, ps)
  /\ UNCHANGED asking

\* Ctrl+S is never disabled.
OnSavePdf ==
  /\ Gesture /\ PreviewIsUpToDate /\ pages # <<>>
  /\ MaterializeTo("save", pages)

Selections == SUBSET (DOMAIN shown.pages) \ {{}}

OnExtractPages ==
  /\ Gesture /\ ~busy /\ PreviewIsUpToDate
  /\ \E chosen \in Selections:
       /\ chosen \cap DOMAIN pages # {}
       /\ MaterializeTo("extract", Keep(pages, chosen))

OnSplitPdf ==
  /\ Gesture /\ PreviewIsUpToDate /\ pages # <<>>
  /\ MaterializeTo("split", pages)

\* The dialog that asks for a folder runs the events of every worker.
OnAddToGed ==
  /\ Gesture /\ ~busy /\ PreviewIsUpToDate /\ pages # <<>>
  /\ asking' = TRUE
  /\ UNCHANGED <<workspace, preview, floor, busy, render, pending, detections,
                 scan, op, closing>>

GedAnswered ==
  /\ asking /\ ~closing
  /\ asking' = FALSE
  /\ \/ /\ StartOperation("ged", pages)
     \/ UNCHANGED <<workspace, preview, floor, busy, render, pending,
                    detections, scan, op, closing>>
  /\ UNCHANGED left
----------------------------------------------------------------------------
(* The end of an operation *)

Delivers(kinds) ==
  /\ op # NoWorker /\ ~op.ended /\ op.kind \in kinds
  /\ op' = [op EXCEPT !.ended = TRUE]
  /\ UNCHANGED <<scan, closing, left>>

NewCounts == {n \in 1 .. 2 : made + n <= PageCount}

\* No edges are looked for: the operation still counts as running.
OnPagesLoaded ==
  /\ ~closing
  /\ \E n \in NewCounts:
       /\ Delivers({"images", "add"})
       /\ UNCHANGED <<preview, floor, detections, asking>>
       /\ AddPages(NewPages(n, op.kind = "images")) /\ made' = made + n
       /\ ScheduleRender
       /\ ViewFollows(FALSE)

\* What the workspace held is dropped; a scan that runs is not.
ReplaceWithPdf ==
  /\ ~closing
  /\ \E n \in NewCounts:
       /\ Delivers({"open"})
       /\ detections' = InvalidateGeometry
       /\ pages' = NewPages(n, FALSE) /\ current' = 1
       /\ made' = made + n
       /\ UNCHANGED <<preview, floor, asking>>
       /\ ScheduleRender
       /\ ViewFollows(FALSE)

\* Extracting and splitting leave the workspace as it is, and so do a failure
\* and a result that comes when the controller is closing.
OperationEnds ==
  /\ op # NoWorker
  /\ Delivers(Loads \cup Writes)
  /\ UNCHANGED <<workspace, preview, floor, busy, render, pending, detections,
                 asking>>

CleanupOperation ==
  /\ op # NoWorker /\ op.ended
  /\ op' = NoWorker
  /\ UNCHANGED <<workspace, preview, floor, render, pending, detections, scan,
                 asking, closing, left>>
  /\ IF closing THEN UNCHANGED busy ELSE SetBusy(FALSE)

----------------------------------------------------------------------------
(* The preview *)

RenderSucceeded ==
  /\ render # NoWorker /\ ~render.ended
  /\ render' = [render EXCEPT !.ended = TRUE]
  /\ UNCHANGED <<workspace, crop, floor, pending, detections, scan, op, asking,
                 closing, left>>
  /\ IF render.fresh
     THEN /\ shown' = [pages |-> render.pages, crop |-> render.crop]
          /\ blind' = FALSE
          /\ ShowGeometry /\ UpdateViewState
     ELSE UNCHANGED <<shown, overlay, blind, busy>>

\* A page whose file is gone, or whose edges cannot be cut.
RenderFails ==
  /\ render # NoWorker /\ ~render.ended
  /\ render' = [render EXCEPT !.ended = TRUE]
  /\ blind' = (blind \/ render.fresh)
  /\ UNCHANGED <<workspace, shown, overlay, crop, floor, busy, pending,
                 detections, scan, op, asking, closing, left>>

\* An empty workspace is not rendered again.
CleanupRender ==
  /\ render # NoWorker /\ render.ended
  /\ pending' = FALSE
  /\ UNCHANGED <<workspace, preview, floor, detections, scan, op, asking,
                 closing, left>>
  /\ IF pending /\ pages # <<>> /\ ~closing THEN StartRender
     ELSE render' = NoWorker
  /\ IF closing THEN UNCHANGED busy ELSE UpdateViewState

ToggleCrop ==
  /\ Gesture
  /\ crop' = ~crop
  /\ UNCHANGED <<workspace, shown, overlay, blind, floor, detections, scan, op,
                 asking, closing>>
  /\ ScheduleRender
  /\ ViewFollows(FALSE)

SetCurrentPage ==
  /\ ~closing /\ ~asking
  /\ current' \in DOMAIN pages \cap DOMAIN shown.pages
  /\ UNCHANGED <<pages, made, shown, crop, blind, floor, busy, render,
                 pending, detections, scan, op, asking, closing, left>>
  /\ ShowGeometry

----------------------------------------------------------------------------
(* The edges of a page *)

CurrentPage == pages[current]

GeometryGesture ==
  /\ Gesture /\ current \in DOMAIN pages
  /\ op = NoWorker

\* The user asks for it: a detection under way is given up.
OnDetect ==
  /\ GeometryGesture /\ ~busy /\ CurrentPage.image
  /\ detections' = Append(InvalidateGeometry, Detection(CurrentPage))
  /\ UNCHANGED <<workspace, preview, floor, render, pending, scan, op, asking,
                 closing>>
  /\ UpdateViewState

SetEdges(edges) ==
  /\ pages' = [pages EXCEPT ![current].edges = edges]
  /\ UNCHANGED <<current, made, shown, crop, blind, floor, scan, op, asking,
                 closing>>
  /\ ShowGeometry
  /\ ScheduleRender
  /\ ViewFollows(FALSE)

\* The corners dragged are those of the preview.
ManualGeometry ==
  /\ GeometryGesture /\ overlay # NoPage /\ CurrentPage.image
  /\ detections' = InvalidateGeometry
  /\ SetEdges("manual")

ResetGeometry ==
  /\ GeometryGesture /\ ~busy
  /\ detections' = InvalidateGeometry
  /\ SetEdges(IF CurrentPage.image THEN "reset" ELSE "none")

\* The result of a detection, for the page that has the id it was started for.
GeometryReady(k) ==
  LET d == detections[k]
      at == IndexOf(pages, d.page)
  IN  /\ ~d.ended
      /\ detections' = [detections EXCEPT ![k].ended = TRUE]
      /\ UNCHANGED <<current, made, preview, floor, scan, op, asking, closing,
                     left>>
      /\ IF d.fresh /\ at # 0
         THEN /\ \E found \in {"sure", "unsure"}:
                   pages' = [pages EXCEPT ![at].edges = found]
              /\ ScheduleRender
              /\ ViewFollows(FALSE)
         ELSE UNCHANGED <<pages, render, pending, busy>>

GeometryFails(k) ==
  /\ ~detections[k].ended
  /\ detections' = [detections EXCEPT ![k].ended = TRUE]
  /\ UNCHANGED <<workspace, preview, floor, busy, render, pending, scan, op,
                 asking, closing, left>>

GeometryFinished(k) ==
  /\ detections[k].ended
  /\ detections' = RemoveAt(detections, k)
  /\ UNCHANGED <<workspace, preview, floor, render, pending, scan, op, asking,
                 closing, left>>
  /\ IF closing THEN UNCHANGED busy ELSE UpdateViewState

----------------------------------------------------------------------------
(* The pages *)

PagesGesture ==
  /\ Gesture
  /\ UNCHANGED <<made, preview, floor, detections, scan, op, asking, closing>>

\* Delete is never disabled; the rows are those of the list.
OnRemovePages ==
  /\ PagesGesture
  /\ \E chosen \in Selections: RemovePages(chosen)
  /\ ScheduleRender /\ ViewFollows(FALSE)

\* The buttons that move a row are never disabled either.
OnReorderPages ==
  /\ PagesGesture
  /\ \E k \in 1 .. Len(shown.pages) - 1:
       LET ids == [i \in DOMAIN shown.pages |-> shown.pages[i].id]
       IN  Reorder([ids EXCEPT ![k] = ids[k + 1], ![k + 1] = ids[k]])
  /\ ScheduleRender /\ ViewFollows(FALSE)

OnRotatePages ==
  /\ PagesGesture /\ ~busy /\ UNCHANGED current
  /\ \E chosen \in Selections: Rotate(chosen)
  /\ ScheduleRender /\ ViewFollows(FALSE)

\* Results on their way are made worthless before the view is emptied.
ClearWorkspace ==
  /\ Gesture
  /\ detections' = InvalidateGeometry
  /\ scan' = OutdateScan
  /\ pages' = <<>> /\ current' = 0
  /\ render' = IF render = NoWorker THEN render
               ELSE [render EXCEPT !.fresh = FALSE]
  /\ pending' = FALSE
  /\ shown' = [pages |-> <<>>, crop |-> crop] /\ overlay' = NoPage
  /\ floor' = made
  /\ UNCHANGED <<made, crop, blind, op, asking, closing>>
  /\ UpdateViewState

\* Nothing that comes later is used; the threads are waited for.
Shutdown ==
  /\ ~closing /\ ~asking
  /\ closing' = TRUE
  /\ render' = IF render = NoWorker THEN render
               ELSE [render EXCEPT !.fresh = FALSE]
  /\ pending' = FALSE
  /\ scan' = OutdateScan
  /\ detections' = InvalidateGeometry
  /\ UNCHANGED <<workspace, preview, floor, busy, op, asking, left>>

----------------------------------------------------------------------------
Worker ==
  \/ ScanSucceeds \/ ScanFails \/ CleanupScanWorker
  \/ OnPagesLoaded \/ ReplaceWithPdf
  \/ OperationEnds \/ CleanupOperation
  \/ RenderSucceeded \/ RenderFails \/ CleanupRender
  \/ \E k \in DOMAIN detections:
       GeometryReady(k) \/ GeometryFails(k) \/ GeometryFinished(k)

User ==
  \/ OnScanRequested \/ OnImportImages \/ OnOpenPdf \/ OnAddPdfs
  \/ OnSavePdf \/ OnExtractPages \/ OnSplitPdf \/ OnAddToGed \/ GedAnswered
  \/ ToggleCrop \/ SetCurrentPage
  \/ OnDetect \/ ManualGeometry \/ ResetGeometry
  \/ OnRemovePages \/ OnReorderPages \/ OnRotatePages
  \/ ClearWorkspace \/ Shutdown

CaptureNext == Worker \/ User

CaptureSpec == CaptureInit /\ [][CaptureNext]_captureVars

\* The threads run to their end, and the event loop delivers their signals.
CaptureFairSpec == CaptureSpec /\ WF_captureVars(Worker)

----------------------------------------------------------------------------
(* Properties *)

\* What can be seen of the pages in the preview: the cut is not shown when the
\* user has asked for the original.
Cut(ps, cropped) ==
  [k \in DOMAIN ps |->
     [id |-> ps[k].id, turn |-> ps[k].turn, cut |-> cropped /\ CanCrop(ps[k])]]

Shows(view, ps) == Cut(view.pages, view.crop) = Cut(ps, view.crop)

SaveShows ==
  op = NoWorker /\ op' # NoWorker /\ op'.kind \in Writes \ {"ged"} /\ ~blind
    => \/ Shows(shown, op'.pages)
       \/ /\ op'.kind = "extract"
          /\ \E chosen \in Selections:
               Shows([shown EXCEPT !.pages = Keep(@, chosen)], op'.pages)

\* What is saved, extracted or split is what the preview shows when the user
\* asks for it, page by page, turned and cut the same way, unless the user
\* was told that the preview could not be made.
SavedAsShown == [][SaveShows]_captureVars

DetectionAnswers ==
  \A i \in DOMAIN pages, j \in DOMAIN pages':
    /\ pages[i].id = pages'[j].id
    /\ pages'[j].edges \in {"sure", "unsure"}
    /\ pages'[j].edges # pages[i].edges
    => \E k \in DOMAIN detections:
         /\ detections[k].page = pages[i].id /\ ~detections[k].ended
         /\ detections[k].from = pages[i].edges

\* Edges found by a detection never replace edges the page was given, by hand
\* or by another command, after that detection began.
DetectionStands == [][DetectionAnswers]_captureVars

\* Nothing is done to the pages behind the user's back: what is saved was shown,
\* and a late detection takes no edges back.
UserDecides == SavedAsShown /\ DetectionStands

\* After "Limpar" no page that was there, or that the scanner was reading,
\* comes back into the workspace or its preview.
ClearedStaysCleared ==
  \A id \in Ids(pages) \cup Ids(shown.pages): id > floor

\* When the workers have ended the preview shows the pages, the list counts
\* them, and the buttons are enabled again, whatever overlapped.
PreviewCatchesUp ==
  <>[](closing \/ (/\ ~busy
                   /\ pages # <<>> /\ ~blind => Shows(shown, pages)))
=============================================================================
