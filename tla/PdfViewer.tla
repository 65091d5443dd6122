------------------------------- MODULE PdfViewer -------------------------------
(***************************************************************************)
(* PDFViewerController: one document, its current page, and the threads    *)
(* that render it, make its thumbnails and search it.                      *)
(*                                                                         *)
(* A new rendering or search interrupts the one before, and closing a      *)
(* document interrupts everything, but what a thread has queued before is  *)
(* still delivered.  A worker is "own" while it is the controller's worker *)
(* of its kind.  Zoom and rotation are one parameter, the look; the pages  *)
(* rendered ahead of time only fill a cache and are left out.              *)
(***************************************************************************)
EXTENDS DesktopSession, FiniteSetsExt

CONSTANTS
  Docs,      \* files the viewer may be asked to open
  PageCount  \* pages of each

ASSUME ViewerAssumption == PageCount \in Nat \ {0}

VARIABLES
  path,    \* _path
  page,    \* _page
  look,    \* _zoom and _rotation
  hits,    \* _search_results: the pages with a hit
  shown,   \* what the preview shows
  thumbs,  \* the documents whose thumbnails are in the list
  told,    \* the user was told that the page could not be rendered
  workers  \* _workers

viewerVars == <<path, page, look, hits, shown, thumbs, told, workers>>

NoDoc == "none"
Nothing == [path |-> NoDoc, page |-> 0, look |-> 0]
Pages == 1 .. PageCount
Looks == 0 .. 1

\* At rest, with a document read to the end of its preparations or without.
ViewerInit ==
  /\ path \in Docs \cup {NoDoc} /\ page = 1 /\ look = 0
  /\ shown = IF path = NoDoc THEN Nothing
             ELSE [path |-> path, page |-> 1, look |-> 0]
  /\ thumbs = {path} \ {NoDoc}
  /\ hits = {} /\ told = FALSE /\ workers = {}

Worker(kind, doc, p, k) ==
  [kind |-> kind, at |-> "runs", path |-> doc, page |-> p, look |-> k,
   own |-> TRUE, stop |-> FALSE, found |-> {}]

\* What becomes of the workers of these kinds when another one, or none,
\* takes their place.
Superseded(kinds, others) ==
  {IF w.kind \in kinds /\ w.own
   THEN [w EXCEPT !.own = FALSE, !.stop = @ \/ Runs(w)]
   ELSE w : w \in others}

\* _render_current.
RenderCurrent(others) ==
  /\ told' = FALSE
  /\ workers' = Superseded({"render"}, others)
       \cup {Worker("render", path, page', look')}

Close ==
  /\ path' = NoDoc /\ hits' = {} /\ shown' = Nothing /\ thumbs' = {}
  /\ told' = FALSE
  /\ workers' = Superseded({"render", "thumbnails", "search"}, workers)
  /\ UNCHANGED <<page, look>>

\* open_document: the document before is closed even when this one turns out
\* not to be readable, or its password is not given.
Open(doc) ==
  \/ Close
  \/ /\ path' = doc /\ page' = 1 /\ look' = 0
     /\ hits' = {} /\ shown' = Nothing /\ thumbs' = {} /\ told' = FALSE
     /\ workers' = Superseded({"render", "thumbnails", "search"}, workers)
          \cup {Worker("render", doc, 1, 0), Worker("thumbnails", doc, 0, 0)}

----------------------------------------------------------------------------
(* The user *)

\* go_to_page, also to the page where one is: rendered again.
GoToPage ==
  /\ Gesture("viewer") /\ path # NoDoc
  /\ page' \in Pages
  /\ UNCHANGED <<session, path, look, hits, shown, thumbs>>
  /\ RenderCurrent(workers)

\* set_zoom, to another zoom, or _rotate.
ChangeLook ==
  /\ Gesture("viewer") /\ path # NoDoc
  /\ look' \in Looks \ {look}
  /\ UNCHANGED <<session, path, page, hits, shown, thumbs>>
  /\ RenderCurrent(workers)

StartSearch ==
  /\ Gesture("viewer") /\ path # NoDoc
  /\ workers' = Superseded({"search"}, workers) \cup {Worker("search", path, 0, 0)}
  /\ UNCHANGED <<session, path, page, look, hits, shown, thumbs, told>>

\* _move_search, forwards or backwards.
MoveSearch ==
  /\ Gesture("viewer") /\ path # NoDoc
  /\ page' \in hits
  /\ UNCHANGED <<session, path, look, hits, shown, thumbs>>
  /\ RenderCurrent(workers)

\* return_to_documents.
ReturnToDocuments == Gesture("viewer") /\ UNCHANGED session /\ Close

----------------------------------------------------------------------------
(* Threads: interrupted, they queue nothing more *)

Replace(w, v) == workers' = (workers \ {w}) \cup v

RenderEnds(w) ==
  /\ w.kind = "render" /\ Runs(w)
  /\ IF w.stop THEN Replace(w, {})
     ELSE \E how \in {"ended", "failed"} : Replace(w, {Done(w, how)})
  /\ UNCHANGED <<session, left, path, page, look, hits, shown, thumbs, told>>

\* Thumbnails are queued one by one, before an interruption as well.
ThumbnailsEnd(w) ==
  /\ w.kind = "thumbnails" /\ Runs(w)
  /\ \/ Replace(w, {Done(w, "ended")})
     \/ w.stop /\ Replace(w, {})
  /\ UNCHANGED <<session, left, path, page, look, hits, shown, thumbs, told>>

SearchEnds(w) ==
  /\ w.kind = "search" /\ Runs(w)
  /\ IF w.stop THEN Replace(w, {})
     ELSE \/ Replace(w, {Done(w, "failed")})
          \/ \E found \in SUBSET Pages :
               Replace(w, {Done([w EXCEPT !.found = found], "ended")})
  /\ UNCHANGED <<session, left, path, page, look, hits, shown, thumbs, told>>

----------------------------------------------------------------------------
(* Their signals, delivered: the result, then the end *)

\* _on_rendered: of the controller's own worker, and of its page.
OnRendered(w) ==
  /\ w.kind = "render" /\ w.at = "ended"
  /\ shown' = IF w.own /\ w.page = page
              THEN [path |-> w.path, page |-> w.page, look |-> w.look]
              ELSE shown
  /\ Replace(w, {})
  /\ UNCHANGED <<session, left, path, page, look, hits, thumbs, told>>

\* _worker_failed, of a rendering or a search.
WorkerFailed(w) ==
  /\ w.at = "failed"
  /\ told' = (told \/ (w.kind = "render" /\ w.own /\ path # NoDoc))
  /\ Replace(w, {})
  /\ UNCHANGED <<session, left, path, page, look, hits, shown, thumbs>>

ThumbnailsReady(w) ==
  /\ w.kind = "thumbnails" /\ w.at = "ended"
  /\ thumbs' = IF w.own /\ path # NoDoc THEN thumbs \cup {w.path} ELSE thumbs
  /\ Replace(w, {})
  /\ UNCHANGED <<session, left, path, page, look, hits, shown, told>>

\* _on_search_results: to the first hit, if there is one.
OnSearchResults(w) ==
  /\ w.kind = "search" /\ w.at = "ended"
  /\ IF w.own /\ w.found # {}
     THEN /\ hits' = w.found /\ page' = Min(w.found)
          /\ UNCHANGED look
          /\ RenderCurrent(workers \ {w})
     ELSE /\ hits' = IF w.own THEN {} ELSE hits
          /\ Replace(w, {})
          /\ UNCHANGED <<page, look, told>>
  /\ UNCHANGED <<session, left, path, shown, thumbs>>

ViewerMachine ==
  \E w \in workers :
    \/ RenderEnds(w) \/ ThumbnailsEnd(w) \/ SearchEnds(w)
    \/ OnRendered(w) \/ WorkerFailed(w) \/ ThumbnailsReady(w)
    \/ OnSearchResults(w)

ViewerGesture ==
  GoToPage \/ ChangeLook \/ StartSearch \/ MoveSearch \/ ReturnToDocuments

\* The page and the thumbnails on the screen are of the open document.
PageIsOfDocument ==
  /\ shown.path \in {NoDoc, path}
  /\ thumbs \subseteq {path} \ {NoDoc}

\* The page one is at is on the screen, as one wants it, or the user was
\* told that it cannot be rendered.
PageIsCurrent ==
  path # NoDoc =>
    told \/ shown = [path |-> path, page |-> page, look |-> look]
=============================================================================
