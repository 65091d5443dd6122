---------------------------- MODULE ValidationDialog ----------------------------
(***************************************************************************)
(* DocumentValidationController and DocumentValidationWorker: the dialog   *)
(* that looks a received file or a typed code up among the registered      *)
(* documents, one thread for each request.                                 *)
(*                                                                         *)
(* A new request, a change of what is entered and the end of the dialog    *)
(* supersede every request before; what one of those has queued is still   *)
(* delivered.  A registered document is named by the document it preserves *)
(* and its code by the same name.  What DocumentValidationService keeps of *)
(* a record is in the module DocumentValidation.                           *)
(***************************************************************************)
EXTENDS PdfViewer

VARIABLES
  form,  \* the dialog
  tasks  \* _workers

validationVars == <<form, tasks>>

NoForm == [open |-> FALSE]

\* What the dialog shows: the record found, or one of these.
Blank == [record |-> "blank", file |-> NoDoc, code |-> NoDoc]
NotFound == "not found"
Several == "several"

\* Neither is the name of a document.
ASSUME DialogAssumption == NotFound \notin Docs /\ Several \notin Docs

Form(file) ==
  [open |-> TRUE, file |-> file, code |-> NoDoc, result |-> Blank,
   ready |-> TRUE, dropped |-> FALSE]

ValidationInit ==
  /\ form \in {NoForm} \cup {Form(file) : file \in Docs}
  /\ tasks = {}

\* The generation of every request so far has passed.
Passed(others) ==
  {[t EXCEPT !.own = FALSE, !.stop = @ \/ Runs(t)] : t \in others}

\* invalidate.
Invalidate(file, code) ==
  /\ form' = [form EXCEPT !.file = file, !.code = code, !.result = Blank,
                          !.ready = TRUE, !.dropped = FALSE]
  /\ tasks' = Passed(tasks)

\* _start: the dialog waits for this request only.
StartTask(does, file, code, record, result) ==
  /\ form' = [form EXCEPT !.file = file, !.code = code, !.result = result,
                          !.ready = FALSE, !.dropped = FALSE]
  /\ tasks' = Passed(tasks) \cup
       {[does |-> does, at |-> "runs", file |-> file, code |-> code,
         record |-> record, org |-> org, own |-> TRUE, stop |-> FALSE]}

\* close, by the user, or when the organization changes or the session ends.
CloseForm == form' = NoForm /\ tasks' = Passed(tasks)

----------------------------------------------------------------------------
(* The user *)

Asks == Gesture("validation") /\ UNCHANGED <<session, viewerVars>>

\* show: for the document open in the viewer, if there is one.
Show == Asks /\ ~form.open /\ form' = Form(path) /\ UNCHANGED tasks

\* select_file, and the locator edited.
Enter ==
  /\ Asks /\ form.open
  /\ \/ \E file \in Docs : Invalidate(file, form.code)
     \/ \E code \in (Docs \cup {NoDoc}) \ {form.code} :
          Invalidate(form.file, code)

\* check, also once the record shown has been revoked.
Check ==
  /\ Asks /\ form.open
  /\ form.ready \/ form.result.record \in Docs
  /\ form.file # NoDoc \/ form.code # NoDoc
  /\ StartTask("check", form.file, form.code, NoDoc, Blank)

\* select_matching_record: its code is entered and checked.
SelectMatchingRecord ==
  /\ Asks /\ form.open /\ form.result.record = Several
  /\ \E code \in Docs : StartTask("check", form.file, code, NoDoc, Blank)

\* open_original and export, of the record shown; read_qr, at any time.
UseRecord ==
  /\ Asks /\ form.open
  /\ \/ \E does \in {"original", "export"} :
          /\ form.result.record \in Docs
          /\ StartTask(does, form.file, form.code, form.result.record,
                       form.result)
     \/ StartTask("qr", form.file, form.code, NoDoc, form.result)

CloseDialog == Asks /\ form.open /\ CloseForm

ValidationGesture ==
  Show \/ Enter \/ Check \/ SelectMatchingRecord \/ UseRecord \/ CloseDialog

----------------------------------------------------------------------------
(* The threads *)

\* validate: by the code, or by the bytes of the file, which several records
\* may share; read_qr finds any code.
Verifies(t) ==
  CASE t.does = "check" /\ t.code # NoDoc -> {t.code, NotFound}
    [] t.does = "check" /\ t.code = NoDoc -> {t.file, NotFound, Several}
    [] t.does = "qr" -> Docs
    [] OTHER -> {t.record}

\* Interrupted, the thread says nothing.
TaskEnds(t) ==
  /\ Runs(t)
  /\ IF t.stop THEN tasks' = tasks \ {t}
     ELSE \/ tasks' = (tasks \ {t}) \cup {Done(t, "failed")}
          \/ \E found \in Verifies(t) :
               tasks' = (tasks \ {t})
                 \cup {Done([t EXCEPT !.record = found], "ended")}
  /\ UNCHANGED form

\* current, when the result of a request arrives.
IsCurrent(t) == form.open /\ t.own /\ t.org = org

\* _display, and setText of the code that was read, which invalidates.
TaskDelivered(t) ==
  /\ t.at # "runs"
  /\ CASE IsCurrent(t) /\ t.at = "ended" /\ t.does = "check" ->
            /\ form' = [form EXCEPT !.ready = TRUE, !.result =
                 [record |-> t.record, file |-> t.file, code |-> t.code]]
            /\ tasks' = tasks \ {t}
       [] IsCurrent(t) /\ t.at = "ended" /\ t.does = "qr"
            /\ t.record # form.code ->
            /\ form' = [form EXCEPT !.ready = TRUE, !.code = t.record,
                                    !.result = Blank]
            /\ tasks' = Passed(tasks \ {t})
       [] OTHER ->
            /\ form' = IF form.open /\ t.own
                       THEN [form EXCEPT !.ready = @ \/ t.org = org,
                                         !.dropped = @ \/ t.org # org]
                       ELSE form
            /\ tasks' = tasks \ {t}

\* The original of the record asked for, verified, is opened in the viewer.
OpensOriginal(t) ==
  IsCurrent(t) /\ t.at = "ended" /\ t.does = "original"

ValidationMachine ==
  \E t \in tasks :
    /\ TaskEnds(t) \/ TaskDelivered(t)
    /\ UNCHANGED <<session, left>>
    /\ IF OpensOriginal(t) THEN Open(t.record) ELSE UNCHANGED viewerVars

----------------------------------------------------------------------------

\* What the dialog says of a file and a code is about those entered now.
AnswerIsOfEntered ==
  form.open /\ form.result # Blank =>
    /\ form.result.file = form.file /\ form.result.code = form.code
    /\ form.result.record \in Docs =>
         form.result.record \in {form.file, form.code}

\* A request is answered, or its answer was dropped because another
\* organization was active by then.
RequestsAreAnswered == form.open => form.ready \/ form.dropped
=============================================================================
