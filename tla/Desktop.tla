-------------------------------- MODULE Desktop --------------------------------
(***************************************************************************)
(* AppController and AuthController: the transport coordinator, the        *)
(* documents screen and the PDF viewer under one session.                  *)
(*                                                                         *)
(* A gesture, a login or the delivery of a result may concern several of   *)
(* them; the active organization may change by two ways that do not tell   *)
(* the same controllers.  A modal question keeps the user from everything  *)
(* else, not the threads and the timers.                                   *)
(***************************************************************************)
EXTENDS TransportCoordinator, DocumentScreen, ValidationDialog, Converter

\* The windows that the rest of the interface leaves alone.
toolVars == <<converterVars, validationVars>>

desktopVars ==
  <<session, left, transportVars, documentVars, viewerVars, toolVars>>

DesktopInit ==
  /\ SessionInit /\ TransportInit /\ DocumentInit /\ ViewerInit
  /\ ConverterInit /\ ValidationInit

----------------------------------------------------------------------------
(* The user *)

\* on_paste_document, on_permanent_delete_document, on_empty_trash: rows
\* for the cloud and for the transport, whose coordinator is notified.
ChangeDocuments ==
  /\ Gesture("documents")
  /\ UNCHANGED <<session, viewerVars, toolVars>>
  /\ DocumentsChange /\ JobQueued

\* retry_failed of the transport's settings dialog.
RetryFailed ==
  /\ Gesture("transport")
  /\ UNCHANGED <<session, documentVars, viewerVars, toolVars>>
  /\ JobQueued

\* The combo box of the documents screen, a new organization, or the one
\* that takes the place of a deleted one: organization_changed is emitted.
SelectOrganization(o) ==
  /\ Gesture("session") /\ o # org
  /\ org' = o
  /\ UNCHANGED <<inside, login, uses, kicks, due, automatic, converterVars>>
  /\ DocumentOrganizationChanged
  /\ TransportOrganizationChanged(o)
  /\ Close /\ CloseForm

\* DocumentController.activate, from the sidebar or after the account menu
\* has switched the organization: the coordinator hears of a job at most,
\* the viewer of nothing.
ActivateDocuments(o) ==
  /\ Gesture("session")
  /\ org' = o
  /\ UNCHANGED <<inside, login, uses, kicks, due, automatic, viewerVars,
                 toolVars>>
  /\ DocumentOrganizationChanged
  /\ Trigger(o)

\* AppController.shutdown; the viewer goes with its window.
Shutdown ==
  /\ TransportShutdown /\ DocumentShutdown /\ ConverterShutdown /\ CloseForm
  /\ path' = NoDoc /\ page' = 1 /\ look' = 0 /\ hits' = {}
  /\ shown' = Nothing /\ thumbs' = {} /\ told' = FALSE /\ workers' = {}

\* logout: the windows close; what their threads do goes on.
Logout ==
  /\ inside /\ inside' = FALSE
  /\ UNCHANGED <<org, login, uses, left>>
  /\ Shutdown

\* login, with an organization of the user's, and new controllers.
Login ==
  /\ ~inside /\ login < MaxLogins
  /\ inside' = TRUE /\ login' = login + 1 /\ org' \in Orgs
  /\ kicks' = {org'}
  /\ UNCHANGED <<uses, left, due, automatic, viewerVars, toolVars>>
  /\ DocumentStart
  /\ Trigger(org')

\* What the windows' signals are connected to.
UserActs ==
  /\ NoQuestion
  /\ \/ ChangeDocuments \/ RetryFailed \/ Logout \/ Login
     \/ \E o \in Orgs : SelectOrganization(o) \/ ActivateDocuments(o)
     \/ SaveConfiguration /\ UNCHANGED <<documentVars, viewerVars, toolVars>>
     \/ /\ \/ SyncNow \/ AddCloudAccount \/ DisconnectCloud
           \/ OnImportDocument \/ (\E doc \in Docs : OnOpenDocument(doc))
        /\ UNCHANGED <<transportVars, viewerVars, toolVars>>
     \/ ViewerGesture /\ UNCHANGED <<transportVars, documentVars, toolVars>>
     \/ /\ ConverterGesture
        /\ UNCHANGED <<transportVars, documentVars, viewerVars, validationVars>>
     \/ /\ ValidationGesture
        /\ UNCHANGED <<transportVars, documentVars, converterVars>>

----------------------------------------------------------------------------
(* Results that more than one of them hears of *)

\* An import stores jobs as it goes, interrupted or not.
ImportStores ==
  \E l \in Logins :
    LET o == imports[l].org
    IN  /\ ImportEnds(l)
        /\ due' = [due EXCEPT ![o] = @ + (files'[o] - files[o])]
        /\ UNCHANGED <<threads, registry, worker, pending, kicks, automatic,
                       viewerVars, toolVars>>

\* The screen is drawn and the coordinator notified, of this login's import
\* only: that of an earlier one is stopping.
ImportCompleted ==
  \E l \in Logins :
    /\ ImportResult(l)
    /\ UNCHANGED <<kicks, due, automatic, viewerVars, toolVars>>
    /\ IF imports[l].org = org /\ ~Closing(l)
       THEN Trigger(org) ELSE UNCHANGED coordinator

\* opened: into the viewer, whatever it shows by now.
DocumentOpened ==
  \E w \in opening :
    /\ OpenDelivered(w)
    /\ UNCHANGED <<transportVars, toolVars>>
    /\ IF Opens(w) THEN Open(w.doc) ELSE UNCHANGED viewerVars

ScreenActs ==
  \/ DocumentMachine /\ UNCHANGED <<transportVars, viewerVars, toolVars>>
  \/ ImportStores \/ ImportCompleted \/ DocumentOpened

ViewerActs ==
  ViewerMachine /\ UNCHANGED <<transportVars, documentVars, toolVars>>

ConverterActs ==
  /\ ConverterMachine
  /\ UNCHANGED <<transportVars, documentVars, viewerVars, validationVars>>

ValidationActs ==
  /\ ValidationMachine
  /\ UNCHANGED <<transportVars, documentVars, converterVars>>

TransportActs ==
  /\ UNCHANGED <<documentVars, viewerVars, toolVars>>
  /\ Kick \/ TransportTimer \/ \E i \in Ids : TransportThread(i)

DesktopNext ==
  \/ UserActs \/ ScreenActs \/ ViewerActs \/ ConverterActs
  \/ ValidationActs \/ TransportActs

\* Threads end, the event loop delivers, the timers fire.
Behaves ==
  /\ [][DesktopNext]_desktopVars
  /\ WF_desktopVars(ScreenActs)
  /\ WF_desktopVars(ViewerActs)
  /\ WF_desktopVars(ConverterActs)
  /\ WF_desktopVars(ValidationActs)
  /\ WF_desktopVars(TransportActs)

DesktopSpec == DesktopInit /\ Behaves

----------------------------------------------------------------------------

\* Whatever the order of switches, logins and late results: an organization
\* has one worker at its transport queue and one at its cloud queue, the
\* figures are the active organization's, the page and the thumbnails are
\* the open document's, a conversion leaves all it says and no more, and what
\* is said of a received file is about that file.
DesktopSound ==
  /\ OneTransportWorker /\ OneSyncWorker /\ FiguresAreOwn
  /\ PageIsOfDocument /\ ConversionIsWhole /\ AnswerIsOfEntered

\* Once the user asks for nothing more, what was asked for comes and stays:
\* the physical usage, the page, the end of a conversion, and the jobs of
\* the active organization tried, also those stored without a word to the
\* coordinator.
DesktopCatchesUp ==
  <>[](inside =>
         /\ UsageIsCurrent /\ PageIsCurrent /\ JobsAreTried
         /\ ConverterRests /\ RequestsAreAnswered)
=============================================================================
