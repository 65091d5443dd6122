---------------------------- MODULE DocumentRequests ----------------------------
(***************************************************************************)
(* The document requests of two SmartFile installations: the requester's   *)
(* rows and their way to the responsible's installation, the changes of    *)
(* status by the two users, those the deliveries of the documents make,    *)
(* and the notices the responsible sees.                                   *)
(*                                                                         *)
(* Threads of the requester: the interface, one RequestSendWorker for each *)
(* request (named by it) and the DeliveryQueueWorker (Queue).  Threads of  *)
(* the responsible: the interface, the server threads, the queue's thread,  *)
(* which sends the delivery, and the server thread that takes its receipt. *)
(* The delivery itself is module DocumentDelivery; here it is the few      *)
(* facts its calls of _request_transition depend on.  Requests are named   *)
(* by their row id, in the order of their creation.                        *)
(***************************************************************************)
EXTENDS Naturals, FiniteSets

CONSTANTS
    RequestCount,    \* requests of the requester
    PendingLimit,    \* the LIMIT of pending_remote
    MaxEvents,       \* bound: deaths of a process, changes of account at the
                     \* responsible, peers disabled or enabled again, in all
    Targets,         \* bound: the statuses each user sets
    Queue            \* the name of the queue's thread

ASSUME RequestCountAssumption == RequestCount \in Nat \ {0}
ASSUME PendingLimitAssumption == PendingLimit \in Nat \ {0}
ASSUME RequestBoundsAssumption == MaxEvents \in Nat
ASSUME TargetsAssumption ==
    Targets \in [{"requester", "responsible"} -> SUBSET
        {"IN_PROGRESS", "ATTENDED", "DELIVERING", "DELIVERED", "COMPLETED", "CANCELLED"}]
ASSUME QueueAssumption == Queue \notin 0..RequestCount

VARIABLES
    row,       \* document_requests.status at each installation
    sent,      \* requester: the requests routed, those REQUEST_DISPATCHED
    enabled,   \* requester: the requests whose peer is enabled
    poster,    \* requester: the threads of send_request
    net,       \* POSTs on their way or between the check and the insert
    change,    \* the threads between reading a status and writing another
    delivery,  \* the delivery that answers each request
    notice,    \* responsible: RequestNotificationService, in memory
    saved,     \* responsible: its record in app_settings
    read,      \* responsible: the requests the user has opened (history)
    events     \* crashes, changes of account and toggles so far

sendVars == <<sent, enabled, poster, net>>
noticeVars == <<notice, saved, read>>
vars == <<row, sendVars, change, delivery, noticeVars, events>>

Requests == 1..RequestCount
Sites == {"requester", "responsible"}
Posters == Requests \cup {Queue}
\* The thread that sends a delivery, and the server thread of its receipt.
Workers == {"queue", "server"}
Writers == Sites \cup Workers

Statuses == {"OPEN", "IN_PROGRESS", "ATTENDED", "DELIVERING", "DELIVERED",
             "COMPLETED", "CANCELLED"}
Ended == {"COMPLETED", "CANCELLED"}
Sendable == {"OPEN", "IN_PROGRESS", "ATTENDED"}

\* TRANSITIONS.
Allowed == [OPEN |-> {"IN_PROGRESS", "CANCELLED"},
            IN_PROGRESS |-> {"ATTENDED", "CANCELLED"},
            ATTENDED |-> {"DELIVERING", "CANCELLED"},
            DELIVERING |-> {"DELIVERED", "CANCELLED"},
            DELIVERED |-> {"COMPLETED"},
            COMPLETED |-> {}, CANCELLED |-> {}]

NoPost == [pc |-> "idle", req |-> 0, list |-> {}]
Off == [on |-> FALSE, known |-> {}, unread |-> {}]
NoChange == [req |-> 0, over |-> FALSE, to |-> "NONE"]

Init ==
    /\ row = [s \in Sites |-> [r \in Requests |-> "NONE"]]
    /\ sent = [routed |-> {}, dispatched |-> {}]
    /\ enabled = Requests
    /\ poster = [t \in Posters |-> NoPost]
    /\ net = {}
    /\ change = [t \in Writers |-> NoChange]
    /\ delivery = [r \in Requests |-> [status |-> "NONE", reached |-> "none"]]
    /\ notice = Off
    /\ saved = Off
    /\ read = {}
    /\ events = 0

SiteOf(t) == IF t = "requester" THEN "requester" ELSE "responsible"
Free(t) == change[t] = NoChange
Interface(s) == Free(s) /\ (s = "responsible" => \A r \in Requests :
                                delivery[r].status # "CREATED")

\* A status has been read and the row will be written; over: it had ended.
Decide(t, r, to) ==
    change' = [change EXCEPT ![t] =
                  [req |-> r, over |-> row[SiteOf(t)][r] \in Ended, to |-> to]]

-----------------------------------------------------------------------------
(* The requester creates a request and sends it.                           *)

\* create, and the RequestSendWorker when the responsible has an installation.
CreateRequest(r, remote) ==
    /\ Interface("requester")
    /\ row["requester"][r] = "NONE"
    /\ \A q \in 1..(r - 1) : row["requester"][q] # "NONE"
    /\ row' = [row EXCEPT !["requester"][r] = "OPEN"]
    /\ poster' = IF remote THEN [poster EXCEPT ![r] = [@ EXCEPT !.pc = "post", !.req = r]]
                 ELSE poster
    /\ UNCHANGED <<sent, enabled, net, change, delivery, noticeVars, events>>

\* pending_remote: the oldest ones only.
PendingRemote ==
    LET pending == {r \in sent.routed \ sent.dispatched : row["requester"][r] = "OPEN"}
    IN  {r \in pending : Cardinality({q \in pending : q < r}) < PendingLimit}

\* process_pending_requests reads the list once ...
PickRequests ==
    /\ poster[Queue].pc = "idle" /\ poster[Queue].list = {}
    /\ PendingRemote # {}
    /\ poster' = [poster EXCEPT ![Queue].list = PendingRemote]
    /\ UNCHANGED <<row, sent, enabled, net, change, delivery, noticeVars, events>>

\* ... and takes its requests in order, passing over disabled peers.
NextRequest ==
    /\ poster[Queue].pc = "idle"
    /\ \E r \in poster[Queue].list :
          /\ \A q \in poster[Queue].list : r <= q
          /\ poster' = [poster EXCEPT ![Queue] =
                [pc |-> IF r \in enabled THEN "post" ELSE "idle",
                 req |-> IF r \in enabled THEN r ELSE 0,
                 list |-> @.list \ {r}]]
    /\ UNCHANGED <<row, sent, enabled, net, change, delivery, noticeVars, events>>

\* Mutant: the request is marked before the answer is known.
PostMarked(t) ==
    /\ poster[t].pc = "post"
    /\ sent' = [routed |-> sent.routed \cup {poster[t].req},
                dispatched |-> sent.dispatched \cup {poster[t].req}]
    /\ net' = net \cup {[by |-> t, req |-> poster[t].req, pc |-> "way",
                         status |-> row["requester"][poster[t].req]]}
    /\ poster' = [poster EXCEPT ![t].pc = "wait"]
    /\ UNCHANGED <<row, enabled, change, delivery, noticeVars, events>>

\* send_request: update_route, the payload with the status of that moment, and
\* the POST.
Post(t) ==
    /\ poster[t].pc = "post"
    /\ sent' = [sent EXCEPT !.routed = @ \cup {poster[t].req}]
    /\ net' = net \cup {[by |-> t, req |-> poster[t].req, pc |-> "way",
                         status |-> row["requester"][poster[t].req]]}
    /\ poster' = [poster EXCEPT ![t].pc = "wait"]
    /\ UNCHANGED <<row, enabled, change, delivery, noticeVars, events>>

\* The end of an attempt.
Rest(t) == [poster EXCEPT ![t].pc = "idle", ![t].req = 0]

\* The peer cannot be reached and the POST is lost, or the client stops waiting for
\* the server that handles it.
GiveUp(t) ==
    /\ poster[t].pc = "wait"
    /\ \E m \in net :
          /\ m.by = t
          /\ net' = (net \ {m}) \cup (IF m.pc = "way" THEN {} ELSE {[m EXCEPT !.by = 0]})
    /\ poster' = Rest(t)
    /\ UNCHANGED <<row, sent, enabled, change, delivery, noticeVars, events>>

\* mark_request_dispatched.
Dispatched(t) ==
    /\ poster[t].pc = "answered"
    /\ sent' = [sent EXCEPT !.dispatched = @ \cup {poster[t].req}]
    /\ poster' = Rest(t)
    /\ UNCHANGED <<row, enabled, net, change, delivery, noticeVars, events>>

\* The answer of the server, if its client still waits.
Answer(m, ok) ==
    IF m.by = 0 THEN poster
    ELSE IF ok THEN [poster EXCEPT ![m.by].pc = "answered"] ELSE Rest(m.by)

\* receive_request: a known request is returned as it is ...
ReceiveKnown(m) ==
    /\ m.pc = "way"
    /\ row["responsible"][m.req] # "NONE"
    /\ net' = net \ {m}
    /\ poster' = Answer(m, TRUE)
    /\ UNCHANGED <<row, sent, enabled, change, delivery, noticeVars, events>>

\* ... one of another status is refused ...
RefuseRequest(m) ==
    /\ m.pc = "way"
    /\ row["responsible"][m.req] = "NONE"
    /\ m.status \notin Sendable
    /\ net' = net \ {m}
    /\ poster' = Answer(m, FALSE)
    /\ UNCHANGED <<row, sent, enabled, change, delivery, noticeVars, events>>

\* ... and a new one passes the checks ...
CheckRequest(m) ==
    /\ m.pc = "way"
    /\ row["responsible"][m.req] = "NONE"
    /\ m.status \in Sendable
    /\ net' = (net \ {m}) \cup {[m EXCEPT !.pc = "checked"]}
    /\ UNCHANGED <<row, sent, enabled, poster, change, delivery, noticeVars, events>>

\* ... and is inserted, unless the UNIQUE uuid refuses it.
InsertRequest(m) ==
    /\ m.pc = "checked"
    /\ net' = net \ {m}
    /\ LET new == row["responsible"][m.req] = "NONE"
       IN  /\ row' = IF new THEN [row EXCEPT !["responsible"][m.req] = m.status] ELSE row
           /\ poster' = Answer(m, new)
    /\ UNCHANGED <<sent, enabled, change, delivery, noticeVars, events>>

\* The peer of a request is disabled or enabled again.
TogglePeer(r) ==
    /\ events < MaxEvents
    /\ enabled' = IF r \in enabled THEN enabled \ {r} ELSE enabled \cup {r}
    /\ events' = events + 1
    /\ UNCHANGED <<row, sent, poster, net, change, delivery, noticeVars>>

-----------------------------------------------------------------------------
(* The two users change the status of their rows.                          *)

\* set_status reads the row and checks the transition; COMPLETED is always let
\* through.
BeginChange(s, r, to) ==
    /\ Interface(s)
    /\ row[s][r] # "NONE"
    /\ to \in Targets[s] \cap (Allowed[row[s][r]] \cup {"COMPLETED"})
    /\ Decide(s, r, to)
    /\ UNCHANGED <<row, sendVars, delivery, noticeVars, events>>

\* The write of set_status or of _request_transition: it looks at nothing.
WriteStatus(t) ==
    /\ ~Free(t)
    /\ row' = [row EXCEPT ![SiteOf(t)][change[t].req] = change[t].to]
    /\ change' = [change EXCEPT ![t] = NoChange]
    /\ UNCHANGED <<sendVars, delivery, noticeVars, events>>

-----------------------------------------------------------------------------
(* The delivery that answers a request.                                    *)

\* _request_transition: what it lets through.
Passes(status, to) ==
    \/ <<status, to>> \in {<<"ATTENDED", "DELIVERING">>, <<"DELIVERING", "DELIVERED">>,
                           <<"DELIVERED", "COMPLETED">>}
    \/ to = "DELIVERED" /\ status \in Sendable
    \/ to = "COMPLETED" /\ status \notin Ended

\* Its read, on thread t of the responsible; WriteStatus is its write.
Transition(t, r, to) ==
    /\ Free(t)
    /\ IF Passes(row["responsible"][r], to) THEN Decide(t, r, to) ELSE UNCHANGED change

\* create: the request must be ATTENDED; one delivery answers it here.
CreateDelivery(r) ==
    /\ Interface("responsible")
    /\ row["responsible"][r] = "ATTENDED"
    /\ delivery[r].status = "NONE"
    /\ delivery' = [delivery EXCEPT ![r].status = "CREATED"]
    /\ UNCHANGED <<row, sendVars, change, noticeVars, events>>

\* queue, in the same turn of the interface.
QueueDelivery(r) ==
    /\ delivery[r].status = "CREATED"
    /\ delivery' = [delivery EXCEPT ![r].status = "QUEUED"]
    /\ Transition("responsible", r, "DELIVERING")
    /\ UNCHANGED <<row, sendVars, noticeVars, events>>

\* send_once takes the delivery ...
TakeDelivery(r) ==
    /\ Free("queue")
    /\ delivery[r].status = "QUEUED"
    /\ delivery' = [delivery EXCEPT ![r].status = "SENDING"]
    /\ UNCHANGED <<row, sendVars, change, noticeVars, events>>

\* ... every item is at the requester, and verified ...
Arrive(r) ==
    /\ delivery[r].status = "SENDING"
    /\ delivery' = [delivery EXCEPT ![r] =
          [status |-> "ARRIVED", reached |-> IF @.reached = "none" THEN "arrived" ELSE @.reached]]
    /\ UNCHANGED <<row, sendVars, change, noticeVars, events>>

\* ... and mark_delivered.
MarkDelivered(r) ==
    /\ delivery[r].status = "ARRIVED"
    /\ delivery' = [delivery EXCEPT ![r].status = "DELIVERED"]
    /\ Transition("queue", r, "DELIVERED")
    /\ UNCHANGED <<row, sendVars, noticeVars, events>>

\* The transfer, or its answer, fails: queue again.
Requeue(r) ==
    /\ delivery[r].status \in {"SENDING", "ARRIVED"}
    /\ delivery' = [delivery EXCEPT ![r].status = "QUEUED"]
    /\ Transition("queue", r, "DELIVERING")
    /\ UNCHANGED <<row, sendVars, noticeVars, events>>

\* The requester confirms: the receipt and the end of the request are one
\* transaction.
Confirm(r) ==
    /\ delivery[r].reached = "arrived"
    /\ delivery' = [delivery EXCEPT ![r].reached = "confirmed"]
    /\ row' = IF Passes(row["requester"][r], "COMPLETED")
              THEN [row EXCEPT !["requester"][r] = "COMPLETED"] ELSE row
    /\ UNCHANGED <<sendVars, change, noticeVars, events>>

\* The receipt reaches the responsible: receive_receipt_content.
ReceiptArrives(r) ==
    /\ delivery[r].reached = "confirmed"
    /\ delivery' = [delivery EXCEPT ![r].reached = "returned"]
    /\ Transition("server", r, "COMPLETED")
    /\ UNCHANGED <<row, sendVars, noticeVars, events>>

\* Mutant: a status answer is applied without its receipt.
ApplyAnyStatus(r) ==
    /\ \A q \in Requests : delivery[q].status \notin {"SENDING", "ARRIVED"}
    /\ delivery[r].reached # "none"
    /\ Passes(row["responsible"][r], "COMPLETED")
    /\ Transition("queue", r, "COMPLETED")
    /\ UNCHANGED <<row, sendVars, delivery, noticeVars, events>>

\* A status query of the queue finds it: apply_remote_status.
ApplyRemoteStatus(r) ==
    /\ \A q \in Requests : delivery[q].status \notin {"SENDING", "ARRIVED"}
    /\ delivery[r].reached = "returned"
    /\ Passes(row["responsible"][r], "COMPLETED")
    /\ Transition("queue", r, "COMPLETED")
    /\ UNCHANGED <<row, sendVars, delivery, noticeVars, events>>

-----------------------------------------------------------------------------
(* RequestNotificationService, for the responsible's account.              *)

Current == {r \in Requests : row["responsible"][r] \notin Ended \cup {"NONE"}}

\* Mutant: activate takes what there is now for known.
ActivateKnown ==
    /\ Interface("responsible") /\ ~notice.on
    /\ notice' = [on |-> TRUE, known |-> Current,
                  unread |-> IF saved.on THEN saved.unread \cap Current ELSE Current]
    /\ saved' = notice'
    /\ UNCHANGED <<row, sendVars, change, delivery, read, events>>

\* activate: after a restart or another account.
Activate ==
    /\ Interface("responsible") /\ ~notice.on
    /\ notice' = IF saved.on
                 THEN [saved EXCEPT !.known = @ \cap Current, !.unread = @ \cap Current]
                 ELSE [on |-> TRUE, known |-> Current, unread |-> Current]
    /\ saved' = notice'
    /\ UNCHANGED <<row, sendVars, change, delivery, read, events>>

\* observe, at every poll.
Observe ==
    /\ Interface("responsible") /\ notice.on
    /\ LET new == Current \ notice.known
       IN  /\ notice' = [notice EXCEPT !.known = Current,
                                       !.unread = (@ \cap Current) \cup new]
           /\ saved' = IF new # {} \/ notice'.unread # notice.unread THEN notice' ELSE saved
    /\ UNCHANGED <<row, sendVars, change, delivery, read, events>>

\* mark_read: the user opens the request.
MarkRead(r) ==
    /\ Interface("responsible") /\ notice.on
    /\ r \in notice.unread
    /\ notice' = [notice EXCEPT !.unread = @ \ {r}]
    /\ saved' = notice'
    /\ read' = read \cup {r}
    /\ UNCHANGED <<row, sendVars, change, delivery, events>>

\* Another account of the organization is used: a record of its own.
SwitchAccount ==
    /\ Interface("responsible") /\ notice.on
    /\ events < MaxEvents
    /\ notice' = Off
    /\ events' = events + 1
    /\ UNCHANGED <<row, sendVars, change, delivery, saved, read>>

-----------------------------------------------------------------------------
(* Either process dies; what it has committed stays.                       *)

CrashRequester ==
    /\ events < MaxEvents
    /\ events' = events + 1
    /\ poster' = [t \in Posters |-> NoPost]
    /\ net' = {[m EXCEPT !.by = 0] : m \in net}
    /\ change' = [change EXCEPT !["requester"] = NoChange]
    /\ UNCHANGED <<row, sent, enabled, delivery, noticeVars>>

CrashResponsible ==
    /\ events < MaxEvents
    /\ events' = events + 1
    /\ net' = {m \in net : m.pc = "way"}
    /\ poster' = [t \in Posters |->
          IF \E m \in net : m.pc = "checked" /\ m.by = t THEN Rest(t)[t] ELSE poster[t]]
    /\ change' = [t \in Writers |-> IF t = "requester" THEN change[t] ELSE NoChange]
    \* A delivery left CREATED or SENDING is taken by no thread again.
    /\ delivery' = [r \in Requests |->
          IF delivery[r].status \in {"CREATED", "SENDING", "ARRIVED"}
          THEN [delivery[r] EXCEPT !.status = "LEFT"] ELSE delivery[r]]
    /\ notice' = Off
    /\ UNCHANGED <<row, sent, enabled, saved, read>>

-----------------------------------------------------------------------------
PosterStep(t) == Post(t) \/ Dispatched(t)
Handle(m) == ReceiveKnown(m) \/ RefuseRequest(m) \/ CheckRequest(m) \/ InsertRequest(m)

Sending ==
    \/ \E r \in Requests, remote \in BOOLEAN : CreateRequest(r, remote)
    \/ PickRequests
    \/ NextRequest
    \/ \E t \in Posters : PosterStep(t) \/ GiveUp(t)
    \/ \E m \in net : Handle(m)
    \/ \E r \in Requests : TogglePeer(r)

Changing ==
    \/ \E s \in Sites, r \in Requests, to \in Statuses : BeginChange(s, r, to)
    \/ \E t \in Writers : WriteStatus(t)

Delivering ==
    \E r \in Requests : CreateDelivery(r) \/ QueueDelivery(r) \/ Confirm(r)
                           \/ ReceiptArrives(r) \/ ApplyRemoteStatus(r)
                           \/ TakeDelivery(r) \/ Arrive(r) \/ MarkDelivered(r)
                           \/ Requeue(r)

Noticing ==
    \/ Activate \/ Observe \/ SwitchAccount
    \/ \E r \in Requests : MarkRead(r)

Next == Sending \/ Changing \/ Delivering \/ Noticing \/ CrashRequester \/ CrashResponsible

Spec == Init /\ [][Next]_vars

-----------------------------------------------------------------------------
(* Properties.                                                             *)

\* Every variable keeps its shape: a thread of the queue works on one of the
\* requests it listed, a writer remembers the status it read.
RequestsTypeOK ==
    /\ row \in [Sites -> [Requests -> Statuses \cup {"NONE"}]]
    /\ sent \in [routed : SUBSET Requests, dispatched : SUBSET Requests]
    /\ enabled \subseteq Requests
    /\ poster \in [Posters -> [pc : {"idle", "post", "wait", "answered"},
                               req : Requests \cup {0}, list : SUBSET Requests]]
    /\ \A m \in net : m \in [by : Posters \cup {0}, req : Requests,
                               pc : {"way", "checked"}, status : Statuses]
    /\ change \in [Writers -> {NoChange} \cup [req : Requests, over : BOOLEAN, to : Statuses]]
    /\ delivery \in [Requests -> [status : {"NONE", "CREATED", "QUEUED", "SENDING",
                                   "ARRIVED", "DELIVERED", "LEFT"},
                        reached : {"none", "arrived", "confirmed", "returned"}]]
    /\ {notice, saved} \subseteq [on : BOOLEAN, known : SUBSET Requests,
                                  unread : SUBSET Requests]
    /\ read \subseteq Requests

\* Types, and: a request with a REQUEST_DISPATCHED event is at the responsible's installation
\* (send_request, receive_request): the queue, which never sends it again, may
\* forget it, whatever was lost, sent twice or cut short.
DispatchedIsHeld ==
    /\ RequestsTypeOK
    /\ \A r \in sent.dispatched : row["responsible"][r] # "NONE"

\* A request that has ended stays ended: what reopens it is a writer that had read
\* the row before (set_status 115-125, _request_transition 752-762), or else the
\* user who completes a cancelled request.
EndedStays ==
    [][\A s \in Sites, r \in Requests :
          row[s][r] \in Ended /\ row'[s][r] # row[s][r] =>
              \E t \in Writers :
                  /\ SiteOf(t) = s /\ change[t].req = r /\ change'[t] = NoChange
                  /\ change[t].over => (t \in Sites /\ row'[s][r] = "COMPLETED")
      ]_vars

\* The deliveries tell the responsible's row the truth: they write DELIVERED only
\* when every item is at the requester, and COMPLETED only when the requester has
\* confirmed (mark_delivered, receive_receipt_content, apply_remote_status).
DeliveriesTellTheTruth ==
    [][\A t \in Workers : ~Free(t) /\ change'[t] = NoChange /\ row' # row =>
          LET reached == delivery[change[t].req].reached
          IN  /\ change[t].to = "DELIVERED" => reached # "none"
              /\ change[t].to = "COMPLETED" => reached \in {"confirmed", "returned"}]_vars

\* The row of a request tells the truth: neither a late writer reopens it nor a
\* delivery writes what has not happened.
RowTellsTheTruth == EndedStays /\ DeliveriesTellTheTruth

\* No request goes unnoticed (RequestNotificationService): one that waits for the
\* responsible and that the user has never opened is either shown as unread or not
\* yet known, so that the next poll announces it; in memory and on disk, over
\* restarts and changes of account.
NothingUnnoticed ==
    \A r \in Current \ read, n \in {notice, saved} :
        n.on => r \in n.unread \/ r \notin n.known

=============================================================================
