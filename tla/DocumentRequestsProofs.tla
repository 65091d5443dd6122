------------------------- MODULE DocumentRequestsProofs -------------------------
(***************************************************************************)
(* Proofs about DocumentRequests, for any number of requests, statuses the *)
(* users may set, crashes, changes of account and peers disabled.          *)
(*                                                                         *)
(* A dispatched request is held because an acceptance is only given over a *)
(* row, and a row never goes.  A request stays noticed because whatever is *)
(* known and was never opened is unread, ended or not: a late writer may   *)
(* reopen it between two polls.  A row tells the truth because a writer    *)
(* carries what it has read, and what a delivery reached is not unreached. *)
(*                                                                         *)
(* And about Desktop, which shares nothing with DocumentRequests, for any  *)
(* number of organizations, logins, threads, documents, pages and files of *)
(* a conversion.  A thread that is at work for an organization stands in   *)
(* the registry of the class, whoever has logged in since; what a window   *)
(* still accepts, marked as its own, was asked of what it shows now.       *)
(***************************************************************************)
EXTENDS DocumentRequests, Desktop, TLAPS

\* A POST whose client waits is that thread's one call, of the request it sends;
\* a thread that has its acceptance sends a request that is held.
PostsPlaced ==
    /\ \A m \in net : m.by # 0 => poster[m.by].pc = "wait" /\ poster[m.by].req = m.req
    /\ \A m, n \in net : m.by = n.by /\ m.by # 0 => m = n
    /\ \A t \in Posters : poster[t].pc = "answered" => row["responsible"][poster[t].req] # "NONE"

\* Only requests that exist are listed, routed and sent, each by its own thread
\* or by the queue's.
SentExist ==
    /\ \A r \in Requests : poster[r].pc # "idle" => poster[r].req = r
    /\ \A r \in sent.routed : row["requester"][r] # "NONE"
    /\ \A t \in Posters :
         /\ \A r \in poster[t].list : row["requester"][r] # "NONE"
         /\ poster[t].pc # "idle" =>
              poster[t].req # 0 /\ row["requester"][poster[t].req] # "NONE"

\* What is known and was never opened is unread.
Noticed == \A n \in {notice, saved} : n.on = TRUE => n.known \ read \subseteq n.unread

\* A writer that had read an ended request completes it, at a user's gesture.
LateWriters ==
    \A t \in Writers : change[t].over = TRUE => t \in Sites /\ change[t].to = "COMPLETED"

\* The thread of a delivery writes what the delivery has reached.
WorkersTrue ==
    /\ \A r \in Requests : delivery[r].status = "ARRIVED" => delivery[r].reached # "none"
    /\ \A t \in Workers :
         /\ change[t].to = "DELIVERED" => delivery[change[t].req].reached # "none"
         /\ change[t].to = "COMPLETED" =>
              delivery[change[t].req].reached \in {"confirmed", "returned"}

IInv ==
    /\ DispatchedIsHeld /\ PostsPlaced /\ SentExist /\ Noticed /\ LateWriters /\ WorkersTrue

-----------------------------------------------------------------------------
(* What a step does to the rows, the threads and the deliveries.           *)

\* The ways a row changes.
RowChange ==
    \/ UNCHANGED row
    \/ \E r \in Requests : /\ row["requester"][r] = "NONE"
                           /\ row' = [row EXCEPT !["requester"][r] = "OPEN"]
    \/ \E m \in net : /\ m.pc = "checked" /\ row["responsible"][m.req] = "NONE"
                      /\ row' = [row EXCEPT !["responsible"][m.req] = m.status]
    \/ \E t \in Writers : WriteStatus(t)
    \/ \E r \in Requests : /\ row["requester"][r] \notin Ended
                           /\ row' = [row EXCEPT !["requester"][r] = "COMPLETED"]

\* Every step changes the rows in one of these ways.
LEMMA RowChanges == Next => RowChange
<1> SUFFICES ASSUME Next PROVE RowChange
    OBVIOUS
<1> USE DEF RowChange
<1>1. CASE Sending
  <2>1. ASSUME NEW m \in net, Handle(m) PROVE RowChange
    BY <2>1 DEF Handle, ReceiveKnown, RefuseRequest, CheckRequest, InsertRequest
  <2> QED
    BY <1>1, <2>1
    DEF Sending, CreateRequest, PickRequests, NextRequest, PosterStep, Post, Dispatched, GiveUp,
        TogglePeer
<1>2. CASE Changing
    BY <1>2 DEF Changing, BeginChange
<1>3. CASE Delivering
    BY <1>3
    DEF Delivering, CreateDelivery, QueueDelivery, Confirm, ReceiptArrives, ApplyRemoteStatus,
        TakeDelivery, Arrive, MarkDelivered, Requeue, Passes, Ended, Sendable
<1>4. CASE Noticing \/ CrashRequester \/ CrashResponsible
    BY <1>4
    DEF Noticing, Activate, Observe, SwitchAccount, MarkRead, CrashRequester, CrashResponsible
<1> QED
    BY <1>1, <1>2, <1>3, <1>4 DEF Next

WriterRow == {NoChange} \cup [req : Requests, over : BOOLEAN, to : Statuses]
DeliveryRow == [status : {"NONE", "CREATED", "QUEUED", "SENDING", "ARRIVED", "DELIVERED", "LEFT"},
                reached : {"none", "arrived", "confirmed", "returned"}]

\* The types, for use in the proofs.
LEMMA Typed ==
    ASSUME RequestsTypeOK
    PROVE  /\ row \in [Sites -> [Requests -> Statuses \cup {"NONE"}]]
           /\ sent.routed \subseteq Requests /\ sent.dispatched \subseteq Requests
           /\ \A m \in net : /\ m.by \in Posters \cup {0} /\ m.req \in Requests
                             /\ m.pc \in {"way", "checked"} /\ m.status \in Statuses
           /\ change \in [Writers -> WriterRow]
           /\ \A t \in Writers : ~Free(t) => change[t].to # "NONE"
           /\ Queue \in Posters /\ Queue \notin Requests /\ 0 \notin Posters /\ 0 \notin Requests
           /\ "requester" \in Sites /\ "responsible" \in Sites
           /\ \A t \in Writers : SiteOf(t) \in Sites
<1>1. 0 \notin Requests /\ Queue \notin Requests /\ Queue # 0
  <2>1. RequestCount \in Nat \ {0} /\ Queue \notin 0..RequestCount
    BY RequestCountAssumption, QueueAssumption
  <2>2. 0 \in 0..RequestCount /\ \A i \in 1..RequestCount : i \in 0..RequestCount
    BY <2>1
  <2>3. 0 \notin 1..RequestCount
    BY <2>1
  <2> QED
    BY <2>1, <2>2, <2>3 DEF Requests
<1>2. \A t \in Writers : ~Free(t) => change[t].to # "NONE"
    BY DEF RequestsTypeOK, Free, Statuses
<1> QED
    BY <1>1, <1>2 DEF RequestsTypeOK, WriterRow, Posters, Sites, SiteOf, Writers

\* A row that exists goes on existing, with a status.
LEMMA RowsStay ==
    ASSUME IInv, RowChange
    PROVE  /\ row' \in [Sites -> [Requests -> Statuses \cup {"NONE"}]]
           /\ \A s \in Sites, r \in Requests : row[s][r] # "NONE" => row'[s][r] # "NONE"
<1>a. RequestsTypeOK
    BY DEF IInv, DispatchedIsHeld
<1>1. /\ "NONE" \notin Statuses /\ "OPEN" \in Statuses /\ "COMPLETED" \in Statuses
    BY DEF Statuses
<1>2. ASSUME NEW t \in Writers, WriteStatus(t)
      PROVE  \E s \in Sites, r \in Requests, to \in Statuses : row' = [row EXCEPT ![s][r] = to]
  <2>1. ~Free(t) /\ row' = [row EXCEPT ![SiteOf(t)][change[t].req] = change[t].to]
    BY <1>2 DEF WriteStatus
  <2>2. change[t] \in [req : Requests, over : BOOLEAN, to : Statuses]
    BY <1>a, <2>1, Typed DEF Free, WriterRow
  <2> QED
    BY <1>a, <2>1, <2>2, Typed
<1>3. \/ UNCHANGED row
      \/ \E s \in Sites, r \in Requests, to \in Statuses : row' = [row EXCEPT ![s][r] = to]
    BY <1>a, <1>1, <1>2, Typed DEF RowChange
<1>4. row \in [Sites -> [Requests -> Statuses \cup {"NONE"}]]
    BY <1>a, Typed
<1> QED
    BY <1>1, <1>3, <1>4

\* The ways the threads that send requests change.
PosterChange ==
    \/ UNCHANGED <<poster, net>>
    \/ \E r \in Requests : /\ row'["requester"][r] # "NONE" /\ UNCHANGED net
                           /\ row["requester"][r] = "NONE"
                           /\ poster' = [poster EXCEPT ![r] = [@ EXCEPT !.pc = "post", !.req = r]]
    \/ PickRequests \/ NextRequest
    \/ \E t \in Posters : PosterStep(t) \/ GiveUp(t)
    \/ \E m \in net : Handle(m)
    \/ CrashRequester \/ CrashResponsible

\* Every step changes the sending threads in one of these ways.
LEMMA PosterChanges == IInv /\ Next => PosterChange
<1> SUFFICES ASSUME IInv, Next PROVE PosterChange
    OBVIOUS
<1>1. ASSUME NEW r \in Requests, NEW remote \in BOOLEAN, CreateRequest(r, remote)
      PROVE  PosterChange
  <2>1. row'["requester"][r] # "NONE"
    BY <1>1, Typed DEF CreateRequest, IInv, DispatchedIsHeld
  <2> QED
    BY <1>1, <2>1 DEF CreateRequest, PosterChange
<1>2. CASE Sending
    BY <1>1, <1>2 DEF PosterChange, Sending, TogglePeer
<1>3. CASE Changing
    BY <1>3 DEF PosterChange, Changing, BeginChange, WriteStatus, sendVars
<1>4. CASE Delivering
    BY <1>4
    DEF PosterChange, Delivering, CreateDelivery, QueueDelivery, Confirm, ReceiptArrives,
        ApplyRemoteStatus, TakeDelivery, Arrive, MarkDelivered, Requeue, sendVars
<1>5. CASE Noticing
    BY <1>5 DEF PosterChange, Noticing, Activate, Observe, SwitchAccount, MarkRead, sendVars
<1> QED
    BY <1>2, <1>3, <1>4, <1>5 DEF Next, PosterChange

\* The ways a writer and a delivery change.
WriterChange ==
    \/ UNCHANGED <<change, delivery>>
    \/ \E s \in Sites, r \in Requests, to \in Statuses : BeginChange(s, r, to)
    \/ \E t \in Writers : WriteStatus(t)
    \/ Delivering
    \/ CrashRequester \/ CrashResponsible

\* Every step changes them in one of these ways.
LEMMA WriterChanges == Next => WriterChange
<1> SUFFICES ASSUME Next PROVE WriterChange
    OBVIOUS
<1>1. CASE Sending
  <2>1. ASSUME NEW m \in net, Handle(m) PROVE WriterChange
    BY <2>1 DEF Handle, ReceiveKnown, RefuseRequest, CheckRequest, InsertRequest, WriterChange
  <2> QED
    BY <1>1, <2>1
    DEF Sending, CreateRequest, PickRequests, NextRequest, PosterStep, Post, Dispatched, GiveUp,
        TogglePeer, WriterChange
<1>2. CASE Noticing
    BY <1>2 DEF WriterChange, Noticing, Activate, Observe, SwitchAccount, MarkRead
<1> QED
    BY <1>1, <1>2 DEF Next, Changing, WriterChange

-----------------------------------------------------------------------------
(* The parts of the invariant, each kept by every step.                    *)

PosterRow == [pc : {"idle", "post", "wait", "answered"}, req : Requests \cup {0},
              list : SUBSET Requests]
PostRow == [by : Posters \cup {0}, req : Requests, pc : {"way", "checked"}, status : Statuses]

SendTypes ==
    /\ sent \in [routed : SUBSET Requests, dispatched : SUBSET Requests]
    /\ enabled \subseteq Requests
    /\ poster \in [Posters -> PosterRow]
    /\ \A m \in net : m \in PostRow

\* Sending keeps its types, its calls in place and to requests that exist.
LEMMA SendStep == IInv /\ Next => SendTypes' /\ PostsPlaced' /\ SentExist'
<1> SUFFICES ASSUME IInv, Next PROVE SendTypes' /\ PostsPlaced' /\ SentExist'
    OBVIOUS
<1>1. /\ row \in [Sites -> [Requests -> Statuses \cup {"NONE"}]]
      /\ \A s \in Sites, r \in Requests : row[s][r] # "NONE" => row'[s][r] # "NONE"
      /\ SendTypes /\ PostsPlaced /\ SentExist
      /\ Queue \in Posters /\ Queue \notin Requests /\ 0 \notin Posters /\ 0 \notin Requests
      /\ "requester" \in Sites /\ "responsible" \in Sites /\ Requests \subseteq Posters
    BY RowChanges, RowsStay, Typed
    DEF IInv, DispatchedIsHeld, RequestsTypeOK, SendTypes, PosterRow, PostRow, Posters
<1>2. /\ sent' \in [routed : SUBSET Requests, dispatched : SUBSET Requests]
      /\ enabled' \subseteq Requests
      /\ \A r \in sent'.routed : row'["requester"][r] # "NONE"
  <2>1. \/ UNCHANGED sent
        \/ \E t \in Posters :
             \/ /\ poster[t].pc = "post"
                /\ sent' = [sent EXCEPT !.routed = @ \cup {poster[t].req}]
             \/ /\ poster[t].pc = "answered"
                /\ sent' = [sent EXCEPT !.dispatched = @ \cup {poster[t].req}]
    BY DEF Next, Sending, CreateRequest, PickRequests, NextRequest, PosterStep, Post, Dispatched,
       GiveUp, TogglePeer, Handle, ReceiveKnown, RefuseRequest, CheckRequest, InsertRequest,
       Changing, BeginChange, WriteStatus, Delivering, CreateDelivery, QueueDelivery, Confirm,
       ReceiptArrives, ApplyRemoteStatus, TakeDelivery, Arrive, MarkDelivered, Requeue, Noticing,
       Activate, Observe, SwitchAccount, MarkRead, CrashRequester, CrashResponsible, sendVars
  <2>2. \A t \in Posters : poster[t].pc # "idle" =>
          poster[t].req \in Requests /\ row["requester"][poster[t].req] # "NONE"
    BY <1>1 DEF SentExist, SendTypes, PosterRow
  <2>3. /\ sent' \in [routed : SUBSET Requests, dispatched : SUBSET Requests]
        /\ \A r \in sent'.routed : r \in sent.routed \/ row["requester"][r] # "NONE"
    BY <1>1, <2>1, <2>2 DEF SendTypes
  <2>4. \A r \in sent'.routed : row'["requester"][r] # "NONE"
    BY <1>1, <2>3 DEF SentExist
  <2>5. enabled' \subseteq Requests
    BY <1>1
    DEF SendTypes, Next, Sending, CreateRequest, PickRequests, NextRequest, PosterStep, Post,
        Dispatched, GiveUp, TogglePeer, Handle, ReceiveKnown, RefuseRequest, CheckRequest,
        InsertRequest, Changing, BeginChange, WriteStatus, Delivering, CreateDelivery,
        QueueDelivery, Confirm, ReceiptArrives, ApplyRemoteStatus, TakeDelivery, Arrive,
        MarkDelivered, Requeue, Noticing, Activate, Observe, SwitchAccount, MarkRead,
        CrashRequester, CrashResponsible, sendVars
  <2> QED
    BY <2>3, <2>4, <2>5
<1> DEFINE Fits(t) == /\ \A r \in poster[t].list : row["requester"][r] # "NONE"
                      /\ poster[t].pc # "idle" =>
                           poster[t].req # 0 /\ row["requester"][poster[t].req] # "NONE"
                      /\ poster[t].pc # "idle" /\ t \in Requests => poster[t].req = t
           Listed == \A t \in Posters : Fits(t)
           Kept == /\ poster' \in [Posters -> PosterRow] /\ (\A m \in net' : m \in PostRow)
                   /\ PostsPlaced' /\ Listed'
<1>a. \A t \in Posters : poster[t].pc = "answered" =>
        row["responsible"][poster[t].req] # "NONE" /\ row'["responsible"][poster[t].req] # "NONE"
  <2>1. \A t \in Posters : poster[t].pc = "answered" => poster[t].req \in Requests
    BY <1>1 DEF SentExist, SendTypes, PosterRow
  <2> QED
    BY <1>1, <2>1 DEF PostsPlaced
<1>3. ASSUME NEW t \in Posters, NEW state \in PosterRow,
             poster' = [poster EXCEPT ![t] = state], UNCHANGED net,
             state.pc \in {"idle", "post"}, poster[t].pc # "wait",
             \A r \in state.list : row'["requester"][r] # "NONE",
             state.pc = "post" => state.req # 0 /\ row'["requester"][state.req] # "NONE",
             state.pc = "post" /\ t \in Requests => state.req = t
      PROVE  Kept
  <2>1. poster'[t] = state /\ \A u \in Posters \ {t} : poster'[u] = poster[u]
    BY <1>1, <1>3 DEF SendTypes
  <2>2. \A m \in net : m.by # t /\ (m.by # 0 => m.by \in Posters)
    BY <1>1, <1>3 DEF PostsPlaced, SendTypes, PostRow
  <2>3. PostsPlaced'
    BY <1>1, <1>3, <2>1, <2>2, <1>a DEF PostsPlaced
  <2>4. Listed'
    BY <1>1, <1>3, <2>1 DEF SentExist, SendTypes, PosterRow
  <2>5. poster' \in [Posters -> PosterRow] /\ \A m \in net' : m \in PostRow
    BY <1>1, <1>3 DEF SendTypes
  <2> QED
    BY <2>3, <2>4, <2>5
<1>4. ASSUME UNCHANGED <<poster, net>> PROVE Kept
  <2>1. PostsPlaced'
    BY <1>1, <1>4, <1>a DEF PostsPlaced
  <2>2. Listed'
    BY <1>1, <1>4 DEF SentExist, SendTypes, PosterRow
  <2>3. poster' \in [Posters -> PosterRow] /\ \A m \in net' : m \in PostRow
    BY <1>1, <1>4 DEF SendTypes
  <2> QED
    BY <2>1, <2>2, <2>3
<1>5. ASSUME NEW r \in Requests, row'["requester"][r] # "NONE", UNCHANGED net,
             row["requester"][r] = "NONE",
             poster' = [poster EXCEPT ![r] = [@ EXCEPT !.pc = "post", !.req = r]]
      PROVE  Kept
  <2> DEFINE state == [poster[r] EXCEPT !.pc = "post", !.req = r]
  <2>1. poster' = [poster EXCEPT ![r] = state] /\ poster[r] \in PosterRow /\ r # 0
    BY <1>1, <1>5 DEF SendTypes
  <2>2. state \in PosterRow /\ state.pc = "post" /\ state.req = r /\ state.list = poster[r].list
    BY <2>1 DEF PosterRow
  <2>3. \A q \in state.list : row'["requester"][q] # "NONE"
    BY <1>1, <2>1, <2>2 DEF SentExist, PosterRow
  <2>4. poster[r].pc # "wait"
    BY <1>1, <1>5 DEF SentExist
  <2>5. r \in Posters
    BY <1>1
  <2> HIDE DEF state, Kept
  <2> QED
    BY <1>3, <1>5, <2>1, <2>2, <2>3, <2>4, <2>5
<1>6. ASSUME PickRequests PROVE Kept
  <2> DEFINE state == [poster[Queue] EXCEPT !.list = PendingRemote]
  <2>1. /\ poster' = [poster EXCEPT ![Queue] = state] /\ poster[Queue] \in PosterRow
        /\ UNCHANGED net /\ poster[Queue].pc = "idle"
    BY <1>1, <1>6 DEF SendTypes, PickRequests
  <2>2. \A q \in PendingRemote : q \in Requests /\ row["requester"][q] # "NONE"
    BY <1>1 DEF PendingRemote, SendTypes
  <2>3. state \in PosterRow /\ state.pc = "idle" /\ state.list = PendingRemote
    BY <2>1, <2>2 DEF PosterRow
  <2>4. \A q \in state.list : row'["requester"][q] # "NONE"
    BY <1>1, <2>2, <2>3
  <2>5. Queue \in Posters /\ Queue \notin Requests
    BY <1>1
  <2> HIDE DEF state, Kept
  <2> QED
    BY <1>3, <2>1, <2>3, <2>4, <2>5
<1>7. ASSUME NextRequest PROVE Kept
  <2>1. PICK r \in poster[Queue].list :
          poster' = [poster EXCEPT ![Queue] =
             [pc |-> IF r \in enabled THEN "post" ELSE "idle",
              req |-> IF r \in enabled THEN r ELSE 0, list |-> @.list \ {r}]]
    BY <1>7 DEF NextRequest
  <2> DEFINE state == [pc |-> IF r \in enabled THEN "post" ELSE "idle",
                       req |-> IF r \in enabled THEN r ELSE 0, list |-> poster[Queue].list \ {r}]
  <2>2. poster[Queue] \in PosterRow /\ UNCHANGED net /\ poster[Queue].pc = "idle"
    BY <1>1, <1>7 DEF SendTypes, NextRequest
  <2>8. r \in Requests /\ r # 0
    BY <1>1, <2>1, <2>2 DEF PosterRow
  <2>9. poster' = [poster EXCEPT ![Queue] = state]
    BY <2>1
  <2>3. /\ state \in PosterRow /\ state.pc \in {"idle", "post"}
        /\ state.list = poster[Queue].list \ {r} /\ (state.pc = "post" => state.req = r)
    BY <2>2, <2>8 DEF PosterRow
  <2>4. \A q \in poster[Queue].list : row["requester"][q] # "NONE" /\ q \in Requests
    BY <1>1, <2>2 DEF SentExist, PosterRow
  <2>5. \A q \in poster[Queue].list : row'["requester"][q] # "NONE"
    BY <1>1, <2>4
  <2>6. Queue \in Posters /\ Queue \notin Requests
    BY <1>1
  <2>7. /\ \A q \in state.list : row'["requester"][q] # "NONE"
        /\ state.pc = "post" => state.req # 0 /\ row'["requester"][state.req] # "NONE"
    BY <2>1, <2>3, <2>5, <2>8
  <2> HIDE DEF state, Kept
  <2> QED
    BY <1>3, <2>2, <2>3, <2>6, <2>7, <2>9
<1>8. ASSUME NEW t \in Posters, Dispatched(t) PROVE Kept
  <2> DEFINE state == [poster[t] EXCEPT !.pc = "idle", !.req = 0]
  <2>1. /\ poster' = [poster EXCEPT ![t] = state] /\ poster[t] \in PosterRow
        /\ UNCHANGED net /\ poster[t].pc = "answered"
    BY <1>1, <1>8 DEF SendTypes, Dispatched, Rest
  <2>2. state \in PosterRow /\ state.pc = "idle" /\ state.list = poster[t].list
    BY <2>1 DEF PosterRow
  <2>3. \A q \in state.list : row'["requester"][q] # "NONE"
    BY <1>1, <2>1, <2>2 DEF SentExist, PosterRow
  <2> HIDE DEF state, Kept
  <2> QED
    BY <1>3, <2>1, <2>2, <2>3
<1>9. ASSUME NEW t \in Posters, Post(t) PROVE Kept
  <2> DEFINE m0 == [by |-> t, req |-> poster[t].req, pc |-> "way",
                    status |-> row["requester"][poster[t].req]]
  <2>1. /\ poster' = [poster EXCEPT ![t].pc = "wait"] /\ poster[t] \in PosterRow
        /\ poster[t].pc = "post" /\ net' = net \cup {m0} /\ t # 0
    BY <1>1, <1>9 DEF SendTypes, Post
  <2>2. poster[t].req \in Requests /\ row["requester"][poster[t].req] # "NONE"
    BY <1>1, <2>1 DEF SentExist, PosterRow
  <2>3. row["requester"][poster[t].req] \in Statuses
    BY <1>1, <2>2
  <2>4. m0 \in PostRow /\ m0.by = t /\ m0.req = poster[t].req
    BY <2>2, <2>3 DEF PostRow
  <2>5. \A m \in net : m.by # t /\ (m.by # 0 => m.by \in Posters)
    BY <1>1, <2>1 DEF PostsPlaced, SendTypes, PostRow
  <2>6. /\ poster'[t].pc = "wait" /\ poster'[t].req = poster[t].req /\ poster'[t].list = poster[t].list
        /\ poster' \in [Posters -> PosterRow]
        /\ \A u \in Posters \ {t} : poster'[u] = poster[u]
    BY <1>1, <2>1 DEF SendTypes, PosterRow
  <2> HIDE DEF m0
  <2>7. PostsPlaced'
    BY <1>1, <1>a, <2>1, <2>4, <2>5, <2>6 DEF PostsPlaced
  <2>8. Listed'
    BY <1>1, <2>1, <2>6 DEF SentExist, SendTypes, PosterRow
  <2>9. \A m \in net' : m \in PostRow
    BY <1>1, <2>1, <2>4 DEF SendTypes
  <2> QED
    BY <2>6, <2>7, <2>8, <2>9
<1>10. ASSUME poster' \in [Posters -> PosterRow],
              \A u \in Posters : /\ poster'[u].list = poster[u].list
                                 /\ \/ poster'[u] = poster[u]
                                    \/ poster'[u].pc = "idle"
                                    \/ /\ poster[u].pc = "wait" /\ poster'[u].pc = "answered"
                                       /\ poster'[u].req = poster[u].req
                                       /\ row'["responsible"][poster[u].req] # "NONE",
              \A m \in net' : /\ m \in PostRow
                              /\ m.by # 0 => /\ poster'[m.by] = poster[m.by]
                                             /\ \E n \in net : n.by = m.by /\ n.req = m.req,
              \A m, n \in net' : m.by = n.by /\ m.by # 0 => m = n
       PROVE  Kept
  <2>1. \A m \in net' : m.by # 0 => poster'[m.by].pc = "wait" /\ poster'[m.by].req = m.req
    BY <1>1, <1>10 DEF PostsPlaced
  <2>2. \A t \in Posters : poster'[t].pc = "answered" =>
          row'["responsible"][poster'[t].req] # "NONE"
    BY <1>10, <1>a
  <2>3. PostsPlaced'
    BY <1>10, <2>1, <2>2 DEF PostsPlaced
  <2>4. Listed'
    BY <1>1, <1>10 DEF SentExist, SendTypes, PosterRow
  <2> QED
    BY <1>10, <2>3, <2>4
<1>11. ASSUME NEW t \in Posters
       PROVE  LET rest == Rest(t)
              IN  /\ rest \in [Posters -> PosterRow]
                  /\ \A u \in Posters : rest[u].list = poster[u].list
                  /\ \A u \in Posters \ {t} : rest[u] = poster[u]
                  /\ rest[t].pc = "idle"
  <2> DEFINE state == [poster[t] EXCEPT !.pc = "idle", !.req = 0]
  <2>1. poster[t] \in PosterRow /\ poster \in [Posters -> PosterRow]
    BY <1>1 DEF SendTypes
  <2>2. state \in PosterRow /\ state.pc = "idle" /\ state.list = poster[t].list
    BY <2>1 DEF PosterRow
  <2>3. Rest(t) = [poster EXCEPT ![t] = state]
    BY <2>1 DEF Rest
  <2> HIDE DEF state
  <2> QED
    BY <2>1, <2>2, <2>3
<1>12. \A m \in net : m \in PostRow /\ (m.by # 0 => m.by \in Posters)
    BY <1>1 DEF SendTypes, PostRow
<1>13. \A m, n \in net : m.by = n.by /\ m.by # 0 => m = n
    BY <1>1 DEF PostsPlaced
<1>14. \A m \in PostRow :
         LET lost == [m EXCEPT !.by = 0]
         IN  lost \in PostRow /\ lost.by = 0
    BY DEF PostRow
<1>15. ASSUME NEW t \in Posters, GiveUp(t) PROVE Kept
  <2>1. PICK m \in net :
          /\ m.by = t
          /\ net' = (net \ {m}) \cup (IF m.pc = "way" THEN {} ELSE {[m EXCEPT !.by = 0]})
    BY <1>15 DEF GiveUp
  <2>2. poster' = Rest(t) /\ t # 0
    BY <1>1, <1>15 DEF GiveUp
  <2>3. \A n \in net' : (n.by = 0 /\ n \in PostRow) \/ (n \in net /\ n.by # t)
    BY <1>12, <1>13, <1>14, <2>1, <2>2
  <2> HIDE DEF Kept
  <2> QED
    BY <1>10, <1>11, <1>12, <1>13, <2>2, <2>3
<1>16. ASSUME NEW m \in net, Handle(m) PROVE Kept
  <2>1. m \in PostRow /\ (m.by # 0 => m.by \in Posters)
    BY <1>12
  <2>2. CASE CheckRequest(m)
    <3> DEFINE new == [m EXCEPT !.pc = "checked"]
    <3>1. new \in PostRow /\ new.by = m.by /\ new.req = m.req
      BY <2>1 DEF PostRow
    <3>2. poster' = poster /\ net' = (net \ {m}) \cup {new}
      BY <2>2 DEF CheckRequest
    <3> HIDE DEF new, Kept
    <3>3. \A n \in net' : /\ n \in PostRow
                          /\ n.by # 0 => \E k \in net : k.by = n.by /\ k.req = n.req
      BY <1>12, <3>1, <3>2
    <3>4. \A k, n \in net' : k.by = n.by /\ k.by # 0 => k = n
      BY <1>13, <3>1, <3>2
    <3>5. poster' \in [Posters -> PosterRow]
      BY <1>1, <3>2 DEF SendTypes
    <3> QED
      BY <1>10, <3>2, <3>3, <3>4, <3>5
  <2>3. ASSUME NEW ok \in BOOLEAN, poster' = Answer(m, ok), net' = net \ {m},
               ok = TRUE => row'["responsible"][m.req] # "NONE"
        PROVE  Kept
    <3>1. \A n \in net' : /\ n \in PostRow
                          /\ n.by # 0 => /\ n.by \in Posters /\ n.by # m.by
                                         /\ \E k \in net : k.by = n.by /\ k.req = n.req
      BY <1>12, <1>13, <2>3
    <3>2. \A k, n \in net' : k.by = n.by /\ k.by # 0 => k = n
      BY <1>13, <2>3
    <3>3. CASE m.by = 0
      <4>1. poster' = poster /\ poster' \in [Posters -> PosterRow]
        BY <1>1, <2>3, <3>3 DEF Answer, SendTypes
      <4> HIDE DEF Kept
      <4> QED
        BY <1>10, <3>1, <3>2, <4>1
    <3>4. CASE m.by # 0 /\ ok = FALSE
      <4>1. poster' = Rest(m.by)
        BY <2>3, <3>4 DEF Answer
      <4> HIDE DEF Kept
      <4> QED
        BY <1>10, <1>11, <2>1, <3>1, <3>2, <3>4, <4>1 DEF Posters
    <3>5. CASE m.by # 0 /\ ok = TRUE
      <4>1. poster[m.by].pc = "wait" /\ poster[m.by].req = m.req
        BY <1>1, <3>5 DEF PostsPlaced
      <4>2. poster' = [poster EXCEPT ![m.by].pc = "answered"]
        BY <2>3, <3>5 DEF Answer
      <4>3. /\ poster' \in [Posters -> PosterRow]
            /\ \A u \in Posters : poster'[u].list = poster[u].list
            /\ \A u \in Posters \ {m.by} : poster'[u] = poster[u]
            /\ poster'[m.by].pc = "answered" /\ poster'[m.by].req = m.req
        BY <1>1, <2>1, <3>5, <4>1, <4>2 DEF SendTypes, PosterRow
      <4> HIDE DEF Kept
      <4> QED
        BY <1>10, <2>3, <3>1, <3>2, <3>5, <4>1, <4>3
    <3> HIDE DEF Kept
    <3> QED
      BY <3>3, <3>4, <3>5
  <2>4. CASE ReceiveKnown(m)
    <3>1. row'["responsible"][m.req] # "NONE"
      BY <1>1, <2>1, <2>4 DEF ReceiveKnown, PostRow
    <3> HIDE DEF Kept
    <3> QED
      BY <2>3, <2>4, <3>1 DEF ReceiveKnown
  <2>5. CASE RefuseRequest(m)
    <3> HIDE DEF Kept
    <3> QED
      BY <2>3, <2>5 DEF RefuseRequest
  <2>6. CASE InsertRequest(m)
    <3> DEFINE new == row["responsible"][m.req] = "NONE"
    <3>1. /\ poster' = Answer(m, new) /\ net' = net \ {m}
          /\ row' = IF new THEN [row EXCEPT !["responsible"][m.req] = m.status] ELSE row
      BY <2>6 DEF InsertRequest
    <3>2. m.status # "NONE" /\ m.req \in Requests
      BY <2>1 DEF PostRow, Statuses
    <3>3. new => row'["responsible"][m.req] # "NONE"
      BY <1>1, <3>1, <3>2
    <3> HIDE DEF new, Kept
    <3>4. CASE new
      <4>1. Answer(m, new) = Answer(m, TRUE)
        BY <3>4 DEF Answer
      <4> QED
        BY <2>3, <3>1, <3>3, <3>4, <4>1
    <3>5. CASE ~new
      <4>1. Answer(m, new) = Answer(m, FALSE)
        BY <3>5 DEF Answer
      <4> QED
        BY <2>3, <3>1, <4>1
    <3> QED
      BY <3>4, <3>5
  <2> HIDE DEF Kept
  <2> QED
    BY <1>16, <2>2, <2>4, <2>5, <2>6 DEF Handle
<1>17. ASSUME CrashRequester PROVE Kept
  <2>1. poster' = [t \in Posters |-> NoPost] /\ net' = {[m EXCEPT !.by = 0] : m \in net}
    BY <1>17 DEF CrashRequester
  <2>2. \A m \in net' : m \in PostRow /\ m.by = 0
    BY <1>12, <1>14, <2>1
  <2>3. /\ poster' \in [Posters -> PosterRow]
        /\ \A t \in Posters : poster'[t].pc = "idle" /\ poster'[t].list = {}
    BY <2>1 DEF NoPost, PosterRow
  <2>4. PostsPlaced'
    BY <2>2, <2>3 DEF PostsPlaced
  <2> QED
    BY <2>2, <2>3, <2>4
<1>18. ASSUME CrashResponsible PROVE Kept
  <2>1. /\ net' = {m \in net : m.pc = "way"}
        /\ poster' = [t \in Posters |->
             IF \E m \in net : m.pc = "checked" /\ m.by = t THEN Rest(t)[t] ELSE poster[t]]
    BY <1>18 DEF CrashResponsible
  <2>2. \A t \in Posters : Rest(t)[t] \in PosterRow /\ poster[t] \in PosterRow
    BY <1>1, <1>11 DEF SendTypes
  <2>3. poster' \in [Posters -> PosterRow]
    BY <2>1, <2>2
  <2>4. \A u \in Posters : /\ poster'[u].list = poster[u].list
                           /\ poster'[u] = poster[u] \/ poster'[u].pc = "idle"
    BY <1>11, <2>1
  <2>5. \A m \in net' : /\ m \in PostRow /\ m \in net
                        /\ m.by # 0 => poster'[m.by] = poster[m.by]
    BY <1>12, <1>13, <2>1
  <2> HIDE DEF Kept
  <2> QED
    BY <1>10, <1>13, <2>3, <2>4, <2>5
<1>19. Kept
  <2> HIDE DEF Kept
  <2> QED
    BY PosterChanges, <1>3, <1>4, <1>5, <1>6, <1>7, <1>8, <1>9, <1>15, <1>16, <1>17, <1>18
    DEF PosterChange, PosterStep
<1> QED
  <2>1. SendTypes'
    BY <1>2, <1>19 DEF SendTypes
  <2>2. SentExist'
    BY <1>1, <1>2, <1>19 DEF SentExist
  <2> QED
    BY <1>19, <2>1, <2>2

WriterTypes == change \in [Writers -> WriterRow] /\ delivery \in [Requests -> DeliveryRow]

\* What a delivery has reached, it has reached for good.
ReachedStays ==
    \A r \in Requests :
        /\ delivery[r].reached # "none" => delivery'[r].reached # "none"
        /\ delivery[r].reached \in {"confirmed", "returned"} =>
             delivery'[r].reached \in {"confirmed", "returned"}

\* _request_transition leaves the other writers alone, and decides on a row that
\* had not ended.
LEMMA TransitionDecides ==
    ASSUME WriterTypes, NEW t \in Writers, t # "requester", NEW r \in Requests, NEW to \in Statuses,
           Transition(t, r, to)
    PROVE  /\ change' \in [Writers -> WriterRow]
           /\ \A u \in Writers \ {t} : change'[u] = change[u]
           /\ \/ change'[t] = change[t]
              \/ change'[t].req = r /\ change'[t].over = FALSE /\ change'[t].to = to
<1>1. CASE change' = change
    BY <1>1 DEF WriterTypes
<1>2. CASE Passes(row["responsible"][r], to) /\ Decide(t, r, to)
  <2>1. row["responsible"][r] \notin Ended
    BY <1>2 DEF Passes, Ended, Sendable
  <2>2. change' = [change EXCEPT ![t] = [req |-> r, over |-> FALSE, to |-> to]]
    <3>1. (row[SiteOf(t)][r] \in Ended) = FALSE
      BY <2>1 DEF SiteOf
    <3> QED
      BY <1>2, <3>1 DEF Decide
  <2> QED
    BY <2>2 DEF WriterTypes, WriterRow
<1> QED
    BY <1>1, <1>2 DEF Transition

\* The deliveries keep their type and what they have reached, the writers theirs
\* and the truth of what they will write.
LEMMA WriterStep ==
    IInv /\ Next => WriterTypes' /\ ReachedStays /\ LateWriters' /\ WorkersTrue'
<1> SUFFICES ASSUME IInv, Next PROVE WriterTypes' /\ ReachedStays /\ LateWriters' /\ WorkersTrue'
    OBVIOUS
<1>1. /\ WriterTypes /\ LateWriters /\ WorkersTrue
      /\ row \in [Sites -> [Requests -> Statuses \cup {"NONE"}]]
    BY DEF IInv, DispatchedIsHeld, RequestsTypeOK, WriterTypes, WriterRow, DeliveryRow
<1>2. /\ "DELIVERED" \in Statuses /\ "COMPLETED" \in Statuses /\ "DELIVERING" \in Statuses
      /\ NoChange.over = FALSE /\ NoChange.to = "NONE" /\ Sites \subseteq Writers
      /\ Sites \cap Workers = {} /\ Workers \subseteq Writers /\ "requester" \notin Workers
      /\ "responsible" \in Sites /\ "queue" \in Workers /\ "server" \in Workers
    BY DEF Statuses, NoChange, Writers, Sites, Workers
<1> DEFINE Kept == WriterTypes' /\ ReachedStays /\ LateWriters' /\ WorkersTrue'
<1>3. ASSUME delivery' \in [Requests -> DeliveryRow], ReachedStays,
             change' \in [Writers -> WriterRow],
             \A r \in Requests : delivery'[r].status = "ARRIVED" => delivery'[r].reached # "none",
             \A t \in Writers :
                \/ change'[t] = change[t] \/ change'[t] = NoChange
                \/ t \in Sites /\ (change'[t].over = TRUE => change'[t].to = "COMPLETED")
                \/ /\ change'[t].over = FALSE
                   /\ change'[t].to = "DELIVERED" => delivery'[change'[t].req].reached # "none"
                   /\ change'[t].to = "COMPLETED" =>
                        delivery'[change'[t].req].reached \in {"confirmed", "returned"}
      PROVE  Kept
  <2>1. LateWriters'
    BY <1>1, <1>2, <1>3 DEF LateWriters
  <2>2. ASSUME NEW t \in Workers, change'[t] = change[t], change[t].to \in {"DELIVERED", "COMPLETED"}
        PROVE  /\ change'[t].to = "DELIVERED" => delivery'[change'[t].req].reached # "none"
               /\ change'[t].to = "COMPLETED" =>
                    delivery'[change'[t].req].reached \in {"confirmed", "returned"}
    <3>1. change[t].req \in Requests
      BY <1>1, <1>2, <2>2 DEF WriterTypes, WriterRow
    <3> QED
      BY <1>1, <1>3, <2>2, <3>1 DEF WorkersTrue, ReachedStays
  <2>3. WorkersTrue'
    BY <1>2, <1>3, <2>2 DEF WorkersTrue
  <2>4. WriterTypes'
    BY <1>3 DEF WriterTypes
  <2> QED
    BY <1>3, <2>1, <2>3, <2>4
<1>4. ASSUME UNCHANGED delivery
      PROVE  /\ delivery' \in [Requests -> DeliveryRow] /\ ReachedStays
             /\ \A r \in Requests : delivery'[r].status = "ARRIVED" => delivery'[r].reached # "none"
    BY <1>1, <1>4 DEF WriterTypes, ReachedStays, WorkersTrue
<1> HIDE DEF Kept
<1>5. ASSUME UNCHANGED <<change, delivery>> PROVE Kept
    BY <1>1, <1>3, <1>4, <1>5 DEF WriterTypes
<1>6. ASSUME NEW s \in Sites, NEW r \in Requests, NEW to \in Statuses, BeginChange(s, r, to)
      PROVE  Kept
  <2>1. UNCHANGED delivery /\ change' = [change EXCEPT ![s] =
           [req |-> r, over |-> row[SiteOf(s)][r] \in Ended, to |-> to]]
    BY <1>6 DEF BeginChange, Decide
  <2>2. row[s][r] \in Ended => to = "COMPLETED"
    BY <1>6 DEF BeginChange, Allowed, Ended
  <2>3. SiteOf(s) = s /\ s \in Writers
    BY <1>2 DEF SiteOf, Sites
  <2>4. /\ change' \in [Writers -> WriterRow]
        /\ \A u \in Writers \ {s} : change'[u] = change[u]
        /\ change'[s].over = TRUE => change'[s].to = "COMPLETED"
    <3> DEFINE over == row[SiteOf(s)][r] \in Ended
    <3>1. over \in BOOLEAN /\ (over = TRUE => to = "COMPLETED")
      BY <2>2, <2>3
    <3>2. change' = [change EXCEPT ![s] = [req |-> r, over |-> over, to |-> to]]
      BY <2>1
    <3> HIDE DEF over
    <3> QED
      BY <1>1, <2>3, <3>1, <3>2 DEF WriterTypes, WriterRow
  <2> QED
    BY <1>3, <1>4, <2>1, <2>4
<1>7. ASSUME NEW t \in Writers, WriteStatus(t) PROVE Kept
  <2>1. UNCHANGED delivery /\ change' = [change EXCEPT ![t] = NoChange]
    BY <1>7 DEF WriteStatus
  <2>2. change' \in [Writers -> WriterRow] /\ \A u \in Writers : change'[u] \in {change[u], NoChange}
    BY <1>1, <2>1 DEF WriterTypes, WriterRow
  <2> QED
    BY <1>3, <1>4, <2>1, <2>2
<1>8. ASSUME NEW r \in Requests, NEW state \in DeliveryRow,
             delivery' = [delivery EXCEPT ![r] = state],
             delivery[r].reached # "none" => state.reached # "none",
             delivery[r].reached \in {"confirmed", "returned"} =>
                state.reached \in {"confirmed", "returned"},
             state.status = "ARRIVED" => state.reached # "none"
      PROVE  /\ delivery' \in [Requests -> DeliveryRow] /\ ReachedStays
             /\ delivery'[r] = state
             /\ \A q \in Requests : delivery'[q].status = "ARRIVED" => delivery'[q].reached # "none"
    BY <1>1, <1>8 DEF WriterTypes, ReachedStays, WorkersTrue
<1>9. ASSUME NEW r \in Requests, NEW t \in Writers, t # "requester", NEW to \in Statuses,
             Transition(t, r, to),
             delivery' \in [Requests -> DeliveryRow], ReachedStays,
             \A q \in Requests : delivery'[q].status = "ARRIVED" => delivery'[q].reached # "none",
             to = "DELIVERED" => delivery'[r].reached # "none",
             to = "COMPLETED" => delivery'[r].reached \in {"confirmed", "returned"}
      PROVE  Kept
  <2>1. /\ change' \in [Writers -> WriterRow]
        /\ \A u \in Writers \ {t} : change'[u] = change[u]
        /\ \/ change'[t] = change[t]
           \/ change'[t].req = r /\ change'[t].over = FALSE /\ change'[t].to = to
    BY <1>1, <1>9, TransitionDecides
  <2> QED
    BY <1>3, <1>9, <2>1
<1>10. ASSUME NEW r \in Requests
       PROVE  /\ delivery[r] \in DeliveryRow
              /\ \A to \in {"CREATED", "QUEUED", "SENDING", "DELIVERED", "LEFT"} :
                   LET state == [delivery[r] EXCEPT !.status = to]
                   IN  state \in DeliveryRow /\ state.reached = delivery[r].reached /\ state.status = to
              /\ \A to \in {"confirmed", "returned"} :
                   LET state == [delivery[r] EXCEPT !.reached = to]
                   IN  /\ state \in DeliveryRow /\ state.reached = to
                       /\ state.status = delivery[r].status
    BY <1>1 DEF WriterTypes, DeliveryRow
<1>11. ASSUME NEW r \in Requests, NEW to \in {"CREATED", "QUEUED", "SENDING", "DELIVERED"},
              delivery' = [delivery EXCEPT ![r].status = to]
       PROVE  /\ delivery' \in [Requests -> DeliveryRow] /\ ReachedStays
              /\ delivery'[r].reached = delivery[r].reached
              /\ \A q \in Requests : delivery'[q].status = "ARRIVED" => delivery'[q].reached # "none"
  <2> DEFINE state == [delivery[r] EXCEPT !.status = to]
  <2>1. /\ state \in DeliveryRow /\ state.reached = delivery[r].reached /\ state.status = to
        /\ to # "ARRIVED"
    BY <1>10 DEF DeliveryRow
  <2>2. delivery' = [delivery EXCEPT ![r] = state]
    BY <1>11
  <2> HIDE DEF state
  <2> QED
    BY <1>8, <2>1, <2>2
<1>12. ASSUME NEW r \in Requests, NEW to \in {"confirmed", "returned"},
              delivery' = [delivery EXCEPT ![r].reached = to],
              delivery[r].reached \in {"arrived", "confirmed"}
       PROVE  /\ delivery' \in [Requests -> DeliveryRow] /\ ReachedStays
              /\ delivery'[r].reached = to
              /\ \A q \in Requests : delivery'[q].status = "ARRIVED" => delivery'[q].reached # "none"
  <2> DEFINE state == [delivery[r] EXCEPT !.reached = to]
  <2>1. state \in DeliveryRow /\ state.reached = to
    BY <1>10
  <2>2. delivery' = [delivery EXCEPT ![r] = state]
    BY <1>12
  <2> HIDE DEF state
  <2> QED
    BY <1>8, <1>12, <2>1, <2>2
<1>13. ASSUME NEW r \in Requests,
              CreateDelivery(r) \/ TakeDelivery(r) \/ Arrive(r) \/ Confirm(r)
       PROVE  Kept
  <2>1. UNCHANGED change /\ change' \in [Writers -> WriterRow]
    BY <1>1, <1>13 DEF CreateDelivery, TakeDelivery, Arrive, Confirm, WriterTypes
  <2>2. CASE CreateDelivery(r) \/ TakeDelivery(r)
    BY <1>3, <1>11, <2>1, <2>2 DEF CreateDelivery, TakeDelivery
  <2>3. CASE Confirm(r)
    BY <1>3, <1>12, <2>1, <2>3 DEF Confirm
  <2>4. CASE Arrive(r)
    <3> DEFINE state == [status |-> "ARRIVED", reached |->
                  IF delivery[r].reached = "none" THEN "arrived" ELSE delivery[r].reached]
    <3>1. delivery' = [delivery EXCEPT ![r] = state]
      BY <1>1, <2>4 DEF Arrive, WriterTypes
    <3>2. /\ state \in DeliveryRow /\ state.reached # "none"
          /\ delivery[r].reached # "none" => state.reached = delivery[r].reached
      BY <1>10 DEF DeliveryRow
    <3> HIDE DEF state
    <3> QED
      BY <1>3, <1>8, <2>1, <3>1, <3>2
  <2> QED
    BY <1>13, <2>2, <2>3, <2>4
<1>14. ASSUME NEW r \in Requests, QueueDelivery(r) \/ Requeue(r) PROVE Kept
    BY <1>2, <1>9, <1>11, <1>14 DEF QueueDelivery, Requeue
<1>15. ASSUME NEW r \in Requests, MarkDelivered(r) PROVE Kept
  <2>1. delivery[r].reached # "none"
    BY <1>1, <1>15 DEF MarkDelivered, WorkersTrue
  <2> QED
    BY <1>2, <1>9, <1>11, <1>15, <2>1 DEF MarkDelivered
<1>16. ASSUME NEW r \in Requests, ReceiptArrives(r) PROVE Kept
    BY <1>2, <1>9, <1>12, <1>16 DEF ReceiptArrives
<1>17. ASSUME NEW r \in Requests, ApplyRemoteStatus(r) PROVE Kept
    BY <1>2, <1>4, <1>9, <1>17 DEF ApplyRemoteStatus
<1>18. ASSUME CrashRequester PROVE Kept
  <2>1. UNCHANGED delivery /\ change' = [change EXCEPT !["requester"] = NoChange]
    BY <1>18 DEF CrashRequester
  <2>2. change' \in [Writers -> WriterRow] /\ \A u \in Writers : change'[u] \in {change[u], NoChange}
    BY <1>1, <2>1 DEF WriterTypes, WriterRow
  <2> QED
    BY <1>3, <1>4, <2>1, <2>2
<1>19. ASSUME CrashResponsible PROVE Kept
  <2>1. /\ change' = [t \in Writers |-> IF t = "requester" THEN change[t] ELSE NoChange]
        /\ delivery' = [r \in Requests |->
              IF delivery[r].status \in {"CREATED", "SENDING", "ARRIVED"}
              THEN [delivery[r] EXCEPT !.status = "LEFT"] ELSE delivery[r]]
    BY <1>19 DEF CrashResponsible
  <2>2. change' \in [Writers -> WriterRow] /\ \A u \in Writers : change'[u] \in {change[u], NoChange}
    BY <1>1, <2>1 DEF WriterTypes, WriterRow
  <2>3. \A r \in Requests : /\ delivery'[r] \in DeliveryRow
                            /\ delivery'[r].reached = delivery[r].reached
                            /\ delivery'[r].status # "ARRIVED"
    BY <1>10, <2>1
  <2>4. delivery' \in [Requests -> DeliveryRow]
    BY <2>1, <2>3
  <2> QED
    BY <1>3, <2>2, <2>3, <2>4 DEF ReachedStays
<1> QED
  <2>1. Kept
    BY WriterChanges, <1>5, <1>6, <1>7, <1>13, <1>14, <1>15, <1>16, <1>17, <1>18, <1>19
    DEF WriterChange, Delivering
  <2> QED
    BY <2>1 DEF Kept

NoticeRow == [on : BOOLEAN, known : SUBSET Requests, unread : SUBSET Requests]
NoticeTypes == notice \in NoticeRow /\ saved \in NoticeRow /\ read \subseteq Requests

\* A record of notices whose known requests are read or unread.
Fair(n, opened) == n \in NoticeRow /\ (n.on = TRUE => n.known \ opened \subseteq n.unread)

\* The notices keep their types and lose no request.
LEMMA NoticeStep == IInv /\ Next => NoticeTypes' /\ Noticed'
<1> SUFFICES ASSUME IInv, Next PROVE NoticeTypes' /\ Noticed'
    OBVIOUS
<1>1. NoticeTypes /\ Fair(notice, read) /\ Fair(saved, read) /\ Current \subseteq Requests
    BY DEF IInv, DispatchedIsHeld, RequestsTypeOK, NoticeTypes, NoticeRow, Noticed, Fair, Current
<1> DEFINE Kept == Fair(notice', read') /\ Fair(saved', read') /\ read' \subseteq Requests
<1>2. Off \in NoticeRow /\ Off.on = FALSE
    BY DEF Off, NoticeRow
<1>4. ASSUME Activate PROVE Kept
  <2>1. ASSUME saved.on = TRUE
        PROVE  Fair([saved EXCEPT !.known = @ \cap Current, !.unread = @ \cap Current], read)
    BY <1>1, <2>1 DEF Fair, NoticeRow
  <2>2. Fair([on |-> TRUE, known |-> Current, unread |-> Current], read)
    BY <1>1 DEF Fair, NoticeRow
  <2>3. UNCHANGED read /\ saved' = notice'
    BY <1>4 DEF Activate
  <2>4. CASE saved.on
    BY <1>1, <1>4, <2>1, <2>3, <2>4 DEF Activate, NoticeTypes
  <2>5. CASE ~saved.on
    BY <1>1, <1>4, <2>2, <2>3, <2>5 DEF Activate, NoticeTypes
  <2> QED
    BY <2>4, <2>5
<1>5. ASSUME Observe PROVE Kept
  <2> DEFINE next == [notice EXCEPT !.known = Current,
                                    !.unread = (@ \cap Current) \cup (Current \ notice.known)]
  <2>1. /\ notice' = next /\ UNCHANGED read /\ saved' \in {notice', saved} /\ notice.on
    BY <1>5 DEF Observe
  <2>2. Fair(next, read)
    BY <1>1, <2>1 DEF Fair, NoticeRow
  <2> QED
    BY <1>1, <2>1, <2>2 DEF NoticeTypes
<1>6. ASSUME NEW r \in Requests, MarkRead(r) PROVE Kept
  <2>1. /\ notice' = [notice EXCEPT !.unread = @ \ {r}] /\ saved' = notice'
        /\ read' = read \cup {r}
    BY <1>6 DEF MarkRead
  <2>2. Fair([notice EXCEPT !.unread = @ \ {r}], read \cup {r})
    BY <1>1 DEF Fair, NoticeRow
  <2> QED
    BY <1>1, <2>1, <2>2 DEF NoticeTypes
<1>7. ASSUME notice' = Off, UNCHANGED <<saved, read>> PROVE Kept
    BY <1>1, <1>2, <1>7 DEF Fair, NoticeTypes
<1>8. Kept
  <2>1. UNCHANGED noticeVars \/ Noticing \/ CrashResponsible
    BY DEF Next, Sending, CreateRequest, PickRequests, NextRequest, PosterStep, Post, Dispatched,
       GiveUp, TogglePeer, Handle, ReceiveKnown, RefuseRequest, CheckRequest, InsertRequest,
       Changing, BeginChange, WriteStatus, Delivering, CreateDelivery, QueueDelivery, Confirm,
       ReceiptArrives, ApplyRemoteStatus, TakeDelivery, Arrive, MarkDelivered, Requeue,
       CrashRequester
  <2>2. CASE UNCHANGED noticeVars
    BY <1>1, <2>2 DEF Fair, NoticeTypes, noticeVars
  <2> QED
    BY <1>4, <1>5, <1>6, <1>7, <2>1, <2>2 DEF Noticing, SwitchAccount, CrashResponsible
<1> QED
    BY <1>8 DEF Fair, NoticeTypes, Noticed

\* A request is marked dispatched over its acceptance, and its row stays.
LEMMA DispatchStep ==
    IInv /\ Next => \A r \in sent'.dispatched : row'["responsible"][r] # "NONE"
<1> SUFFICES ASSUME IInv, Next PROVE \A r \in sent'.dispatched : row'["responsible"][r] # "NONE"
    OBVIOUS
<1>1. \/ sent'.dispatched = sent.dispatched
      \/ \E t \in Posters : /\ poster[t].pc = "answered"
                            /\ sent' = [sent EXCEPT !.dispatched = @ \cup {poster[t].req}]
  <2>1. \/ UNCHANGED sent
        \/ \E t \in Posters : sent' = [sent EXCEPT !.routed = @ \cup {poster[t].req}]
        \/ \E t \in Posters : /\ poster[t].pc = "answered"
                              /\ sent' = [sent EXCEPT !.dispatched = @ \cup {poster[t].req}]
    BY DEF Next, Sending, CreateRequest, PickRequests, NextRequest, PosterStep, Post, Dispatched,
       GiveUp, TogglePeer, Handle, ReceiveKnown, RefuseRequest, CheckRequest, InsertRequest,
       Changing, BeginChange, WriteStatus, Delivering, CreateDelivery, QueueDelivery, Confirm,
       ReceiptArrives, ApplyRemoteStatus, TakeDelivery, Arrive, MarkDelivered, Requeue, Noticing,
       Activate, Observe, SwitchAccount, MarkRead, CrashRequester, CrashResponsible, sendVars
  <2> QED
    BY <2>1 DEF IInv, DispatchedIsHeld, RequestsTypeOK
<1>2. \A r \in sent'.dispatched : r \in Requests /\ row["responsible"][r] # "NONE"
  <2>1. sent \in [routed : SUBSET Requests, dispatched : SUBSET Requests]
    BY DEF IInv, DispatchedIsHeld, RequestsTypeOK
  <2>2. \A t \in Posters : poster[t].pc = "answered" =>
          poster[t].req \in Requests /\ row["responsible"][poster[t].req] # "NONE"
    BY DEF IInv, DispatchedIsHeld, RequestsTypeOK, PostsPlaced, SentExist
  <2>3. \A r \in sent.dispatched : r \in Requests /\ row["responsible"][r] # "NONE"
    BY <2>1 DEF IInv, DispatchedIsHeld
  <2> QED
    BY <1>1, <2>1, <2>2, <2>3
<1> QED
    BY <1>2, RowChanges, RowsStay DEF Sites

-----------------------------------------------------------------------------
(* The invariant and the properties.                                       *)

\* The invariant holds at the start.
LEMMA InvInit == Init => IInv
<1> SUFFICES ASSUME Init PROVE IInv
    OBVIOUS
<1>1. /\ row = [s \in Sites |-> [r \in Requests |-> "NONE"]]
      /\ sent = [routed |-> {}, dispatched |-> {}] /\ enabled = Requests
      /\ poster = [t \in Posters |-> NoPost] /\ net = {}
      /\ change = [t \in Writers |-> NoChange]
      /\ delivery = [r \in Requests |-> [status |-> "NONE", reached |-> "none"]]
      /\ notice = Off /\ saved = Off /\ read = {}
    BY DEF Init
<1>2. row \in [Sites -> [Requests -> Statuses \cup {"NONE"}]]
    BY <1>1
<1>3. /\ Off \in NoticeRow /\ Off.on = FALSE
      /\ NoPost \in PosterRow /\ NoPost.pc = "idle" /\ NoPost.list = {}
      /\ NoChange.over = FALSE /\ NoChange.to = "NONE"
    BY DEF Off, NoticeRow, NoPost, PosterRow, NoChange
<1>4. SendTypes
    BY <1>1, <1>3 DEF SendTypes
<1>5. WriterTypes
    BY <1>1 DEF WriterTypes, WriterRow, DeliveryRow
<1>6. NoticeTypes
    BY <1>1, <1>3 DEF NoticeTypes
<1>7. RequestsTypeOK
    BY <1>2, <1>4, <1>5, <1>6
    DEF RequestsTypeOK, SendTypes, PosterRow, PostRow, WriterTypes, WriterRow, DeliveryRow,
        NoticeTypes, NoticeRow
<1>8. PostsPlaced /\ SentExist
    BY <1>1, <1>3 DEF PostsPlaced, SentExist, Posters
<1>9. Noticed /\ LateWriters /\ WorkersTrue
    BY <1>1, <1>3 DEF Noticed, LateWriters, WorkersTrue, Workers, Writers
<1> QED
    BY <1>1, <1>7, <1>8, <1>9 DEF IInv, DispatchedIsHeld

\* Every step keeps the invariant.
LEMMA InvStep == IInv /\ [Next]_vars => IInv'
<1>1. ASSUME IInv, Next PROVE IInv'
  <2>1. row' \in [Sites -> [Requests -> Statuses \cup {"NONE"}]]
    BY <1>1, RowChanges, RowsStay
  <2>2. SendTypes' /\ WriterTypes' /\ NoticeTypes'
    BY <1>1, SendStep, WriterStep, NoticeStep
  <2>3. RequestsTypeOK'
    BY <2>1, <2>2
    DEF RequestsTypeOK, SendTypes, PosterRow, PostRow, WriterTypes, WriterRow, DeliveryRow,
        NoticeTypes, NoticeRow
  <2>4. DispatchedIsHeld'
    BY <1>1, <2>3, DispatchStep DEF DispatchedIsHeld
  <2> QED
    BY <1>1, <2>4, SendStep, WriterStep, NoticeStep DEF IInv
<1>2. ASSUME IInv, UNCHANGED vars PROVE IInv'
    BY <1>2
    DEF IInv, vars, sendVars, noticeVars, DispatchedIsHeld, RequestsTypeOK, PostsPlaced, SentExist,
        Noticed, LateWriters, WorkersTrue
<1> QED
    BY <1>1, <1>2

\* The invariant holds in every state.
LEMMA Invariance == Spec => []IInv
    BY InvInit, InvStep, PTL DEF Spec

\* A request marked dispatched is at the responsible's installation, whatever was
\* lost, sent twice or cut short on the way.
THEOREM DispatchedHeld == Spec => []DispatchedIsHeld
<1>1. IInv => DispatchedIsHeld
    BY DEF IInv
<1> QED
    BY <1>1, Invariance, PTL

\* No request that waits for the responsible is known, unopened and not shown as
\* unread, over restarts and changes of account.
THEOREM NoticesReach == Spec => []NothingUnnoticed
<1>1. IInv => NothingUnnoticed
    BY DEF IInv, Noticed, NothingUnnoticed
<1> QED
    BY <1>1, Invariance, PTL

\* A row tells the truth: only a writer that had read it before, or the user who
\* completes it, changes a row that has ended, and a delivery writes no more than
\* it has reached.
THEOREM RowsTellTheTruth == Spec => RowTellsTheTruth
<1>1. IInv /\ [Next]_vars =>
        [\A s \in Sites, r \in Requests :
          row[s][r] \in Ended /\ row'[s][r] # row[s][r] =>
              \E t \in Writers :
                  /\ SiteOf(t) = s /\ change[t].req = r /\ change'[t] = NoChange
                  /\ change[t].over => (t \in Sites /\ row'[s][r] = "COMPLETED")]_vars
  <2> SUFFICES ASSUME IInv, Next, NEW s \in Sites, NEW r \in Requests, row[s][r] \in Ended,
                      row'[s][r] # row[s][r]
               PROVE  \E t \in Writers :
                         /\ SiteOf(t) = s /\ change[t].req = r /\ change'[t] = NoChange
                         /\ change[t].over => (t \in Sites /\ row'[s][r] = "COMPLETED")
    BY DEF vars
  <2>1. /\ row \in [Sites -> [Requests -> Statuses \cup {"NONE"}]]
        /\ change \in [Writers -> WriterRow]
        /\ \A m \in net : m.req \in Requests
        /\ "requester" \in Sites /\ "responsible" \in Sites /\ \A t \in Writers : SiteOf(t) \in Sites
    BY Typed DEF IInv, DispatchedIsHeld
  <2>2. row[s][r] # "NONE"
    BY DEF Ended
  <2>3. PICK t \in Writers : WriteStatus(t)
    BY <2>1, <2>2, RowChanges DEF RowChange
  <2>4. /\ ~Free(t) /\ row' = [row EXCEPT ![SiteOf(t)][change[t].req] = change[t].to]
        /\ change'[t] = NoChange
    BY <2>1, <2>3 DEF WriteStatus
  <2>5. /\ SiteOf(t) = s /\ change[t].req = r /\ row'[s][r] = change[t].to
    BY <2>1, <2>4 DEF Free, WriterRow
  <2>6. change[t].over = TRUE => t \in Sites /\ change[t].to = "COMPLETED"
    BY DEF IInv, LateWriters
  <2> QED
    BY <2>4, <2>5, <2>6
<1>2. IInv /\ [Next]_vars =>
        [\A t \in Workers : ~Free(t) /\ change'[t] = NoChange /\ row' # row =>
          LET reached == delivery[change[t].req].reached
          IN  /\ change[t].to = "DELIVERED" => reached # "none"
              /\ change[t].to = "COMPLETED" => reached \in {"confirmed", "returned"}]_vars
    BY DEF IInv, WorkersTrue
<1>3. Spec => EndedStays
    BY <1>1, Invariance, PTL DEF Spec, EndedStays
<1>4. Spec => DeliveriesTellTheTruth
    BY <1>2, Invariance, PTL DEF Spec, DeliveriesTellTheTruth
<1> QED
    BY <1>3, <1>4 DEF RowTellsTheTruth

-----------------------------------------------------------------------------
(* The desktop                                                             *)


\* Who works at the transport queue of an organization is in the registry.
TransportHeld ==
    /\ threads = [i \in Ids |-> threads[i]]
    /\ registry = [o \in Orgs |-> registry[o]]
    /\ \A i \in Ids : {"at", "org"} \subseteq DOMAIN threads[i] \/ threads[i] = NoWorker
    /\ \A i \in Ids : Runs(threads[i]) => registry[threads[i].org] = i

\* So is who works at its cloud queue.
SyncHeld ==
    /\ syncs = [l \in Logins |-> syncs[l]]
    /\ syncRegistry = [o \in Orgs |-> syncRegistry[o]]
    /\ \A l \in Logins : {"at", "org", "how"} \subseteq DOMAIN syncs[l] \/ syncs[l] = NoWorker
    /\ \A l \in Logins : Runs(syncs[l]) => syncRegistry[syncs[l].org] = l

\* A capacity that may still be shown is the last one asked for, for the
\* organization now active, and while it is asked for no other is shown.
QuotasOwn ==
    /\ \A q \in quotas : {"at", "org", "asked", "own"} \subseteq DOMAIN q
    /\ \A q \in quotas : q.asked = TRUE => q.own = TRUE /\ q.org = org
    /\ \A q, r \in quotas : q.own = TRUE /\ r.own = TRUE => q = r
    /\ \A q \in quotas : q.own = TRUE /\ Runs(q) => quota \in {"none", "loading"}

\* The viewer's own threads read the open document.
ViewerOwn ==
    /\ \A w \in workers : {"kind", "at", "path", "own", "stop", "found"} \subseteq DOMAIN w
    /\ \A w \in workers :
         w.own = TRUE /\ w.kind \in {"render", "thumbnails"} => w.path = path

\* The dialog's own requests ask about what is entered now, and have found one
\* of the two or nothing.
DialogOwn ==
    /\ form.open =>
         {"open", "file", "code", "result", "ready", "dropped"} \subseteq DOMAIN form
    /\ \A t \in tasks :
         {"does", "at", "file", "code", "record", "org", "own", "stop"} \subseteq DOMAIN t
    /\ \A t \in tasks : t.own = TRUE =>
         /\ form.open
         /\ t.file = form.file /\ t.code = form.code
         /\ t.at = "ended" /\ t.does = "check" /\ t.record \in Docs =>
              t.record \in {t.file, t.code}

Conversion ==
    [at : {"runs", "ended"}, step : {"begins", "stages", "publishes", "records", "undoes"},
     count : Outputs, made : 0 .. MaxOutputs, stop : BOOLEAN,
     ends : {"none", "done", "failed", "cancelled"}]

\* What a conversion has published stands, but where somebody else put a file,
\* until it takes it back; what it says at its end is true.
Truthful(l) ==
    LET c == conversions[l]
    IN  c # NoWorker =>
          /\ c.step \in {"begins", "stages"} => c.made = 0
          /\ c.step # "undoes" => \A x \in 1 .. c.made : folder[x] = Made(l) \/ x \in theirs
          /\ c.step = "records" => c.made >= c.count
          /\ c.step # "undoes" => c.ends # "cancelled"
          /\ c.ends = "done" => c.step = "records"
          /\ c.at = "ended" /\ c.ends = "cancelled" => \A x \in Outputs : folder[x] # Made(l)

Published ==
    /\ conversions \in [Logins -> {NoWorker} \cup Conversion]
    /\ folder = [x \in Outputs |-> folder[x]]
    /\ theirs \subseteq Outputs
    /\ \A x \in theirs : folder[x] = Other
    /\ \A l \in Logins : Truthful(l)

DesktopInv ==
    /\ org \in Orgs
    /\ TransportHeld /\ SyncHeld /\ QuotasOwn /\ FiguresAreOwn
    /\ ViewerOwn /\ PageIsOfDocument
    /\ DialogOwn /\ AnswerIsOfEntered
    /\ Published

-----------------------------------------------------------------------------
(* The transport                                                           *)

\* What a step does to the transport's threads and their registry.
TransportStep ==
    \/ UNCHANGED <<threads, registry>>
    \/ \E o \in Orgs : Trigger(o) \/ TransportOrganizationChanged(o)
    \/ TransportShutdown
    \/ \E i \in Ids : TransportThread(i)

\* A worker is started only where none runs, and the registry says so.
LEMMA TriggerHolds ==
    ASSUME TransportHeld, NEW o \in Orgs, Trigger(o)
    PROVE  TransportHeld'
<1>1. CASE UNCHANGED <<threads, registry>>
  BY <1>1 DEF TransportHeld, Runs
<1>2. CASE ~IsRunning(registry[o]) /\ StartWorker(o)
  <2> DEFINE n == [at |-> "runs", login |-> login, org |-> o, listed |-> FALSE,
                   jobs |-> 0, stop |-> FALSE]
  <2>1. \A i \in Ids : Runs(threads[i]) => threads[i].org # o \/ i = 0
    BY <1>2 DEF TransportHeld, IsRunning
  <2>2. 0 \notin Ids
    BY DEF Ids
  <2>3. threads' = [threads EXCEPT ![FreeId] = n] /\ registry' = [registry EXCEPT ![o] = FreeId]
    BY <1>2 DEF StartWorker
  <2>4. n.org = o /\ {"at", "org"} \subseteq DOMAIN n
    OBVIOUS
  <2> HIDE DEF n
  <2> QED BY <2>1, <2>2, <2>3, <2>4 DEF TransportHeld, Runs
<1>3. CASE /\ ~IsRunning(registry[o])
           /\ registry' = [registry EXCEPT ![o] = 0] /\ UNCHANGED threads
  <2>1. \A i \in Ids : Runs(threads[i]) => threads[i].org # o \/ i = 0
    BY <1>3 DEF TransportHeld, IsRunning
  <2>2. 0 \notin Ids
    BY DEF Ids
  <2> QED BY <1>3, <2>1, <2>2 DEF TransportHeld, Runs
<1> QED BY <1>1, <1>2, <1>3 DEF Trigger, coordinator

LEMMA TransportHolds ==
    ASSUME TransportHeld, TransportStep
    PROVE  TransportHeld'
<1>1. CASE UNCHANGED <<threads, registry>>
  BY <1>1 DEF TransportHeld, Runs
<1>2. ASSUME NEW o \in Orgs, TransportOrganizationChanged(o)
      PROVE  TransportHeld'
  <2>1. CASE /\ IsRunning(worker) /\ UNCHANGED registry
             /\ threads' = [threads EXCEPT ![worker].stop = TRUE]
    BY <2>1 DEF TransportHeld, Runs, NoWorker, IsRunning
  <2> QED BY <1>2, <2>1, TriggerHolds DEF TransportOrganizationChanged
<1>3. CASE TransportShutdown
  BY <1>3 DEF TransportShutdown, TransportHeld, Runs, NoWorker, IsRunning
<1>4. ASSUME NEW i \in Ids, ListJobs(i)
      PROVE  TransportHeld'
  BY <1>4 DEF ListJobs, TransportHeld, Runs, NoWorker, IsRunning
<1>5. ASSUME NEW i \in Ids, WorkerEnds(i)
      PROVE  TransportHeld'
  BY <1>5 DEF WorkerEnds, TransportHeld, Runs, NoWorker, IsRunning, Done
<1>6. ASSUME NEW i \in Ids, CleanupWorker(i)
      PROVE  TransportHeld'
  BY <1>6 DEF CleanupWorker, TransportHeld, Runs, NoWorker
<1> QED BY <1>1, <1>2, <1>3, <1>4, <1>5, <1>6, TriggerHolds DEF TransportStep, TransportThread

-----------------------------------------------------------------------------
(* The synchronizations                                                    *)

\* What a step does to them and their registry.
SyncStep ==
    \/ UNCHANGED <<syncs, syncRegistry>>
    \/ \E l \in Logins \cup soon \cup {login} : OnSyncNow(l)
    \/ \E l \in Logins : SyncEnds(l)
    \/ \E l \in Logins : syncs[l].at = "ended" /\ CleanupCloudWorker(l)

LEMMA SyncsHold ==
    ASSUME SyncHeld, SyncStep, org' \in Orgs
    PROVE  SyncHeld'
<1>1. CASE UNCHANGED <<syncs, syncRegistry>>
  BY <1>1 DEF SyncHeld, Runs
<1>2. ASSUME NEW l, OnSyncNow(l)
      PROVE  SyncHeld'
  <2>1. CASE /\ ~SyncHolds(org') /\ UNCHANGED syncs
             /\ syncRegistry' = [syncRegistry EXCEPT ![org'] = 0]
    <3>1. 0 \notin Logins
      BY DEF Logins
    <3>2. \A k \in Logins : Runs(syncs[k]) => syncs[k].org # org'
      BY <2>1, <3>1 DEF SyncHeld, SyncHolds
    <3> QED BY <2>1, <3>1, <3>2 DEF SyncHeld, Runs
  <2>2. CASE /\ ~SyncHolds(org')
             /\ syncs' = [syncs EXCEPT ![l] = [at |-> "runs", org |-> org', how |-> "none"]]
             /\ syncRegistry' = [syncRegistry EXCEPT ![org'] = l]
    <3> DEFINE n == [at |-> "runs", org |-> org', how |-> "none"]
    <3>1. 0 \notin Logins
      BY DEF Logins
    <3>2. \A k \in Logins : Runs(syncs[k]) => syncs[k].org # org'
      BY <2>2, <3>1 DEF SyncHeld, SyncHolds
    <3>3. n.org = org' /\ {"at", "org", "how"} \subseteq DOMAIN n /\ syncs' = [syncs EXCEPT ![l] = n]
      BY <2>2
    <3> HIDE DEF n
    <3> QED BY <2>2, <3>1, <3>2, <3>3 DEF SyncHeld, Runs
  <2> QED BY <1>1, <1>2, <2>1, <2>2 DEF OnSyncNow
<1>3. ASSUME NEW l \in Logins, SyncEnds(l)
      PROVE  SyncHeld'
  <2>1. Runs(syncs[l]) /\ UNCHANGED syncRegistry
    BY <1>3 DEF SyncEnds
  <2>2. PICK how : syncs' = [syncs EXCEPT ![l] = Done([@ EXCEPT !.how = how], "ended")]
    BY <1>3 DEF SyncEnds
  <2> QED BY <2>1, <2>2 DEF SyncHeld, Runs, NoWorker, Done
<1>4. ASSUME NEW l \in Logins, syncs[l].at = "ended", CleanupCloudWorker(l)
      PROVE  SyncHeld'
  BY <1>4 DEF CleanupCloudWorker, SyncHeld, Runs, NoWorker
<1> QED BY <1>1, <1>2, <1>3, <1>4 DEF SyncStep

-----------------------------------------------------------------------------
(* The figures                                                             *)

UsageStep ==
    \/ usage' = Unknown
    \/ org' = org /\ usage'.of = org
    \/ UNCHANGED <<usage, org>>

QuotaStep ==
    \/ UNCHANGED <<quota, quotas, org>>
    \/ RefreshCloud
    \/ org' = org /\ (QuotaEnds \/ QuotaResult)
    \/ quota' = "none" /\ quotas' = {}

\* A refresh leaves at most one request whose answer is wanted: the one for the
\* organization that is active from now on.
LEMMA RefreshCloudOwn ==
    ASSUME QuotasOwn, FiguresAreOwn, RefreshCloud
    PROVE  QuotasOwn' /\ quota' \in {"none", "loading", org'}
<1>1. /\ \A u \in Unasked : {"at", "org", "asked", "own"} \subseteq DOMAIN u /\ u.asked = FALSE
      /\ \A u, v \in Unasked : u.own = TRUE /\ v.own = TRUE => u = v
      /\ \A u \in Unasked : \E q \in quotas : u.own = q.own /\ u.at = q.at /\ u.org = q.org
  BY DEF Unasked, QuotasOwn
<1>2. CASE quota' = "none" /\ quotas' = Unasked
  BY <1>1, <1>2 DEF QuotasOwn
<1>3. CASE /\ quotas' = Unasked /\ UNCHANGED quota
           /\ \E q \in quotas : q.own /\ Runs(q) /\ q.org = org'
  BY <1>1, <1>3 DEF QuotasOwn, Runs
<1>4. CASE /\ quota' = "loading"
           /\ quotas' = {[q EXCEPT !.own = FALSE] : q \in Unasked}
                \cup {[at |-> "runs", org |-> org', asked |-> TRUE, own |-> TRUE]}
  <2> DEFINE n == [at |-> "runs", org |-> org', asked |-> TRUE, own |-> TRUE]
             Disowned == {[q EXCEPT !.own = FALSE] : q \in Unasked}
  <2>1. \A d \in Disowned : /\ {"at", "org", "asked", "own"} \subseteq DOMAIN d
                            /\ d.own = FALSE /\ d.asked = FALSE
    BY <1>1
  <2>2. {"at", "org", "asked", "own"} \subseteq DOMAIN n /\ n.org = org' /\ n.own = TRUE
    OBVIOUS
  <2>3. quotas' = Disowned \cup {n} /\ quota' = "loading"
    BY <1>4
  <2> HIDE DEF n, Disowned
  <2> QED BY <2>1, <2>2, <2>3 DEF QuotasOwn
<1> QED BY <1>2, <1>3, <1>4 DEF RefreshCloud

LEMMA FiguresHold ==
    ASSUME QuotasOwn, FiguresAreOwn, UsageStep, QuotaStep
    PROVE  QuotasOwn' /\ FiguresAreOwn'
<1>1. usage'.of \in {NoOrg, org'}
  BY DEF UsageStep, FiguresAreOwn, Unknown
<1>2. QuotasOwn' /\ quota' \in {"none", "loading", org'}
  <2>1. CASE UNCHANGED <<quota, quotas, org>>
    BY <2>1 DEF QuotasOwn, FiguresAreOwn, Runs
  <2>2. CASE RefreshCloud
    BY <2>2, RefreshCloudOwn
  <2>3. CASE org' = org /\ QuotaEnds
    <3>1. PICK q \in quotas : Runs(q) /\ quotas' = (quotas \ {q}) \cup {Done(q, "ended")}
      BY <2>3 DEF QuotaEnds
    <3>2. UNCHANGED quota
      BY <2>3 DEF QuotaEnds
    <3> DEFINE d == Done(q, "ended")
    <3>3. /\ {"at", "org", "asked", "own"} \subseteq DOMAIN d
          /\ d.at = "ended" /\ d.org = q.org /\ d.asked = q.asked /\ d.own = q.own
      BY DEF Done, QuotasOwn
    <3>4. quotas' = (quotas \ {q}) \cup {d}
      BY <3>1
    <3> HIDE DEF d
    <3>5. \A r \in quotas' : {"at", "org", "asked", "own"} \subseteq DOMAIN r
      BY <3>3, <3>4 DEF QuotasOwn
    <3>6. \A r \in quotas' : r.asked = TRUE => r.own = TRUE /\ r.org = org'
      BY <2>3, <3>1, <3>3, <3>4 DEF QuotasOwn
    <3>7. \A r, s \in quotas' : r.own = TRUE /\ s.own = TRUE => r = s
      BY <3>1, <3>3, <3>4 DEF QuotasOwn
    <3>8. \A r \in quotas' : r.own = TRUE /\ r.at = "runs" => quota' \in {"none", "loading"}
      BY <3>2, <3>3, <3>4 DEF QuotasOwn, Runs
    <3> QED BY <2>3, <3>2, <3>5, <3>6, <3>7, <3>8 DEF QuotasOwn, FiguresAreOwn, Runs
  <2>4. CASE org' = org /\ QuotaResult
    <3>1. PICK q \in quotas :
            /\ q.at = "ended" /\ quotas' = quotas \ {q}
            /\ quota' \in {quota} \cup (IF QuotaWanted(q) THEN {q.org} ELSE {})
      BY <2>4 DEF QuotaResult
    <3>2. CASE quota' = quota
      BY <2>4, <3>1, <3>2 DEF QuotasOwn, FiguresAreOwn, Runs
    <3>3. CASE QuotaWanted(q) /\ quota' = q.org
      <4>1. q.own = TRUE /\ q.org = org
        BY <3>3, Zenon DEF QuotaWanted, QuotasOwn
      <4> QED BY <2>4, <3>1, <3>3, <4>1 DEF QuotasOwn, Runs
    <3> QED BY <3>1, <3>2, <3>3
  <2>5. CASE quota' = "none" /\ quotas' = {}
    BY <2>5 DEF QuotasOwn
  <2> QED BY <2>1, <2>2, <2>3, <2>4, <2>5 DEF QuotaStep
<1> QED BY <1>1, <1>2 DEF FiguresAreOwn

-----------------------------------------------------------------------------
(* The viewer                                                              *)

ViewerStep ==
    \/ UNCHANGED viewerVars
    \/ Close
    \/ \E doc : Open(doc)
    \/ ViewerGesture
    \/ ViewerMachine
    \/ /\ path' = NoDoc /\ shown' = Nothing /\ thumbs' = {} /\ workers' = {}

LEMMA SupersededOwn ==
    ASSUME ViewerOwn, NEW kinds, NEW others \in SUBSET workers
    PROVE  /\ \A w \in Superseded(kinds, others) :
                {"kind", "at", "path", "own", "stop", "found"} \subseteq DOMAIN w
           /\ \A w \in Superseded(kinds, others) :
                w.own = TRUE /\ w.kind \in {"render", "thumbnails"} =>
                  w.path = path /\ w.kind \notin kinds
<1> SUFFICES ASSUME NEW v \in others
             PROVE  LET w == IF v.kind \in kinds /\ v.own
                             THEN [v EXCEPT !.own = FALSE, !.stop = @ \/ Runs(v)] ELSE v
                    IN  /\ {"kind", "at", "path", "own", "stop", "found"} \subseteq DOMAIN w
                        /\ w.own = TRUE /\ w.kind \in {"render", "thumbnails"} =>
                             w.path = path /\ w.kind \notin kinds
  BY DEF Superseded
<1>1. {"kind", "at", "path", "own", "stop", "found"} \subseteq DOMAIN v
  BY DEF ViewerOwn
<1>2. v.own = TRUE /\ v.kind \in {"render", "thumbnails"} => v.path = path
  BY DEF ViewerOwn
<1>3. CASE v.kind \in kinds /\ v.own
  <2> DEFINE b == v.stop \/ Runs(v)
             w == [v EXCEPT !.own = FALSE, !.stop = b]
  <2>1. DOMAIN w = DOMAIN v
    OBVIOUS
  <2>2. w.own = FALSE
    BY <1>1
  <2> QED BY <1>1, <1>3, <2>1, <2>2
<1>4. CASE ~(v.kind \in kinds /\ v.own)
  BY <1>1, <1>2, <1>4
<1> QED BY <1>3, <1>4

\* A worker just started reads the document it was started for.
LEMMA WorkerReads ==
    ASSUME NEW kind, NEW doc, NEW p, NEW k
    PROVE  /\ {"kind", "at", "path", "own", "stop", "found"} \subseteq DOMAIN Worker(kind, doc, p, k)
           /\ Worker(kind, doc, p, k).path = doc /\ Worker(kind, doc, p, k).kind = kind
           /\ Worker(kind, doc, p, k).at = "runs"
BY DEF Worker

LEMMA RenderCurrentOwn ==
    ASSUME ViewerOwn, NEW others \in SUBSET workers, RenderCurrent(others), path' = path
    PROVE  ViewerOwn'
<1> DEFINE S == Superseded({"render"}, others)
           n == Worker("render", path, page', look')
<1>1. workers' = S \cup {n}
  BY DEF RenderCurrent
<1>2. /\ \A w \in S : {"kind", "at", "path", "own", "stop", "found"} \subseteq DOMAIN w
      /\ \A w \in S : w.own = TRUE /\ w.kind \in {"render", "thumbnails"} => w.path = path
  BY SupersededOwn
<1>3. {"kind", "at", "path", "own", "stop", "found"} \subseteq DOMAIN n /\ n.path = path
  BY WorkerReads
<1> HIDE DEF S, n
<1> QED BY <1>1, <1>2, <1>3 DEF ViewerOwn

LEMMA ClosedOwn ==
    ASSUME ViewerOwn, Close
    PROVE  ViewerOwn' /\ PageIsOfDocument'
<1> DEFINE S == Superseded({"render", "thumbnails", "search"}, workers)
<1>1. workers' = S
  BY DEF Close
<1>2. /\ \A w \in S : {"kind", "at", "path", "own", "stop", "found"} \subseteq DOMAIN w
      /\ \A w \in S : ~(w.own = TRUE /\ w.kind \in {"render", "thumbnails"})
  BY SupersededOwn
<1> HIDE DEF S
<1>3. ViewerOwn'
  BY <1>1, <1>2 DEF ViewerOwn
<1> QED BY <1>3 DEF Close, PageIsOfDocument, Nothing

LEMMA OpenedOwn ==
    ASSUME ViewerOwn, NEW doc, Open(doc)
    PROVE  ViewerOwn' /\ PageIsOfDocument'
<1>1. CASE Close
  BY <1>1, ClosedOwn
<1>2. CASE /\ path' = doc /\ shown' = Nothing /\ thumbs' = {}
           /\ workers' = Superseded({"render", "thumbnails", "search"}, workers)
                \cup {Worker("render", doc, 1, 0), Worker("thumbnails", doc, 0, 0)}
  <2> DEFINE S == Superseded({"render", "thumbnails", "search"}, workers)
             r == Worker("render", doc, 1, 0)
             t == Worker("thumbnails", doc, 0, 0)
  <2>1. /\ \A w \in S : {"kind", "at", "path", "own", "stop", "found"} \subseteq DOMAIN w
        /\ \A w \in S : ~(w.own = TRUE /\ w.kind \in {"render", "thumbnails"})
    BY SupersededOwn
  <2>2. /\ {"kind", "at", "path", "own", "stop", "found"} \subseteq DOMAIN r /\ r.path = doc
        /\ {"kind", "at", "path", "own", "stop", "found"} \subseteq DOMAIN t /\ t.path = doc
    BY WorkerReads
  <2>3. workers' = S \cup {r, t}
    BY <1>2
  <2> HIDE DEF S, r, t
  <2>4. ViewerOwn'
    BY <1>2, <2>1, <2>2, <2>3 DEF ViewerOwn
  <2> QED BY <1>2, <2>4 DEF PageIsOfDocument, Nothing
<1> QED BY <1>1, <1>2 DEF Open

LEMMA ViewerHolds ==
    ASSUME ViewerOwn, PageIsOfDocument, ViewerStep
    PROVE  ViewerOwn' /\ PageIsOfDocument'
<1>1. CASE UNCHANGED viewerVars
  BY <1>1 DEF viewerVars, ViewerOwn, PageIsOfDocument
<1>2. CASE ViewerGesture
  <2>1. CASE GoToPage \/ ChangeLook \/ MoveSearch
    <3>1. RenderCurrent(workers) /\ UNCHANGED <<path, shown, thumbs>>
      BY <2>1 DEF GoToPage, ChangeLook, MoveSearch
    <3>2. ViewerOwn'
      BY <3>1, RenderCurrentOwn
    <3> QED BY <3>1, <3>2 DEF PageIsOfDocument
  <2>2. CASE StartSearch
    <3> DEFINE S == Superseded({"search"}, workers)
               n == Worker("search", path, 0, 0)
    <3>1. /\ \A w \in S : {"kind", "at", "path", "own", "stop", "found"} \subseteq DOMAIN w
          /\ \A w \in S : w.own = TRUE /\ w.kind \in {"render", "thumbnails"} => w.path = path
      BY SupersededOwn
    <3>2. {"kind", "at", "path", "own", "stop", "found"} \subseteq DOMAIN n /\ n.path = path
      BY WorkerReads
    <3>3. workers' = S \cup {n} /\ UNCHANGED <<path, shown, thumbs>>
      BY <2>2 DEF StartSearch
    <3> HIDE DEF S, n
    <3> QED BY <3>1, <3>2, <3>3 DEF ViewerOwn, PageIsOfDocument
  <2> QED BY <1>2, <2>1, <2>2, ClosedOwn DEF ViewerGesture, ReturnToDocuments
<1>3. ASSUME NEW w \in workers,
             \/ RenderEnds(w) \/ ThumbnailsEnd(w) \/ SearchEnds(w)
             \/ OnRendered(w) \/ WorkerFailed(w) \/ ThumbnailsReady(w)
             \/ OnSearchResults(w)
      PROVE  ViewerOwn' /\ PageIsOfDocument'
  <2>1. ASSUME NEW v, Replace(w, {v}), UNCHANGED <<path, shown, thumbs>>,
               {"kind", "at", "path", "own", "stop", "found"} \subseteq DOMAIN v,
               v.kind = w.kind, v.own = w.own, v.path = w.path
        PROVE  ViewerOwn' /\ PageIsOfDocument'
    BY <2>1 DEF Replace, ViewerOwn, PageIsOfDocument
  <2>2. ASSUME Replace(w, {}), UNCHANGED path
        PROVE  ViewerOwn'
    BY <2>2 DEF Replace, ViewerOwn
  <2>3. {"kind", "at", "path", "own", "stop", "found"} \subseteq DOMAIN w
    BY DEF ViewerOwn
  <2>4. \A how : LET v == Done(w, how)
                 IN  /\ {"kind", "at", "path", "own", "stop", "found"} \subseteq DOMAIN v
                     /\ v.kind = w.kind /\ v.own = w.own /\ v.path = w.path
    BY <2>3 DEF Done
  <2>5. \A found : LET v == Done([w EXCEPT !.found = found], "ended")
                   IN  /\ {"kind", "at", "path", "own", "stop", "found"} \subseteq DOMAIN v
                       /\ v.kind = w.kind /\ v.own = w.own /\ v.path = w.path
    BY <2>3 DEF Done
  <2>6. CASE RenderEnds(w) \/ ThumbnailsEnd(w)
    <3>1. UNCHANGED <<path, shown, thumbs>>
      BY <2>6 DEF RenderEnds, ThumbnailsEnd
    <3>2. Replace(w, {}) \/ \E how : Replace(w, {Done(w, how)})
      BY <2>6 DEF RenderEnds, ThumbnailsEnd
    <3> QED BY <2>1, <2>2, <2>4, <3>1, <3>2 DEF PageIsOfDocument
  <2>7. CASE SearchEnds(w)
    <3>1. UNCHANGED <<path, shown, thumbs>>
      BY <2>7 DEF SearchEnds
    <3>2. \/ Replace(w, {}) \/ Replace(w, {Done(w, "failed")})
          \/ \E found : Replace(w, {Done([w EXCEPT !.found = found], "ended")})
      BY <2>7 DEF SearchEnds
    <3> QED BY <2>1, <2>2, <2>4, <2>5, <3>1, <3>2 DEF PageIsOfDocument
  <2>8. CASE OnRendered(w)
    <3>1. Replace(w, {}) /\ UNCHANGED <<path, thumbs>>
      BY <2>8 DEF OnRendered
    <3>2. shown'.path = path \/ shown' = shown
      BY <2>8 DEF OnRendered, ViewerOwn
    <3> QED BY <2>2, <3>1, <3>2 DEF PageIsOfDocument
  <2>9. CASE WorkerFailed(w)
    BY <2>2, <2>9 DEF WorkerFailed, PageIsOfDocument
  <2>10. CASE ThumbnailsReady(w)
    <3>1. Replace(w, {}) /\ UNCHANGED <<path, shown>>
      BY <2>10 DEF ThumbnailsReady
    <3>2. thumbs' = thumbs \/ (path # NoDoc /\ thumbs' = thumbs \cup {path})
      BY <2>10 DEF ThumbnailsReady, ViewerOwn
    <3> QED BY <2>2, <3>1, <3>2 DEF PageIsOfDocument
  <2>11. CASE OnSearchResults(w)
    <3>1. UNCHANGED <<path, shown, thumbs>>
      BY <2>11 DEF OnSearchResults
    <3>2. Replace(w, {}) \/ RenderCurrent(workers \ {w})
      BY <2>11 DEF OnSearchResults
    <3>3. workers \ {w} \in SUBSET workers
      OBVIOUS
    <3>4. ViewerOwn'
      BY <2>2, <3>1, <3>2, <3>3, RenderCurrentOwn
    <3> QED BY <3>1, <3>4 DEF PageIsOfDocument
  <2> QED BY <1>3, <2>6, <2>7, <2>8, <2>9, <2>10, <2>11
<1>4. CASE path' = NoDoc /\ shown' = Nothing /\ thumbs' = {} /\ workers' = {}
  BY <1>4 DEF ViewerOwn, PageIsOfDocument, Nothing
<1> QED BY <1>1, <1>2, <1>3, <1>4, ClosedOwn, OpenedOwn DEF ViewerStep, ViewerMachine

-----------------------------------------------------------------------------
(* The validation dialog                                                   *)

DialogStep ==
    \/ UNCHANGED validationVars
    \/ CloseForm
    \/ ValidationGesture
    \/ \E t \in tasks : TaskEnds(t) \/ TaskDelivered(t)

LEMMA PassedOwn ==
    ASSUME DialogOwn, NEW others \in SUBSET tasks
    PROVE  \A t \in Passed(others) :
             /\ {"does", "at", "file", "code", "record", "org", "own", "stop"} \subseteq DOMAIN t
             /\ t.own = FALSE
<1> SUFFICES ASSUME NEW s \in others
             PROVE  LET t == [s EXCEPT !.own = FALSE, !.stop = @ \/ Runs(s)]
                    IN  /\ {"does", "at", "file", "code", "record", "org", "own", "stop"}
                             \subseteq DOMAIN t
                        /\ t.own = FALSE
  BY DEF Passed
<1>1. {"does", "at", "file", "code", "record", "org", "own", "stop"} \subseteq DOMAIN s
  BY DEF DialogOwn
<1> DEFINE b == s.stop \/ Runs(s)
           t == [s EXCEPT !.own = FALSE, !.stop = b]
<1>2. DOMAIN t = DOMAIN s
  OBVIOUS
<1>3. t.own = FALSE
  BY <1>1
<1> QED BY <1>1, <1>2, <1>3

LEMMA StartTaskOwn ==
    ASSUME DialogOwn, form.open, NEW does, NEW file, NEW code, NEW record, NEW result,
           StartTask(does, file, code, record, result),
           result # Blank =>
             /\ result.file = file /\ result.code = code
             /\ result.record \in Docs => result.record \in {file, code}
    PROVE  DialogOwn' /\ AnswerIsOfEntered'
<1> DEFINE S == Passed(tasks)
           n == [does |-> does, at |-> "runs", file |-> file, code |-> code,
                 record |-> record, org |-> org, own |-> TRUE, stop |-> FALSE]
<1>1. \A t \in S :
        /\ {"does", "at", "file", "code", "record", "org", "own", "stop"} \subseteq DOMAIN t
        /\ t.own = FALSE
  BY PassedOwn
<1>2. /\ {"does", "at", "file", "code", "record", "org", "own", "stop"} \subseteq DOMAIN n
      /\ n.file = file /\ n.code = code /\ n.at = "runs"
  OBVIOUS
<1>3. tasks' = S \cup {n}
  BY DEF StartTask
<1>4. /\ {"open", "file", "code", "result", "ready", "dropped"} \subseteq DOMAIN form'
      /\ form'.open = form.open /\ form'.file = file /\ form'.code = code
      /\ form'.result = result
  BY DEF StartTask, DialogOwn
<1> HIDE DEF S, n
<1>5. DialogOwn'
  BY <1>1, <1>2, <1>3, <1>4 DEF DialogOwn
<1> QED BY <1>4, <1>5 DEF AnswerIsOfEntered

LEMMA InvalidateOwn ==
    ASSUME DialogOwn, form.open, NEW file, NEW code, Invalidate(file, code)
    PROVE  DialogOwn' /\ AnswerIsOfEntered'
<1>1. \A t \in tasks' :
        /\ {"does", "at", "file", "code", "record", "org", "own", "stop"} \subseteq DOMAIN t
        /\ t.own = FALSE
  BY PassedOwn DEF Invalidate
<1>2. /\ {"open", "file", "code", "result", "ready", "dropped"} \subseteq DOMAIN form'
      /\ form'.result = Blank
  BY DEF Invalidate, DialogOwn
<1> QED BY <1>1, <1>2 DEF DialogOwn, AnswerIsOfEntered

LEMMA CloseFormOwn ==
    ASSUME DialogOwn, CloseForm
    PROVE  DialogOwn' /\ AnswerIsOfEntered'
<1>1. \A t \in tasks' :
        /\ {"does", "at", "file", "code", "record", "org", "own", "stop"} \subseteq DOMAIN t
        /\ t.own = FALSE
  BY PassedOwn DEF CloseForm
<1> QED BY <1>1 DEF CloseForm, DialogOwn, AnswerIsOfEntered, NoForm

\* A request that found what it could.
LEMMA TaskEndsOwn ==
    ASSUME DialogOwn, AnswerIsOfEntered, NEW t \in tasks, TaskEnds(t)
    PROVE  DialogOwn' /\ AnswerIsOfEntered'
<1> DEFINE Fields == {"does", "at", "file", "code", "record", "org", "own", "stop"}
<1>1. Fields \subseteq DOMAIN t
  BY DEF DialogOwn
<1>2. UNCHANGED form
  BY DEF TaskEnds
<1>3. AnswerIsOfEntered'
  BY <1>2 DEF AnswerIsOfEntered
<1>4. CASE tasks' = tasks \ {t}
  BY <1>2, <1>3, <1>4 DEF DialogOwn
<1>5. CASE tasks' = (tasks \ {t}) \cup {Done(t, "failed")}
  <2> DEFINE d == Done(t, "failed")
  <2>1. Fields \subseteq DOMAIN d /\ d.at = "failed" /\ d.own = t.own /\ d.file = t.file /\ d.code = t.code
    BY <1>1 DEF Done
  <2>2. tasks' = (tasks \ {t}) \cup {d}
    BY <1>5
  <2> HIDE DEF d
  <2> QED BY <1>2, <1>3, <2>1, <2>2 DEF DialogOwn
<1>6. ASSUME NEW found \in Verifies(t),
             tasks' = (tasks \ {t}) \cup {Done([t EXCEPT !.record = found], "ended")}
      PROVE  DialogOwn' /\ AnswerIsOfEntered'
  <2> DEFINE d == Done([t EXCEPT !.record = found], "ended")
  <2>1. /\ Fields \subseteq DOMAIN d /\ d.own = t.own /\ d.file = t.file /\ d.code = t.code
        /\ d.does = t.does /\ d.record = found
    BY <1>1 DEF Done
  <2>2. tasks' = (tasks \ {t}) \cup {d}
    BY <1>6
  <2>3. t.does = "check" /\ found \in Docs => found \in {t.file, t.code}
    BY <1>6, DialogAssumption DEF Verifies
  <2> HIDE DEF d
  <2> QED BY <1>2, <1>3, <2>1, <2>2, <2>3 DEF DialogOwn
<1> QED BY <1>4, <1>5, <1>6 DEF TaskEnds

LEMMA TaskDeliveredOwn ==
    ASSUME DialogOwn, AnswerIsOfEntered, NEW t \in tasks, TaskDelivered(t)
    PROVE  DialogOwn' /\ AnswerIsOfEntered'
<1>1. CASE /\ IsCurrent(t) /\ t.at = "ended" /\ t.does = "check"
           /\ form' = [form EXCEPT !.ready = TRUE, !.result =
                         [record |-> t.record, file |-> t.file, code |-> t.code]]
           /\ tasks' = tasks \ {t}
  <2> DEFINE r == [record |-> t.record, file |-> t.file, code |-> t.code]
  <2>1. /\ {"open", "file", "code", "result", "ready", "dropped"} \subseteq DOMAIN form'
        /\ form'.open = form.open /\ form'.file = form.file /\ form'.code = form.code
        /\ form'.result = r
    BY <1>1 DEF DialogOwn, IsCurrent
  <2>2. t.own = TRUE \/ t.own # TRUE
    OBVIOUS
  <2>3. t.own = TRUE
    BY <1>1, Zenon DEF IsCurrent
  <2>4. /\ t.file = form.file /\ t.code = form.code
        /\ t.record \in Docs => t.record \in {t.file, t.code}
    BY <1>1, <2>3 DEF DialogOwn
  <2>5. r.record = t.record /\ r.file = t.file /\ r.code = t.code
    OBVIOUS
  <2> HIDE DEF r
  <2>6. AnswerIsOfEntered'
    BY <2>1, <2>4, <2>5 DEF AnswerIsOfEntered
  <2>7. DialogOwn'
    BY <1>1, <2>1 DEF DialogOwn
  <2> QED BY <2>6, <2>7
<1>2. CASE /\ IsCurrent(t)
           /\ form' = [form EXCEPT !.ready = TRUE, !.code = t.record, !.result = Blank]
           /\ tasks' = Passed(tasks \ {t})
  <2>1. \A s \in tasks' :
          /\ {"does", "at", "file", "code", "record", "org", "own", "stop"} \subseteq DOMAIN s
          /\ s.own = FALSE
    BY <1>2, PassedOwn
  <2>2. /\ {"open", "file", "code", "result", "ready", "dropped"} \subseteq DOMAIN form'
        /\ form'.result = Blank
    BY <1>2 DEF DialogOwn, IsCurrent
  <2> QED BY <2>1, <2>2 DEF DialogOwn, AnswerIsOfEntered
<1>3. CASE /\ form' = IF form.open /\ t.own
                      THEN [form EXCEPT !.ready = @ \/ t.org = org,
                                        !.dropped = @ \/ t.org # org]
                      ELSE form
           /\ tasks' = tasks \ {t}
  <2>1. CASE form' = form
    BY <1>3, <2>1 DEF DialogOwn, AnswerIsOfEntered
  <2>2. CASE form.open /\ form' # form
    <3> DEFINE a == form.ready \/ t.org = org
               b == form.dropped \/ t.org # org
    <3>1. form' = [form EXCEPT !.ready = a, !.dropped = b]
      BY <1>3, <2>2
    <3> HIDE DEF a, b
    <3>2. /\ {"open", "file", "code", "result", "ready", "dropped"} \subseteq DOMAIN form'
          /\ form'.open = form.open /\ form'.file = form.file /\ form'.code = form.code
          /\ form'.result = form.result
      BY <2>2, <3>1 DEF DialogOwn
    <3>3. AnswerIsOfEntered'
      BY <3>2 DEF AnswerIsOfEntered
    <3>4. DialogOwn'
      BY <1>3, <3>2 DEF DialogOwn
    <3> QED BY <3>3, <3>4
  <2> QED BY <1>3, <2>1, <2>2
<1> QED BY <1>1, <1>2, <1>3 DEF TaskDelivered

LEMMA DialogHolds ==
    ASSUME DialogOwn, AnswerIsOfEntered, DialogStep
    PROVE  DialogOwn' /\ AnswerIsOfEntered'
<1>1. CASE UNCHANGED validationVars
  BY <1>1 DEF validationVars, DialogOwn, AnswerIsOfEntered
<1>2. CASE Show
  BY <1>2 DEF Show, DialogOwn, AnswerIsOfEntered, Form
<1>3. CASE Enter
  BY <1>3, InvalidateOwn DEF Enter
<1>4. CASE Check
  BY <1>4, StartTaskOwn DEF Check
<1>5. CASE SelectMatchingRecord
  BY <1>5, StartTaskOwn DEF SelectMatchingRecord
<1>6. CASE UseRecord
  <2>1. form.open
    BY <1>6 DEF UseRecord
  <2>2. PICK does, record : StartTask(does, form.file, form.code, record, form.result)
    BY <1>6 DEF UseRecord
  <2> QED BY <2>1, <2>2, StartTaskOwn DEF AnswerIsOfEntered
<1>7. CASE CloseDialog
  BY <1>7, CloseFormOwn DEF CloseDialog
<1> QED BY <1>1, <1>2, <1>3, <1>4, <1>5, <1>6, <1>7, CloseFormOwn, TaskEndsOwn,
           TaskDeliveredOwn DEF DialogStep, ValidationGesture

-----------------------------------------------------------------------------
(* The conversions                                                         *)

ConversionStep ==
    \/ UNCHANGED <<conversions, folder, theirs>>
    \/ ConverterGesture
    \/ ConverterMachine

LEMMA NamesApart ==
    /\ FreeName # Other /\ Earlier # Other
    /\ \A l : Made(l) # FreeName /\ Made(l) # Other /\ Made(l) # Earlier
    /\ \A k, l : Made(k) = Made(l) => k = l
BY DEF FreeName, Earlier, Other, Made

LEMMA PublishedIsWhole ==
    ASSUME Published
    PROVE  ConversionIsWhole
<1> SUFFICES ASSUME NEW l \in Logins, conversions[l].at = "ended"
             PROVE  /\ conversions[l].ends = "done" =>
                         \A x \in 1 .. conversions[l].count : folder[x] = Made(l) \/ x \in theirs
                    /\ conversions[l].ends = "cancelled" =>
                         \A x \in Outputs : folder[x] # Made(l)
  BY DEF ConversionIsWhole, Published
<1> DEFINE c == conversions[l]
<1>1. c # NoWorker /\ c \in Conversion
  BY DEF Published, NoWorker
<1>2. c.made \in Nat /\ c.count \in Nat
  BY <1>1, ConverterAssumption DEF Conversion, Outputs
<1> QED BY <1>1, <1>2 DEF Published, Truthful

\* A conversion is not disturbed by what leaves its files and its record alone.
LEMMA Undisturbed ==
    ASSUME NEW l, Truthful(l), UNCHANGED conversions[l], theirs \subseteq theirs',
           l \in Logins, conversions \in [Logins -> {NoWorker} \cup Conversion],
           \A x \in Outputs :
             /\ folder[x] = Made(l) => folder'[x] = Made(l) \/ x \in theirs'
             /\ folder'[x] = Made(l) => folder[x] = Made(l)
    PROVE  Truthful(l)'
<1> DEFINE c == conversions[l]
<1>1. CASE c = NoWorker
  BY <1>1 DEF Truthful
<1>2. CASE c # NoWorker
  <2>1. c \in Conversion
    BY <1>2
  <2>2. 1 .. c.made \subseteq Outputs
    BY <2>1, ConverterAssumption DEF Conversion, Outputs
  <2>3. c' = c
    OBVIOUS
  <2> HIDE DEF c
  <2>4. Truthful(l)' <=> (c' # NoWorker =>
          /\ c'.step \in {"begins", "stages"} => c'.made = 0
          /\ c'.step # "undoes" =>
               \A x \in 1 .. c'.made : folder'[x] = Made(l) \/ x \in theirs'
          /\ c'.step = "records" => c'.made >= c'.count
          /\ c'.step # "undoes" => c'.ends # "cancelled"
          /\ c'.ends = "done" => c'.step = "records"
          /\ c'.at = "ended" /\ c'.ends = "cancelled" =>
               \A x \in Outputs : folder'[x] # Made(l))
    BY DEF Truthful, c, Made
  <2>5. Truthful(l) <=> (c # NoWorker =>
          /\ c.step \in {"begins", "stages"} => c.made = 0
          /\ c.step # "undoes" => \A x \in 1 .. c.made : folder[x] = Made(l) \/ x \in theirs
          /\ c.step = "records" => c.made >= c.count
          /\ c.step # "undoes" => c.ends # "cancelled"
          /\ c.ends = "done" => c.step = "records"
          /\ c.at = "ended" /\ c.ends = "cancelled" => \A x \in Outputs : folder[x] # Made(l))
    BY DEF Truthful, c
  <2> QED BY <2>2, <2>3, <2>4, <2>5
<1> QED BY <1>1, <1>2

\* What one conversion does, as long as it touches its own files and free names
\* only, leaves the others as they were.
LEMMA OneConversion ==
    ASSUME Published, NEW l \in Logins, NEW d \in {NoWorker} \cup Conversion,
           conversions' = [conversions EXCEPT ![l] = d],
           folder' = [x \in Outputs |-> folder'[x]], UNCHANGED theirs,
           \A x \in Outputs :
             \/ folder'[x] = folder[x]
             \/ /\ folder[x] \in {FreeName, Made(l)}
                /\ folder'[x] \in {FreeName, Earlier, Made(l)},
           Truthful(l)'
    PROVE  Published'
<1>1. conversions' \in [Logins -> {NoWorker} \cup Conversion]
  BY DEF Published
<1>2. ASSUME NEW k \in Logins, k # l
      PROVE  Truthful(k)'
  <2>1. conversions'[k] = conversions[k]
    BY <1>2 DEF Published
  <2>2. Made(k) \notin {FreeName, Earlier, Made(l)}
    BY <1>2, NamesApart
  <2>3. \A x \in Outputs : folder'[x] = Made(k) <=> folder[x] = Made(k)
    BY <2>2
  <2>4. Truthful(k)
    BY DEF Published
  <2> QED BY <2>1, <2>3, <2>4, Undisturbed DEF Published
<1>3. \A x \in theirs : folder'[x] = Other
  BY NamesApart DEF Published
<1> QED BY <1>1, <1>2, <1>3 DEF Published

\* A conversion goes on to its next step, or gives up.
LEMMA MovesOn ==
    ASSUME Published, NEW l \in Logins, conversions[l].at = "runs",
           UNCHANGED <<folder, theirs>>,
           \/ /\ conversions[l].step = "begins" /\ ToStep(l, "stages")
           \/ /\ conversions[l].step = "stages" /\ ToStep(l, "publishes")
           \/ /\ conversions[l].step = "publishes" /\ ToStep(l, "records")
              /\ conversions[l].made >= conversions[l].count
           \/ Abandon(l, "failed") \/ Abandon(l, "cancelled")
    PROVE  Published'
<1> DEFINE c == conversions[l]
<1>1. c \in Conversion /\ Truthful(l) /\ l \in DOMAIN conversions
  BY DEF Published, NoWorker
<1>2. folder' = [x \in Outputs |-> folder'[x]]
  BY DEF Published
<1>3. ASSUME NEW d \in Conversion, conversions' = [conversions EXCEPT ![l] = d],
             d.at = "runs", d.made = c.made, d.count = c.count,
             \/ d.step = "undoes" /\ d.ends # "done"
             \/ d.ends = c.ends /\ c.step = "begins" /\ d.step = "stages"
             \/ d.ends = c.ends /\ c.step = "stages" /\ d.step = "publishes"
             \/ d.ends = c.ends /\ c.step = "publishes" /\ d.step = "records" /\ c.made >= c.count
      PROVE  Published'
  <2>1. conversions'[l] = d
    BY <1>1, <1>3
  <2>2. Truthful(l)'
    BY <1>1, <1>3, <2>1 DEF Truthful, Made, NoWorker
  <2> QED BY <1>2, <1>3, <2>2, OneConversion
<1>4. ASSUME NEW n \in {"stages", "publishes", "records"}, ToStep(l, n)
      PROVE  LET d == [c EXCEPT !.step = n]
             IN  /\ conversions' = [conversions EXCEPT ![l] = d] /\ d \in Conversion
                 /\ d.at = c.at /\ d.made = c.made /\ d.count = c.count
                 /\ d.ends = c.ends /\ d.step = n
  BY <1>1, <1>4 DEF ToStep, Conversion
<1>5. ASSUME NEW e \in {"failed", "cancelled"}, Abandon(l, e)
      PROVE  LET d == [c EXCEPT !.step = "undoes", !.ends = e]
             IN  /\ conversions' = [conversions EXCEPT ![l] = d] /\ d \in Conversion
                 /\ d.at = c.at /\ d.made = c.made /\ d.count = c.count
                 /\ d.ends = e /\ d.step = "undoes"
  BY <1>1, <1>5 DEF Abandon, Conversion
<1> HIDE DEF c
<1> QED BY <1>3, <1>4, <1>5 DEF c

\* A file is published under a free name only, which it then keeps.
LEMMA PublishHolds ==
    ASSUME Published, NEW l \in Logins, Runs(conversions[l]), Publishes(l)
    PROVE  Published'
<1> DEFINE c == conversions[l]
<1>1. c \in Conversion /\ Truthful(l) /\ c # NoWorker /\ c.at = "runs" /\ c.step = "publishes"
  BY DEF Published, Runs, NoWorker, Publishes
<1>2. c.made \in Nat /\ c.count \in Outputs /\ c.count <= MaxOutputs /\ UNCHANGED theirs
  BY <1>1, ConverterAssumption DEF Conversion, Outputs, Publishes
<1>3. CASE c.made < c.count /\ PublishFile(l, c.made + 1)
  <2>1. CASE Abandon(l, "failed") /\ UNCHANGED folder
    BY <1>1, <1>2, <2>1, MovesOn
  <2>2. CASE /\ folder[c.made + 1] = FreeName
             /\ folder' = [folder EXCEPT ![c.made + 1] = Made(l)]
             /\ conversions' = [conversions EXCEPT ![l].made = c.made + 1]
    <3> DEFINE x == c.made + 1
               d == [c EXCEPT !.made = x]
    <3>1. x \in Outputs /\ x \in 0 .. MaxOutputs /\ x - 1 = c.made /\ x \in Nat
      BY <1>2, <1>3, ConverterAssumption DEF Outputs
    <3> HIDE DEF x
    <3>2. /\ d \in Conversion /\ d.made = x /\ d.step = c.step /\ d.ends = c.ends
          /\ d.at = c.at /\ d.count = c.count
      BY <1>1, <3>1 DEF Conversion
    <3>3. conversions' = [conversions EXCEPT ![l] = d] /\ folder' = [folder EXCEPT ![x] = Made(l)]
      BY <1>1, <2>2 DEF Published, x
    <3>4. folder[x] = FreeName
      BY <2>2 DEF x
    <3>5. folder'[x] = Made(l) /\ \A y \in Outputs \ {x} : folder'[y] = folder[y]
      BY <3>1, <3>3 DEF Published
    <3>6. folder' = [y \in Outputs |-> folder'[y]] /\ conversions'[l] = d
      BY <3>3 DEF Published
    <3>7. \A y \in 1 .. x : y = x \/ (y \in 1 .. c.made /\ y \in Outputs)
      <4> DEFINE m == c.made
      <4>1. m \in Nat /\ x = m + 1 /\ x \in Nat /\ 1 .. x \subseteq Outputs
        BY <1>2, <3>1, ConverterAssumption DEF Outputs
      <4> HIDE DEF m
      <4>2. \A y \in 1 .. x : y = x \/ (y \in 1 .. m /\ y \in Outputs)
        BY <4>1
      <4> QED BY <4>2 DEF m
    <3> HIDE DEF d
    <3>8. Truthful(l)'
      <4>1. \A y \in 1 .. c.made : folder[y] = Made(l) \/ y \in theirs
        BY <1>1 DEF Truthful
      <4>2. \A y \in 1 .. d.made : folder'[y] = Made(l) \/ y \in theirs
        BY <3>2, <3>5, <3>7, <4>1
      <4> QED BY <1>1, <1>2, <3>2, <3>6, <4>2 DEF Truthful, Made, Conversion
    <3> QED BY <1>2, <3>2, <3>3, <3>4, <3>5, <3>6, <3>8, OneConversion
  <2> QED BY <1>3, <2>1, <2>2 DEF PublishFile
<1>4. CASE UNCHANGED folder /\ (Abandon(l, "cancelled") \/ (c.made >= c.count /\ ToStep(l, "records")))
  BY <1>1, <1>2, <1>4, MovesOn
<1>5. c.count \in Nat /\ c.stop \in BOOLEAN
  BY <1>1, ConverterAssumption DEF Conversion, Outputs
<1>6. c.stop \/ (~c.stop /\ c.made < c.count) \/ (~c.stop /\ c.made >= c.count)
  BY <1>2, <1>5
<1> HIDE DEF c
<1>7. CASE c.stop
  BY <1>4, <1>7 DEF Publishes, c
<1>8. CASE ~c.stop /\ c.made < c.count
  BY <1>3, <1>8 DEF Publishes, c
<1>9. CASE ~c.stop /\ c.made >= c.count
  <2>1. ~(c.made < c.count)
    BY <1>2, <1>5, <1>9
  <2> QED BY <1>4, <1>9, <2>1 DEF Publishes, c
<1> QED BY <1>6, <1>7, <1>8, <1>9

\* What is taken back are its own files, all of them.
LEMMA UndoesHolds ==
    ASSUME Published, NEW l \in Logins, Runs(conversions[l]), Undoes(l)
    PROVE  Published'
<1> DEFINE c == conversions[l]
           d == [c EXCEPT !.at = "ended"]
<1>1. c \in Conversion /\ Truthful(l) /\ c # NoWorker /\ c.at = "runs" /\ c.step = "undoes"
  BY DEF Published, Runs, NoWorker, Undoes
<1>2. /\ d \in Conversion /\ d.made = c.made /\ d.step = c.step /\ d.ends = c.ends
      /\ d.count = c.count
  BY <1>1 DEF Conversion
<1>3. conversions' = [conversions EXCEPT ![l] = d]
  BY <1>1 DEF Published, Undoes
<1>4. conversions'[l] = d /\ UNCHANGED theirs
  BY <1>3 DEF Published, Undoes
<1>5. \A x \in Outputs :
        /\ folder'[x] # Made(l)
        /\ folder'[x] = folder[x] \/ (folder[x] = Made(l) /\ folder'[x] = FreeName)
  <2>1. folder' = [x \in Outputs |-> IF folder[x] = Made(l) THEN FreeName ELSE folder[x]]
    BY DEF Undoes
  <2> QED BY <2>1, NamesApart
<1>6. folder' = [x \in Outputs |-> folder'[x]]
  BY DEF Undoes
<1> HIDE DEF d
<1>7. Truthful(l)'
  BY <1>1, <1>2, <1>4, <1>5 DEF Truthful, Made
<1> QED BY <1>2, <1>3, <1>4, <1>5, <1>6, <1>7, OneConversion

\* It is done only with all its files in the folder.
LEMMA RecordsHolds ==
    ASSUME Published, NEW l \in Logins, Runs(conversions[l]), Records(l)
    PROVE  Published'
<1> DEFINE c == conversions[l]
           e == IF inside THEN "done" ELSE "failed"
           d == [c EXCEPT !.at = "ended", !.ends = e]
<1>1. c \in Conversion /\ Truthful(l) /\ c # NoWorker /\ c.at = "runs" /\ c.step = "records"
  BY DEF Published, Runs, NoWorker, Records
<1>2. e \in {"done", "failed"}
  OBVIOUS
<1>3. conversions' = [conversions EXCEPT ![l] = d]
  BY <1>1 DEF Published, Records
<1> HIDE DEF e
<1>4. /\ d \in Conversion /\ d.made = c.made /\ d.step = c.step /\ d.ends = e
      /\ d.count = c.count
  BY <1>1, <1>2 DEF Conversion
<1>5. conversions'[l] = d /\ UNCHANGED <<folder, theirs>>
  BY <1>3 DEF Published, Records
<1>6. folder' = [x \in Outputs |-> folder'[x]]
  BY <1>5 DEF Published
<1> HIDE DEF d
<1>7. Truthful(l)'
  BY <1>1, <1>2, <1>4, <1>5 DEF Truthful, Made
<1> QED BY <1>3, <1>4, <1>5, <1>6, <1>7, OneConversion

LEMMA ConversionsHold ==
    ASSUME Published, ConversionStep
    PROVE  Published'
<1>1. CASE UNCHANGED <<conversions, folder, theirs>>
  BY <1>1 DEF Published, Truthful, Made
<1>2. ASSUME NEW l \in Logins, ConversionWorks(l)
      PROVE  Published'
  <2>1. conversions[l].at = "runs" /\ Runs(conversions[l])
    BY <1>2 DEF ConversionWorks, Runs
  <2>2. CASE Begins(l) \/ Stages(l)
    BY <2>1, <2>2, MovesOn DEF Begins, Stages
  <2> QED BY <1>2, <2>1, <2>2, PublishHolds, UndoesHolds, RecordsHolds DEF ConversionWorks
<1>3. ASSUME NEW l \in Logins, ConversionDelivered(l)
      PROVE  Published'
  <2>1. conversions' = [conversions EXCEPT ![l] = NoWorker] /\ UNCHANGED theirs
    BY <1>3 DEF ConversionDelivered
  <2>2. \A x \in Outputs : folder'[x] = folder[x] \/ (folder[x] = Made(l) /\ folder'[x] = Earlier)
    <3>1. folder' = [x \in Outputs |-> IF folder[x] = Made(l) THEN Earlier ELSE folder[x]]
      BY <1>3 DEF ConversionDelivered
    <3> QED BY <3>1
  <2>3. folder' = [x \in Outputs |-> folder'[x]]
    BY <1>3 DEF ConversionDelivered
  <2>4. Truthful(l)'
    BY <2>1 DEF Published, Truthful
  <2> QED BY <2>1, <2>2, <2>3, <2>4, OneConversion
<1>4. CASE OnConvertRequested
  <2>1. PICK n \in Outputs :
          conversions' = [conversions EXCEPT ![login] =
            [at |-> "runs", step |-> "begins", count |-> n, made |-> 0,
             stop |-> FALSE, ends |-> "none"]]
    BY <1>4 DEF OnConvertRequested
  <2> DEFINE d == [at |-> "runs", step |-> "begins", count |-> n, made |-> 0,
                   stop |-> FALSE, ends |-> "none"]
  <2>2. UNCHANGED <<folder, theirs>>
    BY <1>4 DEF OnConvertRequested
  <2>3. d \in Conversion /\ d.step = "begins" /\ d.made = 0 /\ d.ends = "none"
    BY ConverterAssumption DEF Conversion
  <2>4. conversions' = [conversions EXCEPT ![login] = d]
    BY <2>1
  <2> HIDE DEF d
  <2>5. ASSUME NEW l \in Logins, l = login
        PROVE  Published'
    <3>1. conversions'[l] = d /\ conversions' = [conversions EXCEPT ![l] = d]
      BY <2>4, <2>5 DEF Published
    <3>2. Truthful(l)'
      BY <2>3, <3>1 DEF Truthful
    <3>3. folder' = [x \in Outputs |-> folder'[x]]
      BY <2>2 DEF Published
    <3> QED BY <2>2, <2>3, <3>1, <3>2, <3>3, OneConversion
  <2>6. CASE login \notin Logins
    <3>1. conversions' = conversions
      BY <2>4, <2>6 DEF Published
    <3> QED BY <2>2, <3>1 DEF Published, Truthful, Made
  <2> QED BY <2>5, <2>6
<1>5. CASE OnCancelRequested
  <2>1. UNCHANGED <<folder, theirs>> /\ conversions[login] # NoWorker
    BY <1>5 DEF OnCancelRequested
  <2>2. ASSUME NEW l \in Logins, l = login
        PROVE  Published'
    <3> DEFINE c == conversions[l]
               d == [c EXCEPT !.stop = TRUE]
    <3>1. c \in Conversion /\ Truthful(l) /\ c # NoWorker
      BY <2>1, <2>2 DEF Published
    <3>2. /\ d \in Conversion /\ d.made = c.made /\ d.step = c.step /\ d.ends = c.ends
          /\ d.count = c.count /\ d.at = c.at
      BY <3>1 DEF Conversion
    <3>3. conversions' = [conversions EXCEPT ![l] = d]
      BY <1>5, <2>2 DEF Published, OnCancelRequested
    <3>4. conversions'[l] = d
      BY <2>2, <3>3 DEF Published
    <3> HIDE DEF d
    <3>5. Truthful(l)'
      BY <2>1, <3>1, <3>2, <3>4 DEF Truthful, Made
    <3>6. folder' = [x \in Outputs |-> folder'[x]]
      BY <2>1 DEF Published
    <3> QED BY <2>1, <3>2, <3>3, <3>5, <3>6, OneConversion
  <2>3. CASE login \notin Logins
    <3>1. conversions' = conversions
      BY <1>5, <2>3 DEF Published, OnCancelRequested
    <3> QED BY <2>1, <3>1 DEF Published, Truthful, Made
  <2> QED BY <2>2, <2>3
<1>6. CASE Elsewhere
  <2>1. PICK x \in Outputs :
          folder' = [folder EXCEPT ![x] = Other] /\ theirs' = theirs \cup {x}
    BY <1>6 DEF Elsewhere
  <2>2. UNCHANGED conversions
    BY <1>6 DEF Elsewhere
  <2>3. \A l \in Logins : Truthful(l)'
    <3> SUFFICES ASSUME NEW l \in Logins
                 PROVE  Truthful(l)'
      OBVIOUS
    <3>1. Truthful(l) /\ UNCHANGED conversions[l] /\ theirs \subseteq theirs'
      BY <2>1, <2>2 DEF Published
    <3>2. \A y \in Outputs :
            /\ folder[y] = Made(l) => folder'[y] = Made(l) \/ y \in theirs'
            /\ folder'[y] = Made(l) => folder[y] = Made(l)
      BY <2>1, NamesApart DEF Published
    <3> QED BY <3>1, <3>2, Undisturbed DEF Published
  <2> QED BY <2>1, <2>2, <2>3 DEF Published
<1> QED BY <1>1, <1>2, <1>3, <1>4, <1>5, <1>6
        DEF ConversionStep, ConverterGesture, ConverterMachine

-----------------------------------------------------------------------------
(* All of them at once                                                     *)

LEMMA InitHolds ==
    ASSUME DesktopInit
    PROVE  DesktopInv
<1>1. org \in Orgs /\ TransportHeld
  BY DEF DesktopInit, SessionInit, TransportInit, TransportHeld, NoWorker, Runs
<1>2. SyncHeld
  BY DEF DesktopInit, DocumentInit, SyncHeld, NoneOf, NoWorker, Runs
<1>3. QuotasOwn /\ FiguresAreOwn
  BY DEF DesktopInit, DocumentInit, QuotasOwn, FiguresAreOwn
<1>4. ViewerOwn /\ PageIsOfDocument
  BY DEF DesktopInit, ViewerInit, ViewerOwn, PageIsOfDocument, Nothing
<1>5. DialogOwn /\ AnswerIsOfEntered
  BY DEF DesktopInit, ValidationInit, DialogOwn, AnswerIsOfEntered, NoForm, Form
<1>6. Published
  BY DEF DesktopInit, ConverterInit, Published, Truthful
<1> QED BY <1>1, <1>2, <1>3, <1>4, <1>5, <1>6 DEF DesktopInv

\* One organization is active before and after every step; what a step does to
\* each window is one of what that window knows of.
AllSteps ==
    /\ org' \in Orgs
    /\ TransportStep /\ SyncStep /\ UsageStep /\ QuotaStep /\ ViewerStep /\ DialogStep
    /\ ConversionStep

LEMMA UserActsSteps ==
    ASSUME org \in Orgs, UserActs
    PROVE  AllSteps
<1> USE DEF AllSteps, session, toolVars, converterVars, validationVars, viewerVars
<1>1. CASE ChangeDocuments
  BY <1>1 DEF ChangeDocuments, DocumentsChange, JobQueued, TransportStep, SyncStep,
       UsageStep, QuotaStep, ViewerStep, DialogStep, ConversionStep, RefreshStorage, cloud
<1>2. CASE RetryFailed
  BY <1>2 DEF RetryFailed, documentVars, screen, cloud, JobQueued, TransportStep, SyncStep,
       UsageStep, QuotaStep, ViewerStep, DialogStep, ConversionStep
<1>3. CASE Logout
  BY <1>3 DEF Logout, Shutdown, DocumentShutdown, ConverterShutdown, cloud, TransportStep, SyncStep,
       UsageStep, QuotaStep, ViewerStep, DialogStep, ConversionStep
<1>4. CASE Login
  BY <1>4 DEF Login, DocumentStart, RefreshOrganization, RefreshStorage, cloud,
       TransportStep, SyncStep, UsageStep, QuotaStep, ViewerStep, DialogStep, ConversionStep
<1>5. ASSUME NEW o \in Orgs, SelectOrganization(o)
      PROVE  AllSteps
  BY <1>5 DEF SelectOrganization, DocumentOrganizationChanged, RefreshOrganization,
       RefreshStorage, cloud, TransportStep, SyncStep, UsageStep, QuotaStep, ViewerStep,
       DialogStep, ConversionStep
<1>6. ASSUME NEW o \in Orgs, ActivateDocuments(o)
      PROVE  AllSteps
  BY <1>6 DEF ActivateDocuments, DocumentOrganizationChanged, RefreshOrganization,
       RefreshStorage, cloud, TransportStep, SyncStep, UsageStep, QuotaStep, ViewerStep,
       DialogStep, ConversionStep
<1>7. CASE SaveConfiguration /\ UNCHANGED <<documentVars, viewerVars, toolVars>>
  BY <1>7 DEF SaveConfiguration, documentVars, screen, cloud, TransportStep, SyncStep,
       UsageStep, QuotaStep, ViewerStep, DialogStep, ConversionStep
<1>8. CASE /\ \/ SyncNow \/ AddCloudAccount \/ DisconnectCloud
              \/ OnImportDocument \/ (\E doc \in Docs : OnOpenDocument(doc))
           /\ UNCHANGED <<transportVars, viewerVars, toolVars>>
  <2>1. TransportStep /\ ViewerStep /\ DialogStep /\ ConversionStep
    BY <1>8 DEF transportVars, TransportStep, ViewerStep, DialogStep, ConversionStep
  <2>2. org' = org /\ SyncStep /\ UsageStep /\ QuotaStep
    BY <1>8 DEF SyncNow, AddCloudAccount, DisconnectCloud, OnImportDocument, OnOpenDocument,
         screen, cloud, physical, SyncStep, UsageStep, QuotaStep
  <2> QED BY <2>1, <2>2
<1>9. CASE ViewerGesture /\ UNCHANGED <<transportVars, documentVars, toolVars>>
  <2>1. org' = org
    BY <1>9 DEF ViewerGesture, GoToPage, ChangeLook, StartSearch, MoveSearch, ReturnToDocuments
  <2> QED BY <1>9, <2>1 DEF transportVars, documentVars, screen, cloud, TransportStep,
           SyncStep, UsageStep, QuotaStep, ViewerStep, DialogStep, ConversionStep
<1>10. CASE /\ ConverterGesture
            /\ UNCHANGED <<transportVars, documentVars, viewerVars, validationVars>>
  <2>1. org' = org
    BY <1>10 DEF ConverterGesture, OnConvertRequested, OnCancelRequested, Elsewhere
  <2> QED BY <1>10, <2>1 DEF transportVars, documentVars, screen, cloud, TransportStep,
           SyncStep, UsageStep, QuotaStep, ViewerStep, DialogStep, ConversionStep
<1>11. CASE ValidationGesture /\ UNCHANGED <<transportVars, documentVars, converterVars>>
  <2>1. org' = org /\ UNCHANGED viewerVars
    BY <1>11 DEF ValidationGesture, Show, Enter, Check, SelectMatchingRecord, UseRecord,
         CloseDialog, Asks
  <2> QED BY <1>11, <2>1 DEF transportVars, documentVars, screen, cloud, TransportStep,
           SyncStep, UsageStep, QuotaStep, ViewerStep, DialogStep, ConversionStep
<1> QED BY <1>1, <1>2, <1>3, <1>4, <1>5, <1>6, <1>7, <1>8, <1>9, <1>10, <1>11 DEF UserActs

LEMMA DocumentMachineSteps ==
    ASSUME DocumentMachine
    PROVE  org' = org /\ SyncStep /\ UsageStep /\ QuotaStep
<1> USE DEF session, screen, physical, cloud, stored
<1>1. CASE MeterEnds
  BY <1>1 DEF MeterEnds, SyncStep, UsageStep, QuotaStep
<1>2. CASE MeterDelivered
  <2>1. usage' = Unknown \/ usage' = [of |-> org, files |-> meter.seen]
    BY <1>2 DEF MeterDelivered
  <2> QED BY <1>2, <2>1 DEF MeterDelivered, SyncStep, UsageStep, QuotaStep
<1>3. CASE QuotaEnds \/ QuotaResult
  <2>1. org' = org /\ UNCHANGED <<usage, syncs, syncRegistry>>
    BY <1>3 DEF QuotaEnds, QuotaResult
  <2> QED BY <1>3, <2>1 DEF SyncStep, UsageStep, QuotaStep
<1>4. CASE OpenEnds
  BY <1>4 DEF OpenEnds, SyncStep, UsageStep, QuotaStep
<1>5. CASE AutoSyncTimer \/ SyncSoon
  <2>1. org' = org /\ UNCHANGED <<usage, quota, quotas>>
    BY <1>5 DEF AutoSyncTimer, SyncSoon
  <2>2. SyncStep
    BY <1>5 DEF AutoSyncTimer, SyncSoon, AutoSync, SyncStep
  <2> QED BY <2>1, <2>2 DEF UsageStep, QuotaStep
<1>6. ASSUME NEW l \in Logins, SyncEnds(l)
      PROVE  org' = org /\ SyncStep /\ UsageStep /\ QuotaStep
  <2>1. org' = org /\ UNCHANGED <<usage, quota, quotas>>
    BY <1>6 DEF SyncEnds
  <2> QED BY <1>6, <2>1 DEF SyncStep, UsageStep, QuotaStep
<1>7. ASSUME NEW l \in Logins, SyncDelivered(l)
      PROVE  org' = org /\ SyncStep /\ UsageStep /\ QuotaStep
  <2>1. org' = org /\ SyncStep
    BY <1>7 DEF SyncDelivered, SyncStep
  <2>2. RefreshOrganization \/ RefreshNothing
    BY <1>7 DEF SyncDelivered, SyncResult
  <2> QED BY <2>1, <2>2 DEF UsageStep, QuotaStep, RefreshOrganization, RefreshStorage,
           RefreshNothing
<1>8. ASSUME NEW l \in Logins, AuthGranted(l) \/ AuthRefused(l)
      PROVE  org' = org /\ SyncStep /\ UsageStep /\ QuotaStep
  <2>1. org' = org /\ UNCHANGED <<syncs, syncRegistry>>
    BY <1>8 DEF AuthGranted, AuthRefused
  <2>2. RefreshNothing \/ (RefreshCloud /\ UNCHANGED physical)
    BY <1>8 DEF AuthGranted, AuthRefused, Redraws
  <2> QED BY <2>1, <2>2 DEF SyncStep, UsageStep, QuotaStep, RefreshNothing
<1>9. ASSUME NEW l \in Logins, AnswerQuestion(l) \/ AuthEnds(l) \/ ImportEnds(l)
      PROVE  org' = org /\ SyncStep /\ UsageStep /\ QuotaStep
  BY <1>9 DEF AnswerQuestion, AuthEnds, ImportEnds, SyncStep, UsageStep, QuotaStep
<1> QED BY <1>1, <1>2, <1>3, <1>4, <1>5, <1>6, <1>7, <1>8, <1>9 DEF DocumentMachine

LEMMA ScreenActsSteps ==
    ASSUME org \in Orgs, ScreenActs
    PROVE  AllSteps
<1> USE DEF AllSteps, session, toolVars, converterVars, validationVars, viewerVars
<1>1. CASE DocumentMachine /\ UNCHANGED <<transportVars, viewerVars, toolVars>>
  BY <1>1, DocumentMachineSteps DEF transportVars, TransportStep, ViewerStep, DialogStep,
       ConversionStep
<1>2. CASE ImportStores
  <2>1. org' = org /\ UNCHANGED <<syncs, syncRegistry, usage, quota, quotas>>
    BY <1>2 DEF ImportStores, ImportEnds, screen, cloud
  <2> QED BY <1>2, <2>1 DEF ImportStores, TransportStep, SyncStep, UsageStep, QuotaStep,
           ViewerStep, DialogStep, ConversionStep
<1>3. CASE ImportCompleted
  <2>1. PICK l \in Logins : /\ ImportResult(l)
                            /\ UNCHANGED <<viewerVars, toolVars>>
                            /\ Trigger(org) \/ UNCHANGED coordinator
    BY <1>3 DEF ImportCompleted
  <2>2. org' = org /\ UNCHANGED <<quota, quotas>>
    BY <2>1 DEF ImportResult
  <2>3. UNCHANGED <<syncs, syncRegistry>> \/ OnSyncNow(l)
    BY <2>1 DEF ImportResult, AutoSync
  <2>4. UNCHANGED usage \/ usage' = Unknown
    BY <2>1 DEF ImportResult, RefreshStorage, physical
  <2> QED BY <2>1, <2>2, <2>3, <2>4 DEF coordinator, TransportStep, SyncStep, UsageStep,
           QuotaStep, ViewerStep, DialogStep, ConversionStep
<1>4. CASE DocumentOpened
  <2>1. PICK w \in opening : /\ OpenDelivered(w) /\ UNCHANGED <<transportVars, toolVars>>
                             /\ Open(w.doc) \/ UNCHANGED viewerVars
    BY <1>4 DEF DocumentOpened
  <2>2. org' = org /\ UNCHANGED <<syncs, syncRegistry, usage, quota, quotas>>
    BY <2>1 DEF OpenDelivered, physical, cloud
  <2> QED BY <2>1, <2>2 DEF transportVars, TransportStep, SyncStep, UsageStep, QuotaStep,
           ViewerStep, DialogStep, ConversionStep
<1> QED BY <1>1, <1>2, <1>3, <1>4 DEF ScreenActs

LEMMA OtherActsSteps ==
    ASSUME org \in Orgs, ViewerActs \/ ConverterActs \/ ValidationActs \/ TransportActs
    PROVE  AllSteps
<1> USE DEF AllSteps, session, toolVars, converterVars, validationVars, viewerVars,
            documentVars, screen, cloud
<1>1. CASE ViewerActs
  <2>1. org' = org
    BY <1>1 DEF ViewerActs, ViewerMachine, RenderEnds, ThumbnailsEnd, SearchEnds, OnRendered,
         WorkerFailed, ThumbnailsReady, OnSearchResults
  <2> QED BY <1>1, <2>1 DEF ViewerActs, transportVars, TransportStep, SyncStep, UsageStep,
           QuotaStep, ViewerStep, DialogStep, ConversionStep
<1>2. CASE ConverterActs
  <2>1. org' = org
    BY <1>2 DEF ConverterActs, ConverterMachine, ConversionWorks, ConversionDelivered
  <2> QED BY <1>2, <2>1 DEF ConverterActs, transportVars, TransportStep, SyncStep, UsageStep,
           QuotaStep, ViewerStep, DialogStep, ConversionStep
<1>3. CASE ValidationActs
  <2>1. PICK t \in tasks : /\ TaskEnds(t) \/ TaskDelivered(t)
                           /\ UNCHANGED <<session, left>>
                           /\ Open(t.record) \/ UNCHANGED viewerVars
    BY <1>3 DEF ValidationActs, ValidationMachine
  <2> QED BY <1>3, <2>1 DEF ValidationActs, transportVars, TransportStep, SyncStep, UsageStep,
           QuotaStep, ViewerStep, DialogStep, ConversionStep
<1>4. CASE TransportActs
  <2>1. UNCHANGED <<documentVars, viewerVars, toolVars>>
    BY <1>4 DEF TransportActs
  <2>2. CASE Kick \/ TransportTimer
    <3>1. org' = org /\ \E o : Trigger(o)
      BY <2>2 DEF Kick, TransportTimer
    <3>2. Trigger(org) \/ UNCHANGED <<threads, registry>>
      BY <3>1 DEF Trigger, coordinator
    <3> QED BY <2>1, <3>1, <3>2 DEF TransportStep, SyncStep, UsageStep, QuotaStep,
             ViewerStep, DialogStep, ConversionStep
  <2>3. ASSUME NEW i \in Ids, TransportThread(i)
        PROVE  AllSteps
    <3>1. org' = org
      BY <2>3 DEF TransportThread, ListJobs, WorkerEnds, CleanupWorker
    <3> QED BY <2>1, <2>3, <3>1 DEF TransportStep, SyncStep, UsageStep, QuotaStep, ViewerStep,
             DialogStep, ConversionStep
  <2> QED BY <1>4, <2>2, <2>3 DEF TransportActs
<1> QED BY <1>1, <1>2, <1>3, <1>4

LEMMA NothingSteps ==
    ASSUME org \in Orgs, UNCHANGED desktopVars
    PROVE  AllSteps
BY DEF AllSteps, desktopVars, session, transportVars, documentVars, screen, cloud, toolVars,
       converterVars, TransportStep, SyncStep, UsageStep, QuotaStep, ViewerStep, DialogStep,
       ConversionStep

LEMMA StepHolds ==
    ASSUME DesktopInv, [DesktopNext]_desktopVars
    PROVE  DesktopInv'
<1>1. AllSteps
  BY UserActsSteps, ScreenActsSteps, OtherActsSteps, NothingSteps DEF DesktopInv, DesktopNext
<1>2. TransportHeld' /\ SyncHeld'
  BY <1>1, TransportHolds, SyncsHold DEF AllSteps, DesktopInv
<1>3. QuotasOwn' /\ FiguresAreOwn' /\ ViewerOwn' /\ PageIsOfDocument'
  BY <1>1, FiguresHold, ViewerHolds DEF AllSteps, DesktopInv
<1>4. DialogOwn' /\ AnswerIsOfEntered' /\ Published'
  BY <1>1, DialogHolds, ConversionsHold DEF AllSteps, DesktopInv
<1> QED BY <1>1, <1>2, <1>3, <1>4 DEF DesktopInv, AllSteps

LEMMA InvIsSound ==
    ASSUME DesktopInv
    PROVE  DesktopSound
<1>1. OneTransportWorker
  BY DEF DesktopInv, TransportHeld, OneTransportWorker, IsRunning
<1>2. OneSyncWorker
  BY DEF DesktopInv, SyncHeld, OneSyncWorker
<1>3. ConversionIsWhole
  BY PublishedIsWhole DEF DesktopInv
<1> QED BY <1>1, <1>2, <1>3 DEF DesktopInv, DesktopSound

\* Whatever the order of switches, logins and late results: one worker at each
\* queue of an organization, figures, page and answers of what is active, open
\* and entered, and conversions that leave all they say and no more.
THEOREM ScreensAreSound == DesktopSpec => []DesktopSound
<1>1. DesktopInit => DesktopInv
  BY InitHolds
<1>2. DesktopInv /\ [DesktopNext]_desktopVars => DesktopInv'
  BY StepHolds
<1>3. DesktopInv => DesktopSound
  BY InvIsSound
<1> QED BY <1>1, <1>2, <1>3, PTL DEF DesktopSpec, Behaves
=============================================================================
