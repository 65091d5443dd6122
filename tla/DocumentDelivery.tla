---------------------------- MODULE DocumentDelivery ----------------------------
(***************************************************************************)
(* One document delivery between two SmartFile installations: the sender's *)
(* outgoing row, the recipient's incoming row and items, the receipt that  *)
(* returns, and the document request the delivery answers.                 *)
(*                                                                         *)
(* Threads of the sender: the DeliverySendWorker of the user's click       *)
(* ("direct") and the DeliveryQueueWorker of the timer ("queue"), which    *)
(* may run send_once for the same row.  The recipient's DeliveryQueueWorker*)
(* ("receipt") returns the receipt.  Each installation's HTTP server       *)
(* handles requests on threads of its own.  A client that gives up leaves  *)
(* its request behind: the server may still handle it, at any later time.  *)
(* Deliveries share no row, so one is enough; the backoff is not modelled, *)
(* an attempt may follow at once (a manual retry does).                    *)
(***************************************************************************)
EXTENDS Naturals, FiniteSets

CONSTANTS
    ItemCount,         \* items of the delivery
    MaxRetryAttempts,  \* DocumentDeliveryService.MAX_RETRY_ATTEMPTS
    AttemptBound,      \* bound: no manual retry with this many attempts
    MaxAccidents,      \* bound: crashes and the deletion of a document
    MaxLate            \* bound: requests abandoned on their way, with the accidents so far

ASSUME ItemCountAssumption == ItemCount \in Nat \ {0}
ASSUME MaxRetryAssumption == MaxRetryAttempts \in Nat \ {0}
ASSUME DeliveryBoundsAssumption == {AttemptBound, MaxAccidents, MaxLate} \subseteq Nat

VARIABLES
    out,       \* sender: status, attempts and acknowledged_at of the OUTGOING row
    request,   \* sender: document_requests.status of the request it answers
    sourceOk,  \* sender: every document of the delivery still exists
    receiptS,  \* sender: status of the REMOTE receipt
    acking,    \* sender: handlers between VERIFIED and _mark_acknowledged
    inc,       \* recipient: status, viewed_at, acknowledged_at of the INCOMING row
    items,     \* recipient: document_delivery_items.transfer_status
    receiptR,  \* recipient: status and attempts of the LOCAL receipt
    thread,    \* the client threads
    net,       \* HTTP requests no server thread has handled yet
    crashes

senderVars == <<out, request, sourceOk, receiptS, acking>>
recipientVars == <<inc, items, receiptR>>
vars == <<out, request, sourceOk, receiptS, acking, inc, items, receiptR,
          thread, net, crashes>>

Items == 1..ItemCount
Senders == {"direct", "queue"}
Threads == Senders \cup {"receipt"}

DeliveryStatuses == {"NONE", "CREATED", "QUEUED", "SENDING", "DELIVERED",
                     "VIEWED", "ACKNOWLEDGED", "FAILED"}
ReceiptStatuses == {"NONE", "QUEUED", "SENDING", "VERIFIED", "FAILED"}
RequestStatuses == {"ATTENDED", "DELIVERING", "DELIVERED", "COMPLETED"}
Reached == {"DELIVERED", "VIEWED", "ACKNOWLEDGED"}

\* The calls of one attempt, in the order the client makes them: the metadata,
\* each item, the completion; the receipt's metadata and content; a status query.
ToRecipient == {"metadata", "item", "complete", "status"}
ToSender == {"receipt", "content"}
Kinds == ToRecipient \cup ToSender

\* A request on its way to a server thread, and the client waiting for it; "none"
\* when the client has given up.  One abandoned request stands for any number of
\* the same call.
Requests == [by : Threads \cup {"none"}, kind : Kinds, item : 0..ItemCount]

NoReply == [ok |-> FALSE, status |-> "NONE", acked |-> FALSE]
Accepted == [NoReply EXCEPT !.ok = TRUE]

\* pc: where the thread stands, "unknown" after a status query that failed; kind
\* and item: the call it makes; seen: the attempts read by queue; reply: the
\* answer, once there is one.
Idle == [pc |-> "idle", kind |-> "status", item |-> 0, seen |-> 0, reply |-> NoReply]

Init ==
    /\ out = [status |-> "NONE", attempts |-> 0, acked |-> FALSE]
    /\ request = "ATTENDED"
    /\ sourceOk = TRUE
    /\ receiptS = "NONE"
    /\ acking = {}
    /\ inc = [status |-> "NONE", viewed |-> FALSE, acked |-> FALSE]
    /\ items = [i \in Items |-> "PENDING"]
    /\ receiptR = [status |-> "NONE", attempts |-> 0]
    /\ thread = [t \in Threads |-> Idle]
    /\ net = {}
    /\ crashes = 0

\* One more crash or deletion is within the bound.
Accidents == crashes + (IF sourceOk THEN 0 ELSE 1)
AccidentsLeft == Accidents < MaxAccidents

Move(t, pc) == thread' = [thread EXCEPT ![t].pc = pc]

\* _request_transition.
RequestAfter(target) ==
    IF \/ target = "DELIVERING" /\ request = "ATTENDED"
       \/ target = "DELIVERED" /\ request \in {"ATTENDED", "DELIVERING"}
       \/ target = "COMPLETED"
    THEN target ELSE request

-----------------------------------------------------------------------------
(* The sender's user.                                                      *)

\* DocumentDeliveryController.send: the row is created and committed ...
CreateDelivery ==
    /\ out.status = "NONE"
    /\ sourceOk
    /\ out' = [out EXCEPT !.status = "CREATED"]
    /\ Move("direct", "created")
    /\ UNCHANGED <<request, sourceOk, receiptS, acking, recipientVars, net, crashes>>

\* ... then queued, and the DeliverySendWorker started.
QueueDelivery ==
    /\ thread["direct"].pc = "created"
    /\ out' = [out EXCEPT !.status = "QUEUED"]
    /\ request' = RequestAfter("DELIVERING")
    /\ Move("direct", "picked")
    /\ UNCHANGED <<sourceOk, receiptS, acking, recipientVars, net, crashes>>

\* retry_delivery.
RetryDelivery ==
    /\ out.status \in {"FAILED", "QUEUED"}
    /\ out.attempts < AttemptBound
    /\ out' = [out EXCEPT !.status = "QUEUED"]
    /\ UNCHANGED <<request, sourceOk, receiptS, acking, recipientVars, thread,
                   net, crashes>>

\* A document of the delivery is permanently deleted from the GED.
DeleteSource ==
    /\ sourceOk
    /\ AccidentsLeft
    /\ sourceOk' = FALSE
    /\ UNCHANGED <<out, request, receiptS, acking, recipientVars, thread, net, crashes>>

-----------------------------------------------------------------------------
(* send_once, on either thread of the sender.                              *)

\* process_pending_sync reads the QUEUED rows.
PickPending ==
    /\ thread["queue"].pc = "idle"
    /\ out.status = "QUEUED"
    /\ Move("queue", "picked")
    /\ UNCHANGED <<senderVars, recipientVars, net, crashes>>

TheRequest(t) == [by |-> t, kind |-> thread[t].kind, item |-> thread[t].item]

Abandoned(m) == [m EXCEPT !.by = "none"]

Late == {m \in net : m.by = "none"}

\* The client makes a call and waits.
Call(t, kind, item) ==
    /\ thread' = [thread EXCEPT ![t] = [Idle EXCEPT !.pc = "waiting", !.kind = kind,
                                                    !.item = item]]
    /\ net' = net \cup {[by |-> t, kind |-> kind, item |-> item]}

\* mark_sending does not look at the status.  The documents are then looked up
\* outside the try block: a missing one leaves the row as it is.
MarkSending(t) ==
    /\ thread[t].pc = "picked"
    /\ out' = [out EXCEPT !.status = "SENDING"]
    /\ \/ sourceOk /\ Call(t, "metadata", 0)
       \/ ~sourceOk /\ thread' = [thread EXCEPT ![t] = Idle] /\ UNCHANGED net
    /\ UNCHANGED <<request, sourceOk, receiptS, acking, recipientVars, crashes>>

AcceptedCall(t, kind) ==
    thread[t].pc = "answered" /\ thread[t].reply.ok /\ thread[t].kind = kind

\* An accepted call is followed by the next one: the metadata by the first item,
\* an item by the next, the last item by the completion, the receipt by its
\* content.
NextCall(t) ==
    /\ \/ AcceptedCall(t, "metadata") /\ Call(t, "item", 1)
       \/ /\ AcceptedCall(t, "item")
          /\ thread[t].item < ItemCount
          /\ Call(t, "item", thread[t].item + 1)
       \/ /\ AcceptedCall(t, "item")
          /\ thread[t].item = ItemCount
          /\ Call(t, "complete", 0)
       \/ AcceptedCall(t, "receipt") /\ Call(t, "content", 0)
    /\ UNCHANGED <<senderVars, recipientVars, crashes>>

\* An exception in the client; queue then reads the attempts.
CallFails(t) ==
    thread' = [thread EXCEPT ![t] =
                   IF @.kind = "status" THEN [Idle EXCEPT !.pc = "unknown"]
                   ELSE [Idle EXCEPT !.pc = "failed",
                                     !.seen = IF t \in Senders THEN out.attempts
                                              ELSE 0]]

\* An error status becomes an exception.
Refused(t) ==
    /\ thread[t].pc = "answered"
    /\ ~thread[t].reply.ok
    /\ CallFails(t)
    /\ UNCHANGED <<senderVars, recipientVars, net, crashes>>

\* The network fails, the call times out or is interrupted; the request is lost
\* or still on its way.  A lost query of the status has no effect.
GiveUp(t) ==
    LET m == TheRequest(t)
    IN  /\ thread[t].pc \in {"waiting", "answered"}
        /\ CallFails(t)
        /\ \/ net' = net \ {m}
           \/ /\ m \in net
              /\ m.kind # "status"
              /\ Cardinality(Late \cup {Abandoned(m)}) + Accidents <= MaxLate
              /\ net' = (net \ {m}) \cup {Abandoned(m)}
        /\ acking' = {IF a = m THEN Abandoned(a) ELSE a : a \in acking}
        /\ UNCHANGED <<out, request, sourceOk, receiptS, recipientVars, crashes>>

\* Mutant: the failure is not counted.
RequeueUncounted(t) ==
    /\ thread[t].pc = "failed"
    /\ out' = [out EXCEPT !.status = "QUEUED"]
    /\ request' = RequestAfter("DELIVERING")
    /\ thread' = [thread EXCEPT ![t] = Idle]
    /\ UNCHANGED <<sourceOk, receiptS, acking, recipientVars, net, crashes>>

\* queue with an error; the attempts were read before.
Requeue(t) ==
    /\ thread[t].pc = "failed"
    /\ LET attempts == thread[t].seen + 1
       IN  IF attempts >= MaxRetryAttempts
           THEN /\ out' = [out EXCEPT !.status = "FAILED", !.attempts = attempts]
                /\ UNCHANGED request
           ELSE /\ out' = [out EXCEPT !.status = "QUEUED", !.attempts = attempts]
                /\ request' = RequestAfter("DELIVERING")
    /\ thread' = [thread EXCEPT ![t] = Idle]
    /\ UNCHANGED <<sourceOk, receiptS, acking, recipientVars, net, crashes>>

\* mark_delivered does not look at the status either.
MarkDelivered(t) ==
    /\ AcceptedCall(t, "complete")
    /\ out' = [out EXCEPT !.status = "DELIVERED"]
    /\ request' = RequestAfter("DELIVERED")
    /\ thread' = [thread EXCEPT ![t] = Idle]
    /\ UNCHANGED <<sourceOk, receiptS, acking, recipientVars, net, crashes>>

-----------------------------------------------------------------------------
(* refresh_outgoing_statuses, on the sender's queue thread.                *)

Poll ==
    /\ thread["queue"].pc = "idle"
    /\ out.status \in {"DELIVERED", "VIEWED"}
    /\ Call("queue", "status", 0)
    /\ UNCHANGED <<senderVars, recipientVars, crashes>>

\* Mutant: an acknowledgement is believed without its receipt.
ApplyWithoutReceipt ==
    /\ AcceptedCall("queue", "status")
    /\ out' = [out EXCEPT !.status = thread["queue"].reply.status]
    /\ thread' = [thread EXCEPT !["queue"] = Idle]
    /\ UNCHANGED <<request, sourceOk, receiptS, acking, recipientVars, net, crashes>>

\* apply_remote_status: acknowledged_at is copied whatever the status says.
ApplyRemoteStatus ==
    LET payload == thread["queue"].reply
        applies == /\ payload.status \in Reached
                   /\ payload.status = "ACKNOWLEDGED" => receiptS = "VERIFIED"
    IN  /\ AcceptedCall("queue", "status")
        /\ IF applies
           THEN /\ out' = [out EXCEPT !.status = payload.status,
                                      !.acked = @ \/ payload.acked]
                /\ request' = IF payload.status = "ACKNOWLEDGED"
                              THEN RequestAfter("COMPLETED") ELSE request
           ELSE UNCHANGED <<out, request>>
        /\ thread' = [thread EXCEPT !["queue"] = Idle]
        /\ UNCHANGED <<sourceOk, receiptS, acking, recipientVars, net, crashes>>

PollFails ==
    /\ thread["queue"].pc = "unknown"
    /\ thread' = [thread EXCEPT !["queue"] = Idle]
    /\ UNCHANGED <<senderVars, recipientVars, net, crashes>>

-----------------------------------------------------------------------------
(* The server threads of the recipient.                                    *)

\* A server thread takes a request; an abandoned one may have been one of many.
Take(m) ==
    \/ net' = net \ {m}
    \/ m.by = "none" /\ UNCHANGED net

\* The client reads the answer if it still waits for it.
Reply(m, reply) ==
    thread' = IF m.by = "none" THEN thread
              ELSE [thread EXCEPT ![m.by].pc = "answered", ![m.by].reply = reply]

Answer(m, reply) == Take(m) /\ Reply(m, reply)

\* receive_metadata: a known protocol is answered with the row it has.
ReceiveMetadata(m) ==
    /\ m.kind = "metadata"
    /\ inc' = IF inc.status = "NONE" THEN [inc EXCEPT !.status = "SENDING"] ELSE inc
    /\ Answer(m, Accepted)
    /\ UNCHANGED <<senderVars, items, receiptR, crashes>>

\* receive_item: the stream is stored and verified ...
ReceiveItem(m) ==
    /\ m.kind = "item"
    /\ IF inc.status = "NONE"
       THEN UNCHANGED items /\ Answer(m, NoReply)
       ELSE items' = [items EXCEPT ![m.item] = "VERIFIED"] /\ Answer(m, Accepted)
    /\ UNCHANGED <<senderVars, inc, receiptR, crashes>>

\* Mutant: a failed transfer fails the item even when it was verified before.
RejectVerifiedItem(m) ==
    /\ m.kind = "item"
    /\ inc.status # "NONE"
    /\ items' = [items EXCEPT ![m.item] = "FAILED"]
    /\ Answer(m, NoReply)
    /\ UNCHANGED <<senderVars, inc, receiptR, crashes>>

\* ... or interrupted, or its checksum differs (mark_failed_unless_verified).
RejectItem(m) ==
    /\ m.kind = "item"
    /\ inc.status # "NONE"
    /\ items' = [items EXCEPT ![m.item] = IF @ = "VERIFIED" THEN @ ELSE "FAILED"]
    /\ Answer(m, NoReply)
    /\ UNCHANGED <<senderVars, inc, receiptR, crashes>>

AllVerified == \A i \in Items : items[i] = "VERIFIED"

\* complete_incoming: mark_delivered, whatever the row has become since.
CompleteIncoming(m) ==
    /\ m.kind = "complete"
    /\ IF inc.status # "NONE" /\ AllVerified
       THEN inc' = [inc EXCEPT !.status = "DELIVERED"] /\ Answer(m, Accepted)
       ELSE UNCHANGED inc /\ Answer(m, NoReply)
    /\ UNCHANGED <<senderVars, items, receiptR, crashes>>

\* status_payload.
ReportStatus(m) ==
    /\ m.kind = "status"
    /\ Answer(m, IF inc.status = "NONE" THEN NoReply
                 ELSE [ok |-> TRUE, status |-> inc.status, acked |-> inc.acked])
    /\ UNCHANGED <<senderVars, recipientVars, crashes>>

-----------------------------------------------------------------------------
(* The recipient's user.                                                   *)

\* mark_viewed: the first time the document is displayed.
MarkViewed ==
    /\ inc.status \in Reached
    /\ ~inc.viewed
    /\ inc' = [inc EXCEPT !.status = "VIEWED", !.viewed = TRUE]
    /\ UNCHANGED <<senderVars, items, receiptR, thread, net, crashes>>

\* create_acknowledgement_receipt: one transaction.
Acknowledge ==
    /\ inc.status \in {"DELIVERED", "VIEWED"}
    /\ receiptR.status = "NONE"
    /\ AllVerified
    /\ receiptR' = [receiptR EXCEPT !.status = "QUEUED"]
    /\ inc' = [inc EXCEPT !.status = "ACKNOWLEDGED", !.acked = TRUE]
    /\ UNCHANGED <<senderVars, items, thread, net, crashes>>

-----------------------------------------------------------------------------
(* send_receipt_once, on the recipient's queue thread.                     *)

\* pending, then mark_receipt_sending and the first call.
StartReceipt ==
    /\ thread["receipt"].pc = "idle"
    /\ receiptR.status \in {"QUEUED", "FAILED"}
    /\ receiptR.attempts < MaxRetryAttempts
    /\ receiptR' = [receiptR EXCEPT !.status = "SENDING"]
    /\ Call("receipt", "receipt", 0)
    /\ UNCHANGED <<senderVars, inc, items, crashes>>

\* queue_receipt.
RequeueReceipt ==
    /\ thread["receipt"].pc = "failed"
    /\ LET attempts == receiptR.attempts + 1
       IN  receiptR' = [status |-> IF attempts >= MaxRetryAttempts
                                   THEN "FAILED" ELSE "QUEUED",
                        attempts |-> attempts]
    /\ thread' = [thread EXCEPT !["receipt"] = Idle]
    /\ UNCHANGED <<senderVars, inc, items, net, crashes>>

\* mark_receipt_sent.
MarkReceiptSent ==
    /\ AcceptedCall("receipt", "content")
    /\ receiptR' = [receiptR EXCEPT !.status = "VERIFIED"]
    /\ thread' = [thread EXCEPT !["receipt"] = Idle]
    /\ UNCHANGED <<senderVars, inc, items, net, crashes>>

-----------------------------------------------------------------------------
(* The server threads of the sender.                                       *)

\* receive_receipt_metadata; the recipient has only one receipt to send.
ReceiveReceipt(m) ==
    /\ m.kind = "receipt"
    /\ receiptS' = IF receiptS = "NONE" THEN "RECEIVING" ELSE receiptS
    /\ Answer(m, Accepted)
    /\ UNCHANGED <<out, request, sourceOk, acking, recipientVars, crashes>>

\* receive_receipt_content up to the VERIFIED row; one already verified is
\* answered at once.
ReceiveContent(m) ==
    /\ m.kind = "content"
    /\ receiptS # "NONE"
    /\ IF receiptS = "VERIFIED"
       THEN Answer(m, Accepted) /\ UNCHANGED <<receiptS, acking>>
       ELSE /\ receiptS' = "VERIFIED"
            /\ acking' = acking \cup {m}
            /\ Take(m)
            /\ UNCHANGED thread
    /\ UNCHANGED <<out, request, sourceOk, recipientVars, crashes>>

\* The content is interrupted or its checksum differs.
RejectContent(m) ==
    /\ m.kind = "content"
    /\ receiptS # "VERIFIED"
    /\ Answer(m, NoReply)
    /\ UNCHANGED <<senderVars, recipientVars, crashes>>

\* _mark_acknowledged does nothing when acknowledged_at is already set.
MarkAcknowledged(m) ==
    /\ m \in acking
    /\ IF out.acked
       THEN UNCHANGED <<out, request>>
       ELSE /\ out' = [out EXCEPT !.status = "ACKNOWLEDGED", !.acked = TRUE]
            /\ request' = RequestAfter("COMPLETED")
    /\ acking' = acking \ {m}
    /\ Reply(m, Accepted)
    /\ UNCHANGED <<sourceOk, receiptS, recipientVars, net, crashes>>

-----------------------------------------------------------------------------
(* Crashes.  Threads and the connections to the dead server are lost; the   *)
(* rows stay, and so do requests the other side has received.              *)

CrashSender ==
    /\ AccidentsLeft
    /\ crashes' = crashes + 1
    /\ thread' = [t \in Threads |-> IF t \in Senders THEN Idle ELSE thread[t]]
    /\ acking' = {}
    /\ net' = {Abandoned(m) : m \in {n \in net : n.kind \in ToRecipient \ {"status"}}}
    /\ UNCHANGED <<out, request, sourceOk, receiptS, recipientVars>>

CrashRecipient ==
    /\ AccidentsLeft
    /\ crashes' = crashes + 1
    /\ thread' = [thread EXCEPT !["receipt"] = Idle]
    /\ acking' = {Abandoned(m) : m \in acking}
    /\ net' = {Abandoned(m) : m \in {n \in net : n.kind \in ToSender}}
    /\ UNCHANGED <<out, request, sourceOk, receiptS, recipientVars>>

\* A basket counts when it is sent.  Looking at a delivery that is not complete,
\* downloading it and adding it to the GED leave its rows alone.
SenderUser == CreateDelivery \/ RetryDelivery \/ DeleteSource
RecipientUser == MarkViewed \/ Acknowledge

SenderThread(t) ==
    \/ MarkSending(t) \/ NextCall(t) \/ Refused(t) \/ GiveUp(t)
    \/ Requeue(t) \/ MarkDelivered(t)

Direct == QueueDelivery \/ SenderThread("direct")

Queue == PickPending \/ SenderThread("queue") \/ Poll \/ ApplyRemoteStatus \/ PollFails

Receipt ==
    \/ StartReceipt \/ NextCall("receipt") \/ Refused("receipt") \/ GiveUp("receipt")
    \/ RequeueReceipt \/ MarkReceiptSent

RecipientServer(m) ==
    \/ ReceiveMetadata(m) \/ ReceiveItem(m) \/ RejectItem(m)
    \/ CompleteIncoming(m) \/ ReportStatus(m)

SenderServer(m) == ReceiveReceipt(m) \/ ReceiveContent(m) \/ RejectContent(m)

Next ==
    \/ SenderUser \/ RecipientUser
    \/ Direct \/ Queue \/ Receipt
    \/ \E m \in net : RecipientServer(m) \/ SenderServer(m)
    \/ \E m \in acking : MarkAcknowledged(m)
    \/ CrashSender \/ CrashRecipient

Spec == Init /\ [][Next]_vars

\* The operating system runs the threads and the timer fires; no fairness is
\* asked of the network or of the other installation: a call may always fail.
FairSpec ==
    /\ Spec
    /\ WF_vars(Direct)
    /\ WF_vars(Queue)
    /\ WF_vars(Receipt)
    /\ WF_vars(\E m \in acking : MarkAcknowledged(m))
-----------------------------------------------------------------------------
(* Properties.                                                             *)

ThreadStates ==
    [pc : {"idle", "created", "picked", "waiting", "answered", "failed",
           "unknown"},
     kind : Kinds, item : 0..ItemCount, seen : Nat,
     reply : [ok : BOOLEAN, status : DeliveryStatuses, acked : BOOLEAN]]

DeliveryTypeOK ==
    /\ out \in [status : DeliveryStatuses, attempts : Nat, acked : BOOLEAN]
    /\ request \in RequestStatuses
    /\ sourceOk \in BOOLEAN
    /\ receiptS \in {"NONE", "RECEIVING", "VERIFIED"}
    /\ acking \subseteq Requests
    /\ inc \in [status : DeliveryStatuses, viewed : BOOLEAN, acked : BOOLEAN]
    /\ items \in [Items -> {"PENDING", "FAILED", "VERIFIED"}]
    /\ receiptR \in [status : ReceiptStatuses, attempts : 0..MaxRetryAttempts]
    /\ thread \in [Threads -> ThreadStates]
    /\ net \subseteq Requests
    /\ crashes \in 0..MaxAccidents

\* What the sender is shown has happened at the recipient, however many threads
\* sent the delivery and however late a request was handled: every item is stored
\* and verified, the document was displayed, or a verified receipt is at hand.
SenderTellsTheTruth ==
    /\ out.status \in Reached => AllVerified /\ inc.status \in Reached
    /\ out.status = "VIEWED" => inc.viewed
    /\ out.status = "ACKNOWLEDGED" => inc.acked /\ receiptS = "VERIFIED"

\* A receipt that the recipient counts as returned is stored and verified at the
\* sender, even when the sender crashes around the answer.
ReturnedMeansHeld == receiptR.status = "VERIFIED" => receiptS = "VERIFIED"

\* The rows of the two installations agree, besides having their types: neither
\* side is shown what the other has not done.
RowsAgree == DeliveryTypeOK /\ SenderTellsTheTruth /\ ReturnedMeansHeld

\* The two installations implement the handshake: the sender learns of the
\* delivery and of its confirmation after the fact and never unlearns them.
HS == INSTANCE DeliveryHandshake WITH
    held <- AllVerified,
    confirmed <- receiptR.status # "NONE",
    known <- IF receiptS = "VERIFIED" THEN "confirmed"
             ELSE IF request = "DELIVERED" THEN "delivered" ELSE "nothing"

Handshake == HS!Spec

\* The delivery has arrived or failed for good (until the user tries again), or
\* is left CREATED or SENDING: a crash, or the deletion of a document, has ended
\* the thread that was sending it.
DeliverySettled ==
    \/ out.status \in Reached \cup {"NONE", "FAILED"}
    \/ /\ out.status \in {"CREATED", "SENDING"}
       /\ crashes > 0 \/ ~sourceOk
       /\ \A t \in Senders : thread[t].pc = "idle"

\* The receipt has returned to the sender or run out of attempts, or is left
\* SENDING: the recipient died sending it.
ReceiptSettled ==
    \/ receiptR.status \in {"NONE", "VERIFIED", "FAILED"}
    \/ /\ receiptR.status = "SENDING"
       /\ crashes > 0
       /\ thread["receipt"].pc = "idle"

\* Nothing that was queued waits for ever, with any number of network failures:
\* both queues come to rest again and again.
QueuesSettle == []<>(DeliverySettled /\ ReceiptSettled)
=============================================================================
