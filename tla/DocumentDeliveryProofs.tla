------------------------- MODULE DocumentDeliveryProofs -------------------------
(***************************************************************************)
(* Proofs about DocumentDelivery, for any number of items, of attempts, of *)
(* accidents and of requests that arrive late: what each installation      *)
(* shows has happened at the other, and the two implement the handshake.   *)
(*                                                                         *)
(* The argument follows the calls.  A request that a client still waits    *)
(* for is that thread's one call; an answer says what was the case when it *)
(* was given; and what an answer says is never undone at the recipient.    *)
(***************************************************************************)
EXTENDS DocumentDelivery, TLAPS

\* A request not abandoned is the one call of the thread that made it, and is
\* either on its way or in its handler.
CallsPlaced ==
    /\ \A m \in net \cup acking : m.by # "none" =>
         /\ thread[m.by].pc = "waiting"
         /\ thread[m.by].kind = m.kind /\ thread[m.by].item = m.item
    /\ \A m \in net \cap acking : m.by = "none"

\* Each thread makes the calls of its side, and an item's call names an item.
CallsFit ==
    /\ \A m \in net : m.kind = "item" => m.item \in Items
    /\ \A m \in acking : m.kind = "content"
    /\ \A t \in Threads : thread[t].pc \in {"waiting", "answered"} =>
         /\ thread[t].kind = "item" => thread[t].item \in Items
         /\ t \in Senders => thread[t].kind \in ToRecipient

\* The recipient's rows say what has been stored, displayed and confirmed.
RecipientTrue ==
    /\ inc.status \in {"NONE", "SENDING"} \cup Reached
    /\ inc.status \in Reached => AllVerified
    /\ inc.status = "VIEWED" => inc.viewed = TRUE
    /\ inc.status = "ACKNOWLEDGED" => inc.acked = TRUE
    /\ receiptR.status # "NONE" => inc.acked = TRUE /\ inc.status \in Reached

\* Only a receipt that exists is on its way, stored or being sent.
ReceiptPlaced ==
    /\ \A m \in net : m.kind \in ToSender => receiptR.status # "NONE"
    /\ receiptS # "NONE" => receiptR.status # "NONE"
    /\ acking # {} => receiptS = "VERIFIED"
    /\ thread["receipt"].pc # "idle" =>
         receiptR.status # "NONE" /\ receiptR.attempts < MaxRetryAttempts

\* An acceptance not yet acted upon still tells the truth.
AnswersTrue ==
    \A t \in Threads : thread[t].pc = "answered" /\ thread[t].reply.ok =>
        /\ thread[t].kind = "complete" => inc.status \in Reached
        /\ thread[t].kind = "status" =>
             /\ thread[t].reply.status \in Reached => inc.status \in Reached
             /\ thread[t].reply.status = "VIEWED" => inc.viewed = TRUE
             /\ thread[t].reply.status = "ACKNOWLEDGED" => inc.acked = TRUE
        /\ thread[t].kind = "content" => receiptS = "VERIFIED"

\* Nobody sends a delivery that does not exist.
NothingSent ==
    \A t \in Senders : thread[t].pc # "idle" => out.status # "NONE"

IInv ==
    /\ DeliveryTypeOK /\ CallsPlaced /\ CallsFit /\ NothingSent
    /\ RecipientTrue /\ ReceiptPlaced /\ AnswersTrue
    /\ SenderTellsTheTruth /\ ReturnedMeansHeld
-----------------------------------------------------------------------------
(* What a step may do to the calls, whatever else it does.                 *)

Replies == [ok : BOOLEAN, status : DeliveryStatuses, acked : BOOLEAN]

\* A thread that waits for nothing goes on without a call.
GoesOn ==
    \E t \in Threads, s \in ThreadStates :
      /\ thread[t].pc # "waiting" /\ s.pc \notin {"waiting", "answered"}
      /\ thread' = [thread EXCEPT ![t] = s]
      /\ s.pc # "idle" /\ thread[t].pc = "idle" => t \in Senders /\ out'.status # "NONE"
      /\ UNCHANGED <<net, acking>>

\* A thread that waits for nothing makes a call of its side.
MakesCall ==
    \E t \in Threads, kind \in Kinds, item \in 0..ItemCount :
      /\ thread[t].pc # "waiting" /\ Call(t, kind, item)
      /\ kind = "item" => item \in Items
      /\ t \in Senders => kind \in ToRecipient /\ out'.status # "NONE"
      /\ t = "receipt" =>
           receiptR'.status # "NONE" /\ receiptR'.attempts < MaxRetryAttempts
      /\ UNCHANGED acking

\* A server thread answers, and what it says is the case.
Answers ==
    \E m \in net, reply \in Replies :
      /\ Answer(m, reply) /\ UNCHANGED acking
      /\ reply.ok =>
           /\ m.kind = "complete" => inc'.status \in Reached
           /\ m.kind = "status" =>
                /\ reply.status \in Reached => inc.status \in Reached
                /\ reply.status = "VIEWED" => inc.viewed = TRUE
                /\ reply.status = "ACKNOWLEDGED" => inc.acked = TRUE
           /\ m.kind = "content" => receiptS = "VERIFIED"

\* The handler of the receipt's content begins, and ends.
Begins ==
    \E m \in net :
      /\ m.kind = "content" /\ receiptS' = "VERIFIED" /\ acking' = acking \cup {m}
      /\ Take(m) /\ UNCHANGED thread

Ends ==
    \E m \in acking :
      acking' = acking \ {m} /\ Reply(m, Accepted) /\ UNCHANGED net

\* The outcomes of a call, as records.
LEMMA RepliesTyped ==
    /\ NoReply \in Replies /\ NoReply.ok = FALSE
    /\ Accepted \in Replies /\ Accepted.status = "NONE"
    /\ Idle \in ThreadStates /\ Idle.pc = "idle"
<1>1. NoReply \in Replies /\ NoReply.ok = FALSE
    BY DEF NoReply, Replies, DeliveryStatuses
<1>2. Accepted \in Replies /\ Accepted.status = "NONE"
    BY DEF NoReply, Accepted, Replies, DeliveryStatuses
<1>3. 0 \in 0..ItemCount /\ "status" \in Kinds
    BY ItemCountAssumption DEF Kinds, ToRecipient
<1>4. Idle \in ThreadStates /\ Idle.pc = "idle"
    BY <1>1, <1>3 DEF Idle, ThreadStates, Replies
<1> QED
    BY <1>1, <1>2, <1>4

\* Every step does one of these to the calls.
LEMMA CallSteps ==
    IInv /\ Next =>
      \/ UNCHANGED <<thread, net, acking>>
      \/ GoesOn \/ MakesCall \/ (\E t \in Threads : GiveUp(t))
      \/ Answers \/ Begins \/ Ends \/ CrashSender \/ CrashRecipient
<1> SUFFICES ASSUME IInv, Next
             PROVE  \/ UNCHANGED <<thread, net, acking>>
                    \/ GoesOn \/ MakesCall \/ (\E t \in Threads : GiveUp(t))
                    \/ Answers \/ Begins \/ Ends \/ CrashSender \/ CrashRecipient
    OBVIOUS
<1> DEFINE Seen == \/ UNCHANGED <<thread, net, acking>>
                   \/ GoesOn \/ MakesCall \/ (\E t \in Threads : GiveUp(t))
                   \/ Answers \/ Begins \/ Ends \/ CrashSender \/ CrashRecipient
<1> USE RepliesTyped
<1>1. /\ thread \in [Threads -> ThreadStates] /\ NothingSent
      /\ "direct" \in Senders /\ "queue" \in Senders /\ Senders \subseteq Threads
      /\ "receipt" \in Threads /\ "receipt" \notin Senders
    BY DEF IInv, DeliveryTypeOK, Senders, Threads
<1>2. ASSUME NEW t \in Threads, NEW s \in ThreadStates, thread[t].pc # "waiting",
             s.pc \notin {"waiting", "answered"}, thread' = [thread EXCEPT ![t] = s],
             s.pc # "idle" /\ thread[t].pc = "idle" => t \in Senders /\ out'.status # "NONE",
             UNCHANGED <<net, acking>>
      PROVE  GoesOn
    BY <1>2 DEF GoesOn
<1>3. CASE CreateDelivery
  <2> DEFINE s == [thread["direct"] EXCEPT !.pc = "created"]
  <2>1. thread' = [thread EXCEPT !["direct"] = s] /\ UNCHANGED <<net, acking>>
    BY <1>1, <1>3 DEF CreateDelivery, Move
  <2>2. s \in ThreadStates /\ s.pc = "created"
    BY <1>1 DEF ThreadStates
  <2>3. thread["direct"].pc = "idle" /\ out'.status # "NONE"
    BY <1>1, <1>3 DEF CreateDelivery, NothingSent, IInv, DeliveryTypeOK
  <2> HIDE DEF s
  <2> QED
    BY <1>1, <1>2, <2>1, <2>2, <2>3
<1>4. CASE QueueDelivery
  <2> DEFINE s == [thread["direct"] EXCEPT !.pc = "picked"]
  <2>1. /\ thread' = [thread EXCEPT !["direct"] = s] /\ UNCHANGED <<net, acking>>
        /\ thread["direct"].pc = "created"
    BY <1>1, <1>4 DEF QueueDelivery, Move
  <2>2. s \in ThreadStates /\ s.pc = "picked"
    BY <1>1 DEF ThreadStates
  <2> HIDE DEF s
  <2> QED
    BY <1>1, <1>2, <2>1, <2>2
<1>5. CASE PickPending
  <2> DEFINE s == [thread["queue"] EXCEPT !.pc = "picked"]
  <2>1. /\ thread' = [thread EXCEPT !["queue"] = s] /\ UNCHANGED <<net, acking, out>>
        /\ thread["queue"].pc = "idle" /\ out.status = "QUEUED"
    BY <1>1, <1>5 DEF PickPending, Move, senderVars
  <2>2. s \in ThreadStates /\ s.pc = "picked"
    BY <1>1 DEF ThreadStates
  <2> HIDE DEF s
  <2> QED
    BY <1>1, <1>2, <2>1, <2>2
<1>6. ASSUME NEW t \in Senders, MarkSending(t) PROVE Seen
  <2>1. /\ thread[t].pc = "picked" /\ out' = [out EXCEPT !.status = "SENDING"]
        /\ \/ Call(t, "metadata", 0)
           \/ thread' = [thread EXCEPT ![t] = Idle] /\ UNCHANGED net
        /\ UNCHANGED acking
    BY <1>6 DEF MarkSending
  <2>2. out'.status = "SENDING"
    BY <2>1 DEF IInv, DeliveryTypeOK
  <2>3. CASE Call(t, "metadata", 0)
    <3>1. 0 \in 0..ItemCount /\ "metadata" \in ToRecipient /\ "metadata" \in Kinds
      BY ItemCountAssumption DEF ToRecipient, Kinds
    <3> QED
      BY <1>1, <2>1, <2>2, <2>3, <3>1 DEF MakesCall
  <2> QED
    BY <1>1, <1>2, <2>1, <2>2, <2>3
<1>7. ASSUME NEW t \in Threads, NextCall(t) PROVE MakesCall
  <2>1. PICK kind \in {"item", "complete", "content"}, item \in 0..ItemCount :
          /\ Call(t, kind, item) /\ (kind = "item" => item \in Items)
          /\ kind = "content" => thread[t].kind = "receipt"
    <3>1. thread[t].item \in Nat /\ ItemCount \in Nat \ {0}
      BY <1>1, ItemCountAssumption DEF ThreadStates
    <3> QED
      BY <1>7, <3>1 DEF NextCall, AcceptedCall, Items
  <2>2. thread[t].pc = "answered" /\ UNCHANGED <<out, receiptR, acking>>
    BY <1>7 DEF NextCall, AcceptedCall, senderVars, recipientVars
  <2>3. t \in Senders => kind \in ToRecipient /\ out.status # "NONE"
    BY <1>1, <2>1, <2>2 DEF NothingSent, IInv, CallsFit, ToRecipient
  <2>4. t = "receipt" => receiptR.status # "NONE" /\ receiptR.attempts < MaxRetryAttempts
    BY <2>2 DEF IInv, ReceiptPlaced
  <2>5. kind \in Kinds
    BY DEF Kinds, ToRecipient, ToSender
  <2> QED
    BY <2>1, <2>2, <2>3, <2>4, <2>5 DEF MakesCall
<1>8. ASSUME NEW t \in Threads, Refused(t) PROVE GoesOn
  <2> DEFINE s == IF thread[t].kind = "status" THEN [Idle EXCEPT !.pc = "unknown"]
                  ELSE [Idle EXCEPT !.pc = "failed",
                                    !.seen = IF t \in Senders THEN out.attempts ELSE 0]
  <2>1. /\ thread' = [thread EXCEPT ![t] = s] /\ UNCHANGED <<net, acking>>
        /\ thread[t].pc = "answered"
    BY <1>1, <1>8 DEF Refused, CallFails, senderVars
  <2>2. s \in ThreadStates /\ s.pc \in {"unknown", "failed"}
    BY DEF ThreadStates, Idle, IInv, DeliveryTypeOK
  <2> HIDE DEF s
  <2> QED
    BY <1>2, <2>1, <2>2
<1>9. ASSUME NEW t \in Threads, thread[t].pc \in {"answered", "failed", "unknown"},
             thread' = [thread EXCEPT ![t] = Idle], UNCHANGED <<net, acking>>
      PROVE  GoesOn
    BY <1>2, <1>9
<1>10. ASSUME NEW t \in Senders, Requeue(t) \/ MarkDelivered(t) PROVE GoesOn
    BY <1>1, <1>9, <1>10 DEF Requeue, MarkDelivered, AcceptedCall
<1>11. CASE Poll
  <2>1. /\ thread["queue"].pc = "idle" /\ Call("queue", "status", 0)
        /\ out.status # "NONE" /\ UNCHANGED <<out, acking>>
    BY <1>11 DEF Poll, senderVars
  <2>2. 0 \in 0..ItemCount /\ "status" \in ToRecipient /\ "status" \in Kinds
    BY ItemCountAssumption DEF ToRecipient, Kinds
  <2> QED
    BY <1>1, <2>1, <2>2 DEF MakesCall
<1>12. CASE ApplyRemoteStatus \/ PollFails
    BY <1>1, <1>9, <1>12 DEF ApplyRemoteStatus, PollFails, AcceptedCall, senderVars
<1>13. CASE StartReceipt
  <2>1. /\ thread["receipt"].pc = "idle" /\ Call("receipt", "receipt", 0)
        /\ receiptR' = [receiptR EXCEPT !.status = "SENDING"]
        /\ receiptR.attempts < MaxRetryAttempts /\ UNCHANGED acking
    BY <1>13 DEF StartReceipt, senderVars
  <2>2. receiptR'.status = "SENDING" /\ receiptR'.attempts < MaxRetryAttempts
    BY <2>1 DEF IInv, DeliveryTypeOK
  <2>3. 0 \in 0..ItemCount /\ "receipt" \in Kinds
    BY ItemCountAssumption DEF ToSender, Kinds
  <2> QED
    BY <1>1, <2>1, <2>2, <2>3 DEF MakesCall
<1>14. CASE RequeueReceipt \/ MarkReceiptSent
    BY <1>1, <1>9, <1>14 DEF RequeueReceipt, MarkReceiptSent, AcceptedCall, senderVars
<1>15. ASSUME NEW m \in net,
              ReceiveMetadata(m) \/ ReceiveItem(m) \/ RejectItem(m) \/ ReceiveReceipt(m)
              \/ RejectContent(m)
       PROVE  Answers
  <2>1. /\ m.kind \notin {"complete", "status"} /\ UNCHANGED acking
        /\ \E reply \in Replies : Answer(m, reply) /\ (m.kind = "content" => ~reply.ok)
    BY <1>15 DEF ReceiveMetadata, ReceiveItem, RejectItem, ReceiveReceipt, RejectContent, senderVars
  <2> QED
    BY <2>1 DEF Answers
<1>16. ASSUME NEW m \in net, CompleteIncoming(m) PROVE Answers
  <2>1. /\ m.kind = "complete" /\ UNCHANGED acking
        /\ \/ inc' = [inc EXCEPT !.status = "DELIVERED"] /\ Answer(m, Accepted)
           \/ Answer(m, NoReply)
    BY <1>16 DEF CompleteIncoming, senderVars
  <2>2. inc' = [inc EXCEPT !.status = "DELIVERED"] => inc'.status \in Reached
    BY DEF IInv, DeliveryTypeOK, Reached
  <2> QED
    BY <2>1, <2>2 DEF Answers
<1>17. ASSUME NEW m \in net, ReportStatus(m) PROVE Answers
  <2> DEFINE reply == IF inc.status = "NONE" THEN NoReply
                      ELSE [ok |-> TRUE, status |-> inc.status, acked |-> inc.acked]
  <2>1. m.kind = "status" /\ Answer(m, reply) /\ UNCHANGED acking
    BY <1>17 DEF ReportStatus, senderVars
  <2>2. reply \in Replies /\ (reply.ok => reply.status = inc.status)
    BY DEF IInv, DeliveryTypeOK, Replies
  <2>3. /\ inc.status = "VIEWED" => inc.viewed = TRUE
        /\ inc.status = "ACKNOWLEDGED" => inc.acked = TRUE
    BY DEF IInv, RecipientTrue
  <2> HIDE DEF reply
  <2> QED
    BY <2>1, <2>2, <2>3 DEF Answers
<1>18. ASSUME NEW m \in net, ReceiveContent(m) PROVE Answers \/ Begins
  <2>1. CASE receiptS = "VERIFIED"
    BY <1>18, <2>1 DEF ReceiveContent, Answers
  <2>2. CASE receiptS # "VERIFIED"
    BY <1>18, <2>2 DEF ReceiveContent, Begins
  <2> QED
    BY <2>1, <2>2
<1>19. ASSUME NEW m \in acking, MarkAcknowledged(m) PROVE Ends
    BY <1>19 DEF MarkAcknowledged, Ends
<1>20. CASE RetryDelivery \/ DeleteSource \/ RecipientUser
    BY <1>20 DEF RetryDelivery, DeleteSource, RecipientUser, MarkViewed, Acknowledge, senderVars
<1> QED
    BY <1>1, <1>3, <1>4, <1>5, <1>6, <1>7, <1>8, <1>10, <1>11, <1>12, <1>13, <1>14, <1>15,
       <1>16, <1>17, <1>18, <1>19, <1>20
    DEF Next, SenderUser, Direct, Queue, Receipt, SenderThread, RecipientServer, SenderServer

-----------------------------------------------------------------------------
(* What a step does to the rows.                                           *)

\* Nothing is undone: what was stored, shown, confirmed or returned stays so.
LEMMA NothingUndone ==
    IInv /\ Next =>
      /\ out.status # "NONE" => out'.status # "NONE"
      /\ inc.status \in Reached => inc'.status \in Reached
      /\ inc.viewed = TRUE => inc'.viewed = TRUE
      /\ inc.acked = TRUE => inc'.acked = TRUE
      /\ AllVerified => AllVerified'
      /\ receiptR.status # "NONE" => receiptR'.status # "NONE"
      /\ receiptS = "VERIFIED" => receiptS' = "VERIFIED"
      /\ receiptS # "NONE" => receiptS' # "NONE"
<1> SUFFICES ASSUME IInv, Next
             PROVE  /\ out.status # "NONE" => out'.status # "NONE"
                    /\ inc.status \in Reached => inc'.status \in Reached
                    /\ inc.viewed = TRUE => inc'.viewed = TRUE
                    /\ inc.acked = TRUE => inc'.acked = TRUE
                    /\ AllVerified => AllVerified'
                    /\ receiptR.status # "NONE" => receiptR'.status # "NONE"
                    /\ receiptS = "VERIFIED" => receiptS' = "VERIFIED"
                    /\ receiptS # "NONE" => receiptS' # "NONE"
    OBVIOUS
<1>1. /\ out \in [status : DeliveryStatuses, attempts : Nat, acked : BOOLEAN]
      /\ inc \in [status : DeliveryStatuses, viewed : BOOLEAN, acked : BOOLEAN]
      /\ receiptR \in [status : ReceiptStatuses, attempts : 0..MaxRetryAttempts]
      /\ items \in [Items -> {"PENDING", "FAILED", "VERIFIED"}]
    BY DEF IInv, DeliveryTypeOK
<1>2. out.status # "NONE" => out'.status # "NONE"
  <2>1. \/ UNCHANGED out
        \/ \E status \in DeliveryStatuses \ {"NONE"} :
             \/ out' = [out EXCEPT !.status = status]
             \/ \E attempts \in Nat : out' = [out EXCEPT !.status = status, !.attempts = attempts]
             \/ \E acked \in BOOLEAN : out' = [out EXCEPT !.status = status, !.acked = acked]
    <3>1. CASE SenderUser \/ QueueDelivery
      BY <3>1 DEF SenderUser, CreateDelivery, RetryDelivery, DeleteSource, QueueDelivery,
         DeliveryStatuses
    <3>2. ASSUME NEW t \in Senders, SenderThread(t) PROVE <2>1!1 \/ <2>1!2
      <4>1. thread[t].seen \in Nat
        BY DEF IInv, DeliveryTypeOK, ThreadStates, Threads
      <4>2. CASE Requeue(t)
        <5>1. thread[t].seen + 1 \in Nat
          BY <4>1
        <5> QED
          BY <4>2, <5>1 DEF Requeue, DeliveryStatuses
      <4>3. CASE ~Requeue(t)
        BY <3>2, <4>3 DEF SenderThread, MarkSending, NextCall, Refused, GiveUp, MarkDelivered,
           senderVars, DeliveryStatuses
      <4> QED
        BY <4>2, <4>3
    <3>3. CASE ApplyRemoteStatus
      BY <1>1, <3>3 DEF ApplyRemoteStatus, Reached, DeliveryStatuses, IInv, DeliveryTypeOK,
         ThreadStates, Threads, Senders
    <3>4. CASE PickPending \/ Poll \/ PollFails \/ Receipt
      BY <3>4 DEF PickPending, Poll, PollFails, Receipt, StartReceipt, NextCall, Refused, GiveUp,
         RequeueReceipt, MarkReceiptSent, senderVars
    <3>5. ASSUME NEW m \in acking, MarkAcknowledged(m) PROVE <2>1!1 \/ <2>1!2
      BY <3>5 DEF MarkAcknowledged, DeliveryStatuses
    <3>6. ASSUME NEW m \in net, RecipientServer(m) \/ SenderServer(m) PROVE UNCHANGED out
      BY <3>6 DEF RecipientServer, SenderServer, ReceiveMetadata, ReceiveItem, RejectItem,
         CompleteIncoming, ReportStatus, ReceiveReceipt, ReceiveContent, RejectContent, senderVars
    <3>7. CASE RecipientUser \/ CrashSender \/ CrashRecipient
      BY <3>7 DEF RecipientUser, MarkViewed, Acknowledge, CrashSender, CrashRecipient, senderVars
    <3> QED
      BY <3>1, <3>2, <3>3, <3>4, <3>5, <3>6, <3>7 DEF Next, Direct, Queue, Senders
  <2> QED
    BY <1>1, <2>1
<1>3. /\ \/ UNCHANGED inc
         \/ inc.status = "NONE" /\ inc' = [inc EXCEPT !.status = "SENDING"]
         \/ inc' = [inc EXCEPT !.status = "DELIVERED"]
         \/ inc' = [inc EXCEPT !.status = "VIEWED", !.viewed = TRUE]
         \/ inc' = [inc EXCEPT !.status = "ACKNOWLEDGED", !.acked = TRUE]
      /\ \/ UNCHANGED items
         \/ \E i : items' = [items EXCEPT ![i] = "VERIFIED"]
         \/ \E i : items' = [items EXCEPT ![i] = IF @ = "VERIFIED" THEN @ ELSE "FAILED"]
      /\ \/ UNCHANGED receiptR
         \/ \E status \in ReceiptStatuses \ {"NONE"} :
              \/ receiptR' = [receiptR EXCEPT !.status = status]
              \/ \E attempts : receiptR' = [status |-> status, attempts |-> attempts]
      /\ receiptS = "VERIFIED" => receiptS' = "VERIFIED"
      /\ receiptS # "NONE" => receiptS' # "NONE"
    BY DEF Next, SenderUser, CreateDelivery, RetryDelivery, DeleteSource, RecipientUser,
       MarkViewed, Acknowledge, Direct, QueueDelivery, Queue, Receipt, SenderThread, MarkSending,
       NextCall, Refused, GiveUp, Requeue, MarkDelivered, PickPending, Poll, ApplyRemoteStatus,
       PollFails, StartReceipt, RequeueReceipt, MarkReceiptSent, RecipientServer,
       ReceiveMetadata, ReceiveItem, RejectItem, CompleteIncoming, ReportStatus, SenderServer,
       ReceiveReceipt, ReceiveContent, RejectContent, MarkAcknowledged, CrashSender,
       CrashRecipient, senderVars, recipientVars, ReceiptStatuses
<1>4. /\ inc.status \in Reached => inc'.status \in Reached
      /\ inc.viewed = TRUE => inc'.viewed = TRUE
      /\ inc.acked = TRUE => inc'.acked = TRUE
    BY <1>1, <1>3 DEF Reached
<1>5. AllVerified => AllVerified'
    BY <1>1, <1>3 DEF AllVerified
<1>6. receiptR.status # "NONE" => receiptR'.status # "NONE"
    BY <1>1, <1>3
<1> QED
    BY <1>2, <1>3, <1>4, <1>5, <1>6

\* The calls stay placed.
LEMMA CallsStep ==
    IInv /\ Next => CallsPlaced' /\ CallsFit' /\ NothingSent'
<1> SUFFICES ASSUME IInv, Next PROVE CallsPlaced' /\ CallsFit' /\ NothingSent'
    OBVIOUS
<1>1. /\ thread \in [Threads -> ThreadStates]
      /\ "receipt" \in Threads /\ "receipt" \notin Senders /\ Senders \subseteq Threads
      /\ \A m \in net \cup acking : m.by \in Threads \cup {"none"} /\ m \in Requests
      /\ "none" \notin Threads
      /\ out.status # "NONE" => out'.status # "NONE"
    BY NothingUndone DEF IInv, DeliveryTypeOK, Senders, Threads, Requests
<1>2. CallsPlaced /\ CallsFit /\ NothingSent
    BY DEF IInv
<1>3. CASE UNCHANGED <<thread, net, acking>>
    BY <1>1, <1>2, <1>3 DEF CallsPlaced, CallsFit, NothingSent
<1>4. CASE GoesOn
  <2>1. PICK t \in Threads, s \in ThreadStates :
          /\ thread[t].pc # "waiting" /\ s.pc \notin {"waiting", "answered"}
          /\ thread' = [thread EXCEPT ![t] = s]
          /\ s.pc # "idle" /\ thread[t].pc = "idle" => t \in Senders /\ out'.status # "NONE"
          /\ UNCHANGED <<net, acking>>
    BY <1>4 DEF GoesOn
  <2>2. thread'[t] = s /\ \A u \in Threads \ {t} : thread'[u] = thread[u]
    BY <1>1, <2>1
  <2> QED
    BY <1>1, <1>2, <2>1, <2>2 DEF CallsPlaced, CallsFit, NothingSent
<1>5. CASE MakesCall
  <2>1. PICK t \in Threads, kind \in Kinds, item \in 0..ItemCount :
          /\ thread[t].pc # "waiting" /\ Call(t, kind, item)
          /\ kind = "item" => item \in Items
          /\ t \in Senders => kind \in ToRecipient /\ out'.status # "NONE"
          /\ UNCHANGED acking
    BY <1>5 DEF MakesCall
  <2>2. /\ thread'[t].pc = "waiting" /\ thread'[t].kind = kind /\ thread'[t].item = item
        /\ \A u \in Threads \ {t} : thread'[u] = thread[u]
        /\ net' = net \cup {[by |-> t, kind |-> kind, item |-> item]}
    BY <1>1, <2>1 DEF Call, Idle
  <2>3. \A m \in net \cup acking : m.by # t
    BY <1>1, <1>2, <2>1 DEF CallsPlaced
  <2> QED
    BY <1>1, <1>2, <2>1, <2>2, <2>3 DEF CallsPlaced, CallsFit, NothingSent
<1>6. ASSUME NEW t \in Threads, GiveUp(t)
      PROVE  CallsPlaced' /\ CallsFit' /\ NothingSent'
  <2> DEFINE m == TheRequest(t)
  <2>1. /\ thread[t].pc \in {"waiting", "answered"} /\ CallFails(t)
        /\ \/ net' = net \ {m}
           \/ m \in net /\ net' = (net \ {m}) \cup {Abandoned(m)}
        /\ acking' = {IF a = m THEN Abandoned(a) ELSE a : a \in acking}
        /\ UNCHANGED out
    BY <1>6 DEF GiveUp
  <2>2. /\ thread'[t].pc \in {"unknown", "failed"}
        /\ \A u \in Threads \ {t} : thread'[u] = thread[u]
    BY <1>1, <2>1 DEF CallFails, Idle
  <2>3. \A n \in net \cup acking : n.by = t => n = m
    BY <1>1, <1>2 DEF CallsPlaced, TheRequest, Requests
  <2>4. Abandoned(m).by = "none" /\ Abandoned(m).kind = m.kind /\ Abandoned(m).item = m.item
    BY DEF Abandoned, TheRequest
  <2>5. /\ \A n \in net' : (n = Abandoned(m) /\ m \in net) \/ (n \in net /\ n.by # t)
        /\ \A n \in acking' : (n = Abandoned(m) /\ m \in acking) \/ (n \in acking /\ n.by # t)
    BY <1>1, <2>1, <2>3, <2>4 DEF TheRequest
  <2> HIDE DEF m
  <2>6. CallsPlaced'
    BY <1>1, <1>2, <2>2, <2>4, <2>5 DEF CallsPlaced
  <2>7. CallsFit'
    BY <1>1, <1>2, <2>2, <2>4, <2>5 DEF CallsFit
  <2>8. NothingSent'
    BY <1>1, <1>2, <2>1, <2>2 DEF NothingSent
  <2> QED
    BY <2>6, <2>7, <2>8
<1>7. CASE Answers
  <2>1. PICK m \in net, reply \in Replies : Answer(m, reply) /\ UNCHANGED acking
    BY <1>7 DEF Answers
  <2>2. CASE m.by = "none"
    <3>1. thread' = thread /\ net' \subseteq net
      BY <2>1, <2>2 DEF Answer, Take, Reply
    <3> QED
      BY <1>1, <1>2, <2>1, <3>1 DEF CallsPlaced, CallsFit, NothingSent
  <2>3. CASE m.by # "none"
    <3>1. /\ net' = net \ {m}
          /\ thread' = [thread EXCEPT ![m.by].pc = "answered", ![m.by].reply = reply]
          /\ thread[m.by].pc = "waiting"
      BY <1>2, <2>1, <2>3 DEF Answer, Take, Reply, CallsPlaced
    <3>2. /\ thread'[m.by].pc = "answered" /\ thread'[m.by].kind = thread[m.by].kind
          /\ thread'[m.by].item = thread[m.by].item
          /\ \A u \in Threads \ {m.by} : thread'[u] = thread[u]
      BY <1>1, <2>3, <3>1 DEF ThreadStates
    <3>3. \A n \in (net \ {m}) \cup acking : n.by # m.by \/ n.by = "none"
      BY <1>1, <1>2, <2>3 DEF CallsPlaced, Requests
    <3> QED
      BY <1>1, <1>2, <2>1, <2>3, <3>1, <3>2, <3>3 DEF CallsPlaced, CallsFit, NothingSent
  <2> QED
    BY <2>2, <2>3
<1>8. CASE Begins
  <2>1. PICK m \in net : /\ m.kind = "content" /\ acking' = acking \cup {m}
                         /\ Take(m) /\ UNCHANGED thread
    BY <1>8 DEF Begins
  <2>2. net' \subseteq net /\ (m.by # "none" => net' = net \ {m})
    BY <2>1 DEF Take
  <2> QED
    BY <1>1, <1>2, <2>1, <2>2 DEF CallsPlaced, CallsFit, NothingSent
<1>9. CASE Ends
  <2>1. PICK m \in acking : acking' = acking \ {m} /\ Reply(m, Accepted) /\ UNCHANGED net
    BY <1>9 DEF Ends
  <2>2. CASE m.by = "none"
    <3>1. thread' = thread
      BY <2>1, <2>2 DEF Reply
    <3> QED
      BY <1>1, <1>2, <2>1, <3>1 DEF CallsPlaced, CallsFit, NothingSent
  <2>3. CASE m.by # "none"
    <3>1. /\ thread' = [thread EXCEPT ![m.by].pc = "answered", ![m.by].reply = Accepted]
          /\ thread[m.by].pc = "waiting"
      BY <1>2, <2>1, <2>3 DEF Reply, CallsPlaced
    <3>2. /\ thread'[m.by].pc = "answered" /\ thread'[m.by].kind = thread[m.by].kind
          /\ thread'[m.by].item = thread[m.by].item
          /\ \A u \in Threads \ {m.by} : thread'[u] = thread[u]
      BY <1>1, <2>3, <3>1 DEF ThreadStates
    <3>3. \A n \in net \cup (acking \ {m}) : n.by # m.by \/ n.by = "none"
      BY <1>1, <1>2, <2>3 DEF CallsPlaced, Requests
    <3> QED
      BY <1>1, <1>2, <2>1, <2>3, <3>1, <3>2, <3>3 DEF CallsPlaced, CallsFit, NothingSent
  <2> QED
    BY <2>2, <2>3
<1>10. CASE CrashSender
  <2>1. /\ thread' = [t \in Threads |-> IF t \in Senders THEN Idle ELSE thread[t]]
        /\ acking' = {} /\ UNCHANGED out
        /\ net' = {Abandoned(m) : m \in {n \in net : n.kind \in ToRecipient \ {"status"}}}
    BY <1>10 DEF CrashSender
  <2>2. \A n \in net' : n.by = "none" /\ \E m \in net : n.kind = m.kind /\ n.item = m.item
    BY <1>1, <2>1 DEF Abandoned, Requests
  <2>3. \A t \in Threads :
          thread'[t].pc = "idle" \/ (t \notin Senders /\ thread'[t] = thread[t])
    BY <1>1, <2>1 DEF Idle
  <2>4. CallsPlaced' /\ NothingSent'
    BY <1>1, <2>1, <2>2, <2>3 DEF CallsPlaced, NothingSent
  <2>5. CallsFit'
    BY <1>2, <2>1, <2>2, <2>3 DEF CallsFit
  <2> QED
    BY <2>4, <2>5
<1>11. CASE CrashRecipient
  <2>1. /\ thread' = [thread EXCEPT !["receipt"] = Idle] /\ UNCHANGED out
        /\ acking' = {Abandoned(m) : m \in acking}
        /\ net' = {Abandoned(m) : m \in {n \in net : n.kind \in ToSender}}
    BY <1>11 DEF CrashRecipient
  <2>2. /\ \A n \in net' : n.by = "none" /\ \E m \in net : n.kind = m.kind /\ n.item = m.item
        /\ \A n \in acking' : n.by = "none" /\ \E m \in acking : n.kind = m.kind
    BY <1>1, <2>1 DEF Abandoned, Requests
  <2>3. thread'["receipt"].pc = "idle" /\ \A t \in Threads \ {"receipt"} : thread'[t] = thread[t]
    BY <1>1, <2>1 DEF Idle
  <2> QED
    BY <1>1, <1>2, <2>1, <2>2, <2>3 DEF CallsPlaced, CallsFit, NothingSent
<1> QED
    BY <1>3, <1>4, <1>5, <1>6, <1>7, <1>8, <1>9, <1>10, <1>11, CallSteps

\* Only a receipt that exists is sent, and it is sent within its attempts.
LEMMA ReceiptStep == IInv /\ Next => ReceiptPlaced'
<1> SUFFICES ASSUME IInv, Next PROVE ReceiptPlaced'
    OBVIOUS
<1>1. /\ thread \in [Threads -> ThreadStates] /\ "receipt" \in Threads /\ "receipt" \notin Senders
      /\ receiptR.status # "NONE" => receiptR'.status # "NONE"
      /\ receiptS = "VERIFIED" => receiptS' = "VERIFIED"
      /\ ReceiptPlaced /\ CallsFit /\ CallsPlaced /\ net \subseteq Requests
    BY NothingUndone DEF IInv, DeliveryTypeOK, Senders, Threads
<1>2. thread["receipt"].pc # "idle" /\ thread'["receipt"].pc # "idle"
        => receiptR'.attempts < MaxRetryAttempts
  <2>1. SUFFICES ASSUME thread["receipt"].pc # "idle", thread'["receipt"].pc # "idle"
                 PROVE  UNCHANGED receiptR
    BY <1>1 DEF ReceiptPlaced
  <2>2. receiptR.status # "NONE"
    BY <1>1, <2>1 DEF ReceiptPlaced
  <2>3. ~StartReceipt /\ ~RequeueReceipt /\ ~MarkReceiptSent
    BY <1>1, <2>1 DEF StartReceipt, RequeueReceipt, MarkReceiptSent, Idle
  <2> QED
    BY <2>2, <2>3
    DEF Next, SenderUser, CreateDelivery, RetryDelivery, DeleteSource, RecipientUser,
        MarkViewed, Acknowledge, Direct, QueueDelivery, Queue, Receipt, SenderThread, MarkSending,
        NextCall, Refused, GiveUp, Requeue, MarkDelivered, PickPending, Poll, ApplyRemoteStatus,
        PollFails, RecipientServer, ReceiveMetadata, ReceiveItem, RejectItem, CompleteIncoming,
        ReportStatus, SenderServer, ReceiveReceipt, ReceiveContent, RejectContent,
        MarkAcknowledged, CrashSender, CrashRecipient, recipientVars
<1>3. receiptS' # "NONE" => receiptR'.status # "NONE"
  <2>1. \/ receiptS' = receiptS \/ receiptS # "NONE"
        \/ \E m \in net : m.kind = "receipt"
    BY DEF Next, SenderUser, CreateDelivery, RetryDelivery, DeleteSource, RecipientUser,
       MarkViewed, Acknowledge, Direct, QueueDelivery, Queue, Receipt, SenderThread, MarkSending,
       NextCall, Refused, GiveUp, Requeue, MarkDelivered, PickPending, Poll, ApplyRemoteStatus,
       PollFails, StartReceipt, RequeueReceipt, MarkReceiptSent, RecipientServer,
       ReceiveMetadata, ReceiveItem, RejectItem, CompleteIncoming, ReportStatus, SenderServer,
       ReceiveReceipt, ReceiveContent, RejectContent, MarkAcknowledged, CrashSender,
       CrashRecipient, senderVars
  <2> QED
    BY <1>1, <2>1 DEF ReceiptPlaced, ToSender
<1>4. ASSUME \A m \in net' : \E n \in net : n.kind = m.kind,
             acking' # {} => acking # {} \/ receiptS' = "VERIFIED",
             thread'["receipt"].pc # "idle" => thread["receipt"].pc # "idle"
      PROVE  ReceiptPlaced'
    BY <1>1, <1>2, <1>3, <1>4 DEF ReceiptPlaced
<1>5. CASE UNCHANGED <<thread, net, acking>>
    BY <1>4, <1>5
<1>6. CASE GoesOn
    BY <1>1, <1>4, <1>6 DEF GoesOn
<1>7. CASE MakesCall
  <2>1. PICK t \in Threads, kind \in Kinds, item \in 0..ItemCount :
          /\ Call(t, kind, item) /\ UNCHANGED acking
          /\ t \in Senders => kind \in ToRecipient
          /\ t = "receipt" =>
               receiptR'.status # "NONE" /\ receiptR'.attempts < MaxRetryAttempts
    BY <1>7 DEF MakesCall
  <2>2. /\ \A u \in Threads \ {t} : thread'[u] = thread[u]
        /\ net' = net \cup {[by |-> t, kind |-> kind, item |-> item]}
    BY <1>1, <2>1 DEF Call
  <2>3. t = "receipt" \/ kind \notin ToSender
    BY <2>1 DEF Threads, ToRecipient, ToSender
  <2> QED
    BY <1>1, <1>2, <1>3, <2>1, <2>2, <2>3 DEF ReceiptPlaced
<1>8. ASSUME NEW t \in Threads, GiveUp(t) PROVE ReceiptPlaced'
  <2>1. /\ thread[t].pc \in {"waiting", "answered"} /\ CallFails(t)
        /\ \A m \in net' : m \in net \/ (TheRequest(t) \in net /\ m = Abandoned(TheRequest(t)))
        /\ acking' # {} => acking # {}
    BY <1>8 DEF GiveUp
  <2>2. \A u \in Threads \ {t} : thread'[u] = thread[u]
    BY <1>1, <2>1 DEF CallFails
  <2> QED
    BY <1>1, <1>4, <2>1, <2>2 DEF Abandoned, TheRequest
<1>9. CASE Answers
  <2>1. PICK m \in net, reply \in Replies : Answer(m, reply) /\ UNCHANGED acking
    BY <1>9 DEF Answers
  <2>2. /\ net' \subseteq net
        /\ \A t \in Threads : thread'[t] = thread[t] \/ thread[t].pc = "waiting"
    BY <1>1, <2>1 DEF Answer, Take, Reply, CallsPlaced
  <2> QED
    BY <1>1, <1>4, <2>1, <2>2
<1>10. CASE Begins
    BY <1>1, <1>4, <1>10 DEF Begins, Take
<1>11. CASE Ends
  <2>1. PICK m \in acking : acking' = acking \ {m} /\ Reply(m, Accepted) /\ UNCHANGED net
    BY <1>11 DEF Ends
  <2>2. \A t \in Threads : thread'[t] = thread[t] \/ thread[t].pc = "waiting"
    BY <1>1, <2>1 DEF Reply, CallsPlaced
  <2> QED
    BY <1>1, <1>4, <2>1, <2>2
<1>12. CASE CrashSender \/ CrashRecipient
  <2>1. /\ \A m \in net' : \E n \in net : m = Abandoned(n)
        /\ thread'["receipt"] = thread["receipt"] \/ thread'["receipt"].pc = "idle"
        /\ acking' # {} => acking # {}
    BY <1>1, <1>12 DEF CrashSender, CrashRecipient, Idle
  <2> QED
    BY <1>1, <1>4, <2>1 DEF Abandoned, Requests
<1> QED
    BY <1>5, <1>6, <1>7, <1>8, <1>9, <1>10, <1>11, <1>12, CallSteps

\* Every answer given tells the truth, and goes on doing so.
LEMMA AnswersStep == IInv /\ Next => AnswersTrue'
<1> SUFFICES ASSUME IInv, Next, NEW t \in Threads,
                    thread'[t].pc = "answered", thread'[t].reply.ok
             PROVE  /\ thread'[t].kind = "complete" => inc'.status \in Reached
                    /\ thread'[t].kind = "status" =>
                         /\ thread'[t].reply.status \in Reached => inc'.status \in Reached
                         /\ thread'[t].reply.status = "VIEWED" => inc'.viewed = TRUE
                         /\ thread'[t].reply.status = "ACKNOWLEDGED" => inc'.acked = TRUE
                    /\ thread'[t].kind = "content" => receiptS' = "VERIFIED"
    BY DEF AnswersTrue
<1>1. /\ inc.status \in Reached => inc'.status \in Reached
      /\ inc.viewed = TRUE => inc'.viewed = TRUE
      /\ inc.acked = TRUE => inc'.acked = TRUE
      /\ receiptS = "VERIFIED" => receiptS' = "VERIFIED"
    BY NothingUndone
<1>2. /\ thread \in [Threads -> ThreadStates] /\ net \subseteq Requests /\ acking \subseteq Requests
      /\ AnswersTrue /\ CallsPlaced /\ CallsFit /\ ReceiptPlaced
    BY DEF IInv, DeliveryTypeOK
<1>3. CASE thread'[t] = thread[t]
    BY <1>1, <1>2, <1>3 DEF AnswersTrue
<1>4. CASE Answers
  <2>1. PICK m \in net, reply \in Replies :
          /\ Answer(m, reply)
          /\ reply.ok =>
               /\ m.kind = "complete" => inc'.status \in Reached
               /\ m.kind = "status" =>
                    /\ reply.status \in Reached => inc.status \in Reached
                    /\ reply.status = "VIEWED" => inc.viewed = TRUE
                    /\ reply.status = "ACKNOWLEDGED" => inc.acked = TRUE
               /\ m.kind = "content" => receiptS = "VERIFIED"
    BY <1>4 DEF Answers
  <2>2. CASE m.by # t
    BY <1>2, <1>3, <2>1, <2>2 DEF Answer, Reply
  <2>3. CASE m.by = t
    <3>1. m.by # "none" /\ thread[t].kind = m.kind
      BY <1>2, <2>3 DEF CallsPlaced, Threads, Senders
    <3>2. thread' = [thread EXCEPT ![t].pc = "answered", ![t].reply = reply]
      BY <2>1, <2>3, <3>1 DEF Answer, Reply
    <3>3. thread'[t].kind = m.kind /\ thread'[t].reply = reply
      BY <1>2, <3>1, <3>2 DEF ThreadStates
    <3> QED
      BY <1>1, <2>1, <3>3
  <2> QED
    BY <2>2, <2>3
<1>5. CASE Ends
  <2>1. PICK m \in acking : Reply(m, Accepted)
    BY <1>5 DEF Ends
  <2>2. CASE m.by # t
    BY <1>2, <1>3, <2>1, <2>2 DEF Reply
  <2>3. CASE m.by = t
    <3>1. m.by # "none" /\ thread[t].kind = "content" /\ receiptS = "VERIFIED"
      BY <1>2, <2>3 DEF CallsPlaced, CallsFit, ReceiptPlaced, Threads, Senders
    <3>2. thread' = [thread EXCEPT ![t].pc = "answered", ![t].reply = Accepted]
      BY <2>1, <2>3, <3>1 DEF Reply
    <3>3. thread'[t].kind = "content"
      BY <1>2, <3>1, <3>2 DEF ThreadStates
    <3> QED
      BY <1>1, <3>1, <3>3
  <2> QED
    BY <2>2, <2>3
<1>6. CASE GoesOn
  <2>1. PICK u \in Threads, s \in ThreadStates :
          s.pc \notin {"waiting", "answered"} /\ thread' = [thread EXCEPT ![u] = s]
    BY <1>6 DEF GoesOn
  <2> QED
    BY <1>2, <1>3, <2>1
<1>7. CASE MakesCall
  <2>1. PICK u \in Threads, kind \in Kinds, item \in 0..ItemCount : Call(u, kind, item)
    BY <1>7 DEF MakesCall
  <2>2. thread'[u].pc = "waiting" /\ \A v \in Threads \ {u} : thread'[v] = thread[v]
    BY <1>2, <2>1 DEF Call, Idle
  <2> QED
    BY <1>3, <2>2
<1>8. ASSUME NEW u \in Threads, GiveUp(u) PROVE thread'[t] = thread[t]
  <2>1. thread'[u].pc \in {"unknown", "failed"} /\ \A v \in Threads \ {u} : thread'[v] = thread[v]
    BY <1>2, <1>8 DEF GiveUp, CallFails, Idle
  <2> QED
    BY <2>1
<1>9. CASE CrashSender \/ CrashRecipient
  <2>1. thread'[t] = Idle \/ thread'[t] = thread[t]
    BY <1>2, <1>9 DEF CrashSender, CrashRecipient
  <2>2. thread'[t] # Idle
    BY RepliesTyped
  <2> QED
    BY <1>3, <2>1, <2>2
<1>10. CASE UNCHANGED thread \/ Begins
    BY <1>3, <1>10 DEF Begins
<1> QED
    BY <1>3, <1>4, <1>5, <1>6, <1>7, <1>8, <1>9, <1>10, CallSteps

\* The recipient's rows say what has happened.
LEMMA RecipientStep == IInv /\ Next => RecipientTrue'
<1> SUFFICES ASSUME IInv, Next PROVE RecipientTrue'
    OBVIOUS
<1>1. /\ inc \in [status : DeliveryStatuses, viewed : BOOLEAN, acked : BOOLEAN]
      /\ RecipientTrue /\ (AllVerified => AllVerified')
    BY NothingUndone DEF IInv, DeliveryTypeOK
<1>2. thread["receipt"].pc # "idle" => receiptR.status # "NONE"
    BY DEF IInv, ReceiptPlaced
<1>3. \/ UNCHANGED inc /\ (receiptR'.status # "NONE" => receiptR.status # "NONE")
      \/ inc.status = "NONE" /\ inc' = [inc EXCEPT !.status = "SENDING"] /\ UNCHANGED receiptR
      \/ AllVerified /\ inc' = [inc EXCEPT !.status = "DELIVERED"] /\ UNCHANGED receiptR
      \/ /\ inc.status \in Reached /\ inc' = [inc EXCEPT !.status = "VIEWED", !.viewed = TRUE]
         /\ UNCHANGED receiptR
      \/ AllVerified /\ inc' = [inc EXCEPT !.status = "ACKNOWLEDGED", !.acked = TRUE]
    BY <1>2
    DEF Next, SenderUser, CreateDelivery, RetryDelivery, DeleteSource, RecipientUser,
        MarkViewed, Acknowledge, Direct, QueueDelivery, Queue, Receipt, SenderThread, MarkSending,
        NextCall, Refused, GiveUp, Requeue, MarkDelivered, PickPending, Poll, ApplyRemoteStatus,
        PollFails, StartReceipt, RequeueReceipt, MarkReceiptSent, AcceptedCall, RecipientServer,
        ReceiveMetadata, ReceiveItem, RejectItem, CompleteIncoming, ReportStatus, SenderServer,
        ReceiveReceipt, ReceiveContent, RejectContent, MarkAcknowledged, CrashSender,
        CrashRecipient, recipientVars
<1>4. inc'.status \in {"NONE", "SENDING"} \cup Reached
    BY <1>1, <1>3 DEF RecipientTrue, Reached
<1>5. /\ inc'.status \in Reached => AllVerified'
      /\ inc'.status = "VIEWED" => inc'.viewed = TRUE
      /\ inc'.status = "ACKNOWLEDGED" => inc'.acked = TRUE
    BY <1>1, <1>3 DEF RecipientTrue, Reached
<1>6. receiptR'.status # "NONE" => inc'.acked = TRUE /\ inc'.status \in Reached
    BY <1>1, <1>3 DEF RecipientTrue, Reached
<1> QED
    BY <1>4, <1>5, <1>6 DEF RecipientTrue

\* The sender shows what has happened at the recipient, and the other way round.
LEMMA SenderStep == IInv /\ Next => SenderTellsTheTruth' /\ ReturnedMeansHeld'
<1> SUFFICES ASSUME IInv, Next PROVE SenderTellsTheTruth' /\ ReturnedMeansHeld'
    OBVIOUS
<1>1. /\ inc.status \in Reached => inc'.status \in Reached
      /\ inc.viewed = TRUE => inc'.viewed = TRUE
      /\ inc.acked = TRUE => inc'.acked = TRUE
      /\ AllVerified => AllVerified'
      /\ receiptS = "VERIFIED" => receiptS' = "VERIFIED"
    BY NothingUndone
<1>2. /\ out \in [status : DeliveryStatuses, attempts : Nat, acked : BOOLEAN]
      /\ inc \in [status : DeliveryStatuses, viewed : BOOLEAN, acked : BOOLEAN]
      /\ receiptR \in [status : ReceiptStatuses, attempts : 0..MaxRetryAttempts]
      /\ thread \in [Threads -> ThreadStates]
      /\ RecipientTrue /\ ReceiptPlaced /\ AnswersTrue /\ SenderTellsTheTruth /\ ReturnedMeansHeld
      /\ "queue" \in Threads /\ "direct" \in Threads /\ "receipt" \in Threads
    BY DEF IInv, DeliveryTypeOK, Threads, Senders
<1>3. \/ UNCHANGED out
      \/ \E status \in {"CREATED", "QUEUED", "SENDING", "FAILED"} : out'.status = status
      \/ out' = [out EXCEPT !.status = "DELIVERED"] /\ inc.status \in Reached
      \/ \E t \in Threads, status \in Reached :
           /\ out'.status = status /\ AcceptedCall(t, "status")
           /\ thread[t].reply.status = status
           /\ status = "ACKNOWLEDGED" => receiptS = "VERIFIED"
      \/ out'.status = "ACKNOWLEDGED" /\ acking # {}
  <2>1. CASE SenderUser \/ QueueDelivery
    BY <1>2, <2>1 DEF SenderUser, CreateDelivery, RetryDelivery, DeleteSource, QueueDelivery
  <2>2. ASSUME NEW t \in Senders, SenderThread(t) PROVE <1>3!1 \/ <1>3!2 \/ <1>3!3
    <3>1. MarkDelivered(t) => <1>3!3
      BY <1>2 DEF MarkDelivered, AcceptedCall, AnswersTrue, Threads
    <3> QED
      BY <1>2, <2>2, <3>1 DEF SenderThread, MarkSending, NextCall, Refused, GiveUp, Requeue, senderVars
  <2>3. CASE ApplyRemoteStatus
    <3>1. \/ UNCHANGED out
          \/ /\ thread["queue"].reply.status \in Reached
             /\ thread["queue"].reply.status = "ACKNOWLEDGED" => receiptS = "VERIFIED"
             /\ out' = [out EXCEPT !.status = thread["queue"].reply.status,
                                   !.acked = @ \/ thread["queue"].reply.acked]
      BY <2>3 DEF ApplyRemoteStatus
    <3>2. AcceptedCall("queue", "status")
      BY <2>3 DEF ApplyRemoteStatus
    <3> QED
      BY <1>2, <3>1, <3>2
  <2>4. CASE PickPending \/ Poll \/ PollFails \/ Receipt
    BY <2>4 DEF PickPending, Poll, PollFails, Receipt, StartReceipt, NextCall, Refused, GiveUp,
       RequeueReceipt, MarkReceiptSent, senderVars
  <2>5. ASSUME NEW m \in acking, MarkAcknowledged(m) PROVE <1>3!1 \/ <1>3!5
    BY <1>2, <2>5 DEF MarkAcknowledged
  <2>6. ASSUME NEW m \in net, RecipientServer(m) \/ SenderServer(m) PROVE UNCHANGED out
    BY <2>6 DEF RecipientServer, SenderServer, ReceiveMetadata, ReceiveItem, RejectItem,
       CompleteIncoming, ReportStatus, ReceiveReceipt, ReceiveContent, RejectContent, senderVars
  <2>7. CASE RecipientUser \/ CrashSender \/ CrashRecipient
    BY <2>7 DEF RecipientUser, MarkViewed, Acknowledge, CrashSender, CrashRecipient, senderVars
  <2> QED
    BY <2>1, <2>2, <2>3, <2>4, <2>5, <2>6, <2>7 DEF Next, Direct, Queue, Senders
<1>4. SenderTellsTheTruth'
  <2>1. CASE UNCHANGED out
    BY <1>1, <1>2, <2>1 DEF SenderTellsTheTruth
  <2>2. CASE \E status \in {"CREATED", "QUEUED", "SENDING", "FAILED"} : out'.status = status
    BY <2>2 DEF SenderTellsTheTruth, Reached
  <2>3. CASE out' = [out EXCEPT !.status = "DELIVERED"] /\ inc.status \in Reached
    BY <1>1, <1>2, <2>3 DEF SenderTellsTheTruth, RecipientTrue
  <2>4. CASE \E t \in Threads, status \in Reached :
               /\ out'.status = status /\ AcceptedCall(t, "status")
               /\ thread[t].reply.status = status
               /\ status = "ACKNOWLEDGED" => receiptS = "VERIFIED"
    <3>1. /\ inc.status \in Reached
          /\ out'.status = "VIEWED" => inc.viewed = TRUE
          /\ out'.status = "ACKNOWLEDGED" => inc.acked = TRUE /\ receiptS = "VERIFIED"
      BY <1>2, <2>4 DEF AnswersTrue, AcceptedCall
    <3> QED
      BY <1>1, <1>2, <3>1 DEF SenderTellsTheTruth, RecipientTrue
  <2>5. CASE out'.status = "ACKNOWLEDGED" /\ acking # {}
    <3>1. receiptS = "VERIFIED" /\ inc.acked = TRUE /\ inc.status \in Reached
      BY <1>2, <2>5 DEF ReceiptPlaced, RecipientTrue
    <3> QED
      BY <1>1, <1>2, <2>5, <3>1 DEF SenderTellsTheTruth, RecipientTrue
  <2> QED
    BY <1>3, <2>1, <2>2, <2>3, <2>4, <2>5
<1>5. ReturnedMeansHeld'
  <2>1. receiptR'.status = "VERIFIED" =>
          receiptR.status = "VERIFIED" \/ AcceptedCall("receipt", "content")
    BY <1>2
    DEF Next, SenderUser, CreateDelivery, RetryDelivery, DeleteSource, RecipientUser,
        MarkViewed, Acknowledge, Direct, QueueDelivery, Queue, Receipt, SenderThread, MarkSending,
        NextCall, Refused, GiveUp, Requeue, MarkDelivered, PickPending, Poll, ApplyRemoteStatus,
        PollFails, StartReceipt, RequeueReceipt, MarkReceiptSent, RecipientServer,
        ReceiveMetadata, ReceiveItem, RejectItem, CompleteIncoming, ReportStatus, SenderServer,
        ReceiveReceipt, ReceiveContent, RejectContent, MarkAcknowledged, CrashSender,
        CrashRecipient, recipientVars
  <2> QED
    BY <1>1, <1>2, <2>1 DEF ReturnedMeansHeld, AnswersTrue, AcceptedCall
<1> QED
    BY <1>4, <1>5

\* The rows and the threads keep their types, the counters their bounds.
LEMMA TypesStep == IInv /\ Next => DeliveryTypeOK'
<1> SUFFICES ASSUME IInv, Next PROVE DeliveryTypeOK'
    OBVIOUS
<1> USE RepliesTyped
<1>1. /\ DeliveryTypeOK /\ thread \in [Threads -> ThreadStates]
      /\ thread["receipt"].pc # "idle" => receiptR.attempts < MaxRetryAttempts
      /\ "queue" \in Threads /\ "direct" \in Threads /\ Senders \subseteq Threads
    BY DEF IInv, DeliveryTypeOK, ReceiptPlaced, Threads, Senders
<1>2. /\ thread' \in [Threads -> ThreadStates] /\ net' \subseteq Requests /\ acking' \subseteq Requests
  <2>1. net \subseteq Requests /\ acking \subseteq Requests
    BY <1>1 DEF DeliveryTypeOK
  <2>2. CASE UNCHANGED <<thread, net, acking>> \/ GoesOn
    BY <1>1, <2>1, <2>2 DEF GoesOn
  <2>3. CASE MakesCall
    <3>1. PICK t \in Threads, kind \in Kinds, item \in 0..ItemCount :
            Call(t, kind, item) /\ UNCHANGED acking
      BY <2>3 DEF MakesCall
    <3>2. [Idle EXCEPT !.pc = "waiting", !.kind = kind, !.item = item] \in ThreadStates
      BY DEF ThreadStates
    <3> QED
      BY <1>1, <2>1, <3>1, <3>2 DEF Call, Requests
  <2>4. ASSUME NEW t \in Threads, GiveUp(t)
        PROVE  /\ thread' \in [Threads -> ThreadStates]
               /\ net' \subseteq Requests /\ acking' \subseteq Requests
    <3>1. out.attempts \in Nat
      BY <1>1 DEF DeliveryTypeOK
    <3>2. /\ [Idle EXCEPT !.pc = "unknown"] \in ThreadStates
          /\ \A n \in Nat : [Idle EXCEPT !.pc = "failed", !.seen = n] \in ThreadStates
      BY DEF ThreadStates
    <3>3. thread' \in [Threads -> ThreadStates]
      BY <1>1, <2>4, <3>1, <3>2 DEF GiveUp, CallFails
    <3>4. \A m \in Requests : Abandoned(m) \in Requests
      BY DEF Abandoned, Requests
    <3>5. TheRequest(t) \in Requests
      BY <1>1 DEF TheRequest, Requests, ThreadStates
    <3> QED
      BY <2>1, <2>4, <3>3, <3>4, <3>5 DEF GiveUp
  <2>5. ASSUME NEW m, NEW reply \in Replies, Reply(m, reply)
        PROVE  thread' \in [Threads -> ThreadStates]
    BY ZenonT(60), <1>1, <2>5 DEF Reply, Replies, ThreadStates
  <2>6. CASE Answers
    BY <2>1, <2>5, <2>6 DEF Answers, Answer, Take
  <2>7. CASE Begins
    BY <1>1, <2>1, <2>7 DEF Begins, Take
  <2>8. CASE Ends
    BY <2>1, <2>5, <2>8 DEF Ends
  <2>9. CASE CrashSender \/ CrashRecipient
    BY <1>1, <2>1, <2>9 DEF CrashSender, CrashRecipient, Abandoned, Requests
  <2> QED
    BY <2>2, <2>3, <2>4, <2>6, <2>7, <2>8, <2>9, CallSteps
<1>3. out' \in [status : DeliveryStatuses, attempts : Nat, acked : BOOLEAN]
  <2>1. out \in [status : DeliveryStatuses, attempts : Nat, acked : BOOLEAN]
    BY <1>1 DEF DeliveryTypeOK
  <2>2. \A t \in Threads : /\ thread[t].seen + 1 \in Nat /\ thread[t].reply.acked \in BOOLEAN
    BY <1>1 DEF ThreadStates
  <2>3. \/ UNCHANGED out
        \/ \E status \in DeliveryStatuses :
             \/ out' = [out EXCEPT !.status = status]
             \/ \E attempts \in Nat : out' = [out EXCEPT !.status = status, !.attempts = attempts]
             \/ \E acked \in BOOLEAN : out' = [out EXCEPT !.status = status, !.acked = acked]
    <3>1. CASE SenderUser \/ QueueDelivery \/ RecipientUser \/ CrashSender \/ CrashRecipient
      BY <3>1 DEF SenderUser, CreateDelivery, RetryDelivery, DeleteSource, QueueDelivery,
         DeliveryStatuses, RecipientUser, MarkViewed, Acknowledge, CrashSender, CrashRecipient,
         senderVars
    <3>2. ASSUME NEW t \in Senders, SenderThread(t) PROVE <2>3!1 \/ <2>3!2
      <4>1. CASE Requeue(t)
        BY <1>1, <2>2, <4>1 DEF Requeue, DeliveryStatuses
      <4>2. CASE ~Requeue(t)
        BY <3>2, <4>2 DEF SenderThread, MarkSending, NextCall, Refused, GiveUp, MarkDelivered,
           senderVars, DeliveryStatuses
      <4> QED
        BY <4>1, <4>2
    <3>3. CASE ApplyRemoteStatus
      BY <1>1, <2>1, <2>2, <3>3 DEF ApplyRemoteStatus, Reached, DeliveryStatuses
    <3>4. CASE PickPending \/ Poll \/ PollFails \/ Receipt
      BY <3>4 DEF PickPending, Poll, PollFails, Receipt, StartReceipt, NextCall, Refused, GiveUp,
         RequeueReceipt, MarkReceiptSent, senderVars
    <3>5. ASSUME NEW m \in acking, MarkAcknowledged(m) PROVE <2>3!1 \/ <2>3!2
      BY <3>5 DEF MarkAcknowledged, DeliveryStatuses
    <3>6. ASSUME NEW m \in net, RecipientServer(m) \/ SenderServer(m) PROVE UNCHANGED out
      BY <3>6 DEF RecipientServer, SenderServer, ReceiveMetadata, ReceiveItem, RejectItem,
         CompleteIncoming, ReportStatus, ReceiveReceipt, ReceiveContent, RejectContent, senderVars
    <3> QED
      BY <3>1, <3>2, <3>3, <3>4, <3>5, <3>6 DEF Next, Direct, Queue, Senders
  <2> QED
    BY <2>1, <2>3
<1>4. /\ request' \in RequestStatuses /\ sourceOk' \in BOOLEAN
      /\ receiptS' \in {"NONE", "RECEIVING", "VERIFIED"}
    BY ZenonT(60), <1>1
    DEF DeliveryTypeOK, RequestAfter, RequestStatuses,
        Next, SenderUser, CreateDelivery, RetryDelivery, DeleteSource, RecipientUser,
        MarkViewed, Acknowledge, Direct, QueueDelivery, Queue, Receipt, SenderThread, MarkSending,
        NextCall, Refused, GiveUp, Requeue, MarkDelivered, PickPending, Poll, ApplyRemoteStatus,
        PollFails, StartReceipt, RequeueReceipt, MarkReceiptSent, RecipientServer,
        ReceiveMetadata, ReceiveItem, RejectItem, CompleteIncoming, ReportStatus, SenderServer,
        ReceiveReceipt, ReceiveContent, RejectContent, MarkAcknowledged, CrashSender,
        CrashRecipient, senderVars
<1>5. /\ inc' \in [status : DeliveryStatuses, viewed : BOOLEAN, acked : BOOLEAN]
      /\ items' \in [Items -> {"PENDING", "FAILED", "VERIFIED"}]
  <2>1. /\ \/ UNCHANGED inc
           \/ \E status \in DeliveryStatuses :
                \/ inc' = [inc EXCEPT !.status = status]
                \/ inc' = [inc EXCEPT !.status = status, !.viewed = TRUE]
                \/ inc' = [inc EXCEPT !.status = status, !.acked = TRUE]
        /\ \/ UNCHANGED items
           \/ \E i : items' = [items EXCEPT ![i] = "VERIFIED"]
           \/ \E i : items' = [items EXCEPT ![i] = IF @ = "VERIFIED" THEN @ ELSE "FAILED"]
    BY DEF DeliveryStatuses, Next, SenderUser, CreateDelivery, RetryDelivery, DeleteSource,
       RecipientUser, MarkViewed, Acknowledge, Direct, QueueDelivery, Queue, Receipt,
       SenderThread, MarkSending, NextCall, Refused, GiveUp, Requeue, MarkDelivered, PickPending,
       Poll, ApplyRemoteStatus, PollFails, StartReceipt, RequeueReceipt, MarkReceiptSent,
       RecipientServer, ReceiveMetadata, ReceiveItem, RejectItem, CompleteIncoming, ReportStatus,
       SenderServer, ReceiveReceipt, ReceiveContent, RejectContent, MarkAcknowledged, CrashSender,
       CrashRecipient, recipientVars
  <2>2. inc' \in [status : DeliveryStatuses, viewed : BOOLEAN, acked : BOOLEAN]
    BY <1>1, <2>1 DEF DeliveryTypeOK
  <2>3. items' \in [Items -> {"PENDING", "FAILED", "VERIFIED"}]
    BY <1>1, <2>1 DEF DeliveryTypeOK
  <2> QED
    BY <2>2, <2>3
<1>6. receiptR' \in [status : ReceiptStatuses, attempts : 0..MaxRetryAttempts]
  <2>1. receiptR \in [status : ReceiptStatuses, attempts : 0..MaxRetryAttempts]
    BY <1>1 DEF DeliveryTypeOK
  <2>2. CASE RequeueReceipt
    <3>1. receiptR.attempts + 1 \in 0..MaxRetryAttempts
      BY <1>1, <2>1, <2>2, MaxRetryAssumption DEF RequeueReceipt
    <3> QED
      BY <2>2, <3>1 DEF RequeueReceipt, ReceiptStatuses
  <2>3. CASE ~RequeueReceipt
    <3>1. \/ UNCHANGED receiptR
          \/ \E status \in ReceiptStatuses : receiptR' = [receiptR EXCEPT !.status = status]
      BY <2>3
      DEF ReceiptStatuses, Next, SenderUser, CreateDelivery, RetryDelivery, DeleteSource,
          RecipientUser, MarkViewed, Acknowledge, Direct, QueueDelivery, Queue, Receipt,
          SenderThread, MarkSending, NextCall, Refused, GiveUp, Requeue, MarkDelivered,
          PickPending, Poll, ApplyRemoteStatus, PollFails, StartReceipt, MarkReceiptSent,
          RecipientServer, ReceiveMetadata, ReceiveItem, RejectItem, CompleteIncoming,
          ReportStatus, SenderServer, ReceiveReceipt, ReceiveContent, RejectContent,
          MarkAcknowledged, CrashSender, CrashRecipient, recipientVars
    <3> QED
      BY <2>1, <3>1
  <2> QED
    BY <2>2, <2>3
<1>7. crashes' \in 0..MaxAccidents
  <2>1. crashes \in 0..MaxAccidents /\ MaxAccidents \in Nat
    BY <1>1, DeliveryBoundsAssumption DEF DeliveryTypeOK
  <2>2. \/ UNCHANGED crashes
        \/ AccidentsLeft /\ crashes' = crashes + 1
    BY DEF Next, SenderUser, CreateDelivery, RetryDelivery, DeleteSource, RecipientUser,
       MarkViewed, Acknowledge, Direct, QueueDelivery, Queue, Receipt, SenderThread, MarkSending,
       NextCall, Refused, GiveUp, Requeue, MarkDelivered, PickPending, Poll, ApplyRemoteStatus,
       PollFails, StartReceipt, RequeueReceipt, MarkReceiptSent, RecipientServer,
       ReceiveMetadata, ReceiveItem, RejectItem, CompleteIncoming, ReportStatus, SenderServer,
       ReceiveReceipt, ReceiveContent, RejectContent, MarkAcknowledged, CrashSender,
       CrashRecipient
  <2> QED
    BY <2>1, <2>2 DEF AccidentsLeft, Accidents
<1> QED
    BY <1>2, <1>3, <1>4, <1>5, <1>6, <1>7 DEF DeliveryTypeOK

\* The invariant holds from the start and in every step.
LEMMA Invariance == Spec => []IInv
<1>1. Init => IInv
  <2> SUFFICES ASSUME Init PROVE IInv
    OBVIOUS
  <2>1. DeliveryTypeOK
    BY RepliesTyped, MaxRetryAssumption, DeliveryBoundsAssumption
    DEF Init, DeliveryTypeOK, DeliveryStatuses, RequestStatuses, ReceiptStatuses
  <2>2. \A t \in Threads : thread[t].pc = "idle"
    BY RepliesTyped DEF Init
  <2>3. "receipt" \in Threads /\ Senders \subseteq Threads
    BY DEF Threads, Senders
  <2> QED
    BY <2>1, <2>2, <2>3
    DEF Init, IInv, CallsPlaced, CallsFit, NothingSent, RecipientTrue, ReceiptPlaced,
        AnswersTrue, SenderTellsTheTruth, ReturnedMeansHeld, Reached
<1>2. IInv /\ UNCHANGED vars => IInv'
    BY DEF vars, IInv, DeliveryTypeOK, CallsPlaced, CallsFit, NothingSent, RecipientTrue,
       ReceiptPlaced, AnswersTrue, SenderTellsTheTruth, ReturnedMeansHeld, AllVerified
<1>3. IInv /\ [Next]_vars => IInv'
    BY <1>2, TypesStep, CallsStep, RecipientStep, ReceiptStep, AnswersStep, SenderStep DEF IInv
<1> QED
    BY <1>1, <1>3, PTL DEF Spec

-----------------------------------------------------------------------------
(* The results.                                                            *)

\* Neither installation is shown what the other has not done.
THEOREM RowsAlwaysAgree == Spec => []RowsAgree
<1>1. IInv => RowsAgree
    BY DEF IInv, RowsAgree
<1> QED
    BY <1>1, Invariance, PTL

\* A step of the two installations is one of the handshake, or none.
LEMMA HandshakeStep == IInv /\ [Next]_vars => [HS!Next]_(HS!vars)
<1> SUFFICES ASSUME IInv, [Next]_vars PROVE [HS!Next]_(HS!vars)
    OBVIOUS
<1>1. /\ AllVerified => AllVerified'
      /\ receiptR.status # "NONE" => receiptR'.status # "NONE"
      /\ receiptS = "VERIFIED" => receiptS' = "VERIFIED"
  <2>1. CASE Next
    BY <2>1, NothingUndone
  <2>2. CASE UNCHANGED vars
    BY <2>2 DEF vars, AllVerified
  <2> QED
    BY <2>1, <2>2
<1>2. \/ UNCHANGED <<items, receiptR, receiptS, request>>
      \/ UNCHANGED <<receiptR, receiptS, request>>
      \/ AllVerified /\ UNCHANGED <<items, receiptS, request>>
      \/ UNCHANGED <<items, receiptR, request>> /\ \E m \in net : m.kind \in ToSender
      \/ /\ UNCHANGED <<items, receiptR, receiptS>>
         /\ \/ request' = RequestAfter("DELIVERING")
            \/ request' = RequestAfter("DELIVERED") /\ inc.status \in Reached
            \/ request' = RequestAfter("COMPLETED") /\ receiptS = "VERIFIED"
      \/ UNCHANGED <<items, receiptS, request>> /\ receiptR.status # "NONE"
  <2>1. /\ acking # {} => receiptS = "VERIFIED"
        /\ \A t \in Senders : AcceptedCall(t, "complete") => inc.status \in Reached
        /\ thread["receipt"].pc # "idle" => receiptR.status # "NONE"
    BY DEF IInv, ReceiptPlaced, AnswersTrue, AcceptedCall, Threads
  <2>2. CASE SenderUser \/ RecipientUser \/ QueueDelivery \/ PickPending \/ Poll \/ PollFails
             \/ ApplyRemoteStatus \/ Receipt \/ CrashSender \/ CrashRecipient \/ UNCHANGED vars
    BY <2>1, <2>2
    DEF vars, senderVars, recipientVars, SenderUser, CreateDelivery, RetryDelivery, DeleteSource,
        RecipientUser, MarkViewed, Acknowledge, QueueDelivery, PickPending, Poll, PollFails,
        ApplyRemoteStatus, Receipt, StartReceipt, NextCall, Refused, GiveUp, RequeueReceipt,
        MarkReceiptSent, AcceptedCall, CrashSender, CrashRecipient
  <2>3. ASSUME NEW t \in Senders, SenderThread(t)
        PROVE  <1>2!1 \/ <1>2!5
    BY <2>1, <2>3
    DEF SenderThread, MarkSending, NextCall, Refused, GiveUp, Requeue, MarkDelivered,
        senderVars, recipientVars
  <2>4. ASSUME NEW m \in net, RecipientServer(m) \/ SenderServer(m)
        PROVE  <1>2!1 \/ <1>2!2 \/ <1>2!4
    BY <2>4
    DEF RecipientServer, SenderServer, ReceiveMetadata, ReceiveItem, RejectItem, CompleteIncoming,
        ReportStatus, ReceiveReceipt, ReceiveContent, RejectContent, ToSender, senderVars,
        recipientVars
  <2>5. ASSUME NEW m \in acking, MarkAcknowledged(m)
        PROVE  <1>2!1 \/ <1>2!5
    BY <2>1, <2>5 DEF MarkAcknowledged, recipientVars
  <2> QED
    BY <2>2, <2>3, <2>4, <2>5 DEF Next, Direct, Queue, Senders
<1>3. /\ (\E m \in net : m.kind \in ToSender) => receiptR.status # "NONE"
      /\ receiptS # "NONE" => receiptR.status # "NONE"
      /\ inc.status \in Reached => AllVerified
    BY DEF IInv, ReceiptPlaced, RecipientTrue
<1> DEFINE known == IF receiptS = "VERIFIED" THEN "confirmed"
                    ELSE IF request = "DELIVERED" THEN "delivered" ELSE "nothing"
<1>4. CASE UNCHANGED <<items, receiptR, receiptS, request>>
    BY <1>4 DEF HS!vars, AllVerified
<1>5. CASE UNCHANGED <<receiptR, receiptS, request>>
  <2>1. UNCHANGED known /\ UNCHANGED (receiptR.status # "NONE")
    BY <1>5
  <2> QED
    <3>1. CASE AllVerified' <=> AllVerified
      BY <2>1, <3>1 DEF HS!vars
    <3>2. CASE AllVerified'
      BY <2>1, <3>2 DEF HS!Next, HS!Hold
    <3> QED
      BY <1>1, <3>1, <3>2
<1>6. CASE AllVerified /\ UNCHANGED <<items, receiptS, request>>
  <2>1. UNCHANGED known /\ UNCHANGED AllVerified /\ AllVerified
    BY <1>6 DEF AllVerified
  <2> QED
    BY <1>1, <2>1 DEF HS!vars, HS!Next, HS!Confirm
<1>7. CASE UNCHANGED <<items, receiptR, request>> /\ \E m \in net : m.kind \in ToSender
  <2>1. UNCHANGED AllVerified /\ UNCHANGED (receiptR.status # "NONE") /\ receiptR.status # "NONE"
    BY <1>3, <1>7 DEF AllVerified
  <2>2. known' = "confirmed" \/ known' = known
    BY <1>1, <1>7
  <2> QED
    BY <2>1, <2>2 DEF HS!vars, HS!Next, HS!LearnConfirmation
<1>8. CASE /\ UNCHANGED <<items, receiptR, receiptS>>
           /\ \/ request' = RequestAfter("DELIVERING")
              \/ request' = RequestAfter("DELIVERED") /\ inc.status \in Reached
              \/ request' = RequestAfter("COMPLETED") /\ receiptS = "VERIFIED"
  <2>1. UNCHANGED AllVerified /\ UNCHANGED (receiptR.status # "NONE")
    BY <1>8 DEF AllVerified
  <2>2. known' = known \/ (known = "nothing" /\ known' = "delivered" /\ AllVerified)
    BY <1>3, <1>8 DEF RequestAfter
  <2> QED
    BY <2>1, <2>2 DEF HS!vars, HS!Next, HS!LearnDelivery
<1>9. CASE UNCHANGED <<items, receiptS, request>> /\ receiptR.status # "NONE"
  <2>1. UNCHANGED known /\ UNCHANGED AllVerified /\ UNCHANGED (receiptR.status # "NONE")
    BY <1>1, <1>9 DEF AllVerified
  <2> QED
    BY <2>1 DEF HS!vars
<1> QED
    BY <1>2, <1>4, <1>5, <1>6, <1>7, <1>8, <1>9

\* The two installations implement the handshake.
THEOREM HandshakeKept == Spec => Handshake
<1>1. Init => HS!Init
  <2>1. 1 \in Items
    BY ItemCountAssumption DEF Items
  <2> QED
    BY <2>1 DEF Init, HS!Init, AllVerified
<1> QED
    BY <1>1, HandshakeStep, Invariance, PTL DEF Spec, Handshake, HS!Spec

=============================================================================
