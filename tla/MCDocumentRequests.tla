-------------------------- MODULE MCDocumentRequests --------------------------
(***************************************************************************)
(* Instances of DocumentRequests for TLC.                                  *)
(***************************************************************************)
EXTENDS DocumentRequests

\* What the workspace of deliveries offers the responsible, and the completion the
\* dialog of requests offers too; the requester cancels.
MCTargets == [requester |-> {"CANCELLED"},
              responsible |-> {"IN_PROGRESS", "ATTENDED", "CANCELLED", "COMPLETED"}]
=============================================================================
