---------------------------- MODULE DeliveryHandshake ----------------------------
(***************************************************************************)
(* What one delivery promises its two users: the recipient comes to hold   *)
(* every document, may then confirm, and the sender learns of either only  *)
(* after it has happened and does not unlearn it.                          *)
(***************************************************************************)
VARIABLES
    held,       \* the recipient holds every document, verified
    confirmed,  \* the recipient has signed the receipt
    known       \* what the sender has evidence of

vars == <<held, confirmed, known>>

Init == held = FALSE /\ confirmed = FALSE /\ known = "nothing"

Hold == held' = TRUE /\ UNCHANGED <<confirmed, known>>

Confirm == held /\ confirmed' = TRUE /\ UNCHANGED <<held, known>>

LearnDelivery ==
    /\ held
    /\ known = "nothing"
    /\ known' = "delivered"
    /\ UNCHANGED <<held, confirmed>>

LearnConfirmation ==
    /\ confirmed
    /\ known' = "confirmed"
    /\ UNCHANGED <<held, confirmed>>

Next == Hold \/ Confirm \/ LearnDelivery \/ LearnConfirmation

Spec == Init /\ [][Next]_vars
=============================================================================
