------------------------------ MODULE MCDesktop ------------------------------
(***************************************************************************)
(* Two organizations and two logins.  The active organization starts       *)
(* linked to a cloud with rows left in its queue, or with a job left for   *)
(* the transport, the user making one gesture in either case; or with a    *)
(* PDF open, or with nothing, and two gestures; or the user converts, in a *)
(* folder where somebody's file may stand already.  Which organization is  *)
(* active first makes no difference.                                       *)
(***************************************************************************)
EXTENDS Desktop

First == CHOOSE o \in Orgs : TRUE
Read == CHOOSE doc \in Docs : TRUE
NoJobs == [o \in Orgs |-> 0]
Locally == linked = [o \in Orgs |-> "LOCAL"]
Screens == uses = {"session", "documents", "transport", "viewer"}
NoTools == folder = [x \in Outputs |-> FreeName] /\ form = NoForm

Clouds ==
  /\ Screens /\ NoTools
  /\ left = 1 /\ path = NoDoc /\ waiting = {First}
  /\ linked = [o \in Orgs |-> IF o = First THEN "CONNECTED" ELSE "LOCAL"]
  /\ automatic = {} /\ due = NoJobs

Folders ==
  /\ uses = {"session", "documents"} /\ NoTools
  /\ left = 2 /\ path = NoDoc /\ Locally
  /\ automatic = {} /\ due = NoJobs

Jobs ==
  /\ Screens /\ NoTools
  /\ left = 1 /\ path = NoDoc /\ Locally
  /\ automatic = Orgs /\ due = [NoJobs EXCEPT ![First] = 1]

Reading ==
  /\ Screens /\ NoTools
  /\ left = 2 /\ path = Read /\ Locally /\ automatic = {} /\ due = NoJobs

Converting ==
  /\ uses = {"convert"}
  /\ form = NoForm
  /\ left = 2 /\ path = NoDoc /\ Locally /\ automatic = {} /\ due = NoJobs

Validating ==
  /\ uses = {"validation", "session"}
  /\ folder = [x \in Outputs |-> FreeName] /\ form = Form(Read)
  /\ left = 3 /\ path = NoDoc /\ Locally /\ automatic = {} /\ due = NoJobs

MCInit ==
  /\ org = First
  /\ Clouds \/ Folders \/ Jobs \/ Reading \/ Converting \/ Validating
  /\ DesktopInit

MCSpec == MCInit /\ Behaves
=============================================================================
