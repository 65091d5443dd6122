---------------------------- MODULE DesktopSession ----------------------------
(***************************************************************************)
(* What the controllers of the interface share: who is inside, which       *)
(* organization is active, and how a thread of theirs ends.                *)
(*                                                                         *)
(* Every login builds new controllers.  Those of an earlier login keep     *)
(* receiving the signals of their threads after its end; a controller is   *)
(* named by the number of its login.                                       *)
(***************************************************************************)
EXTENDS Naturals, FiniteSets

CONSTANTS
  Orgs,        \* organizations, all open, the user a member of each
  MaxLogins,   \* logins, a bound
  MaxGestures  \* what the user does in the windows, a bound

ASSUME SessionAssumption ==
  Orgs # {} /\ MaxLogins \in Nat \ {0} /\ MaxGestures \in Nat

VARIABLES
  inside,  \* SessionContext.is_authenticated
  org,     \* the active organization, which outlives the session
  login,   \* logins so far: the number of the controllers now in use
  uses,    \* the windows the user works in, chosen once
  left     \* gestures the user may still make there

session == <<inside, org, login, uses>>

Windows ==
  {"session", "documents", "transport", "viewer", "convert", "validation"}

NoOrg == "none"
Logins == 1 .. MaxLogins

\* A worker that was never started or whose finished has been delivered.
NoWorker == [at |-> "gone"]

\* QThread.isRunning.
Runs(w) == w.at = "runs"

\* The thread has ended: its result, then its end, wait in the event queue.
Done(w, how) == [w EXCEPT !.at = how]

\* A controller whose login is over: its _closing or _stopping.
Closing(l) == ~inside \/ l # login

SessionInit ==
  /\ inside = TRUE /\ login = 1
  /\ org \in Orgs
  /\ uses \in SUBSET Windows /\ left \in 0 .. MaxGestures

Gesture(w) == inside /\ w \in uses /\ left > 0 /\ left' = left - 1
=============================================================================
