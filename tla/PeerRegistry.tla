------------------------------ MODULE PeerRegistry ------------------------------
(***************************************************************************)
(* The other installations an organization exchanges documents with: Smart- *)
(* FileInstanceService, the network dialog of DocumentDeliveryController    *)
(* and the threads that ask an address who answers there.                  *)
(*                                                                         *)
(* Announcements on the network say nothing certain: an address is kept    *)
(* for an installation once that installation has answered at it.  The     *)
(* answer arrives while the dialog lists, removes or adds installations.   *)
(***************************************************************************)
EXTENDS Naturals, FiniteSets

CONSTANTS
  Instances,  \* other installations
  PeerOrgs,   \* organizations of this one
  Addresses,  \* addresses of the network
  Checkers,   \* connection threads alive at once, a bound
  MaxChanges, \* gestures and changes of the network, a bound
  NoOne       \* nobody answers; no organization

ASSUME PeersAssumption == MaxChanges \in Nat /\ NoOne \notin Instances \cup PeerOrgs

VARIABLES
  peers,     \* smartfile_instances, but for the local one
  answers,   \* address -> who answers there
  dialog,    \* the network dialog: the organization it was opened for
  heard,     \* the announcements the dialog shows
  checks,    \* the connection threads
  changes,   \* gestures and changes so far
  vouched    \* addresses given by the user or proven by an answer (history)

peerVars == <<peers, answers, dialog, heard, checks, changes, vouched>>

NoPeer == [org |-> NoOne]
NoCheck == [at |-> "idle"]
Announcements == Instances \X Addresses
Listed(i) == peers[i].org = dialog /\ peers[i].enabled

PeersInit ==
  /\ peers = [i \in Instances |-> NoPeer]
  /\ answers = [a \in Addresses |-> NoOne]
  /\ dialog = NoOne /\ heard = {} /\ vouched = {} /\ changes = 0
  /\ checks = [k \in Checkers |-> NoCheck]

Change == changes < MaxChanges /\ changes' = changes + 1

-----------------------------------------------------------------------------
(* The dialog *)

\* An answer to an earlier dialog finds another one, or none.
OpenNetworkDialog(o) ==
  /\ dialog = NoOne /\ Change
  /\ dialog' = o /\ heard' = {}
  /\ UNCHANGED <<peers, answers, checks, vouched>>

CloseNetworkDialog ==
  /\ dialog # NoOne
  /\ dialog' = NoOne /\ heard' = {}
  /\ checks' = [k \in Checkers |->
       IF checks[k] = NoCheck THEN NoCheck ELSE [checks[k] EXCEPT !.shown = FALSE]]
  /\ UNCHANGED <<peers, answers, changes, vouched>>

\* register_peer: the row of another organization is left as it is.
Registered(i, o, a) ==
  IF peers[i].org \in {NoOne, o}
  THEN [peers EXCEPT ![i] = [org |-> o, enabled |-> TRUE, address |-> a]]
  ELSE peers

\* _save_manual_peer: the user knows the address.
SaveManualPeer(i, a) ==
  /\ dialog # NoOne /\ Change
  /\ peers' = Registered(i, dialog, a)
  /\ vouched' = vouched \cup {<<i, a>>}
  /\ UNCHANGED <<answers, dialog, heard, checks>>

RemovePeer(i) ==
  /\ dialog # NoOne /\ Listed(i) /\ Change
  /\ peers' = [peers EXCEPT ![i].enabled = FALSE]
  /\ UNCHANGED <<answers, dialog, heard, checks, vouched>>

\* _start_connection_worker.
Check(k, i, a, goal) ==
  /\ checks[k] = NoCheck
  /\ checks' = [checks EXCEPT ![k] =
       [at |-> "asks", instance |-> i, address |-> a, org |-> dialog,
        goal |-> goal, shown |-> TRUE]]

\* _discovery_succeeded: an authorized installation is asked at once.
Discovered(k, i, a) ==
  /\ dialog # NoOne /\ Change
  /\ heard' = {<<i, a>>}
  /\ IF Listed(i) THEN Check(k, i, a, "update") ELSE UNCHANGED checks
  /\ UNCHANGED <<peers, answers, dialog, vouched>>

AuthorizeDevice(k, i, a) ==
  /\ dialog # NoOne /\ <<i, a>> \in heard /\ Change
  /\ Check(k, i, a, "authorize")
  /\ UNCHANGED <<peers, answers, dialog, heard, vouched>>

TestPeer(k, i) ==
  /\ dialog # NoOne /\ Listed(i) /\ Change
  /\ Check(k, i, peers[i].address, "test")
  /\ UNCHANGED <<peers, answers, dialog, heard, vouched>>

-----------------------------------------------------------------------------
(* test_connection, on its thread *)

\* Mutant: whoever answers is believed.
BelievedAnyone(i, a) == answers[a] # NoOne

\* identity: the address answers, as the installation that was expected.
Believed(i, a) == answers[a] = i

AskPeer(k) ==
  /\ checks[k].at = "asks"
  /\ LET i == checks[k].instance
         a == checks[k].address
     IN IF ~Believed(i, a)
        THEN checks' = [checks EXCEPT ![k] = NoCheck] /\ UNCHANGED vouched
        ELSE /\ vouched' = vouched \cup IF answers[a] = i THEN {<<i, a>>} ELSE {}
             /\ checks' = [checks EXCEPT ![k].at = "reads"]
  /\ UNCHANGED <<peers, answers, dialog, heard, changes>>

\* The row is read and written whole: what came in between is undone.
ReadPeer(k) ==
  /\ checks[k].at = "reads"
  /\ LET row == peers[checks[k].instance]
     IN checks' = [checks EXCEPT ![k] =
          IF row.org = @.org
          THEN [at |-> "saves", instance |-> @.instance, address |-> @.address,
                org |-> @.org, goal |-> @.goal, shown |-> @.shown,
                row |-> [row EXCEPT !.address = checks[k].address]]
          ELSE [@ EXCEPT !.at = "answered"]]
  /\ UNCHANGED <<peers, answers, dialog, heard, changes, vouched>>

SavePeer(k) ==
  /\ checks[k].at = "saves"
  /\ peers' = [peers EXCEPT ![checks[k].instance] = checks[k].row]
  /\ checks' = [checks EXCEPT ![k].at = "answered"]
  /\ UNCHANGED <<answers, dialog, heard, changes, vouched>>

\* _connection_succeeded and _authorization_verified.
ConnectionSucceeded(k) ==
  /\ checks[k].at = "answered"
  /\ checks' = [checks EXCEPT ![k] = NoCheck]
  /\ peers' = IF checks[k].shown /\ checks[k].goal = "authorize"
              THEN Registered(checks[k].instance, checks[k].org, checks[k].address)
              ELSE peers
  /\ UNCHANGED <<answers, dialog, heard, changes, vouched>>

\* An installation takes an address over, or leaves it.
NetworkChanges(a, i) ==
  /\ answers[a] # i /\ Change
  /\ answers' = [answers EXCEPT ![a] = i]
  /\ UNCHANGED <<peers, dialog, heard, checks, vouched>>

PeersNext ==
  \/ \E o \in PeerOrgs : OpenNetworkDialog(o)
  \/ CloseNetworkDialog
  \/ \E i \in Instances, a \in Addresses :
       \/ SaveManualPeer(i, a)
       \/ \E k \in Checkers : Discovered(k, i, a) \/ AuthorizeDevice(k, i, a)
  \/ \E i \in Instances : RemovePeer(i) \/ \E k \in Checkers : TestPeer(k, i)
  \/ \E k \in Checkers : AskPeer(k) \/ ReadPeer(k) \/ SavePeer(k) \/ ConnectionSucceeded(k)
  \/ \E a \in Addresses, i \in Instances \cup {NoOne} : NetworkChanges(a, i)

-----------------------------------------------------------------------------
(***************************************************************************)
(* Documents go to an address the user has given for that installation, or *)
(* at which it has answered under its own identity: an announcement alone  *)
(* never moves it, whatever the dialog and the threads do in between.      *)
(***************************************************************************)
AddressesVouched ==
  \A i \in Instances : peers[i] # NoPeer => <<i, peers[i].address>> \in vouched

PeersSound == AddressesVouched
=============================================================================
